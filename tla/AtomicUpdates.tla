---------------------------- MODULE AtomicUpdates ----------------------------
(***************************************************************************)
(* What transactions promise, without sessions, views and conflicts: all   *)
(* the updates of a client are made at once, to the values that are there  *)
(* at that moment, at most once, and it is told the truth about it.  A     *)
(* client that replays its buffers writes values that it computed earlier. *)
(***************************************************************************)
CONSTANTS Clients, Keys

VARIABLES
  store,      \* the clients whose updates are in the value of a key
  wants,      \* the keys that a client is about to update
  landed,     \* the keys whose updates it has made permanent
  told,       \* what it was told in the end
  replaying   \* clients whose values are older than their next attempt

updateVars == <<store, wants, landed, told, replaying>>

Init ==
  /\ store = [k \in Keys |-> {}]
  /\ wants = [c \in Clients |-> {}]
  /\ landed = [c \in Clients |-> {}]
  /\ told = [c \in Clients |-> "none"]
  /\ replaying = {}

Undecided(c) == told[c] = "none" /\ landed[c] = {}

\* The client goes on with its work, or begins it again.
Prepare(c, K) ==
  /\ Undecided(c)
  /\ wants' = [wants EXCEPT ![c] = K]
  /\ UNCHANGED <<store, landed, told, replaying>>

\* From now on it writes values of its first attempt.
Replay(c) ==
  /\ Undecided(c)
  /\ replaying' = replaying \cup {c}
  /\ UNCHANGED <<store, wants, landed, told>>

\* All its updates are made, and the answer reaches it or gets lost.
Update(c) ==
  /\ Undecided(c)
  /\ IF c \in replaying
     THEN \E values \in [wants[c] -> SUBSET Clients] :
            /\ \A k \in wants[c] : c \in values[k]
            /\ store' = [k \in Keys |-> IF k \in wants[c] THEN values[k] ELSE store[k]]
     ELSE store' = [k \in Keys |-> IF k \in wants[c] THEN store[k] \cup {c} ELSE store[k]]
  /\ landed' = [landed EXCEPT ![c] = wants[c]]
  /\ \E how \in {"none", "ok", "raised"} : told' = [told EXCEPT ![c] = how]
  /\ UNCHANGED <<wants, replaying>>

\* It is told how its call ended; what has not been made permanent is dropped
\* or left alone.
Tell(c, how) ==
  /\ told[c] = "none"
  /\ how \in {"aborted", "exhausted"} => landed[c] = {}
  /\ how = "ok" => landed[c] = wants[c]
  /\ told' = [told EXCEPT ![c] = how]
  /\ wants' \in {wants, [wants EXCEPT ![c] = landed[c]]}
  /\ UNCHANGED <<store, landed, replaying>>

Next ==
  \E c \in Clients :
    \/ \E K \in SUBSET Keys : Prepare(c, K)
    \/ Replay(c) \/ Update(c)
    \/ \E how \in {"ok", "aborted", "exhausted", "raised"} : Tell(c, how)

Spec == Init /\ [][Next]_updateVars
=============================================================================
