--------------------------- MODULE SessionLeasing ---------------------------
(***************************************************************************)
(* What a provider of sessions promises, without queue, counter, lock or   *)
(* call: a bounded number of open sessions, each with one lessee at most,  *)
(* and no session passed on with the changes of its last lessee in it.     *)
(***************************************************************************)
EXTENDS Integers, FiniteSets

CONSTANTS Threads, Sessions, Bound, Nobody

VARIABLES
  open,     \* sessions logged in to the server
  lessee,   \* the thread each session is leased to
  tainted   \* sessions with changes neither committed nor aborted

leaseVars == <<open, lessee, tainted>>

Init ==
  /\ open = {}
  /\ lessee = [s \in Sessions |-> Nobody]
  /\ tainted = {}

Open(t, s) ==
  /\ s \notin open
  /\ lessee[s] = Nobody
  /\ Cardinality(open) < Bound
  /\ open' = open \cup {s}
  /\ lessee' = [lessee EXCEPT ![s] = t]
  /\ UNCHANGED tainted

Borrow(t, s) ==
  /\ s \in open
  /\ lessee[s] = Nobody
  /\ lessee' = [lessee EXCEPT ![s] = t]
  /\ UNCHANGED <<open, tainted>>

GiveBack(t, s) ==
  /\ lessee[s] = t
  /\ s \notin tainted
  /\ lessee' = [lessee EXCEPT ![s] = Nobody]
  /\ UNCHANGED <<open, tainted>>

\* The lessee writes, or settles its transaction.
Work(t, s) ==
  /\ lessee[s] = t
  /\ s \in open
  /\ tainted' \in {tainted \cup {s}, tainted \ {s}}
  /\ UNCHANGED <<open, lessee>>

\* Only the lessee of a session closes it; it may hold the closed session on.
Shut(t, s) ==
  /\ s \in open
  /\ lessee[s] = t
  /\ open' = open \ {s}
  /\ tainted' = tainted \ {s}
  /\ lessee' \in {lessee, [lessee EXCEPT ![s] = Nobody]}

Next ==
  \E t \in Threads, s \in Sessions :
    Open(t, s) \/ Borrow(t, s) \/ GiveBack(t, s) \/ Work(t, s) \/ Shut(t, s)

Spec == Init /\ [][Next]_leaseVars
=============================================================================
