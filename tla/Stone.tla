------------------------------- MODULE Stone -------------------------------
(***************************************************************************)
(* The server as the modules of gemstone_py see it: committed state, and   *)
(* for each client a session with the view of its open transaction.  One   *)
(* dictionary is modelled, reached through one entry.  A commit fails when *)
(* the transaction has written what another has committed since its view   *)
(* was taken; the server may also refuse one that has written elsewhere in *)
(* the same dictionary.                                                    *)
(*                                                                         *)
(* The value of a key is the set of the clients whose updates are in it,   *)
(* so that an update which is lost can be seen.                            *)
(***************************************************************************)
EXTENDS Naturals, FiniteSets

CONSTANTS
  Clients,   \* threads or processes, each with a session of its own
  Keys,      \* keys of the dictionary
  Entry,     \* where the dictionary is found
  Absent,    \* no value
  Modes      \* the ways the clients may be set up

Locations == Keys \cup {Entry}
Values == {Absent} \cup SUBSET Clients

\* A way to set the clients up: who uses which interface, do they delete, and
\* what may go wrong around them.
Roles == {"gstore", "existing", "owned"}
FaultKinds ==
  {"login", "commit", "lost_answer", "abort", "listener", "interrupt"}
Setups == [role : [Clients -> Roles], deletes : BOOLEAN,
           faults : SUBSET FaultKinds]

ASSUME LocationsAssumption ==
  Entry \notin Keys /\ \A X \in SUBSET Clients : X # Absent
ASSUME ModesAssumption == Modes \subseteq Setups

VARIABLES
  db,        \* what is committed
  view,      \* what the session of each client sees
  written,   \* what it has written in its transaction
  stale,     \* what others have committed since its view was taken
  mode,      \* how the clients are set up
  phase,     \* where each client is in its transaction
  attempt,   \* the number of its attempt to commit
  result,    \* how the call ended for its caller
  landed     \* the keys whose updates a commit of the client has made permanent

stoneVars == <<db, view, written, stale>>
clientVars == <<phase, attempt, result, landed>>

Role(c) == mode.role[c]
Fault(kind) == kind \in mode.faults

Phases ==
  {"idle", "block", "commit", "conflict", "undo", "work", "notify", "done"}
Results == {"none", "ok", "aborted", "exhausted", "raised"}

StoneTypeOK ==
  /\ db \in [Locations -> Values]
  /\ view \in [Clients -> [Locations -> Values]]
  /\ written \in [Clients -> SUBSET Locations]
  /\ stale \in [Clients -> SUBSET Locations]
  /\ mode \in Modes
  /\ phase \in [Clients -> Phases]
  /\ attempt \in [Clients -> Nat]
  /\ result \in [Clients -> Results]
  /\ landed \in [Clients -> SUBSET Keys]

\* The dictionary exists and is empty; every session is logged in.
StoneInit ==
  /\ db = [l \in Locations |-> IF l = Entry THEN {} ELSE Absent]
  /\ view = [c \in Clients |-> db]
  /\ written = [c \in Clients |-> {}]
  /\ stale = [c \in Clients |-> {}]
  /\ mode \in Modes
  /\ phase = [c \in Clients |-> "idle"]
  /\ attempt = [c \in Clients |-> 1]
  /\ result = [c \in Clients |-> "none"]
  /\ landed = [c \in Clients |-> {}]

Goto(c, label) == phase' = [phase EXCEPT ![c] = label]
Done(c, how) == Goto(c, "done") /\ result' = [result EXCEPT ![c] = how]

\* An abort, or a new login: a fresh view of what is committed.
Refresh(c) ==
  /\ view' = [view EXCEPT ![c] = db]
  /\ written' = [written EXCEPT ![c] = {}]
  /\ stale' = [stale EXCEPT ![c] = {}]
  /\ UNCHANGED db

\* The session is logged out, and its transaction gone.
Logout(c) ==
  /\ view' = [view EXCEPT ![c] = [l \in Locations |-> Absent]]
  /\ written' = [written EXCEPT ![c] = {}]
  /\ stale' = [stale EXCEPT ![c] = {}]
  /\ UNCHANGED db

\* Client c writes the value x at l within its transaction.
WriteView(c, l, x) ==
  /\ view' = [view EXCEPT ![c][l] = x]
  /\ written' = [written EXCEPT ![c] = @ \cup {l}]
  /\ UNCHANGED <<db, stale>>

\* What an update by c makes of the value x.
Updated(c, x) == IF x = Absent THEN {c} ELSE x \cup {c}

\* Of the locations W that c has written, those still reachable: when another
\* has removed the dictionary, c's is no longer the one at the entry.
Reachable(c, W) == IF Entry \in stale[c] \ W THEN {} ELSE W

MustConflict(c, W) == Reachable(c, W) \cap stale[c] # {}
MayConflict(c, W) == W # {} /\ stale[c] # {}

\* What c has written at W becomes what it is in v; keys are its updates.
Land(c, v, W, keys) ==
  LET R == Reachable(c, W) IN
  /\ db' = [l \in Locations |-> IF l \in R THEN v[l] ELSE db[l]]
  /\ view' = [view EXCEPT ![c] = db']
  /\ written' = [written EXCEPT ![c] = {}]
  /\ stale' = [x \in Clients |-> IF x = c THEN {} ELSE stale[x] \cup R]
  /\ landed' = [landed EXCEPT ![c] = keys]
=============================================================================
