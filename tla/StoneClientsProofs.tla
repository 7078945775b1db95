-------------------------- MODULE StoneClientsProofs --------------------------
(***************************************************************************)
(* Proofs about StoneClients for every set of clients and of keys, every   *)
(* number of attempts and every mix of the interfaces and faults.          *)
(***************************************************************************)
EXTENDS StoneClients, TLAPS

-----------------------------------------------------------------------------
(* Updates.                                                                *)

(* An update leaves what is in a value and adds the client's own.          *)
LEMMA UpdateAdds ==
  ASSUME NEW c \in Clients, NEW x \in Values
  PROVE  /\ Updated(c, x) \in Values
         /\ Updated(c, x) # Absent
         /\ Updates(Updated(c, x)) = Updates(x) \cup {c}
<1>1. CASE x = Absent
  BY <1>1, LocationsAssumption DEF Updated, Updates, Values
<1>2. CASE x # Absent
  <2>1. x \cup {c} \in SUBSET Clients
    BY <1>2 DEF Values
  <2>2. QED  BY <1>2, <2>1, LocationsAssumption DEF Updated, Updates, Values
<1>3. QED  BY <1>1, <1>2

-----------------------------------------------------------------------------
(* Types.                                                                  *)

ServerTyped ==
  /\ db \in [Locations -> Values]
  /\ view \in [Clients -> [Locations -> Values]]
  /\ written \in [Clients -> SUBSET Locations]
  /\ stale \in [Clients -> SUBSET Locations]

CallsTyped ==
  /\ mode \in Modes
  /\ phase \in [Clients -> Phases]
  /\ attempt \in [Clients -> Nat]
  /\ result \in [Clients -> Results]
  /\ landed \in [Clients -> SUBSET Keys]

(* The type in the parts that the actions change together.                 *)
LEMMA TypeParts == TypeOK <=> ServerTyped /\ CallsTyped /\ StoreTypeOK
BY DEF TypeOK, StoneTypeOK, ServerTyped, CallsTyped

(* An abort, a login and a logout keep the types of the server's state, and *)
(* so does leaving it alone.                                               *)
LEMMA SessionTypes ==
  ASSUME ServerTyped, NEW c \in Clients,
         Refresh(c) \/ Logout(c) \/ UNCHANGED stoneVars
  PROVE  ServerTyped'
<1>1. [l \in Locations |-> Absent] \in [Locations -> Values]
  BY DEF Values
<1>2. view' \in [Clients -> [Locations -> Values]]
  BY <1>1 DEF Refresh, Logout, stoneVars, ServerTyped
<1>3. QED  BY <1>2 DEF Refresh, Logout, stoneVars, ServerTyped

(* A commit keeps them.                                                    *)
LEMMA LandTypes ==
  ASSUME ServerTyped, CallsTyped, NEW c \in Clients,
         NEW v \in [Locations -> Values], NEW W \in SUBSET Locations,
         NEW keys \in SUBSET Keys, Land(c, v, W, keys)
  PROVE  ServerTyped' /\ landed' \in [Clients -> SUBSET Keys]
<1>1. Reachable(c, W) \in SUBSET Locations
  BY DEF Reachable
<1>2. db' \in [Locations -> Values]
  BY DEF Land, ServerTyped
<1>3. QED  BY <1>1, <1>2 DEF Land, ServerTyped, CallsTyped

(* What leaving a block writes has the types of a commit.                  *)
LEMMA FlushTypes ==
  ASSUME TypeOK, NEW c \in Clients
  PROVE  /\ Flushed(c) \in [Locations -> Values]
         /\ FlushWrites(c) \in SUBSET Locations
         /\ Buffered(c) \in SUBSET Keys
<1> USE DEF TypeOK, StoneTypeOK, StoreTypeOK
<1>1. ASSUME NEW l \in Locations
      PROVE  (IF l = Entry THEN {}
              ELSE IF l \in deletes[c] THEN Absent
              ELSE IF dirty[c][l] # Absent THEN dirty[c][l]
              ELSE view[c][l]) \in Values
  BY DEF Locations, Values
<1>2. Flushed(c) \in [Locations -> Values]
  BY <1>1 DEF Flushed
<1>3. QED  BY <1>2 DEF FlushWrites, Buffered, Locations

(* The initial state has its type.                                         *)
LEMMA TypeInit ==
  ASSUME Init
  PROVE  TypeOK
<1>1. db \in [Locations -> Values]
  BY DEF Init, StoneInit, Locations, Values
<1>2. StoneTypeOK
  BY <1>1 DEF Init, StoneInit, StoneTypeOK, Phases, Results
<1>3. StoreTypeOK
  BY DEF Init, StoreInit, StoreTypeOK, Values, Exits
<1>4. QED  BY <1>2, <1>3 DEF TypeOK

(* Every step of a user of GStore keeps the types.                         *)
LEMMA StoreTypeStep ==
  ASSUME TypeOK, NEW c \in Clients, StoreNext(c)
  PROVE  TypeOK'
<1> ServerTyped /\ CallsTyped /\ StoreTypeOK
  BY TypeParts
<1> SUFFICES ServerTyped' /\ CallsTyped' /\ StoreTypeOK'
  BY DEF TypeOK, StoneTypeOK, ServerTyped, CallsTyped
<1> USE DEF CallsTyped, StoreTypeOK, storeVars, Goto, Done, Phases, Results,
            Exits
<1>1. CASE Open(c)
  <2>1. ServerTyped'
    <3>1. CASE Logout(c)  BY <3>1, SessionTypes
    <3>2. CASE /\ view' = [view EXCEPT ![c] = [db EXCEPT ![Entry] = {}]]
               /\ written' = [written EXCEPT
                    ![c] = IF db[Entry] = Absent THEN {Entry} ELSE {}]
               /\ stale' = [stale EXCEPT ![c] = {}]
               /\ UNCHANGED db
      <4>1. [db EXCEPT ![Entry] = {}] \in [Locations -> Values]
        BY DEF ServerTyped, Locations, Values
      <4>2. view' \in [Clients -> [Locations -> Values]]
        BY <3>2, <4>1 DEF ServerTyped
      <4>3. QED  BY <3>2, <4>2 DEF ServerTyped, Locations
    <3>3. QED  BY <1>1, <3>1, <3>2 DEF Open
  <2>2. QED  BY <1>1, <2>1 DEF Open
<1>2. CASE Leave(c)  BY <1>2, SessionTypes DEF Leave
<1>3. CASE Commit(c)
  <2>1. CASE Land(c, Flushed(c), FlushWrites(c), Buffered(c))
    <3>1. ServerTyped' /\ landed' \in [Clients -> SUBSET Keys]
      BY <2>1, LandTypes, FlushTypes
    <3>2. QED  BY <1>3, <3>1 DEF Commit, Outcome
  <2>2. CASE ~Land(c, Flushed(c), FlushWrites(c), Buffered(c))
    BY <1>3, <2>2, SessionTypes DEF Commit
  <2>3. QED  BY <2>1, <2>2
<1>4. CASE Retry(c)
  <2>1. ServerTyped'
    BY <1>4, SessionTypes DEF Retry
  <2>2. attempt[c] + 1 \in Nat
    OBVIOUS
  <2>3. attempt' \in [Clients -> Nat]
    BY <1>4, <2>2 DEF Retry
  <2>4. QED  BY <1>4, <2>1, <2>3 DEF Retry
<1>5. CASE Undo(c)  BY <1>5, SessionTypes DEF Undo
<1>6. CASE Remove(c)
  <2>1. ServerTyped'
    BY <1>6 DEF Remove, ServerTyped, Values
  <2>2. QED  BY <1>6, <2>1 DEF Remove
<1>7. ASSUME NEW k \in Keys, SetItem(c, k)
      PROVE  ServerTyped' /\ CallsTyped' /\ StoreTypeOK'
  <2>1. Get(c, k) \in Values
    BY DEF Get, ServerTyped, Locations, Values
  <2>2. QED  BY <1>7, <2>1, UpdateAdds, SessionTypes DEF SetItem, clientVars
<1>8. ASSUME NEW k \in Keys, DelItem(c, k)
      PROVE  ServerTyped' /\ CallsTyped' /\ StoreTypeOK'
  BY <1>8, SessionTypes DEF DelItem, clientVars, Values
<1>9. QED
  BY <1>1, <1>2, <1>3, <1>4, <1>5, <1>6, <1>7, <1>8 DEF StoreNext

(* Every step of run_transaction_with_retry keeps the types.               *)
LEMMA RetryTypeStep ==
  ASSUME TypeOK, NEW c \in Clients, RetryNext(c), UNCHANGED storeVars
  PROVE  TypeOK'
<1> ServerTyped /\ CallsTyped /\ StoreTypeOK
  BY TypeParts
<1> SUFFICES ServerTyped' /\ CallsTyped'
  BY DEF TypeOK, StoneTypeOK, ServerTyped, CallsTyped, StoreTypeOK, storeVars
<1> USE DEF CallsTyped, Goto, Done, Phases, Results, LeaveSession
<1>1. CASE Start(c)  BY <1>1, SessionTypes DEF Start
<1>2. CASE WorkEnds(c)  BY <1>2, SessionTypes DEF WorkEnds
<1>3. CASE TryCommit(c)
  <2>1. written[c] \in SUBSET Locations /\ written[c] \ {Entry} \in SUBSET Keys
    BY DEF ServerTyped, Locations
  <2>2. view[c] \in [Locations -> Values]
    BY DEF ServerTyped
  <2>3. CASE Land(c, view[c], written[c], written[c] \ {Entry})
    BY <1>3, <2>1, <2>2, <2>3, LandTypes DEF TryCommit
  <2>4. CASE ~Land(c, view[c], written[c], written[c] \ {Entry})
    BY <1>3, <2>4, SessionTypes DEF TryCommit
  <2>5. QED  BY <2>3, <2>4
<1>4. CASE Notify(c)  BY <1>4, SessionTypes DEF Notify
<1>5. CASE NextAttempt(c)  BY <1>5, SessionTypes DEF NextAttempt
<1>6. CASE AbortWork(c)  BY <1>6, SessionTypes DEF AbortWork
<1>7. ASSUME NEW k \in Keys, Work(c, k) PROVE ServerTyped' /\ CallsTyped'
  <2>1. k \in Locations /\ view[c][k] \in Values
    BY DEF ServerTyped, Locations
  <2>2. Updated(c, view[c][k]) \in Values
    BY <2>1, UpdateAdds
  <2>3. QED  BY <1>7, <2>1, <2>2 DEF Work, WriteView, ServerTyped, clientVars
<1>8. QED
  BY <1>1, <1>2, <1>3, <1>4, <1>5, <1>6, <1>7 DEF RetryNext

(* Every step keeps the types.                                             *)
LEMMA TypeStep ==
  ASSUME TypeOK, [Next]_vars
  PROVE  TypeOK'
<1>1. CASE Next  BY <1>1, StoreTypeStep, RetryTypeStep DEF Next
<1>2. CASE UNCHANGED vars
  BY <1>2 DEF vars, TypeOK, StoneTypeOK, StoreTypeOK, stoneVars, clientVars,
              storeVars
<1>3. QED  BY <1>1, <1>2

(* Type correctness: what is committed, what each session sees and what    *)
(* each block has buffered keep their shape along every call and fault.    *)
THEOREM TypeCorrect == Spec => []TypeOK
<1>1. Init => TypeOK
  BY TypeInit
<1>2. TypeOK /\ [Next]_vars => TypeOK'
  BY TypeStep
<1>3. QED  BY <1>1, <1>2, PTL DEF Spec

-----------------------------------------------------------------------------
(* What a step of one client leaves to the others.                         *)
Step(c) ==
  \/ Role(c) = "gstore" /\ StoreNext(c)
  \/ Role(c) # "gstore" /\ RetryNext(c) /\ UNCHANGED storeVars

(* A step is one client's.                                                 *)
LEMMA NextIsStep == Next <=> \E c \in Clients : Step(c)
BY DEF Next, Step

SameCall(d) ==
  /\ mode' = mode
  /\ phase'[d] = phase[d] /\ attempt'[d] = attempt[d]
  /\ result'[d] = result[d] /\ landed'[d] = landed[d]

SameBlock(d) ==
  /\ readOnly'[d] = readOnly[d] /\ exit'[d] = exit[d]
  /\ dirty'[d] = dirty[d] /\ deletes'[d] = deletes[d]

SameSession(d) == view'[d] = view[d] /\ written'[d] = written[d]

(* No step touches the call, the buffers or the session of another client. *)
LEMMA OthersKeep ==
  ASSUME TypeOK, NEW c \in Clients, Step(c), NEW d \in Clients, d # c
  PROVE  SameCall(d) /\ SameBlock(d) /\ SameSession(d)
<1> USE DEF TypeOK, StoneTypeOK, StoreTypeOK, SameCall, SameBlock, SameSession,
            stoneVars, clientVars, storeVars, Goto, Done, Refresh, Logout,
            WriteView, LeaveSession
<1>1. ASSUME NEW v, NEW W, NEW keys, Land(c, v, W, keys)
      PROVE  view'[d] = view[d] /\ written'[d] = written[d]
             /\ landed'[d] = landed[d]
  BY <1>1 DEF Land
<1>2. CASE StoreNext(c)
  <2>1. CASE Open(c)  BY <2>1 DEF Open
  <2>2. CASE Leave(c)  BY <2>2 DEF Leave
  <2>3. CASE Commit(c)  BY <2>3, <1>1 DEF Commit
  <2>4. CASE Retry(c)  BY <2>4 DEF Retry
  <2>5. CASE Undo(c)  BY <2>5 DEF Undo
  <2>6. CASE Remove(c)  BY <2>6 DEF Remove
  <2>7. ASSUME NEW k \in Keys, SetItem(c, k) \/ DelItem(c, k)
        PROVE  SameCall(d) /\ SameBlock(d) /\ SameSession(d)
    BY <2>7 DEF SetItem, DelItem
  <2>8. QED
    BY <1>2, <2>1, <2>2, <2>3, <2>4, <2>5, <2>6, <2>7 DEF StoreNext
<1>3. CASE RetryNext(c) /\ UNCHANGED storeVars
  <2>1. CASE Start(c)  BY <1>3, <2>1 DEF Start
  <2>2. CASE WorkEnds(c)  BY <1>3, <2>2 DEF WorkEnds
  <2>3. CASE TryCommit(c)  BY <1>3, <2>3, <1>1 DEF TryCommit
  <2>4. CASE Notify(c)  BY <1>3, <2>4 DEF Notify
  <2>5. CASE NextAttempt(c)  BY <1>3, <2>5 DEF NextAttempt
  <2>6. CASE AbortWork(c)  BY <1>3, <2>6 DEF AbortWork
  <2>7. ASSUME NEW k \in Keys, Work(c, k)
        PROVE  SameCall(d) /\ SameBlock(d) /\ SameSession(d)
    BY <1>3, <2>7 DEF Work
  <2>8. QED
    BY <1>3, <2>1, <2>2, <2>3, <2>4, <2>5, <2>6, <2>7 DEF RetryNext
<1>4. QED  BY <1>2, <1>3 DEF Step

-----------------------------------------------------------------------------
(* How a call goes: what its phase says about how the block was left, and  *)
(* when its updates may have landed.                                       *)
LandsAtEnd(c) ==
  /\ landed[c] # {} =>
       \/ phase[c] = "done"
       \/ Role(c) # "gstore" /\ phase[c] = "undo" /\ Fault("lost_answer")
  /\ result[c] # "none" => phase[c] = "done"

ExitDecides(c) ==
  IF Role(c) = "gstore"
  THEN (phase[c] \in {"commit", "conflict"} \/ landed[c] # {}) =>
         exit[c] \in {"clean", "interrupt"} /\ ~readOnly[c]
  ELSE exit[c] = "none"

ToldTrue(c) ==
  /\ result[c] \in {"aborted", "exhausted"} => landed[c] = {}
  /\ result[c] = "raised" /\ landed[c] # {} =>
       Fault("lost_answer") \/ exit[c] = "interrupt"

LeftClean(c) ==
  phase[c] = "done" /\ Role(c) = "existing" /\ written[c] # {} =>
    Fault("abort") \/ Fault("listener") \/ Fault("interrupt")

ControlOf(c) ==
  LandsAtEnd(c) /\ ExitDecides(c) /\ ToldTrue(c) /\ LeftClean(c)

Control == \A c \in Clients : ControlOf(c)

(* Every step of a user of GStore keeps its control.                       *)
LEMMA StoreControlStep ==
  ASSUME TypeOK, NEW c \in Clients, Role(c) = "gstore", StoreNext(c),
         ControlOf(c)
  PROVE  ControlOf(c)'
<1> USE DEF TypeOK, StoneTypeOK, StoreTypeOK, ControlOf, LandsAtEnd,
            ExitDecides, ToldTrue, LeftClean, Role, Fault,
            stoneVars, clientVars, storeVars, Goto, Done, Exits
<1>1. CASE Open(c)  BY <1>1 DEF Open
<1>2. CASE Leave(c)  BY <1>2 DEF Leave, Commits
<1>3. CASE Commit(c)  BY <1>3 DEF Commit, Outcome
<1>4. CASE Retry(c)  BY <1>4 DEF Retry
<1>5. CASE Undo(c)  BY <1>5 DEF Undo
<1>6. CASE Remove(c)  BY <1>6 DEF Remove
<1>7. ASSUME NEW k \in Keys, SetItem(c, k) \/ DelItem(c, k)
      PROVE  ControlOf(c)'
  BY <1>7 DEF SetItem, DelItem
<1>8. QED
  BY <1>1, <1>2, <1>3, <1>4, <1>5, <1>6, <1>7 DEF StoreNext

(* Every step of run_transaction_with_retry keeps its control.             *)
LEMMA RetryControlStep ==
  ASSUME TypeOK, NEW c \in Clients, Role(c) # "gstore", RetryNext(c),
         UNCHANGED storeVars, ControlOf(c)
  PROVE  ControlOf(c)'
<1> USE DEF TypeOK, StoneTypeOK, StoreTypeOK, ControlOf, LandsAtEnd,
            ExitDecides, ToldTrue, LeftClean, Role, Fault,
            stoneVars, clientVars, storeVars, Goto, Done, LeaveSession
<1>0. Refresh(c) \/ Logout(c) => written'[c] = {}
  BY DEF Refresh, Logout
<1>1. CASE Start(c)  BY <1>1 DEF Start
<1>2. CASE WorkEnds(c)  BY <1>0, <1>2 DEF WorkEnds
<1>3. CASE TryCommit(c)  BY <1>3 DEF TryCommit, Land
<1>4. CASE Notify(c)  BY <1>0, <1>4 DEF Notify
<1>5. CASE NextAttempt(c)  BY <1>0, <1>5 DEF NextAttempt
<1>6. CASE AbortWork(c)  BY <1>0, <1>6 DEF AbortWork
<1>7. ASSUME NEW k \in Keys, Work(c, k) PROVE ControlOf(c)'
  BY <1>7 DEF Work
<1>8. QED
  BY <1>1, <1>2, <1>3, <1>4, <1>5, <1>6, <1>7 DEF RetryNext

(* Control holds along every behaviour.                                    *)
THEOREM Controlled == Spec => [](TypeOK /\ Control)
<1>1. Init => TypeOK /\ Control
  BY TypeInit DEF Init, StoneInit, StoreInit, Control, ControlOf, LandsAtEnd,
                  ExitDecides, ToldTrue, LeftClean
<1>2. TypeOK /\ Control /\ [Next]_vars => (TypeOK /\ Control)'
  <2> SUFFICES ASSUME TypeOK, Control, [Next]_vars PROVE Control'
    BY TypeStep
  <2> USE DEF Control
  <2>1. ASSUME NEW c \in Clients, Step(c), NEW d \in Clients
        PROVE  ControlOf(d)'
    <3>1. CASE d = c
      BY <2>1, <3>1, StoreControlStep, RetryControlStep DEF Step
    <3>2. CASE d # c
      BY <2>1, <3>2, OthersKeep
         DEF SameCall, SameBlock, SameSession, ControlOf, LandsAtEnd,
             ExitDecides, ToldTrue, LeftClean, Role, Fault
    <3>3. QED  BY <3>1, <3>2
  <2>2. CASE UNCHANGED vars
    BY <2>2 DEF vars, stoneVars, clientVars, storeVars, ControlOf, LandsAtEnd,
                ExitDecides, ToldTrue, LeftClean, Role, Fault
  <2>3. QED  BY <2>1, <2>2, NextIsStep
<1>3. QED  BY <1>1, <1>2, PTL DEF Spec

(* A caller told that its transaction was aborted or ran out of attempts   *)
(* has changed nothing, whatever the others did meanwhile; and a block     *)
(* left by GStoreAbortTransaction or another Exception, and one that is    *)
(* read-only, commits nothing.                                             *)
THEOREM OutcomesAreTrue == Spec => []OutcomeIsTrue
<1>1. TypeOK /\ Control => OutcomeIsTrue
  BY DEF Control, ControlOf, ToldTrue, ExitDecides, OutcomeIsTrue
<1>2. QED  BY <1>1, Controlled, PTL

(* A caller's session comes back with nothing written in it unless the     *)
(* abort failed, the listener raised, or what ended the work was no        *)
(* Exception.                                                              *)
THEOREM SessionsLeftClean == Spec => []SessionLeftClean
<1>1. TypeOK /\ Control => SessionLeftClean
  BY DEF Control, ControlOf, LeftClean, SessionLeftClean
<1>2. QED  BY <1>1, Controlled, PTL

(* Once its updates are permanent, a client makes no further attempt.      *)
LEMMA LandedIsOver ==
  ASSUME TypeOK, Control, NEW c \in Clients, Step(c), landed[c] # {}
  PROVE  attempt'[c] = attempt[c] /\ landed'[c] = landed[c]
<1>1. CASE Role(c) = "gstore"
  <2>1. phase[c] = "done" /\ StoreNext(c)
    BY <1>1 DEF Control, ControlOf, LandsAtEnd, Step
  <2>2. QED
    BY <2>1 DEF StoreNext, Open, Leave, Commit, Retry, Undo, Remove, SetItem,
                DelItem
<1>2. CASE Role(c) # "gstore"
  <2>1. phase[c] \in {"done", "undo"} /\ RetryNext(c)
    BY <1>2 DEF Control, ControlOf, LandsAtEnd, Step
  <2>2. AbortWork(c)
    BY <2>1 DEF RetryNext, Start, Work, WorkEnds, TryCommit, Notify,
                NextAttempt
  <2>3. QED  BY <2>2 DEF AbortWork
<1>3. QED  BY <1>1, <1>2

(* What has been committed is not attempted again, whatever error the      *)
(* commit ended with.                                                      *)
THEOREM NothingAttemptedAgain == Spec => NotAttemptedAgain
<1>1. TypeOK /\ Control /\ [Next]_vars =>
        [\A c \in Clients : landed[c] # {} => attempt'[c] = attempt[c]]_vars
  <2> SUFFICES ASSUME TypeOK, Control, Next, NEW c \in Clients, landed[c] # {}
               PROVE  attempt'[c] = attempt[c]
    OBVIOUS
  <2>1. PICK d \in Clients : Step(d)
    BY NextIsStep
  <2>2. CASE d = c  BY <2>1, <2>2, LandedIsOver
  <2>3. CASE d # c  BY <2>1, <2>3, OthersKeep DEF SameCall
  <2>4. QED  BY <2>2, <2>3
<1>2. QED  BY <1>1, Controlled, PTL DEF Spec, NotAttemptedAgain

-----------------------------------------------------------------------------
(* What a block makes of the dictionary.                                   *)

(* A key is never both written and deleted by a block.                     *)
LEMMA BuffersStep ==
  ASSUME TypeOK, BuffersDisjoint, [Next]_vars
  PROVE  BuffersDisjoint'
<1> USE DEF BuffersDisjoint, Buffered, TypeOK, StoneTypeOK, StoreTypeOK
<1>1. ASSUME NEW c \in Clients, Step(c), NEW d \in Clients
      PROVE  Buffered(d)' \cap deletes'[d] = {}
  <2>1. CASE d # c
    BY <1>1, <2>1, OthersKeep DEF SameBlock
  <2>2. CASE d = c /\ UNCHANGED <<dirty, deletes>>
    BY <2>2
  <2>3. ASSUME NEW k \in Keys, SetItem(c, k), d = c
        PROVE  Buffered(d)' \cap deletes'[d] = {}
    BY <2>3 DEF SetItem
  <2>4. ASSUME NEW k \in Keys, DelItem(c, k), d = c
        PROVE  Buffered(d)' \cap deletes'[d] = {}
    BY <2>4 DEF DelItem
  <2>5. QED
    BY <1>1, <2>1, <2>2, <2>3, <2>4
       DEF Step, StoreNext, Open, Leave, Commit, Retry, Undo, Remove, storeVars
<1>2. CASE UNCHANGED vars
  BY <1>2 DEF vars, storeVars
<1>3. QED  BY <1>1, <1>2, NextIsStep

(* When a block's commit takes effect all of its writes do, and its        *)
(* deletes of the keys it sees, on whichever attempt.                      *)
THEOREM BlocksLandWhole == Spec => LandsWhole
<1>1. Init => TypeOK /\ BuffersDisjoint
  BY TypeInit DEF Init, StoreInit, BuffersDisjoint
<1>2. TypeOK /\ BuffersDisjoint /\ [Next]_vars => (TypeOK /\ BuffersDisjoint)'
  BY TypeStep, BuffersStep
<1>3. TypeOK /\ BuffersDisjoint /\ [Next]_vars =>
        [\A c \in Clients :
           /\ Role(c) = "gstore" /\ phase[c] = "commit" /\ phase'[c] = "done"
           /\ result'[c] = "ok"
           /\ Entry \notin stale[c]
           => /\ \A k \in Buffered(c) : db'[k] = dirty[c][k]
              /\ \A k \in deletes[c] : view[c][k] # Absent => db'[k] = Absent]_vars
  <2> SUFFICES ASSUME TypeOK, BuffersDisjoint, Next, NEW c \in Clients,
                      Role(c) = "gstore", phase[c] = "commit",
                      phase'[c] = "done", result'[c] = "ok",
                      Entry \notin stale[c]
               PROVE  /\ \A k \in Buffered(c) : db'[k] = dirty[c][k]
                      /\ \A k \in deletes[c] :
                           view[c][k] # Absent => db'[k] = Absent
    OBVIOUS
  <2>1. PICK d \in Clients : Step(d)
    BY NextIsStep
  <2>2. d = c
    BY <2>1, OthersKeep DEF SameCall
  <2>3. Commit(c)
    BY <2>1, <2>2 DEF Step, StoreNext, Open, Leave, Retry, Undo, Remove,
                      SetItem, DelItem
  <2>4. Land(c, Flushed(c), FlushWrites(c), Buffered(c))
    BY <2>3 DEF Commit, Done, Goto, TypeOK, StoneTypeOK
  <2>5. Reachable(c, FlushWrites(c)) = FlushWrites(c)
    BY DEF Reachable
  <2>6. ASSUME NEW k \in Keys, k \in FlushWrites(c)
        PROVE  db'[k] = Flushed(c)[k]
    BY <2>4, <2>5, <2>6 DEF Land, Locations
  <2>7. ASSUME NEW k \in Buffered(c) PROVE db'[k] = dirty[c][k]
    BY <2>6, <2>7, LocationsAssumption
       DEF FlushWrites, Flushed, Buffered, BuffersDisjoint, Locations
  <2>8. ASSUME NEW k \in deletes[c], view[c][k] # Absent
        PROVE  db'[k] = Absent
    BY <2>6, <2>8, LocationsAssumption
       DEF FlushWrites, Flushed, Locations, TypeOK, StoreTypeOK
  <2>9. QED  BY <2>7, <2>8
<1>4. QED  BY <1>1, <1>2, <1>3, PTL DEF Spec, LandsWhole

-----------------------------------------------------------------------------
(* Why updates are kept while nothing is deleted: outside what others have *)
(* committed since, the view of a client agrees with what is committed, or *)
(* carries it together with the client's own updates, and nothing else.    *)
Carries(c, x, y) == Updates(y) = Updates(x) \cup {c}

BlockCarries(c) ==
  /\ written[c] = {}
  /\ phase[c] = "idle" => Buffered(c) = {}
  /\ \A k \in Buffered(c) : c \in Updates(dirty[c][k])
  /\ attempt[c] = 1 =>
       \A k \in Buffered(c) : Carries(c, view[c][k], dirty[c][k])

WorkCarries(c) ==
  \A k \in (Keys \cap written[c]) \ stale[c] : Carries(c, db[k], view[c][k])

ViewKept(c) ==
  /\ view[c][Entry] # Absent
  /\ \A k \in Keys \ (stale[c] \cup written[c]) : view[c][k] = db[k]
  /\ IF Role(c) = "gstore" THEN BlockCarries(c) ELSE WorkCarries(c)

SessionKept(c) ==
  /\ Entry \notin stale[c] \cup written[c]
  /\ deletes[c] = {}
  /\ attempt[c] # 0
  /\ phase[c] # "done" => ViewKept(c)

Kept ==
  ~mode.deletes => db[Entry] # Absent /\ \A c \in Clients : SessionKept(c)

(* The two things a step may do to what is committed.                      *)
Quiet(c) ==
  /\ db' = db
  /\ \A d \in Clients \ {c} : stale'[d] = stale[d]
  /\ landed' = landed

Lands(c, R) ==
  /\ \A l \in Locations \ R : db'[l] = db[l]
  /\ (Role(c) # "gstore" \/ attempt[c] = 1) =>
       \A k \in R : Carries(c, db[k], db'[k])
  /\ R = WantedBy(c) /\ \A k \in R : c \in Updates(db'[k])
  /\ \A d \in Clients \ {c} : stale'[d] = stale[d] \cup R
  /\ landed[c] = {}
  /\ landed' = [landed EXCEPT ![c] = R]
  /\ view'[c] = db' /\ written'[c] = {} /\ stale'[c] = {}
  /\ attempt' = attempt /\ phase'[c] \in {"done", "undo"}
  /\ UNCHANGED storeVars

(* A commit of what carries the committed values carries them, too.        *)
LEMMA CommitCarries ==
  ASSUME TypeOK, ~mode.deletes, Kept, NEW c \in Clients,
         phase[c] = "commit", landed[c] = {},
         NEW v, NEW R \in SUBSET Keys,
         Land(c, v, R, R), ~MustConflict(c, R), R = WantedBy(c),
         \A k \in R \ stale[c] : c \in Updates(v[k]),
         UNCHANGED <<attempt, storeVars>>, phase'[c] \in {"done", "undo"},
         (Role(c) # "gstore" \/ attempt[c] = 1) =>
           \A k \in R \ stale[c] : Carries(c, db[k], v[k])
  PROVE  Lands(c, R)
<1> USE DEF TypeOK, StoneTypeOK, StoreTypeOK
<1>1. Entry \notin stale[c]
  BY DEF Kept, SessionKept
<1>2. Reachable(c, R) = R /\ R \cap stale[c] = {}
  BY <1>1 DEF Reachable, MustConflict
<1>3. \A l \in Locations : db'[l] = IF l \in R THEN v[l] ELSE db[l]
  BY <1>2 DEF Land
<1>4. /\ \A d \in Clients \ {c} : stale'[d] = stale[d] \cup R
      /\ view'[c] = db' /\ written'[c] = {} /\ stale'[c] = {}
      /\ landed' = [landed EXCEPT ![c] = R]
  BY <1>2 DEF Land
<1>5. (Role(c) # "gstore" \/ attempt[c] = 1) =>
        \A k \in R : Carries(c, db[k], db'[k])
  BY <1>2, <1>3 DEF Locations, Carries
<1>6. \A k \in R : c \in Updates(db'[k])
  BY <1>2, <1>3 DEF Locations
<1>7. QED  BY <1>3, <1>4, <1>5, <1>6 DEF Lands

(* Every step is one of the two.                                           *)
LEMMA QuietOrLands ==
  ASSUME TypeOK, Control, ~mode.deletes, Kept, NEW c \in Clients, Step(c)
  PROVE  Quiet(c) \/ \E R \in SUBSET Keys : Lands(c, R)
<1> USE DEF TypeOK, StoneTypeOK, StoreTypeOK
<1>1. /\ phase[c] = "commit" => landed[c] = {}
      /\ UNCHANGED <<stoneVars, landed>> => Quiet(c)
      /\ (Refresh(c) \/ Logout(c)) /\ UNCHANGED landed => Quiet(c)
  BY DEF Control, ControlOf, LandsAtEnd, stoneVars, Refresh, Logout, Quiet
<1>2. CASE Role(c) = "gstore" /\ StoreNext(c)
  <2>1. CASE Open(c)
    <3>1. CASE Logout(c)  BY <1>1, <2>1, <3>1 DEF Open
    <3>2. CASE ~Logout(c)  BY <2>1, <3>2 DEF Open, Quiet
    <3>3. QED  BY <3>1, <3>2
  <2>2. CASE Commit(c) /\ ~Land(c, Flushed(c), FlushWrites(c), Buffered(c))
    BY <1>1, <2>2 DEF Commit
  <2>3. CASE Commit(c) /\ Land(c, Flushed(c), FlushWrites(c), Buffered(c))
    <3>1. phase[c] = "commit" /\ landed[c] = {}
      BY <1>1, <2>3 DEF Commit
    <3>2. ViewKept(c) /\ deletes[c] = {} /\ BlockCarries(c)
      BY <1>2, <3>1 DEF Kept, SessionKept, ViewKept
    <3>3. FlushWrites(c) = Buffered(c) /\ Buffered(c) \in SUBSET Keys
      BY <3>2 DEF FlushWrites, ViewKept, BlockCarries, Buffered
    <3>4. CASE MustConflict(c, FlushWrites(c))
      BY <1>1, <2>3, <3>4 DEF Commit
    <3>5. CASE ~MustConflict(c, FlushWrites(c))
      <4>1. ASSUME attempt[c] = 1, NEW k \in Buffered(c) \ stale[c]
            PROVE  Carries(c, db[k], Flushed(c)[k])
        <5>1. k \in Keys /\ view[c][k] = db[k] /\ dirty[c][k] # Absent
          BY <3>2, <4>1 DEF ViewKept, BlockCarries, Buffered
        <5>2. Flushed(c)[k] = dirty[c][k]
          BY <3>2, <5>1, LocationsAssumption DEF Flushed, Locations
        <5>3. QED  BY <3>2, <4>1, <5>1, <5>2 DEF BlockCarries
      <4>2. UNCHANGED <<attempt, storeVars>> /\ phase'[c] \in {"done", "conflict"}
        BY <2>3 DEF Commit, Done, Goto
      <4>3. CASE phase'[c] = "done"
        <5>1. \A k \in Buffered(c) \ stale[c] : c \in Updates(Flushed(c)[k])
          BY <3>2, LocationsAssumption DEF BlockCarries, Buffered, Flushed, Locations
        <5>2. Buffered(c) = WantedBy(c)
          BY <1>2, <3>1 DEF WantedBy
        <5>3. QED
          BY <1>2, <2>3, <3>1, <3>3, <3>5, <4>1, <4>2, <4>3, <5>1, <5>2, CommitCarries
      <4>4. CASE phase'[c] = "conflict"
        BY <1>1, <2>3, <4>4 DEF Commit, Done, Goto
      <4>5. QED  BY <4>2, <4>3, <4>4
    <3>6. QED  BY <3>4, <3>5
  <2>4. CASE Leave(c) \/ Retry(c) \/ Undo(c)
    BY <1>1, <2>4 DEF Leave, Retry, Undo
  <2>5. ASSUME NEW k \in Keys, SetItem(c, k) \/ DelItem(c, k)
        PROVE  Quiet(c)
    BY <1>1, <2>5 DEF SetItem, DelItem, clientVars
  <2>6. ~Remove(c)
    BY DEF Remove
  <2>7. QED
    BY <1>2, <2>1, <2>2, <2>3, <2>4, <2>5, <2>6 DEF StoreNext
<1>3. CASE Role(c) # "gstore" /\ RetryNext(c) /\ UNCHANGED storeVars
  <2>1. CASE Start(c) \/ WorkEnds(c) \/ Notify(c) \/ NextAttempt(c) \/ AbortWork(c)
    BY <1>1, <2>1
       DEF Start, WorkEnds, Notify, NextAttempt, AbortWork, LeaveSession
  <2>2. ASSUME NEW k \in Keys, Work(c, k) PROVE Quiet(c)
    BY <2>2 DEF Work, WriteView, clientVars, Quiet
  <2>3. CASE TryCommit(c)
    <3>1. phase[c] = "commit"
      BY <2>3 DEF TryCommit
    <3>2. ViewKept(c) /\ Entry \notin written[c] /\ WorkCarries(c)
      BY <1>3, <3>1 DEF Kept, SessionKept, ViewKept
    <3>3. written[c] \in SUBSET Keys /\ written[c] \ {Entry} = written[c]
      BY <3>2 DEF Locations
    <3>4. CASE ~MustConflict(c, written[c])
               /\ Land(c, view[c], written[c], written[c])
               /\ phase'[c] \in {"done", "undo"}
      <4>1. \A k \in written[c] \ stale[c] : Carries(c, db[k], view[c][k])
        BY <3>2, <3>3 DEF WorkCarries
      <4>2. UNCHANGED <<attempt, storeVars>> /\ landed[c] = {}
        BY <1>1, <1>3, <2>3, <3>1, <3>4 DEF TryCommit
      <4>3. \A k \in written[c] \ stale[c] : c \in Updates(view[c][k])
        BY <4>1 DEF Carries
      <4>4. written[c] = WantedBy(c)
        BY <1>3, <3>3, <4>2 DEF WantedBy
      <4>5. QED  BY <1>3, <3>1, <3>3, <3>4, <4>1, <4>2, <4>3, <4>4, CommitCarries
    <3>5. CASE UNCHANGED <<stoneVars, landed>>
      BY <1>1, <3>5
    <3>6. QED  BY <2>3, <3>3, <3>4, <3>5 DEF TryCommit, Done, Goto
  <2>4. QED  BY <1>3, <2>1, <2>2, <2>3 DEF RetryNext
<1>4. QED  BY <1>2, <1>3 DEF Step

(* The others' sessions stay right, whichever it is.                       *)
LEMMA OthersKept ==
  ASSUME TypeOK, Control, ~mode.deletes, Kept, NEW c \in Clients, Step(c),
         NEW d \in Clients, d # c
  PROVE  SessionKept(d)'
<1> USE DEF TypeOK, StoneTypeOK, StoreTypeOK
<1>1. SameCall(d) /\ SameBlock(d) /\ SameSession(d)
  BY OthersKeep
<1>2. SessionKept(d)
  BY DEF Kept
<1>3. PICK R \in SUBSET Keys :
        /\ \A l \in Locations \ R : db'[l] = db[l]
        /\ stale'[d] = stale[d] \cup R
  <2>1. CASE Quiet(c)
    <3>1. db' = db /\ stale'[d] = stale[d] \cup {} /\ {} \in SUBSET Keys
      BY <2>1 DEF Quiet
    <3>2. QED  BY <3>1
  <2>2. CASE \E R \in SUBSET Keys : Lands(c, R)
    BY <2>2 DEF Lands
  <2>3. QED  BY <2>1, <2>2, QuietOrLands
<1>4. ASSUME phase[d] # "done" PROVE ViewKept(d)'
  <2>1. ViewKept(d)
    BY <1>2, <1>4 DEF SessionKept
  <2>2. \A k \in Keys \ (stale'[d] \cup written'[d]) : view'[d][k] = db'[k]
    BY <1>1, <1>3, <2>1 DEF SameSession, ViewKept, Locations
  <2>3. Role(d) = "gstore" => BlockCarries(d)'
    BY <1>1, <2>1
       DEF SameCall, SameBlock, SameSession, ViewKept, BlockCarries, Buffered
  <2>4. Role(d) # "gstore" => WorkCarries(d)'
    BY <1>1, <1>3, <2>1
       DEF SameSession, ViewKept, WorkCarries, Locations, Carries
  <2>5. QED
    BY <1>1, <2>1, <2>2, <2>3, <2>4
       DEF SameCall, SameSession, ViewKept, Role
<1>5. QED
  BY <1>1, <1>2, <1>3, <1>4, LocationsAssumption
     DEF SameCall, SameBlock, SameSession, SessionKept

(* A fresh view, or a session that is logged out, is right.                *)
LEMMA FreshKept ==
  ASSUME TypeOK, ~mode.deletes, Kept, NEW c \in Clients,
         mode' = mode, UNCHANGED <<dirty, deletes>>, attempt'[c] # 0,
         \/ Refresh(c) /\ (Role(c) = "gstore" => attempt'[c] # 1 /\ phase[c] # "done")
                       /\ phase'[c] # "idle"
         \/ Logout(c) /\ phase'[c] = "done"
  PROVE  SessionKept(c)'
<1> USE DEF TypeOK, StoneTypeOK
<1>1. SessionKept(c) /\ db[Entry] # Absent
  BY DEF Kept
<1>2. CASE Logout(c) /\ phase'[c] = "done"
  BY <1>1, <1>2 DEF Logout, SessionKept
<1>3. CASE Refresh(c) /\ (Role(c) = "gstore" => attempt'[c] # 1 /\ phase[c] # "done")
                      /\ phase'[c] # "idle"
  <2>1. /\ db' = db /\ view'[c] = db
        /\ written'[c] = {} /\ stale'[c] = {}
    BY <1>3 DEF Refresh
  <2>2. IF Role(c)' = "gstore" THEN BlockCarries(c)' ELSE WorkCarries(c)'
    <3>1. CASE Role(c) = "gstore"
      <4>1. BlockCarries(c)
        BY <1>1, <1>3, <3>1 DEF SessionKept, ViewKept
      <4>2. BlockCarries(c)'
        BY <1>3, <2>1, <3>1, <4>1 DEF BlockCarries, Buffered
      <4>3. QED  BY <3>1, <4>2 DEF Role
    <3>2. CASE Role(c) # "gstore"
      BY <2>1, <3>2 DEF WorkCarries, Role
    <3>3. QED  BY <3>1, <3>2
  <2>3. QED  BY <1>1, <2>1, <2>2 DEF SessionKept, ViewKept
<1>4. QED  BY <1>2, <1>3

(* The session of a user of GStore stays right.                            *)
LEMMA BlockKept ==
  ASSUME TypeOK, ~mode.deletes, Kept, NEW c \in Clients,
         Role(c) = "gstore", StoreNext(c),
         Quiet(c) \/ \E R \in SUBSET Keys : Lands(c, R)
  PROVE  SessionKept(c)'
<1> USE DEF TypeOK, StoneTypeOK, StoreTypeOK
<1>1. SessionKept(c) /\ db[Entry] # Absent
  BY DEF Kept
<1>2. CASE Open(c)
  <2>1. CASE phase'[c] = "done"
    <3>1. CASE Logout(c)
      BY <1>1, <1>2, <2>1, <3>1, FreshKept DEF Open, SessionKept
    <3>2. CASE ~Logout(c)
      BY <1>2, <2>1, <3>2 DEF Open, Goto
    <3>3. QED  BY <3>1, <3>2
  <2>2. CASE phase'[c] # "done"
    <3>1. /\ view'[c] = [db EXCEPT ![Entry] = {}]
          /\ written'[c] = {} /\ stale'[c] = {} /\ db' = db
          /\ UNCHANGED <<mode, attempt, dirty, deletes>>
      BY <1>1, <1>2, <2>2 DEF Open, Done, Goto
    <3>2. Buffered(c)' = {}
      BY <1>1, <1>2, <3>1
         DEF Open, SessionKept, ViewKept, BlockCarries, Buffered
    <3>3. view'[c][Entry] = {} /\ \A k \in Keys : view'[c][k] = db[k]
      BY <3>1, LocationsAssumption DEF Locations
    <3>4. {} # Absent
      BY LocationsAssumption
    <3>5. QED
      BY <1>1, <2>2, <3>1, <3>2, <3>3, <3>4
         DEF SessionKept, ViewKept, BlockCarries, Role
  <2>3. QED  BY <2>1, <2>2
<1>3. CASE Commit(c)
  <2>1. UNCHANGED <<mode, attempt, storeVars>>
    BY <1>3 DEF Commit
  <2>2. CASE Logout(c) /\ phase'[c] = "done"
    BY <1>1, <2>1, <2>2, FreshKept DEF SessionKept, storeVars
  <2>3. CASE UNCHANGED stoneVars /\ phase'[c] = "conflict"
    BY <1>1, <1>3, <2>1, <2>3
       DEF Commit, stoneVars, storeVars, SessionKept, ViewKept, BlockCarries,
           Buffered, Role
  <2>4. CASE stale'[c] = {} /\ written'[c] = {} /\ phase'[c] = "done"
    BY <1>1, <2>1, <2>4 DEF storeVars, SessionKept
  <2>5. QED
    BY <1>3, <2>2, <2>3, <2>4 DEF Commit, Done, Goto, Land
<1>4. CASE Retry(c)
  <2>1. UNCHANGED <<mode, dirty, deletes>> /\ phase[c] # "done"
    BY <1>4 DEF Retry, storeVars
  <2>2. CASE Refresh(c) /\ attempt' = [attempt EXCEPT ![c] = @ + 1]
             /\ phase'[c] = "commit"
    <3>1. \A n \in Nat : n # 0 => n + 1 # 0 /\ n + 1 # 1
      OBVIOUS
    <3>2. attempt'[c] = attempt[c] + 1 /\ attempt[c] \in Nat /\ attempt[c] # 0
      BY <1>1, <2>2 DEF SessionKept
    <3>3. attempt'[c] # 0 /\ attempt'[c] # 1
      BY <3>1, <3>2, Zenon
    <3>4. QED  BY <2>1, <2>2, <3>3, FreshKept
  <2>3. CASE Logout(c) /\ phase'[c] = "done" /\ UNCHANGED attempt
    BY <1>1, <2>1, <2>3, FreshKept DEF SessionKept
  <2>4. QED  BY <1>4, <2>2, <2>3 DEF Retry, Done, Goto
<1>5. CASE Undo(c)
  BY <1>1, <1>5, FreshKept DEF Undo, Done, Goto, storeVars, SessionKept
<1>6. CASE Leave(c)
  BY <1>1, <1>6
     DEF Leave, Goto, stoneVars, SessionKept, ViewKept, BlockCarries,
         Buffered, Role
<1>7. ASSUME NEW k \in Keys, SetItem(c, k) PROVE SessionKept(c)'
  <2>1. UNCHANGED <<stoneVars, mode, clientVars>> /\ phase[c] = "block"
    BY <1>7 DEF SetItem
  <2>2. ViewKept(c) /\ BlockCarries(c) /\ deletes[c] = {}
    BY <1>1, <2>1 DEF SessionKept, ViewKept
  <2>3. deletes'[c] = {}
    BY <1>7, <2>2 DEF SetItem
  <2>4. ASSUME attempt[c] = 1, NEW q \in Buffered(c)'
        PROVE  Carries(c, view[c][q], dirty'[c][q])
    <3>1. CASE q = k
      <4>1. /\ Get(c, k) \in Values
            /\ Updates(view[c][k]) \cup {c} = Updates(Get(c, k)) \cup {c}
        <5>1. CASE dirty[c][k] = Absent
          BY <2>2, <5>1 DEF Get, Locations
        <5>2. CASE dirty[c][k] # Absent
          <6>1. Carries(c, view[c][k], dirty[c][k])
            BY <2>2, <2>4, <5>2 DEF BlockCarries, Buffered
          <6>2. QED  BY <5>2, <6>1 DEF Get, Carries
        <5>3. QED  BY <5>1, <5>2
      <4>2. dirty'[c][k] = Updated(c, Get(c, k))
        BY <1>7 DEF SetItem
      <4>3. QED  BY <3>1, <4>1, <4>2, UpdateAdds DEF Carries
    <3>2. CASE q # k
      BY <1>7, <2>2, <2>4, <3>2 DEF SetItem, BlockCarries, Buffered
    <3>3. QED  BY <3>1, <3>2
  <2>5. BlockCarries(c)'
    <3>1. ASSUME NEW q \in Buffered(c)' PROVE c \in Updates(dirty'[c][q])
      <4>1. CASE q = k
        <5>1. dirty'[c][k] = Updated(c, Get(c, k)) /\ Get(c, k) \in Values
          BY <1>7 DEF SetItem, Get, Locations, Values
        <5>2. QED  BY <4>1, <5>1, UpdateAdds
      <4>2. CASE q # k
        BY <1>7, <2>2, <3>1, <4>2 DEF SetItem, BlockCarries, Buffered
      <4>3. QED  BY <4>1, <4>2
    <3>2. QED  BY <2>1, <2>2, <2>4, <3>1 DEF stoneVars, clientVars, BlockCarries
  <2>6. QED
    BY <1>1, <2>1, <2>2, <2>3, <2>5
       DEF stoneVars, clientVars, SessionKept, ViewKept, Role
<1>8. ~Remove(c) /\ \A k \in Keys : ~DelItem(c, k)
  BY DEF Remove, DelItem
<1>9. QED
  BY <1>2, <1>3, <1>4, <1>5, <1>6, <1>7, <1>8 DEF StoreNext

(* The session of run_transaction_with_retry stays right.                  *)
LEMMA WorkKept ==
  ASSUME TypeOK, ~mode.deletes, Kept, NEW c \in Clients,
         Role(c) # "gstore", RetryNext(c), UNCHANGED storeVars
  PROVE  SessionKept(c)'
<1> USE DEF TypeOK, StoneTypeOK, StoreTypeOK
<1>1. SessionKept(c) /\ db[Entry] # Absent
  BY DEF Kept
<1>2. mode' = mode /\ UNCHANGED <<dirty, deletes>>
  BY DEF RetryNext, Start, WorkEnds, TryCommit, Notify, NextAttempt, AbortWork,
         Work, storeVars
<1>3. attempt'[c] # 0
  BY <1>1 DEF RetryNext, Start, WorkEnds, TryCommit, Notify, NextAttempt,
              AbortWork, Work, clientVars, SessionKept
<1>4. CASE Refresh(c) /\ phase'[c] # "idle"
  BY <1>2, <1>3, <1>4, FreshKept
<1>5. CASE Logout(c) /\ phase'[c] = "done"
  BY <1>2, <1>3, <1>5, FreshKept
<1>6. CASE UNCHANGED stoneVars /\ (phase[c] # "done" \/ phase'[c] = "done")
  BY <1>1, <1>2, <1>3, <1>6
     DEF stoneVars, SessionKept, ViewKept, WorkCarries, Role
<1>7. ASSUME NEW k \in Keys, Work(c, k) PROVE SessionKept(c)'
  <2>1. /\ ViewKept(c) /\ WorkCarries(c)
        /\ db' = db /\ stale' = stale
        /\ written'[c] = written[c] \cup {k}
        /\ UNCHANGED <<phase, attempt>>
    BY <1>1, <1>7 DEF SessionKept, ViewKept, Work, WriteView, clientVars
  <2>2. /\ view'[c][k] = Updated(c, view[c][k])
        /\ \A l \in Locations \ {k} : view'[c][l] = view[c][l]
        /\ view[c][k] \in Values
    BY <1>7 DEF Work, WriteView, Locations
  <2>3. ASSUME NEW q \in (Keys \cap written'[c]) \ stale[c]
        PROVE  Carries(c, db[q], view'[c][q])
    <3>1. CASE q = k
      <4>1. Updates(db[k]) \cup {c} = Updates(view[c][k]) \cup {c}
        BY <2>1, <2>3, <3>1 DEF ViewKept, WorkCarries, Carries
      <4>2. QED  BY <2>2, <3>1, <4>1, UpdateAdds DEF Carries
    <3>2. CASE q # k
      BY <2>1, <2>2, <2>3, <3>2 DEF WorkCarries, Locations
    <3>3. QED  BY <3>1, <3>2
  <2>4. QED
    BY <1>1, <1>2, <2>1, <2>2, <2>3, LocationsAssumption
       DEF SessionKept, ViewKept, WorkCarries, Role, Locations
<1>8. CASE TryCommit(c) /\ view'[c] = db' /\ stale'[c] = {} /\ written'[c] = {}
           /\ db'[Entry] = db[Entry] /\ phase'[c] # "idle"
  BY <1>1, <1>2, <1>3, <1>8 DEF SessionKept, ViewKept, WorkCarries, Role
<1>9. CASE TryCommit(c) /\ Land(c, view[c], written[c], written[c] \ {Entry})
  <2>1. db'[Entry] = db[Entry]
    BY <1>1, <1>9 DEF SessionKept, Land, Reachable, Locations
  <2>2. QED  BY <1>8, <1>9, <2>1 DEF Land, TryCommit, Done, Goto
<1>10. QED
  BY <1>4, <1>5, <1>6, <1>7, <1>9
     DEF RetryNext, Start, WorkEnds, TryCommit, Notify, NextAttempt, AbortWork,
         LeaveSession, Done, Goto

(* Every step keeps the views right.                                       *)
LEMMA KeptStep ==
  ASSUME TypeOK, Control, Kept, [Next]_vars
  PROVE  Kept'
<1>1. ASSUME NEW c \in Clients, Step(c), ~mode.deletes PROVE Kept'
  <2>1. Quiet(c) \/ \E R \in SUBSET Keys : Lands(c, R)
    BY <1>1, QuietOrLands
  <2>2. ASSUME NEW d \in Clients PROVE SessionKept(d)'
    <3>1. CASE d # c  BY <1>1, <3>1, OthersKept
    <3>2. CASE d = c  BY <1>1, <2>1, <3>2, BlockKept, WorkKept DEF Step
    <3>3. QED  BY <3>1, <3>2
  <2>3. Entry \in Locations /\ \A R \in SUBSET Keys : Entry \notin R
    BY LocationsAssumption DEF Locations
  <2>4. db'[Entry] = db[Entry]
    BY <2>1, <2>3 DEF Quiet, Lands
  <2>5. QED  BY <1>1, <2>2, <2>4 DEF Kept
<1>2. ASSUME NEW c \in Clients, Step(c) PROVE mode' = mode
  BY <1>2 DEF Step, StoreNext, Open, Leave, Commit, Retry, Undo, Remove,
              SetItem, DelItem, RetryNext, Start, WorkEnds, TryCommit, Notify,
              NextAttempt, AbortWork, Work
<1>3. CASE UNCHANGED vars
  BY <1>3 DEF vars, stoneVars, clientVars, storeVars, Kept, SessionKept,
              ViewKept, BlockCarries, WorkCarries, Buffered, Role
<1>4. QED  BY <1>1, <1>2, <1>3, NextIsStep DEF Kept

-----------------------------------------------------------------------------
(* No update is lost as long as every block that landed did so on its      *)
(* first attempt.                                                          *)
FirstAttempts ==
  \A c \in Clients : Role(c) = "gstore" /\ landed[c] # {} => attempt[c] = 1

UpdatesKept ==
  ~mode.deletes /\ FirstAttempts =>
    \A c \in Clients : \A k \in landed[c] : c \in Updates(db[k])

(* A step leaves the updates that landed before it, and the ones it lands, *)
(* in what is committed.                                                   *)
LEMMA UpdatesStep ==
  ASSUME TypeOK, Control, Kept, UpdatesKept, [Next]_vars
  PROVE  UpdatesKept'
<1> USE DEF TypeOK, StoneTypeOK
<1>1. ASSUME NEW c \in Clients, Step(c), mode' = mode, ~mode.deletes,
             FirstAttempts',
             NEW d \in Clients, NEW k \in landed'[d]
      PROVE  d \in Updates(db'[k])
  <2>1. FirstAttempts
    BY <1>1, LandedIsOver, OthersKeep DEF FirstAttempts, SameCall, Role
  <2>2. \A q \in landed[d] : d \in Updates(db[q])
    BY <1>1, <2>1 DEF UpdatesKept
  <2>3. CASE Quiet(c)
    BY <1>1, <2>2, <2>3 DEF Quiet
  <2>4. ASSUME NEW R \in SUBSET Keys, Lands(c, R)
        PROVE  d \in Updates(db'[k])
    <3>1. ASSUME k \in R
          PROVE  Updates(db[k]) \cup {c} \subseteq Updates(db'[k])
      <4>1. landed'[c] = R /\ attempt'[c] = attempt[c]
        BY <2>4 DEF Lands
      <4>2. Role(c) # "gstore" \/ attempt[c] = 1
        BY <1>1, <3>1, <4>1 DEF FirstAttempts, Role
      <4>3. QED  BY <2>4, <3>1, <4>2 DEF Lands, Carries
    <3>2. k \notin R => d # c /\ db'[k] = db[k] /\ k \in Keys
      BY <1>1, <2>4 DEF Lands, Locations
    <3>3. d # c => landed'[d] = landed[d]
      BY <2>4 DEF Lands
    <3>4. CASE d = c  BY <3>1, <3>2, <3>4
    <3>5. CASE d # c  BY <1>1, <2>2, <3>1, <3>2, <3>3, <3>5
    <3>6. QED  BY <3>4, <3>5
  <2>5. QED  BY <1>1, <2>3, <2>4, QuietOrLands
<1>2. ASSUME NEW c \in Clients, Step(c) PROVE mode' = mode
  BY <1>2 DEF Step, StoreNext, Open, Leave, Commit, Retry, Undo, Remove,
              SetItem, DelItem, RetryNext, Start, WorkEnds, TryCommit, Notify,
              NextAttempt, AbortWork, Work
<1>3. CASE UNCHANGED vars
  BY <1>3 DEF vars, stoneVars, clientVars, UpdatesKept, FirstAttempts, Role
<1>4. QED  BY <1>1, <1>2, <1>3, NextIsStep DEF UpdatesKept

(* The inductive invariant.                                                *)
IInv == TypeOK /\ Control /\ Kept /\ UpdatesKept

(* It holds along every behaviour.                                         *)
THEOREM Invariance == Spec => []IInv
<1>1. Init => Kept
  <2> SUFFICES ASSUME Init PROVE Kept
    OBVIOUS
  <2>1. /\ db[Entry] = {} /\ {} # Absent
        /\ \A k \in Keys : k \in Locations
    BY LocationsAssumption DEF Init, StoneInit, Locations
  <2>2. ASSUME NEW c \in Clients PROVE SessionKept(c)
    <3>1. /\ view[c] = db /\ written[c] = {} /\ stale[c] = {}
          /\ attempt[c] = 1 /\ deletes[c] = {} /\ Buffered(c) = {}
      BY DEF Init, StoneInit, StoreInit, Buffered
    <3>2. BlockCarries(c) /\ WorkCarries(c)
      BY <3>1 DEF BlockCarries, WorkCarries
    <3>3. QED  BY <2>1, <3>1, <3>2 DEF SessionKept, ViewKept
  <2>3. QED  BY <2>1, <2>2 DEF Kept
<1>2. Init => UpdatesKept
  BY DEF Init, StoneInit, UpdatesKept
<1>3. TypeOK /\ Control /\ Kept /\ UpdatesKept /\ [Next]_vars
        => Kept' /\ UpdatesKept'
  BY KeptStep, UpdatesStep
<1>4. QED  BY <1>1, <1>2, <1>3, Controlled, PTL DEF Spec, IInv

(* Updates get lost through GStore's second attempts, which write values   *)
(* computed from the first snapshot, and through nothing else.             *)
THEOREM ReplaysLoseUpdates == Spec => []OnlyReplaysLoseUpdates
<1>1. IInv => OnlyReplaysLoseUpdates
  BY DEF IInv, UpdatesKept, FirstAttempts, OnlyReplaysLoseUpdates,
         NoLostUpdate, Updates
<1>2. QED  BY <1>1, Invariance, PTL

(* Work done through run_transaction_with_retry alone loses no update,     *)
(* however many clients contend and however often each has to try again.   *)
THEOREM RetriedWorkKeepsUpdates ==
  Spec => []((\A c \in Clients : Role(c) # "gstore") => NoLostUpdate)
<1>1. OnlyReplaysLoseUpdates =>
        ((\A c \in Clients : Role(c) # "gstore") => NoLostUpdate)
  BY DEF OnlyReplaysLoseUpdates
<1>2. QED  BY <1>1, ReplaysLoseUpdates, PTL

-----------------------------------------------------------------------------
(* The refinement of AtomicUpdates.  A client that is told "ok" has landed *)
(* all it wanted, which is nothing for a read-only block.                  *)
ToldWhole(c) ==
  /\ Role(c) = "gstore" /\ (phase[c] = "idle" \/ readOnly[c]) => Buffered(c) = {}
  /\ Role(c) = "gstore" /\ phase[c] = "undo" /\ exit[c] = "clean" => readOnly[c]
  /\ result[c] = "ok" => WantedBy(c) = landed[c]

ToldInv == \A c \in Clients : ToldWhole(c)

(* What is wanted is the same while nothing that it is made of changes.    *)
LEMMA WantedSame ==
  ASSUME NEW d, mode' = mode, landed'[d] = landed[d],
         IF Role(d) = "gstore" THEN dirty'[d] = dirty[d] ELSE written'[d] = written[d]
  PROVE  WantedBy(d)' = WantedBy(d)
BY DEF WantedBy, Buffered, Role

(* A user of GStore is told so only then.                                  *)
LEMMA StoreToldStep ==
  ASSUME TypeOK, Control, NEW c \in Clients, Role(c) = "gstore", StoreNext(c), ToldWhole(c)
  PROVE  ToldWhole(c)'
<1> USE DEF TypeOK, StoneTypeOK, StoreTypeOK, ToldWhole, Role, stoneVars, clientVars, storeVars,
            Goto, Done, Buffered
<1>0. result[c] # "none" => phase[c] = "done"
  BY DEF Control, ControlOf, LandsAtEnd
<1>1. CASE Open(c)  BY <1>0, <1>1 DEF Open
<1>2. CASE Leave(c)  BY <1>0, <1>2 DEF Leave, Commits
<1>3. CASE Commit(c)
  <2>1. CASE Land(c, Flushed(c), FlushWrites(c), Buffered(c))
    <3>1. landed'[c] = Buffered(c) /\ Buffered(c)' = Buffered(c)
      BY <1>3, <2>1 DEF Commit, Land
    <3>2. QED  BY <1>3, <3>1 DEF Commit, WantedBy
  <2>2. CASE ~Land(c, Flushed(c), FlushWrites(c), Buffered(c))
    BY <1>0, <1>3, <2>2 DEF Commit
  <2>3. QED  BY <2>1, <2>2
<1>4. CASE Retry(c)  BY <1>0, <1>4 DEF Retry
<1>5. CASE Undo(c)
  <2>1. landed[c] = {} /\ landed' = landed /\ mode' = mode /\ Buffered(c)' = Buffered(c)
    BY <1>5 DEF Undo, Control, ControlOf, LandsAtEnd
  <2>2. result'[c] = "ok" => Buffered(c) = {}
    BY <1>5 DEF Undo
  <2>3. QED  BY <1>5, <2>1, <2>2 DEF Undo, WantedBy
<1>6. CASE Remove(c)
  <2>1. landed[c] = {} /\ landed' = landed /\ mode' = mode /\ Buffered(c)' = Buffered(c)
    BY <1>6 DEF Remove, Control, ControlOf, LandsAtEnd
  <2>2. QED  BY <1>6, <2>1 DEF Remove, WantedBy
<1>7. ASSUME NEW k \in Keys, SetItem(c, k) \/ DelItem(c, k) PROVE ToldWhole(c)'
  BY <1>0, <1>7 DEF SetItem, DelItem
<1>8. QED
  BY <1>1, <1>2, <1>3, <1>4, <1>5, <1>6, <1>7 DEF StoreNext

(* And so is a user of run_transaction_with_retry.                         *)
LEMMA RetryToldStep ==
  ASSUME TypeOK, Control, NEW c \in Clients, Role(c) # "gstore", RetryNext(c),
         UNCHANGED storeVars, ToldWhole(c)
  PROVE  ToldWhole(c)'
<1> USE DEF TypeOK, StoneTypeOK, ToldWhole, Role, clientVars, Goto, Done
<1>0. result[c] # "none" => phase[c] = "done"
  BY DEF Control, ControlOf, LandsAtEnd
<1>1. CASE TryCommit(c)
  <2>1. CASE Land(c, view[c], written[c], written[c] \ {Entry})
    <3>1. landed'[c] = written[c] \ {Entry} /\ written'[c] = {} /\ mode' = mode
      BY <1>1, <2>1 DEF TryCommit, Land
    <3>2. QED  BY <3>1 DEF WantedBy
  <2>2. CASE ~Land(c, view[c], written[c], written[c] \ {Entry})
    BY <1>0, <1>1, <2>2 DEF TryCommit
  <2>3. QED  BY <2>1, <2>2
<1>2. CASE ~TryCommit(c)
  <2>1. mode' = mode /\ result'[c] # "ok"
    BY <1>0, <1>2 DEF RetryNext, Start, WorkEnds, Notify, NextAttempt, AbortWork, Work
  <2>2. QED  BY <2>1
<1>3. QED  BY <1>1, <1>2

(* Whoever takes the step.                                                 *)
LEMMA ToldStep ==
  ASSUME TypeOK, Control, ToldInv, [Next]_vars
  PROVE  ToldInv'
<1>1. ASSUME NEW c \in Clients, Step(c), NEW d \in Clients PROVE ToldWhole(d)'
  <2>1. CASE d = c
    BY <1>1, <2>1, StoreToldStep, RetryToldStep DEF Step, ToldInv
  <2>2. CASE d # c
    BY <1>1, <2>2, OthersKeep, WantedSame
       DEF SameCall, SameBlock, SameSession, ToldInv, ToldWhole, Role, Buffered
  <2>3. QED  BY <2>1, <2>2
<1>2. CASE UNCHANGED vars
  BY <1>2 DEF vars, stoneVars, clientVars, storeVars, ToldInv, ToldWhole, WantedBy, Buffered, Role
<1>3. QED  BY <1>1, <1>2, NextIsStep DEF ToldInv

(* What a step of the two does to the client's own call, besides landing.  *)
Advances(c) ==
  /\ result[c] = "none" /\ mode' = mode
  /\ result'[c] = "none" =>
       /\ landed[c] = {}
       /\ attempt'[c] # attempt[c] /\ Role(c) = "gstore" =>
            attempt'[c] = attempt[c] + 1 /\ UNCHANGED dirty
  /\ result'[c] # "none" =>
       /\ attempt' = attempt
       /\ Role(c) = "gstore" => UNCHANGED dirty
       /\ Role(c) # "gstore" => written'[c] \in {written[c], {}}
  /\ result'[c] = "ok" /\ Role(c) # "gstore" =>
       landed[c] = {} /\ landed'[c] = written[c] \ {Entry}

(* A step of a user of GStore does no more than that.                      *)
LEMMA StoreAdvances ==
  ASSUME TypeOK, Control, NEW c \in Clients, Role(c) = "gstore", StoreNext(c)
  PROVE  Advances(c)
<1> USE DEF TypeOK, StoneTypeOK, Advances, clientVars, storeVars, Goto, Done
<1>0. /\ result[c] # "none" => phase[c] = "done"
      /\ landed[c] # {} => phase[c] = "done"
  BY DEF Control, ControlOf, LandsAtEnd
<1>1. CASE Open(c)  BY <1>0, <1>1 DEF Open
<1>2. CASE Leave(c)  BY <1>0, <1>2 DEF Leave
<1>3. CASE Commit(c)  BY <1>0, <1>3 DEF Commit
<1>4. CASE Retry(c)  BY <1>0, <1>4 DEF Retry
<1>5. CASE Undo(c)  BY <1>0, <1>5 DEF Undo
<1>6. CASE Remove(c)  BY <1>0, <1>6 DEF Remove
<1>7. ASSUME NEW k \in Keys, SetItem(c, k) \/ DelItem(c, k) PROVE Advances(c)
  BY <1>0, <1>7 DEF SetItem, DelItem
<1>8. QED
  BY <1>1, <1>2, <1>3, <1>4, <1>5, <1>6, <1>7 DEF StoreNext

(* Nor does one of a user of run_transaction_with_retry.                   *)
LEMMA RetryAdvances ==
  ASSUME TypeOK, Control, NEW c \in Clients, Role(c) # "gstore", RetryNext(c)
  PROVE  Advances(c)
<1> USE DEF TypeOK, StoneTypeOK, Advances, clientVars, Goto, Done
<1>0. /\ result[c] # "none" => phase[c] = "done"
      /\ landed[c] # {} => phase[c] \in {"done", "undo"}
  BY DEF Control, ControlOf, LandsAtEnd
<1>1. /\ Refresh(c) \/ Logout(c) => written'[c] = {}
      /\ UNCHANGED stoneVars => written'[c] = written[c]
      /\ LeaveSession(c) => written'[c] \in {written[c], {}}
  BY DEF Refresh, Logout, LeaveSession, stoneVars
<1>2. CASE Start(c)  BY <1>0, <1>1, <1>2 DEF Start
<1>3. CASE WorkEnds(c)  BY <1>0, <1>1, <1>3 DEF WorkEnds
<1>4. CASE TryCommit(c)  BY <1>0, <1>1, <1>4 DEF TryCommit, Land
<1>5. CASE Notify(c)  BY <1>0, <1>1, <1>5 DEF Notify
<1>6. CASE NextAttempt(c)  BY <1>0, <1>1, <1>6 DEF NextAttempt
<1>7. CASE AbortWork(c)  BY <1>0, <1>1, <1>7 DEF AbortWork
<1>8. ASSUME NEW k \in Keys, Work(c, k) PROVE Advances(c)
  BY <1>0, <1>8 DEF Work
<1>9. QED
  BY <1>2, <1>3, <1>4, <1>5, <1>6, <1>7, <1>8 DEF RetryNext

(* The abstract state, where one client's part of it changes.              *)
LEMMA OnlyOwnPart ==
  ASSUME TypeOK, TypeOK', NEW c \in Clients, Step(c), Advances(c)
  PROVE  /\ result' = [result EXCEPT ![c] = result'[c]]
         /\ Wants' = [Wants EXCEPT ![c] = WantedBy(c)']
         /\ Wants[c] = WantedBy(c) /\ WantedBy(c)' \in SUBSET Keys
         /\ (Role(c) = "gstore" => attempt'[c] = attempt[c]) => Replaying' = Replaying
         /\ Role(c) = "gstore" /\ attempt'[c] # 1 => Replaying' = Replaying \cup {c}
<1>1. \A d \in Clients \ {c} :
        /\ SameCall(d) /\ WantedBy(d)' = WantedBy(d)
  BY OthersKeep, WantedSame DEF SameCall, SameBlock, SameSession
<1>2. mode' = mode
  BY DEF Advances
<1>3. result' = [result EXCEPT ![c] = result'[c]]
  BY <1>1 DEF TypeOK, StoneTypeOK, SameCall
<1>4. Wants' = [Wants EXCEPT ![c] = WantedBy(c)'] /\ Wants[c] = WantedBy(c)
  BY <1>1 DEF Wants
<1>5. WantedBy(c)' \in SUBSET Keys
  BY DEF WantedBy, Buffered, TypeOK, StoneTypeOK, StoreTypeOK, Locations
<1>6. (Role(c) = "gstore" => attempt'[c] = attempt[c]) => Replaying' = Replaying
  BY <1>1, <1>2 DEF Replaying, SameCall, Role
<1>7. Role(c) = "gstore" /\ attempt'[c] # 1 => Replaying' = Replaying \cup {c}
  BY <1>1, <1>2 DEF Replaying, SameCall, Role
<1>8. QED  BY <1>3, <1>4, <1>5, <1>6, <1>7

(* A step that commits nothing is one of the client's work, the start of a *)
(* replay, or the end of the call.                                         *)
LEMMA QuietIsAtomic ==
  ASSUME TypeOK, TypeOK', Control, Control', Kept, ToldInv, ToldInv', ~mode.deletes,
         NEW c \in Clients, Step(c), Advances(c), Quiet(c)
  PROVE  Atomic!Next
<1> Store' = Store /\ landed' = landed
  BY DEF Quiet, Store, Updates
<1> /\ result' = [result EXCEPT ![c] = result'[c]]
    /\ Wants' = [Wants EXCEPT ![c] = WantedBy(c)']
    /\ Wants[c] = WantedBy(c) /\ WantedBy(c)' \in SUBSET Keys
    /\ (Role(c) = "gstore" => attempt'[c] = attempt[c]) => Replaying' = Replaying
    /\ Role(c) = "gstore" /\ attempt'[c] # 1 => Replaying' = Replaying \cup {c}
  BY OnlyOwnPart
<1>1. result[c] = "none" /\ result'[c] \in Results
  BY DEF Advances, TypeOK, StoneTypeOK
<1>2. CASE result'[c] = "none"
  <2>1. Atomic!Undecided(c) /\ result' = result
    BY <1>1, <1>2 DEF Atomic!Undecided, Advances, TypeOK, StoneTypeOK
  <2>2. CASE Role(c) = "gstore" => attempt'[c] = attempt[c]
    <3>1. Atomic!Prepare(c, WantedBy(c)')
      BY <2>1, <2>2 DEF Atomic!Prepare
    <3>2. QED  BY <3>1 DEF Atomic!Next
  <2>3. CASE Role(c) = "gstore" /\ attempt'[c] # attempt[c]
    <3>1. attempt'[c] # 1
      <4>1. attempt'[c] = attempt[c] + 1 /\ attempt[c] \in Nat /\ attempt[c] # 0
        BY <1>2, <2>3 DEF Advances, Kept, SessionKept, TypeOK, StoneTypeOK
      <4>2. \A n \in Nat : n # 0 => n + 1 # 1
        OBVIOUS
      <4>3. QED  BY <4>1, <4>2, Zenon
    <3>2. WantedBy(c)' = WantedBy(c)
      BY <1>2, <2>3, WantedSame DEF Advances
    <3>3. Wants' = Wants
      BY <3>2 DEF Wants
    <3>4. Atomic!Replay(c)
      BY <2>1, <2>3, <3>1, <3>3 DEF Atomic!Replay
    <3>5. QED  BY <3>4 DEF Atomic!Next
  <2>4. QED  BY <2>2, <2>3
<1>3. CASE result'[c] # "none"
  <2>1. Replaying' = Replaying
    BY <1>3 DEF Advances
  <2>2. result'[c] \in {"aborted", "exhausted"} => landed[c] = {}
    BY DEF Control, ControlOf, ToldTrue
  <2>3. ToldWhole(c)'
    BY DEF ToldInv
  <2>4. WantedBy(c)' \in {WantedBy(c), landed[c]}
    <3>1. CASE Role(c) = "gstore"
      BY <1>3, <3>1, WantedSame DEF Advances
    <3>2. CASE Role(c) # "gstore"
      BY <1>3, <3>2 DEF Advances, WantedBy, Role
    <3>3. QED  BY <3>1, <3>2
  <2>5. result'[c] = "ok" => landed[c] = Wants[c]
    <3>1. CASE Role(c) = "gstore"
      BY <1>3, <2>3, <3>1, WantedSame DEF Advances, ToldWhole
    <3>2. CASE Role(c) # "gstore"
      BY <1>3, <3>2 DEF Advances, WantedBy
    <3>3. QED  BY <3>1, <3>2
  <2>6. Wants' \in {Wants, [Wants EXCEPT ![c] = landed[c]]}
    BY <2>4 DEF Wants
  <2>7. Atomic!Tell(c, result'[c])
    BY <1>1, <2>1, <2>2, <2>5, <2>6 DEF Atomic!Tell
  <2>8. QED  BY <1>1, <1>3, <2>7 DEF Atomic!Next, Results
<1>4. QED  BY <1>2, <1>3

(* A commit of something is an update of all that the client wants.        *)
LEMMA LandingIsAtomic ==
  ASSUME TypeOK, TypeOK', Control', NEW c \in Clients, Step(c), Advances(c),
         NEW R \in SUBSET Keys, Lands(c, R), R # {}
  PROVE  Atomic!Next
<1> /\ result' = [result EXCEPT ![c] = result'[c]]
    /\ Wants' = [Wants EXCEPT ![c] = WantedBy(c)']
    /\ Wants[c] = WantedBy(c) /\ WantedBy(c)' \in SUBSET Keys
    /\ (Role(c) = "gstore" => attempt'[c] = attempt[c]) => Replaying' = Replaying
  BY OnlyOwnPart
<1>1. R = WantedBy(c) /\ landed' = [landed EXCEPT ![c] = R] /\ landed'[c] = R
  BY DEF Lands, TypeOK, StoneTypeOK
<1>2. Wants' = Wants
  <2>1. WantedBy(c)' = WantedBy(c)
    BY <1>1 DEF WantedBy
  <2>2. QED  BY <2>1 DEF Wants
<1>3. Replaying' = Replaying
  BY DEF Lands
<1>4. Atomic!Undecided(c)
  BY DEF Atomic!Undecided, Advances, Lands
<1>5. result'[c] \in {"none", "ok", "raised"}
  BY <1>1 DEF TypeOK, StoneTypeOK, Results, Control, ControlOf, ToldTrue
<1>6. \A k \in Keys \ R : Updates(db'[k]) = Updates(db[k])
  BY DEF Lands, Locations
<1>7. \A k \in Keys : Updates(db'[k]) \in SUBSET Clients
  BY DEF TypeOK, StoneTypeOK, Locations, Values, Updates
<1>8. CASE c \in Replaying
  <2> DEFINE values == [k \in R |-> Updates(db'[k])]
  <2>1. values \in [R -> SUBSET Clients] /\ \A k \in R : c \in values[k]
    BY <1>7 DEF Lands
  <2>2. Store' = [k \in Keys |-> IF k \in R THEN values[k] ELSE Store[k]]
    BY <1>6 DEF Store
  <2> HIDE DEF values
  <2>3. Atomic!Update(c)
    BY <1>1, <1>2, <1>3, <1>4, <1>5, <1>8, <2>1, <2>2 DEF Atomic!Update
  <2>4. QED  BY <2>3 DEF Atomic!Next
<1>9. CASE c \notin Replaying
  <2>1. \A k \in R : Updates(db'[k]) = Updates(db[k]) \cup {c}
    BY <1>9 DEF Lands, Replaying, Carries
  <2>2. Store' = [k \in Keys |-> IF k \in R THEN Store[k] \cup {c} ELSE Store[k]]
    BY <1>6, <2>1 DEF Store
  <2>3. Atomic!Update(c)
    BY <1>1, <1>2, <1>3, <1>4, <1>5, <1>9, <2>2 DEF Atomic!Update
  <2>4. QED  BY <2>3 DEF Atomic!Next
<1>10. QED  BY <1>8, <1>9

(* A commit of nothing changes nothing.                                    *)
LEMMA EmptyLandingIsQuiet ==
  ASSUME TypeOK, TypeOK', NEW c \in Clients, Lands(c, {})
  PROVE  Quiet(c)
BY DEF Lands, Quiet, TypeOK, StoneTypeOK

(* Transactions are atomic updates: for any number of clients, keys and    *)
(* attempts, whoever uses which interface, and whatever fails.             *)
THEOREM TransactionsAreAtomic == Spec => UpdatesAreAtomic
<1>1. Init => Atomic!Init
  <2> SUFFICES ASSUME Init PROVE Atomic!Init
    OBVIOUS
  <2>1. Store = [k \in Keys |-> {}]
    BY LocationsAssumption DEF Init, StoneInit, Store, Updates, Locations
  <2>2. Wants = [c \in Clients |-> {}]
    <3>1. \A c \in Clients : landed[c] = {} /\ Buffered(c) = {} /\ written[c] \ {Entry} = {}
      BY DEF Init, StoneInit, StoreInit, Buffered
    <3>2. QED  BY <3>1 DEF Wants, WantedBy
  <2>3. Replaying = {}
    BY DEF Init, StoneInit, Replaying
  <2>4. QED  BY <2>1, <2>2, <2>3 DEF Init, StoneInit, Atomic!Init
<1>2. Init => ToldInv
  BY DEF Init, StoneInit, StoreInit, ToldInv, ToldWhole, Buffered
<1>3. IInv /\ ToldInv /\ [Next]_vars => ToldInv'
  BY ToldStep DEF IInv
<1>4. IInv /\ IInv' /\ ToldInv /\ ToldInv' /\ [Next]_vars =>
        [mode.deletes \/ Atomic!Next]_(Atomic!updateVars)
  <2> SUFFICES ASSUME IInv, IInv', ToldInv, ToldInv', [Next]_vars, ~mode.deletes
               PROVE  Atomic!Next \/ UNCHANGED Atomic!updateVars
    OBVIOUS
  <2> USE DEF IInv
  <2>1. ASSUME NEW c \in Clients, Step(c) PROVE Atomic!Next
    <3>1. Advances(c)
      BY <2>1, StoreAdvances, RetryAdvances DEF Step
    <3>2. CASE Quiet(c)
      BY <2>1, <3>1, <3>2, QuietIsAtomic
    <3>3. ASSUME NEW R \in SUBSET Keys, Lands(c, R) PROVE Atomic!Next
      BY <2>1, <3>1, <3>2, <3>3, LandingIsAtomic, EmptyLandingIsQuiet
    <3>4. QED  BY <2>1, <3>2, <3>3, QuietOrLands
  <2>2. CASE UNCHANGED vars
    BY <2>2 DEF vars, stoneVars, clientVars, storeVars, Atomic!updateVars, Store, Updates, Wants,
                WantedBy, Buffered, Role, Replaying
  <2>3. QED  BY <2>1, <2>2, NextIsStep
<1>5. Spec => []IInv
  BY Invariance
<1>6. QED  BY <1>1, <1>2, <1>3, <1>4, <1>5, PTL DEF Spec, UpdatesAreAtomic

=============================================================================
