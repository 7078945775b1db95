-------------------------- MODULE SessionPoolProofs --------------------------
(***************************************************************************)
(* Proofs about SessionPool for every number of threads and sessions and   *)
(* every maxsize.                                                          *)
(***************************************************************************)
EXTENDS SessionPool, FiniteSetTheorems, TLAPS

-----------------------------------------------------------------------------
(* A thread refers to a session exactly at the labels where it holds one:  *)
(* what makes the type of the queue inductive.                             *)
HeldAtLabel == \A t \in Threads : cur[t] \in Sessions <=> pc[t] \in Holding

TypeInv == TypeOK /\ HeldAtLabel

(* The initial state has its type.                                         *)
LEMMA TypeInit ==
  ASSUME Init
  PROVE  TypeInv
<1> USE DEF HeldAtLabel, Holding, Labels, Calls
<1>0. closed \in BOOLEAN /\ stop \in BOOLEAN /\ orderly \in BOOLEAN
  BY DEF Init
<1>1. /\ created \in Int
      /\ avail \subseteq Sessions /\ live \subseteq Sessions
      /\ dirty \subseteq Sessions
  BY DEF Init
<1>2. /\ owner \in [Sessions -> Threads \cup {NoThread}]
      /\ cur \in [Threads -> Sessions \cup {NoSession}]
  BY DEF Init
<1>3. pc \in [Threads -> Labels] /\ op \in [Threads -> Calls]
  BY DEF Init
<1>4. /\ todo \in [Threads -> SUBSET Sessions]
      /\ keep \in [Threads -> SUBSET Sessions]
      /\ left \in [Threads -> Int]
  BY DEF Init
<1>5. QED
  BY <1>0, <1>1, <1>2, <1>3, <1>4, SessionsAssumption DEF Init, TypeInv, TypeOK

(* Every step keeps the types.                                             *)
LEMMA TypeStep ==
  ASSUME TypeInv, [Next]_vars
  PROVE  TypeInv'
<1>0. orderly' \in BOOLEAN
  <2>1. CASE Next  BY <2>1 DEF Next, Note
  <2>2. CASE UNCHANGED vars  BY <2>2, Zenon DEF vars, TypeInv, TypeOK
  <2>3. QED  BY <2>1, <2>2
<1> USE <1>0, SessionsAssumption
    DEF TypeInv, TypeOK, HeldAtLabel, Holding, Labels, Calls
<1>1. ASSUME NEW t \in Threads, Step(t) PROVE TypeInv'
  <2> USE DEF poolVars, sessionVars, threadVars, Enter, Goto, Return, Hold
  <2>1. CASE AcquireGet(t)  BY <2>1 DEF AcquireGet, Take
  <2>2. CASE AcquireReserve(t)  BY <2>2 DEF AcquireReserve
  <2>3. CASE Create(t)  BY <2>3 DEF Create, Fresh
  <2>4. CASE Prepare(t)  BY <2>4 DEF Prepare
  <2>5. CASE AcquireDeadline(t)  BY <2>5 DEF AcquireDeadline
  <2>6. CASE AcquireWake(t)  BY <2>6 DEF AcquireWake, Take
  <2>7. CASE AcquireTimeout(t)  BY <2>7 DEF AcquireTimeout
  <2>8. CASE ReleaseReset(t)  BY <2>8 DEF ReleaseReset
  <2>9. CASE ReleaseHealth(t)  BY <2>9 DEF ReleaseHealth
  <2>10. CASE ReleasePut(t)  BY <2>10 DEF ReleasePut, PutOrDiscard
  <2>11. CASE Discard(t)  BY <2>11 DEF Discard, Logout
  <2>12. CASE Decrement(t)  BY <2>12 DEF Decrement, Resume
  <2>13. CASE WarmReserve(t)  BY <2>13 DEF WarmReserve
  <2>14. CASE WarmHealth(t)  BY <2>14 DEF WarmHealth
  <2>15. CASE WarmPut(t)  BY <2>15 DEF WarmPut, PutOrDiscard
  <2>16. CASE Drain(t)  BY <2>16 DEF Drain
  <2>17. CASE SweepCheck(t)  BY <2>17 DEF SweepCheck
  <2>18. CASE SweepPut(t)  BY <2>18 DEF SweepPut, PutOrDiscard
  <2>19. CASE CloseStop(t)  BY <2>19 DEF CloseStop
  <2>20. CASE CloseJoin(t)  BY <2>20 DEF CloseJoin
  <2>21. CASE CloseDiscard(t)  BY <2>21 DEF CloseDiscard
  <2>22. QED  BY <1>1, <2>1, <2>2, <2>3, <2>4, <2>5, <2>6, <2>7, <2>8, <2>9,
              <2>10, <2>11, <2>12, <2>13, <2>14, <2>15, <2>16, <2>17, <2>18,
              <2>19, <2>20, <2>21 DEF Step
<1>2. ASSUME NEW t \in Threads, Borrower(t) PROVE TypeInv'
  <2> USE DEF poolVars, sessionVars, threadVars, Enter
  <2>1. CASE CallAcquire(t)  BY <2>1 DEF CallAcquire
  <2>2. CASE CallWarm(t)  BY <2>2 DEF CallWarm
  <2>3. CASE CallSweep(t)  BY <2>3 DEF CallSweep
  <2>4. CASE CallClose(t)  BY <2>4 DEF CallClose
  <2>5. CASE Write(t)  BY <2>5 DEF Write, Using, CanCall
  <2>6. CASE Settle(t)  BY <2>6 DEF Settle
  <2>7. CASE BorrowerLogout(t)  BY <2>7 DEF BorrowerLogout, Logout
  <2>8. ASSUME NEW discard \in BOOLEAN, NEW clean \in BOOLEAN,
               CallRelease(t, discard, clean)
        PROVE TypeInv'
    BY <2>8 DEF CallRelease
  <2>9. QED  BY <1>2, <2>1, <2>2, <2>3, <2>4, <2>5, <2>6, <2>7, <2>8
             DEF Borrower
<1>3. CASE UNCHANGED vars
  BY <1>3 DEF vars, poolVars, sessionVars, threadVars
<1>4. QED  BY <1>1, <1>2, <1>3 DEF Next

(* Type correctness: the state of the pool and of its threads keeps the    *)
(* shape that __init__ gives it, along every call.                         *)
THEOREM TypeCorrect == Spec => []TypeOK
<1>1. Init => TypeInv
  BY TypeInit
<1>2. TypeInv /\ [Next]_vars => TypeInv'
  BY TypeStep
<1>3. TypeInv => TypeOK
  BY DEF TypeInv
<1>4. QED  BY <1>1, <1>2, <1>3, PTL DEF Spec

-----------------------------------------------------------------------------
(* Where the sessions are: the part of the inductive invariant that does   *)
(* not count.  A session on its way to the queue is clean and logged in,   *)
(* and one in the hands of a thread is bound to no other thread.           *)
Ready(s) == s \in live /\ owner[s] = NoThread /\ s \notin dirty

Placed(s) == s \in avail \/ \E t \in Threads : s \in InHands(t)

HeldInOrder(t) ==
  /\ \A s \in todo[t] \cup keep[t] : Ready(s)
  /\ cur[t] \in live => owner[cur[t]] \in {t, NoThread}
  /\ pc[t] = "using" /\ cur[t] \in live => owner[cur[t]] = t
  /\ pc[t] \in {"prepare", "rel_health", "rel_put", "warm_health", "warm_put"}
       => cur[t] \notin dirty
  /\ pc[t] \in {"rel_put", "warm_health", "warm_put"} => cur[t] \in live

Places ==
  /\ ExclusiveSessions
  /\ \A s \in live : Placed(s)
  /\ dirty \subseteq live
  /\ \A s \in avail : Ready(s)
  /\ \A t \in Threads : HeldInOrder(t)

(* Every step keeps the sessions in their places.                          *)
LEMMA PlacesStep ==
  ASSUME TypeInv, TypeInv', Places, NEW t \in Threads, Step(t) \/ Borrower(t)
  PROVE  Places'
<1> USE SessionsAssumption, ThreadsAssumption
    DEF TypeInv, TypeOK, HeldAtLabel, Holding, Places, ExclusiveSessions,
        Placed, Ready, HeldInOrder, InHands,
        poolVars, sessionVars, threadVars, Enter, Goto, Return, Hold
<1>1. CASE AcquireGet(t)  BY <1>1 DEF AcquireGet, Take
<1>2. CASE AcquireReserve(t)  BY <1>2 DEF AcquireReserve
<1>3. CASE Create(t)  BY <1>3 DEF Create, Fresh, Tracked
<1>4. CASE Prepare(t)  BY <1>4 DEF Prepare, CanCall
<1>5. CASE AcquireDeadline(t)  BY <1>5 DEF AcquireDeadline
<1>6. CASE AcquireWake(t)  BY <1>6 DEF AcquireWake, Take
<1>7. CASE AcquireTimeout(t)  BY <1>7 DEF AcquireTimeout
<1>8. CASE ReleaseReset(t)  BY <1>8 DEF ReleaseReset, CanCall
<1>9. CASE ReleaseHealth(t)  BY <1>9 DEF ReleaseHealth
<1>10. CASE ReleasePut(t)  BY <1>10 DEF ReleasePut, PutOrDiscard
<1>11. CASE Discard(t)  BY <1>11 DEF Discard, Logout, CanCall
<1>12. CASE Decrement(t)  BY <1>12 DEF Decrement, Resume
<1>13. CASE WarmReserve(t)  BY <1>13 DEF WarmReserve
<1>14. CASE WarmHealth(t)  BY <1>14 DEF WarmHealth
<1>15. CASE WarmPut(t)  BY <1>15 DEF WarmPut, PutOrDiscard
<1>16. CASE Drain(t)  BY <1>16 DEF Drain
<1>17. CASE SweepCheck(t)  BY <1>17 DEF SweepCheck
<1>18. CASE SweepPut(t)  BY <1>18 DEF SweepPut, PutOrDiscard
<1>19. CASE CloseStop(t)  BY <1>19 DEF CloseStop
<1>20. CASE CloseJoin(t)  BY <1>20 DEF CloseJoin
<1>21. CASE CloseDiscard(t)  BY <1>21 DEF CloseDiscard
<1>22. CASE CallAcquire(t)  BY <1>22 DEF CallAcquire
<1>23. CASE CallWarm(t)  BY <1>23 DEF CallWarm
<1>24. CASE CallSweep(t)  BY <1>24 DEF CallSweep
<1>25. CASE CallClose(t)  BY <1>25 DEF CallClose
<1>26. CASE Write(t)  BY <1>26 DEF Write, Using, CanCall
<1>27. CASE Settle(t)  BY <1>27 DEF Settle, Using, CanCall
<1>28. CASE BorrowerLogout(t)  BY <1>28 DEF BorrowerLogout, Logout, Using, CanCall
<1>29. ASSUME NEW discard \in BOOLEAN, NEW clean \in BOOLEAN,
              CallRelease(t, discard, clean)
       PROVE  Places'
  BY <1>29 DEF CallRelease
<1>30. QED
  BY <1>1, <1>2, <1>3, <1>4, <1>5, <1>6, <1>7, <1>8, <1>9, <1>10, <1>11, <1>12,
     <1>13, <1>14, <1>15, <1>16, <1>17, <1>18, <1>19, <1>20, <1>21, <1>22, <1>23,
     <1>24, <1>25, <1>26, <1>27, <1>28, <1>29
     DEF Step, Borrower

-----------------------------------------------------------------------------
(* Counting.  Each step leaves the accounted sessions, the pending threads *)
(* and _created alone, or moves one unit between them.                     *)
Accounts == <<Tracked, Pending, created>>

LEMMA FiniteAccounts ==
  ASSUME TypeOK
  PROVE  /\ IsFiniteSet(Tracked) /\ Cardinality(Tracked) \in Nat
         /\ IsFiniteSet(Pending) /\ Cardinality(Pending) \in Nat
<1>1. Tracked \subseteq Sessions
  BY DEF TypeOK, Tracked, InHands
<1>2. IsFiniteSet(Threads)
  BY ThreadsAssumption, FS_AddElement DEF Threads
<1>3. Pending \subseteq Threads
  BY DEF Pending
<1>4. QED  BY <1>1, <1>2, <1>3, SessionsAssumption, FS_Subset, FS_CardinalityType

(* Every step keeps the capacity accounted for.                            *)
LEMMA CountingStep ==
  ASSUME TypeInv, TypeInv', Places, CapacityAccounted,
         NEW t \in Threads, Step(t) \/ Borrower(t)
  PROVE  CapacityAccounted'
<1>0. /\ IsFiniteSet(Tracked) /\ Cardinality(Tracked) \in Nat
      /\ IsFiniteSet(Pending) /\ Cardinality(Pending) \in Nat
      /\ created \in Int /\ MaxSize \in Nat
  BY FiniteAccounts, SizeAssumption DEF TypeInv, TypeOK
<1>same. ASSUME UNCHANGED Accounts PROVE CapacityAccounted'
  BY <1>same DEF Accounts, CapacityAccounted
<1>reserve. ASSUME Tracked' = Tracked, Pending' = Pending \cup {t}, t \notin Pending,
                   created < MaxSize, created' = created + 1
            PROVE  CapacityAccounted'
  <2>1. Cardinality(Pending \cup {t}) = Cardinality(Pending) + 1
    BY <1>0, <1>reserve, FS_AddElement
  <2>2. QED  BY <1>0, <1>reserve, <2>1 DEF CapacityAccounted
<1>cancel. ASSUME Tracked' = Tracked, Pending' = Pending \ {t}, t \in Pending,
                  created' = created - 1
           PROVE  CapacityAccounted'
  <2>1. Cardinality(Pending \ {t}) = Cardinality(Pending) - 1
    BY <1>0, <1>cancel, FS_RemoveElement
  <2>2. QED  BY <1>0, <1>cancel, <2>1 DEF CapacityAccounted
<1>open. ASSUME NEW s \in Sessions, s \notin Tracked, Tracked' = Tracked \cup {s},
                Pending' = Pending \ {t}, t \in Pending, created' = created
         PROVE  CapacityAccounted'
  <2>1. Cardinality(Tracked \cup {s}) = Cardinality(Tracked) + 1
    BY <1>0, <1>open, FS_AddElement
  <2>2. Cardinality(Pending \ {t}) = Cardinality(Pending) - 1
    BY <1>0, <1>open, FS_RemoveElement
  <2>3. QED  BY <1>0, <1>open, <2>1, <2>2 DEF CapacityAccounted
<1>shut. ASSUME NEW s \in Tracked, Tracked' = Tracked \ {s},
                Pending' = Pending \cup {t}, t \notin Pending, created' = created
         PROVE  CapacityAccounted'
  <2>1. Cardinality(Tracked \ {s}) = Cardinality(Tracked) - 1
    BY <1>0, <1>shut, FS_RemoveElement
  <2>2. Cardinality(Pending \cup {t}) = Cardinality(Pending) + 1
    BY <1>0, <1>shut, FS_AddElement
  <2>3. QED  BY <1>0, <1>shut, <2>1, <2>2 DEF CapacityAccounted
<1>some. Pending # {} => Cardinality(Pending) > 0
  BY <1>0, FS_EmptySet
<1> USE SessionsAssumption
    DEF TypeInv, TypeOK, HeldAtLabel, Holding, Accounts, Tracked, Pending,
        InHands, poolVars, sessionVars, threadVars, Enter, Goto, Return, Hold
<1>1. CASE AcquireGet(t)
  <2>1. UNCHANGED Accounts
    BY <1>1 DEF AcquireGet, Take
  <2>2. QED  BY <2>1, <1>same
<1>2. CASE AcquireWake(t)
  <2>1. UNCHANGED Accounts
    BY <1>2 DEF AcquireWake, Take
  <2>2. QED  BY <2>1, <1>same
<1>3. CASE Prepare(t)
  <2>1. UNCHANGED Accounts
    BY <1>3 DEF Prepare, CanCall, Places, HeldInOrder
  <2>2. QED  BY <2>1, <1>same
<1>4. CASE AcquireDeadline(t)
  <2>1. UNCHANGED Accounts
    BY <1>4 DEF AcquireDeadline
  <2>2. QED  BY <2>1, <1>same
<1>5. CASE AcquireTimeout(t)
  <2>1. UNCHANGED Accounts
    BY <1>5 DEF AcquireTimeout
  <2>2. QED  BY <2>1, <1>same
<1>6. CASE ReleaseReset(t)
  <2>1. UNCHANGED Accounts
    BY <1>6 DEF ReleaseReset
  <2>2. QED  BY <2>1, <1>same
<1>7. CASE ReleaseHealth(t)
  <2>1. UNCHANGED Accounts
    BY <1>7 DEF ReleaseHealth
  <2>2. QED  BY <2>1, <1>same
<1>8. CASE ReleasePut(t)
  <2>1. UNCHANGED Accounts
    BY <1>8 DEF ReleasePut, PutOrDiscard
  <2>2. QED  BY <2>1, <1>same
<1>9. CASE WarmHealth(t)
  <2>1. UNCHANGED Accounts
    BY <1>9 DEF WarmHealth
  <2>2. QED  BY <2>1, <1>same
<1>10. CASE WarmPut(t)
  <2>1. UNCHANGED Accounts
    BY <1>10 DEF WarmPut, PutOrDiscard
  <2>2. QED  BY <2>1, <1>same
<1>11. CASE Drain(t)
  <2>1. UNCHANGED Accounts
    BY <1>11 DEF Drain
  <2>2. QED  BY <2>1, <1>same
<1>12. CASE SweepCheck(t)
  <2>1. UNCHANGED Accounts
    BY <1>12 DEF SweepCheck
  <2>2. QED  BY <2>1, <1>same
<1>13. CASE SweepPut(t)
  <2>1. UNCHANGED Accounts
    BY <1>13 DEF SweepPut, PutOrDiscard
  <2>2. QED  BY <2>1, <1>same
<1>14. CASE CloseStop(t)
  <2>1. UNCHANGED Accounts
    BY <1>14 DEF CloseStop
  <2>2. QED  BY <2>1, <1>same
<1>15. CASE CloseJoin(t)
  <2>1. UNCHANGED Accounts
    BY <1>15 DEF CloseJoin
  <2>2. QED  BY <2>1, <1>same
<1>16. CASE CloseDiscard(t)
  <2>1. UNCHANGED Accounts
    BY <1>16 DEF CloseDiscard
  <2>2. QED  BY <2>1, <1>same
<1>17. CASE CallAcquire(t)
  <2>1. UNCHANGED Accounts
    BY <1>17 DEF CallAcquire
  <2>2. QED  BY <2>1, <1>same
<1>18. CASE CallWarm(t)
  <2>1. UNCHANGED Accounts
    BY <1>18 DEF CallWarm
  <2>2. QED  BY <2>1, <1>same
<1>19. CASE CallSweep(t)
  <2>1. UNCHANGED Accounts
    BY <1>19 DEF CallSweep
  <2>2. QED  BY <2>1, <1>same
<1>20. CASE CallClose(t)
  <2>1. UNCHANGED Accounts
    BY <1>20 DEF CallClose
  <2>2. QED  BY <2>1, <1>same
<1>21. CASE Write(t)
  <2>1. UNCHANGED Accounts
    BY <1>21 DEF Write
  <2>2. QED  BY <2>1, <1>same
<1>22. CASE Settle(t)
  <2>1. UNCHANGED Accounts
    BY <1>22 DEF Settle
  <2>2. QED  BY <2>1, <1>same
<1>23. CASE BorrowerLogout(t)
  <2>1. UNCHANGED Accounts
    BY <1>23 DEF BorrowerLogout
  <2>2. QED  BY <2>1, <1>same
<1>24. ASSUME NEW discard \in BOOLEAN, NEW clean \in BOOLEAN,
              CallRelease(t, discard, clean)
       PROVE  CapacityAccounted'
  <2>1. UNCHANGED Accounts
    BY <1>24 DEF CallRelease
  <2>2. QED  BY <2>1, <1>same
<1>25. CASE AcquireReserve(t)
  <2>1. \/ UNCHANGED Accounts
        \/ /\ Tracked' = Tracked /\ Pending' = Pending \cup {t} /\ t \notin Pending
           /\ created < MaxSize /\ created' = created + 1
    BY <1>25 DEF AcquireReserve
  <2>2. QED  BY <2>1, <1>same, <1>reserve
<1>26. CASE WarmReserve(t)
  <2>1. \/ UNCHANGED Accounts
        \/ /\ Tracked' = Tracked /\ Pending' = Pending \cup {t} /\ t \notin Pending
           /\ created < MaxSize /\ created' = created + 1
    BY <1>26 DEF WarmReserve
  <2>2. QED  BY <2>1, <1>same, <1>reserve
<1>27. CASE Create(t)
  <2>1. ASSUME NEW s \in Fresh, Hold(t, s), created' = created,
               Goto(t, IF op[t] = "warm" THEN "warm_health" ELSE "prepare"),
               UNCHANGED <<avail, todo, keep>>
        PROVE  CapacityAccounted'
    <3>1. s \in Sessions /\ s \notin Tracked
      BY DEF Fresh
    <3>2. Tracked' = Tracked \cup {s}
      BY <1>27, <2>1, <3>1 DEF Create
    <3>3. Pending' = Pending \ {t} /\ t \in Pending
      BY <1>27, <2>1 DEF Create
    <3>4. QED  BY <2>1, <3>1, <3>2, <3>3, <1>open
  <2>2. ASSUME created' = created - 1, Return(t), UNCHANGED <<avail, cur, todo, keep>>
        PROVE  CapacityAccounted'
    <3>1. Tracked' = Tracked /\ Pending' = Pending \ {t} /\ t \in Pending
      BY <1>27, <2>2 DEF Create
    <3>2. QED  BY <2>2, <3>1, <1>cancel
  <2>3. QED  BY <1>27, <2>1, <2>2 DEF Create
<1>28. CASE Discard(t)
  <2>1. cur[t] \in Tracked /\ Tracked' = Tracked \ {cur[t]}
    BY <1>28 DEF Discard, Places, ExclusiveSessions
  <2>2. Pending' = Pending \cup {t} /\ t \notin Pending /\ created' = created
    BY <1>28 DEF Discard
  <2>3. QED  BY <2>1, <2>2, <1>shut
<1>29. CASE Decrement(t)
  <2>1. Tracked' = Tracked /\ Pending' = Pending \ {t} /\ t \in Pending
    BY <1>29 DEF Decrement, Resume, Calls
  <2>2. Cardinality(Pending) > 0
    <3>1. Pending # {}
      BY <2>1
    <3>2. QED  BY <3>1, <1>some
  <2>3. created' = created - 1
    BY <1>29, <1>0, <2>2 DEF Decrement, CapacityAccounted
  <2>4. QED  BY <2>1, <2>3, <1>cancel
<1>30. QED
  BY <1>1, <1>2, <1>3, <1>4, <1>5, <1>6, <1>7, <1>8, <1>9, <1>10, <1>11,
     <1>12, <1>13, <1>14, <1>15, <1>16, <1>17, <1>18, <1>19, <1>20, <1>21,
     <1>22, <1>23, <1>24, <1>25, <1>26, <1>27, <1>28, <1>29
     DEF Step, Borrower

-----------------------------------------------------------------------------
(* The inductive invariant, and what follows from it.                      *)
IInv == TypeInv /\ Places /\ CapacityAccounted

THEOREM Invariance == Spec => []IInv
<1>1. Init => IInv
  <2> SUFFICES ASSUME Init PROVE IInv
    OBVIOUS
  <2>1. TypeInv
    BY TypeInit
  <2>2. Places
    BY SessionsAssumption
    DEF Init, Places, ExclusiveSessions, Placed, HeldInOrder, InHands
  <2>3. Tracked = {} /\ Pending = {}
    BY DEF Init, Tracked, Pending, InHands
  <2>4. CapacityAccounted
    BY <2>3, FS_EmptySet, SizeAssumption DEF Init, CapacityAccounted
  <2>5. QED  BY <2>1, <2>2, <2>4 DEF IInv
<1>2. IInv /\ [Next]_vars => IInv'
  <2> SUFFICES ASSUME IInv, [Next]_vars PROVE IInv'
    OBVIOUS
  <2>1. TypeInv'
    BY TypeStep DEF IInv
  <2>2. CASE Next
    BY <2>1, <2>2, PlacesStep, CountingStep DEF IInv, Next
  <2>3. CASE UNCHANGED vars
    <3> USE <2>3 DEF vars, poolVars, sessionVars, threadVars, IInv
    <3>1. Places'
      BY DEF Places, ExclusiveSessions, Placed, Ready, HeldInOrder, InHands
    <3>2. UNCHANGED Accounts
      BY DEF Accounts, Tracked, Pending, InHands
    <3>3. QED  BY <2>1, <3>1, <3>2 DEF Accounts, CapacityAccounted
  <2>4. QED  BY <2>2, <2>3
<1>3. QED  BY <1>1, <1>2, PTL DEF Spec

(* _created is exact and bounded by maxsize, for every number of threads.  *)
THEOREM CapacityTheorem == Spec => []CapacityAccounted
<1>1. IInv => CapacityAccounted
  BY DEF IInv
<1>2. QED  BY <1>1, Invariance, PTL

(* No session is ever in two places.                                       *)
THEOREM ExclusionTheorem == Spec => []ExclusiveSessions
<1>1. IInv => ExclusiveSessions
  BY DEF IInv, Places
<1>2. QED  BY <1>1, Invariance, PTL

(* What waits in the queue is logged in, unbound and clean.                *)
THEOREM IdleSessionsTheorem == Spec => []IdleSessionsReady
<1>1. IInv => IdleSessionsReady
  BY DEF IInv, Places, Ready, IdleSessionsReady
<1>2. QED  BY <1>1, Invariance, PTL

(* The borrower of a session is the thread it is bound to.                 *)
THEOREM OwnershipTheorem == Spec => []BorrowerOwnsSession
<1>1. IInv => BorrowerOwnsSession
  BY DEF IInv, Places, HeldInOrder, BorrowerOwnsSession
<1>2. QED  BY <1>1, Invariance, PTL

(* Never more than maxsize sessions are logged in, all of them accounted.  *)
THEOREM NoOrphanTheorem == Spec => []NoOrphanSession
<1>1. IInv => NoOrphanSession
  <2> SUFFICES ASSUME IInv PROVE NoOrphanSession
    OBVIOUS
  <2>1. live \subseteq Tracked
    BY DEF IInv, Places, Placed, Tracked
  <2>2. /\ IsFiniteSet(Tracked) /\ Cardinality(Tracked) \in Nat
        /\ Cardinality(Pending) \in Nat
    BY FiniteAccounts DEF IInv, TypeInv
  <2>3. Cardinality(live) \in Nat /\ Cardinality(live) <= Cardinality(Tracked)
    BY <2>1, <2>2, FS_Subset, FS_CardinalityType
  <2>4. QED  BY <2>1, <2>2, <2>3, SizeAssumption
             DEF IInv, CapacityAccounted, NoOrphanSession
<1>2. QED  BY <1>1, Invariance, PTL

(* The queue has room for whatever is about to be put into it.             *)
THEOREM QueueTheorem == Spec => []QueueNeverFull
<1>1. IInv => QueueNeverFull
  <2> SUFFICES ASSUME IInv, NEW t \in Threads,
                      pc[t] \in {"rel_put", "warm_put"} \/ keep[t] # {}
               PROVE  Cardinality(avail) < MaxSize
    BY DEF QueueNeverFull
  <2>1. PICK s \in Tracked : s \notin avail
    <3>1. CASE keep[t] # {}
      BY <3>1 DEF IInv, Places, ExclusiveSessions, Tracked, InHands
    <3>2. CASE pc[t] \in {"rel_put", "warm_put"}
      <4>1. cur[t] \in Sessions
        BY <3>2 DEF IInv, TypeInv, HeldAtLabel, Holding
      <4>2. cur[t] \in InHands(t)
        BY <4>1, SessionsAssumption DEF InHands
      <4>3. QED  BY <4>2 DEF IInv, Places, ExclusiveSessions, Tracked
    <3>3. QED  BY <3>1, <3>2
  <2>2. /\ IsFiniteSet(Tracked) /\ Cardinality(Tracked) \in Nat
        /\ Cardinality(Pending) \in Nat
    BY FiniteAccounts DEF IInv, TypeInv
  <2>3. avail \subseteq Tracked \ {s}
    BY <2>1 DEF Tracked
  <2>4. /\ IsFiniteSet(Tracked \ {s})
        /\ Cardinality(Tracked \ {s}) = Cardinality(Tracked) - 1
    BY <2>1, <2>2, FS_RemoveElement
  <2>5. Cardinality(avail) \in Nat /\ Cardinality(avail) <= Cardinality(Tracked) - 1
    BY <2>3, <2>4, FS_Subset, FS_CardinalityType
  <2>6. QED  BY <2>2, <2>5, SizeAssumption DEF IInv, CapacityAccounted
<1>2. QED  BY <1>1, Invariance, PTL

-----------------------------------------------------------------------------
(* The end of the pool.                                                    *)

\* What a sweep or a close has drained is in its lists while it is under way.
Listed(t) ==
  /\ todo[t] # {} => \/ pc[t] \in {"drain", "sweep_check", "close_discard"}
                     \/ pc[t] \in {"discard", "decrement"} /\ op[t] \in {"sweep", "close"}
  /\ keep[t] # {} => \/ pc[t] \in {"sweep_check", "sweep_put"}
                     \/ pc[t] \in {"discard", "decrement"} /\ op[t] = "sweep"
  /\ pc[t] \in {"sweep_check", "sweep_put"} => op[t] = "sweep"
  /\ pc[t] \in {"close_stop", "close_join", "close_discard"} => op[t] = "close"
  /\ pc[t] = "drain" => op[t] \in {"sweep", "close"}
  /\ pc[t] = "close_join" => stop

\* What a worker may still be at on a pool that was closed in order: nothing
\* that opens a session or puts one on the queue.
Retiring(t) ==
  /\ pc[t] \in {"idle", "using", "discard", "decrement", "drain", "sweep_check", "sweep_put",
                "close_stop", "close_join", "close_discard", "warm_reserve"}
  /\ pc[t] \in {"discard", "decrement"} => op[t] \in {"release", "sweep", "close"}
  /\ keep[t] = {}

\* A close is still to pass the join, or the sweeper rests and the queue is
\* empty or being emptied.
Emptied ==
  \/ \E t \in Workers : pc[t] \in {"close_stop", "close_join"}
  \/ /\ stop /\ pc[Sweeper] = "idle"
     /\ avail = {} \/ \E t \in Workers : pc[t] = "drain"

Retired == orderly /\ closed => (\A t \in Workers : Retiring(t)) /\ Emptied

\* Every step keeps the lists.
LEMMA ListedStep ==
  ASSUME TypeInv, \A u \in Threads : Listed(u), NEW t \in Threads, Step(t) \/ Borrower(t)
  PROVE  \A u \in Threads : Listed(u)'
<1> USE SessionsAssumption
    DEF TypeInv, TypeOK, HeldAtLabel, Holding, Labels, Calls, Listed,
        poolVars, sessionVars, threadVars, Enter, Goto, Return, Hold
<1>1. CASE AcquireGet(t)  BY <1>1 DEF AcquireGet, Take
<1>2. CASE AcquireReserve(t)  BY <1>2 DEF AcquireReserve
<1>3. CASE Create(t)  BY <1>3 DEF Create
<1>4. CASE Prepare(t)  BY <1>4 DEF Prepare, CanCall
<1>5. CASE AcquireDeadline(t)  BY <1>5 DEF AcquireDeadline
<1>6. CASE AcquireWake(t)  BY <1>6 DEF AcquireWake, Take
<1>7. CASE AcquireTimeout(t)  BY <1>7 DEF AcquireTimeout
<1>8. CASE ReleaseReset(t)  BY <1>8 DEF ReleaseReset, CanCall
<1>9. CASE ReleaseHealth(t)  BY <1>9 DEF ReleaseHealth
<1>10. CASE ReleasePut(t)  BY <1>10 DEF ReleasePut, PutOrDiscard
<1>11. CASE Discard(t)  BY <1>11 DEF Discard, Logout
<1>12. CASE Decrement(t)  BY <1>12 DEF Decrement, Resume
<1>13. CASE WarmReserve(t)  BY <1>13 DEF WarmReserve
<1>14. CASE WarmHealth(t)  BY <1>14 DEF WarmHealth
<1>15. CASE WarmPut(t)  BY <1>15 DEF WarmPut, PutOrDiscard
<1>16. CASE Drain(t)  BY <1>16 DEF Drain
<1>17. CASE SweepCheck(t)  BY <1>17 DEF SweepCheck
<1>18. CASE SweepPut(t)  BY <1>18 DEF SweepPut, PutOrDiscard
<1>19. CASE CloseStop(t)  BY <1>19 DEF CloseStop
<1>20. CASE CloseJoin(t)  BY <1>20 DEF CloseJoin
<1>21. CASE CloseDiscard(t)  BY <1>21 DEF CloseDiscard
<1>22. CASE CallAcquire(t)  BY <1>22 DEF CallAcquire
<1>23. CASE CallWarm(t)  BY <1>23 DEF CallWarm
<1>24. CASE CallSweep(t)  BY <1>24 DEF CallSweep
<1>25. CASE CallClose(t)  BY <1>25 DEF CallClose
<1>26. CASE Write(t)  BY <1>26 DEF Write
<1>27. CASE Settle(t)  BY <1>27 DEF Settle
<1>28. CASE BorrowerLogout(t)  BY <1>28 DEF BorrowerLogout, Logout
<1>29. ASSUME NEW discard \in BOOLEAN, NEW clean \in BOOLEAN,
              CallRelease(t, discard, clean)
       PROVE  \A u \in Threads : Listed(u)'
  BY <1>29 DEF CallRelease
<1>30. QED
  BY <1>1, <1>2, <1>3, <1>4, <1>5, <1>6, <1>7, <1>8, <1>9, <1>10, <1>11,
     <1>12, <1>13, <1>14, <1>15, <1>16, <1>17, <1>18, <1>19, <1>20, <1>21,
     <1>22, <1>23, <1>24, <1>25, <1>26, <1>27, <1>28, <1>29
     DEF Step, Borrower

\* What one thread's step does on a pool that is closed, or closes it.
Retires(t) ==
  /\ \A u \in Threads : u # t => /\ pc'[u] = pc[u] /\ op'[u] = op[u]
                                /\ keep'[u] = keep[u]
  /\ stop => stop'
  /\ closed => closed'
  /\ ~closed /\ closed' => /\ t \in Workers /\ pc'[t] = "close_stop"
                           /\ op'[t] = "close" /\ keep'[t] = keep[t]
  /\ pc[t] = "close_stop" => pc'[t] = "close_join"
  /\ pc[t] = "close_join" => pc'[t] = "drain"
  /\ pc[t] = "drain" => pc'[t] = "drain" \/ avail' = {}
  /\ pc[t] = "idle" /\ stop => t \in Workers
  /\ closed /\ t \in Workers /\ Retiring(t) =>
       Retiring(t)' /\ avail' \subseteq avail

LEMMA RetiresStep ==
  ASSUME TypeInv, \A u \in Threads : Listed(u), NEW t \in Threads, Step(t) \/ Borrower(t)
  PROVE  Retires(t)
<1> USE SessionsAssumption, ThreadsAssumption
    DEF TypeInv, TypeOK, HeldAtLabel, Holding, Labels, Calls, Listed, Retires,
        Retiring, Threads,
        poolVars, sessionVars, threadVars, Enter, Goto, Return, Hold
<1>1. CASE AcquireGet(t)  BY <1>1 DEF AcquireGet, Take
<1>2. CASE AcquireReserve(t)  BY <1>2 DEF AcquireReserve
<1>3. CASE Create(t)  BY <1>3 DEF Create
<1>4. CASE Prepare(t)  BY <1>4 DEF Prepare, CanCall
<1>5. CASE AcquireDeadline(t)  BY <1>5 DEF AcquireDeadline
<1>6. CASE AcquireWake(t)  BY <1>6 DEF AcquireWake, Take
<1>7. CASE AcquireTimeout(t)  BY <1>7 DEF AcquireTimeout
<1>8. CASE ReleaseReset(t)  BY <1>8 DEF ReleaseReset, CanCall
<1>9. CASE ReleaseHealth(t)  BY <1>9 DEF ReleaseHealth
<1>10. CASE ReleasePut(t)  BY <1>10 DEF ReleasePut, PutOrDiscard
<1>11. CASE Discard(t)  BY <1>11 DEF Discard, Logout
<1>12. CASE Decrement(t)  BY <1>12 DEF Decrement, Resume
<1>13. CASE WarmReserve(t)  BY <1>13 DEF WarmReserve
<1>14. CASE WarmHealth(t)  BY <1>14 DEF WarmHealth
<1>15. CASE WarmPut(t)  BY <1>15 DEF WarmPut, PutOrDiscard
<1>16. CASE Drain(t)  BY <1>16 DEF Drain
<1>17. CASE SweepCheck(t)  BY <1>17 DEF SweepCheck
<1>18. CASE SweepPut(t)  BY <1>18 DEF SweepPut, PutOrDiscard
<1>19. CASE CloseStop(t)  BY <1>19 DEF CloseStop
<1>20. CASE CloseJoin(t)  BY <1>20 DEF CloseJoin
<1>21. CASE CloseDiscard(t)  BY <1>21 DEF CloseDiscard
<1>22. CASE CallAcquire(t)  BY <1>22 DEF CallAcquire
<1>23. CASE CallWarm(t)  BY <1>23 DEF CallWarm
<1>24. CASE CallSweep(t)  BY <1>24 DEF CallSweep
<1>25. CASE CallClose(t)  BY <1>25 DEF CallClose
<1>26. CASE Write(t)  BY <1>26 DEF Write, Using
<1>27. CASE Settle(t)  BY <1>27 DEF Settle, Using
<1>28. CASE BorrowerLogout(t)  BY <1>28 DEF BorrowerLogout, Logout, Using
<1>29. ASSUME NEW discard \in BOOLEAN, NEW clean \in BOOLEAN,
              CallRelease(t, discard, clean)
       PROVE  Retires(t)
  BY <1>29 DEF CallRelease
<1>30. QED
  BY <1>1, <1>2, <1>3, <1>4, <1>5, <1>6, <1>7, <1>8, <1>9, <1>10, <1>11,
     <1>12, <1>13, <1>14, <1>15, <1>16, <1>17, <1>18, <1>19, <1>20, <1>21,
     <1>22, <1>23, <1>24, <1>25, <1>26, <1>27, <1>28, <1>29
     DEF Step, Borrower


\* A pool that was closed in order stays so: nothing is put on the queue once
\* the sweeper rests.
LEMMA RetiredStep ==
  ASSUME TypeInv, \A u \in Threads : Listed(u), Retired,
         NEW t \in Threads, Step(t) \/ Borrower(t), Note
  PROVE  Retired'
<1> SUFFICES ASSUME orderly', closed'
             PROVE  (\A u \in Workers : Retiring(u)') /\ Emptied'
  BY DEF Retired
<1>1. /\ Retires(t) /\ orderly
      /\ closed' # closed => \A u \in Workers : pc[u] \in {"idle", "using"}
      /\ pc[t] = "close_join" /\ pc'[t] # pc[t] => pc[Sweeper] = "idle"
  BY RetiresStep DEF Note
<1>2. Workers \subseteq Threads /\ Sweeper \in Threads /\ Sweeper \notin Workers
  BY ThreadsAssumption DEF Threads
<1>3. CASE ~closed
  <2>1. \A u \in Workers : pc[u] \in {"idle", "using"} /\ keep[u] = {}
    BY <1>1, <1>2, <1>3 DEF Listed
  <2>2. \A u \in Workers : Retiring(u)'
    BY <1>1, <1>2, <1>3, <2>1 DEF Retires, Retiring
  <2>3. Emptied'
    BY <1>1, <1>3 DEF Retires, Emptied
  <2>4. QED  BY <2>2, <2>3
<1>4. CASE closed
  <2>1. (\A u \in Workers : Retiring(u)) /\ Emptied
    BY <1>1, <1>4 DEF Retired
  <2>2. \A u \in Workers : Retiring(u)'
    BY <1>1, <1>2, <1>4, <2>1 DEF Retires, Retiring
  <2> SUFFICES Emptied'
    BY <2>2
  <2>3. CASE \E u \in Workers : pc[u] \in {"close_stop", "close_join"}
    <3>1. PICK u \in Workers : pc[u] \in {"close_stop", "close_join"}
      BY <2>3
    <3>2. CASE u = t /\ pc[t] = "close_join"
      <4>1. pc[Sweeper] = "idle" /\ stop /\ pc'[t] = "drain" /\ t # Sweeper
        BY <1>1, <1>2, <3>1, <3>2 DEF Retires, Listed
      <4>2. stop' /\ pc'[Sweeper] = "idle"
        BY <1>1, <1>2, <4>1 DEF Retires
      <4>3. QED  BY <3>1, <3>2, <4>1, <4>2 DEF Emptied
    <3>3. CASE u = t /\ pc[t] = "close_stop"
      <4>1. pc'[u] = "close_join"
        BY <1>1, <3>3 DEF Retires
      <4>2. QED  BY <3>1, <4>1 DEF Emptied
    <3>4. CASE u # t
      <4>1. pc'[u] = pc[u]
        BY <1>1, <1>2, <3>1, <3>4 DEF Retires
      <4>2. QED  BY <3>1, <4>1 DEF Emptied
    <3>5. QED  BY <3>1, <3>2, <3>3, <3>4
  <2>4. CASE /\ stop /\ pc[Sweeper] = "idle"
             /\ avail = {} \/ \E u \in Workers : pc[u] = "drain"
    <3>1. t \in Workers /\ t # Sweeper
      BY <1>1, <1>2, <2>4 DEF Retires, Threads
    <3>2. stop' /\ pc'[Sweeper] = "idle" /\ avail' \subseteq avail
      BY <1>1, <1>2, <1>4, <2>1, <2>4, <3>1 DEF Retires
    <3>3. avail' = {} \/ \E u \in Workers : pc'[u] = "drain"
      <4>1. CASE avail = {}
        BY <3>2, <4>1
      <4>2. CASE pc[t] = "drain"
        BY <1>1, <3>1, <4>2 DEF Retires
      <4>3. ASSUME NEW u \in Workers, pc[u] = "drain", u # t
            PROVE  pc'[u] = "drain"
        BY <1>1, <1>2, <4>3 DEF Retires
      <4>4. QED  BY <2>4, <4>1, <4>2, <4>3
    <3>4. QED  BY <3>2, <3>3 DEF Emptied
  <2>5. QED  BY <2>1, <2>3, <2>4 DEF Emptied
<1>5. QED  BY <1>3, <1>4 DEF TypeInv, TypeOK

\* A pool closed in order is left empty, but for what is still borrowed.
THEOREM ClosingTheorem == Spec => []ClosedPoolEmpty
<1> DEFINE Closing == (\A t \in Threads : Listed(t)) /\ Retired
<1>1. Init => Closing
  BY DEF Init, Listed, Retired
<1>2. IInv /\ Closing /\ [Next]_vars => Closing'
  <2> SUFFICES ASSUME IInv, Closing, [Next]_vars PROVE Closing'
    OBVIOUS
  <2>1. CASE Next
    <3>1. PICK t \in Threads : (Step(t) \/ Borrower(t)) /\ Note
      BY <2>1 DEF Next
    <3>2. QED  BY <3>1, ListedStep, RetiredStep DEF IInv
  <2>2. CASE UNCHANGED vars
    BY <2>2 DEF vars, poolVars, sessionVars, threadVars, Listed, Retired,
                Retiring, Emptied
  <2>3. QED  BY <2>1, <2>2
<1>3. IInv /\ Closing => ClosedPoolEmpty
  <2> SUFFICES ASSUME IInv, Closing, orderly, closed,
                      \A t \in Threads : pc[t] \in {"idle", "using"}
               PROVE  avail = {} /\ live \subseteq {cur[t] : t \in Threads}
    BY DEF ClosedPoolEmpty
  <2>1. \A t \in Threads : keep[t] = {} /\ todo[t] = {}
    BY DEF Listed
  <2>2. avail = {}
    BY ThreadsAssumption DEF Retired, Emptied, Threads
  <2>3. ASSUME NEW s \in live PROVE \E t \in Threads : s = cur[t]
    <3>1. \E t \in Threads : s \in InHands(t)
      BY <2>2, <2>3 DEF IInv, Places, Placed, TypeInv, TypeOK
    <3>2. QED  BY <2>1, <3>1 DEF InHands
  <2>4. QED  BY <2>2, <2>3
<1>4. QED  BY <1>1, <1>2, <1>3, Invariance, PTL DEF Spec

-----------------------------------------------------------------------------
(* The refinement of SessionLeasing.  Exclusive hands make the lessee of a *)
(* session well defined, before and after a step.                          *)
LEMMA LesseeNow ==
  ASSUME ExclusiveSessions, NEW s \in Sessions
  PROVE  /\ \A t \in Threads : s \in InHands(t) => Lessee[s] = t
         /\ (\A t \in Threads : s \notin InHands(t)) => Lessee[s] = NoThread
<1>1. \A t, u \in Threads : s \in InHands(t) /\ s \in InHands(u) => t = u
  BY DEF ExclusiveSessions
<1>2. QED  BY <1>1 DEF Lessee

LEMMA LesseeNext ==
  ASSUME ExclusiveSessions', NEW s \in Sessions
  PROVE  /\ \A t \in Threads : s \in InHands(t)' => Lessee'[s] = t
         /\ (\A t \in Threads : s \notin InHands(t)') => Lessee'[s] = NoThread
<1>1. \A t, u \in Threads : s \in InHands(t)' /\ s \in InHands(u)' => t = u
  BY DEF ExclusiveSessions
<1>2. QED  BY <1>1 DEF Lessee

(* A session that enters or leaves the hands of one thread changes its     *)
(* lessee, and no other.                                                   *)
LEMMA LeaseChange ==
  ASSUME ExclusiveSessions, ExclusiveSessions',
         NEW t \in Threads, NEW s \in Sessions,
         \A u \in Threads \ {t} : InHands(u)' = InHands(u),
         InHands(t)' \ {s} = InHands(t) \ {s}
  PROVE  /\ s \in InHands(t)' => Lessee' = [Lessee EXCEPT ![s] = t]
         /\ s \in InHands(t) /\ s \notin InHands(t)'
              => Lessee' = [Lessee EXCEPT ![s] = NoThread]
<1>1. /\ Lessee = [x \in Sessions |-> Lessee[x]]
      /\ Lessee' = [x \in Sessions |-> Lessee'[x]]
  BY DEF Lessee
<1>2. ASSUME NEW x \in Sessions \ {s} PROVE Lessee'[x] = Lessee[x]
  <2>1. \A u \in Threads : x \in InHands(u)' <=> x \in InHands(u)
    OBVIOUS
  <2>2. CASE \E u \in Threads : x \in InHands(u)
    BY <2>1, <2>2, LesseeNow, LesseeNext
  <2>3. CASE \A u \in Threads : x \notin InHands(u)
    BY <2>1, <2>3, LesseeNow, LesseeNext
  <2>4. QED  BY <2>2, <2>3
<1>3. s \in InHands(t)' => Lessee'[s] = t
  BY LesseeNext
<1>4. s \in InHands(t) /\ s \notin InHands(t)' => Lessee'[s] = NoThread
  <2> SUFFICES ASSUME s \in InHands(t), s \notin InHands(t)'
               PROVE  Lessee'[s] = NoThread
    OBVIOUS
  <2>1. \A u \in Threads : s \notin InHands(u)'
    BY DEF ExclusiveSessions
  <2>2. QED  BY <2>1, LesseeNext
<1>5. QED  BY <1>1, <1>2, <1>3, <1>4

LEMMA LeaseSame ==
  ASSUME \A u \in Threads : InHands(u)' = InHands(u)
  PROVE  Lessee' = Lessee
BY DEF Lessee

(* The six ways a step of the pool appears to the abstract specification.  *)
LEMMA StutterMaps ==
  ASSUME \A u \in Threads : InHands(u)' = InHands(u), UNCHANGED <<live, dirty>>
  PROVE  [Leasing!Next]_(Leasing!leaseVars)
BY LeaseSame DEF Leasing!leaseVars

LEMMA WorkMaps ==
  ASSUME ExclusiveSessions, NEW t \in Threads, NEW s \in Sessions,
         s \in InHands(t), s \in live,
         \A u \in Threads : InHands(u)' = InHands(u), UNCHANGED live,
         dirty' \in {dirty \cup {s}, dirty \ {s}}
  PROVE  Leasing!Next
<1>1. Lessee[s] = t /\ Lessee' = Lessee
  BY LesseeNow, LeaseSame
<1>2. Leasing!Work(t, s)
  BY <1>1 DEF Leasing!Work
<1>3. QED  BY <1>2 DEF Leasing!Next

LEMMA BorrowMaps ==
  ASSUME ExclusiveSessions, ExclusiveSessions', NEW t \in Threads,
         NEW s \in Sessions, s \in avail, s \in live, s \in InHands(t)',
         \A u \in Threads \ {t} : InHands(u)' = InHands(u),
         InHands(t)' \ {s} = InHands(t) \ {s}, UNCHANGED <<live, dirty>>
  PROVE  Leasing!Next
<1>1. Lessee' = [Lessee EXCEPT ![s] = t]
  BY LeaseChange
<1>2. Lessee[s] = NoThread
  <2>1. \A u \in Threads : s \notin InHands(u)
    BY DEF ExclusiveSessions
  <2>2. QED  BY <2>1, LesseeNow
<1>3. Leasing!Borrow(t, s)
  BY <1>1, <1>2 DEF Leasing!Borrow
<1>4. QED  BY <1>3 DEF Leasing!Next

LEMMA OpenMaps ==
  ASSUME TypeOK, ExclusiveSessions, ExclusiveSessions', NEW t \in Threads,
         NEW s \in Fresh, s \in InHands(t)', Cardinality(live) < MaxSize,
         \A u \in Threads \ {t} : InHands(u)' = InHands(u),
         InHands(t)' \ {s} = InHands(t) \ {s},
         live' = live \cup {s}, UNCHANGED dirty
  PROVE  Leasing!Next
<1>0. s \in Sessions /\ s \notin live /\ \A u \in Threads : s \notin InHands(u)
  BY DEF Fresh, Tracked
<1>1. Lessee' = [Lessee EXCEPT ![s] = t]
  BY <1>0, LeaseChange
<1>2. Lessee[s] = NoThread
  BY <1>0, LesseeNow
<1>3. Leasing!Open(t, s)
  <2>1. s \notin live /\ Lessee[s] = NoThread /\ live' = live \cup {s}
    BY <1>0, <1>2
  <2>2. Leasing!Cardinality(live) = Cardinality(live)
    BY DEF Cardinality, Leasing!Cardinality
  <2>3. QED  BY <1>1, <2>1, <2>2 DEF Leasing!Open
<1>4. QED  BY <1>0, <1>3 DEF Leasing!Next

LEMMA GiveBackMaps ==
  ASSUME ExclusiveSessions, ExclusiveSessions', NEW t \in Threads,
         NEW s \in Sessions, s \in InHands(t), s \notin InHands(t)',
         s \notin dirty,
         \A u \in Threads \ {t} : InHands(u)' = InHands(u),
         InHands(t)' \ {s} = InHands(t) \ {s}, UNCHANGED <<live, dirty>>
  PROVE  Leasing!Next
<1>1. Lessee' = [Lessee EXCEPT ![s] = NoThread]
  BY LeaseChange
<1>2. Lessee[s] = t
  BY LesseeNow
<1>3. Leasing!GiveBack(t, s)
  BY <1>1, <1>2 DEF Leasing!GiveBack
<1>4. QED  BY <1>3 DEF Leasing!Next

LEMMA ShutMaps ==
  ASSUME ExclusiveSessions, ExclusiveSessions', NEW t \in Threads,
         NEW s \in Sessions, s \in InHands(t), s \in live,
         \A u \in Threads \ {t} : InHands(u)' = InHands(u),
         InHands(t)' = InHands(t) \/ InHands(t)' = InHands(t) \ {s},
         live' = live \ {s}, dirty' = dirty \ {s}
  PROVE  Leasing!Next
<1>1. Lessee[s] = t
  BY LesseeNow
<1>2. Lessee' \in {Lessee, [Lessee EXCEPT ![s] = NoThread]}
  <2>1. CASE InHands(t)' = InHands(t)
    BY <2>1, LeaseSame
  <2>2. CASE InHands(t)' = InHands(t) \ {s}
    BY <2>2, LeaseChange
  <2>3. QED  BY <2>1, <2>2
<1>3. Leasing!Shut(t, s)
  BY <1>1, <1>2 DEF Leasing!Shut
<1>4. QED  BY <1>3 DEF Leasing!Next

(* Every step of the pool is a step of the leasing, or none.               *)
LEMMA RefinementStep ==
  ASSUME IInv, IInv', NEW t \in Threads, Step(t) \/ Borrower(t)
  PROVE  [Leasing!Next]_(Leasing!leaseVars)
<1> DEFINE Goal == [Leasing!Next]_(Leasing!leaseVars)
           Steady == \A u \in Threads : InHands(u)' = InHands(u)
           Others == \A u \in Threads \ {t} : InHands(u)' = InHands(u)
<1>0. /\ TypeOK /\ HeldAtLabel /\ Places
      /\ ExclusiveSessions /\ ExclusiveSessions'
  BY DEF IInv, TypeInv, Places
<1> USE <1>0, SessionsAssumption
    DEF TypeOK, HeldAtLabel, Holding,
        InHands, poolVars, sessionVars, threadVars, Enter, Goto, Return, Hold
<1>take. ASSUME NEW s \in avail, Take(t, s), cur[t] \notin Sessions PROVE Goal
  <2>1. s \in Sessions /\ s \in live
    BY DEF Places, Ready
  <2>2. /\ s \in InHands(t)' /\ Others /\ InHands(t)' \ {s} = InHands(t) \ {s}
        /\ UNCHANGED <<live, dirty>>
    BY <1>take DEF Take
  <2> HIDE DEF InHands
  <2>3. QED  BY <2>1, <2>2, BorrowMaps
<1>1. CASE AcquireGet(t)
  <2>1. CASE \E s \in avail : Take(t, s)
    BY <1>1, <2>1, <1>take DEF AcquireGet
  <2>2. CASE UNCHANGED <<sessionVars, cur, todo, keep>>
    BY <2>2, StutterMaps
  <2>3. QED  BY <1>1, <2>1, <2>2 DEF AcquireGet
<1>2. CASE AcquireWake(t)
  BY <1>2, <1>take DEF AcquireWake
<1>3. CASE Create(t)
  <2>1. ASSUME NEW s \in Fresh, live' = live \cup {s}, Hold(t, s)
        PROVE  Goal
    <3>1. /\ s \in InHands(t)' /\ Others /\ InHands(t)' \ {s} = InHands(t) \ {s}
          /\ UNCHANGED dirty
      BY <1>3, <2>1 DEF Create, Fresh
    <3>2. Cardinality(live) < MaxSize
      <4>1. t \in Pending
        BY <1>3 DEF Create, Pending
      <4> HIDE <1>0 DEF InHands, TypeOK
      <4>2. /\ IsFiniteSet(Tracked) /\ Cardinality(Tracked) \in Nat
            /\ IsFiniteSet(Pending) /\ Cardinality(Pending) \in Nat
        BY <1>0, FiniteAccounts
      <4>3. Cardinality(Pending) > 0
        <5>1. Pending # {}
          BY <4>1
        <5>2. QED  BY <4>2, <5>1, FS_EmptySet
      <4>4. live \subseteq Tracked
        BY <1>0 DEF Places, Placed, Tracked
      <4>5. Cardinality(live) \in Nat /\ Cardinality(live) <= Cardinality(Tracked)
        BY <4>2, <4>4, FS_Subset, FS_CardinalityType
      <4>6. QED  BY <4>2, <4>3, <4>5, SizeAssumption DEF IInv, CapacityAccounted
    <3> HIDE DEF InHands
    <3>3. QED  BY <2>1, <3>1, <3>2, OpenMaps
  <2>2. CASE UNCHANGED <<live, owner, cur>>
    BY <1>3, <2>2, StutterMaps DEF Create
  <2>3. QED  BY <1>3, <2>1, <2>2 DEF Create
<1>4. CASE Prepare(t)
  <2>1. Steady /\ UNCHANGED <<live, dirty>>
    BY <1>4 DEF Prepare, CanCall, Places, HeldInOrder
  <2>2. QED  BY <2>1, StutterMaps
<1>5. ASSUME NEW s \in Sessions, s \in InHands(t), s \notin dirty,
             s \notin InHands(t)', Others,
             InHands(t)' \ {s} = InHands(t) \ {s}, UNCHANGED <<live, dirty>>
      PROVE  Goal
  <2> HIDE DEF InHands
  <2>1. QED  BY <1>5, GiveBackMaps
<1>6. CASE ReleasePut(t)
  <2>1. cur[t] \in Sessions /\ cur[t] \notin dirty
    BY <1>6 DEF ReleasePut, Places, HeldInOrder
  <2>2. CASE Cardinality(avail) < MaxSize
    <3>1. /\ cur[t] \in InHands(t) /\ cur[t] \notin InHands(t)' /\ Others
          /\ InHands(t)' \ {cur[t]} = InHands(t) \ {cur[t]}
          /\ UNCHANGED <<live, dirty>>
      BY <1>6, <2>1, <2>2 DEF ReleasePut, PutOrDiscard, ExclusiveSessions
    <3>2. QED  BY <2>1, <3>1, <1>5
  <2>3. CASE ~(Cardinality(avail) < MaxSize)
    BY <1>6, <2>3, StutterMaps DEF ReleasePut, PutOrDiscard
  <2>4. QED  BY <2>2, <2>3
<1>7. CASE WarmPut(t)
  <2>1. cur[t] \in Sessions /\ cur[t] \notin dirty
    BY <1>7 DEF WarmPut, Places, HeldInOrder
  <2>2. CASE Cardinality(avail) < MaxSize
    <3>1. /\ cur[t] \in InHands(t) /\ cur[t] \notin InHands(t)' /\ Others
          /\ InHands(t)' \ {cur[t]} = InHands(t) \ {cur[t]}
          /\ UNCHANGED <<live, dirty>>
      BY <1>7, <2>1, <2>2 DEF WarmPut, PutOrDiscard, ExclusiveSessions
    <3>2. QED  BY <2>1, <3>1, <1>5
  <2>3. CASE ~(Cardinality(avail) < MaxSize)
    BY <1>7, <2>3, StutterMaps DEF WarmPut, PutOrDiscard
  <2>4. QED  BY <2>2, <2>3
<1>8. CASE SweepPut(t)
  <2>1. CASE UNCHANGED <<avail, cur, keep>>
    BY <1>8, <2>1, StutterMaps DEF SweepPut
  <2>2. ASSUME NEW s \in keep[t], keep' = [keep EXCEPT ![t] = @ \ {s}],
               PutOrDiscard(t, s, "sweep_put")
        PROVE  Goal
    <3>1. s \in Sessions /\ s \notin dirty /\ s \in InHands(t)
      BY <2>2 DEF Places, HeldInOrder, Ready
    <3>2. cur[t] \notin Sessions
      BY <1>8 DEF SweepPut
    <3>3. CASE Cardinality(avail) < MaxSize
      <4>1. /\ s \notin InHands(t)' /\ Others
            /\ InHands(t)' \ {s} = InHands(t) \ {s}
            /\ UNCHANGED <<live, dirty>>
        BY <1>8, <2>2, <3>1, <3>2, <3>3
           DEF SweepPut, PutOrDiscard, ExclusiveSessions
      <4>2. QED  BY <3>1, <4>1, <1>5
    <3>4. CASE ~(Cardinality(avail) < MaxSize)
      <4>1. Steady /\ UNCHANGED <<live, dirty>>
        BY <1>8, <2>2, <3>1, <3>2, <3>4 DEF SweepPut, PutOrDiscard
      <4>2. QED  BY <4>1, StutterMaps
    <3>5. QED  BY <3>3, <3>4
  <2>3. QED  BY <1>8, <2>1, <2>2 DEF SweepPut
<1>9. CASE Drain(t)
  <2>1. CASE UNCHANGED <<avail, todo>>
    BY <1>9, <2>1, StutterMaps DEF Drain
  <2>2. ASSUME NEW s \in avail, todo' = [todo EXCEPT ![t] = @ \cup {s}]
        PROVE  Goal
    <3>1. s \in Sessions /\ s \in live
      BY DEF Places, Ready
    <3>2. /\ s \in InHands(t)' /\ Others /\ InHands(t)' \ {s} = InHands(t) \ {s}
          /\ UNCHANGED <<live, dirty>>
      BY <1>9, <2>2, <3>1 DEF Drain
    <3> HIDE DEF InHands
    <3>3. QED  BY <3>1, <3>2, BorrowMaps
  <2>3. QED  BY <1>9, <2>1, <2>2 DEF Drain
<1>10. CASE Discard(t)
  <2>1. cur[t] \in Sessions /\ cur[t] \in InHands(t)
    BY <1>10 DEF Discard
  <2>2. cur[t] \notin InHands(t)' /\ Others /\ InHands(t)' = InHands(t) \ {cur[t]}
    BY <1>10, <2>1 DEF Discard, ExclusiveSessions
  <2>3. CASE cur[t] \in live
    <3>1. live' = live \ {cur[t]} /\ dirty' = dirty \ {cur[t]}
      BY <1>10, <2>3 DEF Discard, Logout, CanCall, Places, HeldInOrder
    <3> HIDE DEF InHands
    <3>2. QED  BY <2>1, <2>2, <2>3, <3>1, ShutMaps
  <2>4. CASE cur[t] \notin live
    <3>1. UNCHANGED <<live, dirty>> /\ cur[t] \notin dirty
      BY <1>10, <2>4 DEF Discard, Logout, CanCall, Places
    <3>2. QED  BY <2>1, <2>2, <3>1, <1>5
  <2>5. QED  BY <2>3, <2>4
<1>11. CASE BorrowerLogout(t)
  <2>1. cur[t] \in Sessions /\ cur[t] \in InHands(t) /\ cur[t] \in live
    BY <1>11 DEF BorrowerLogout, Using, CanCall
  <2>2. Steady /\ live' = live \ {cur[t]} /\ dirty' = dirty \ {cur[t]}
    BY <1>11 DEF BorrowerLogout, Using, Logout
  <2> HIDE DEF InHands
  <2>3. QED  BY <2>1, <2>2, ShutMaps
<1>12. CASE Write(t) \/ Settle(t)
  <2>1. /\ cur[t] \in Sessions /\ cur[t] \in InHands(t) /\ cur[t] \in live
        /\ Steady /\ UNCHANGED live
        /\ dirty' \in {dirty \cup {cur[t]}, dirty \ {cur[t]}}
    BY <1>12 DEF Write, Settle, Using, CanCall
  <2> HIDE DEF InHands
  <2>2. QED  BY <2>1, WorkMaps
<1>13. CASE ReleaseReset(t)
  <2>1. Steady /\ UNCHANGED live /\ cur[t] \in Sessions /\ cur[t] \in InHands(t)
    BY <1>13 DEF ReleaseReset
  <2>2. CASE cur[t] \in live /\ dirty' = dirty \ {cur[t]}
    <3> HIDE DEF InHands
    <3>1. QED  BY <2>1, <2>2, WorkMaps
  <2>3. CASE UNCHANGED dirty
    BY <2>1, <2>3, StutterMaps
  <2>4. QED  BY <1>13, <2>2, <2>3 DEF ReleaseReset, CanCall
<1>14. CASE SweepCheck(t)
  <2>1. Steady /\ UNCHANGED <<live, dirty>>
    BY <1>14 DEF SweepCheck
  <2>2. QED  BY <2>1, StutterMaps
<1>15. CASE CloseDiscard(t)
  <2>1. Steady /\ UNCHANGED <<live, dirty>>
    BY <1>15 DEF CloseDiscard
  <2>2. QED  BY <2>1, StutterMaps
<1>16. CASE UNCHANGED <<sessionVars, cur, todo, keep>>
  BY <1>16, StutterMaps
<1>17. QED
  BY <1>1, <1>2, <1>3, <1>4, <1>6, <1>7, <1>8, <1>9, <1>10, <1>11, <1>12, <1>13,
     <1>14, <1>15, <1>16
     DEF Step, Borrower, AcquireReserve, AcquireDeadline, AcquireTimeout,
         ReleaseHealth, Decrement, WarmReserve, WarmHealth, CloseStop, CloseJoin,
         CallAcquire, CallWarm, CallSweep, CallClose, CallRelease

(* The pool implements the leasing of sessions.                            *)
THEOREM Refinement == Spec => LeasingSpec
<1>1. Init => Leasing!Init
  <2> SUFFICES ASSUME Init PROVE Leasing!Init
    OBVIOUS
  <2>1. Lessee = [s \in Sessions |-> NoThread]
    BY SessionsAssumption DEF Init, Lessee, InHands
  <2>2. QED  BY <2>1 DEF Init, Leasing!Init
<1>2. IInv /\ IInv' /\ [Next]_vars => [Leasing!Next]_(Leasing!leaseVars)
  <2> SUFFICES ASSUME IInv, IInv', [Next]_vars
               PROVE  [Leasing!Next]_(Leasing!leaseVars)
    OBVIOUS
  <2>1. CASE Next
    BY <2>1, RefinementStep DEF Next
  <2>2. CASE UNCHANGED vars
    BY <2>2, StutterMaps
       DEF vars, poolVars, sessionVars, threadVars, InHands
  <2>3. QED  BY <2>1, <2>2
<1>3. QED  BY <1>1, <1>2, Invariance, PTL DEF Spec, LeasingSpec, Leasing!Spec
=============================================================================
