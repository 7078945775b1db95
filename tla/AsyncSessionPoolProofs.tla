------------------------ MODULE AsyncSessionPoolProofs ------------------------
(***************************************************************************)
(* Proofs about AsyncSessionPool for every number of tasks and sessions,   *)
(* every maxsize and minsize, and whatever may happen.                     *)
(***************************************************************************)
EXTENDS AsyncSessionPool, FiniteSetTheorems, TLAPS

-----------------------------------------------------------------------------
(* Types.  A task refers to a session exactly where it is suspended with   *)
(* one in its hands, and is suspended in a call only when it has made one. *)
Holding == {"login", "check", "using", "discard", "reset", "relcheck"}

AtLabel(t) ==
  /\ held[t] \in Sessions <=> pc[t] \in Holding
  /\ op[t] = "none" => pc[t] \in {"idle", "none", "sleep", "ended"}
  /\ pc[t] = "sweep" => op[t] = "sweep"

TypeInv ==
  /\ mode \in Modes
  /\ closed \in BOOLEAN
  /\ created \in Int
  /\ idle \subseteq Sessions /\ live \subseteq Sessions
  /\ dirty \subseteq Sessions
  /\ pc \in [Everyone -> Labels]
  /\ op \in [Everyone -> Operations]
  /\ held \in [Everyone -> Sessions \cup {NoSession}]
  /\ drained \in [Everyone -> SUBSET Sessions]
  /\ kept \in [Everyone -> SUBSET Sessions]
  /\ stray \in [Everyone -> SUBSET Sessions]
  /\ adrift \in [Everyone -> SUBSET Sessions]
  /\ forgotten \subseteq Sessions
  /\ \A t \in Everyone : AtLabel(t)

(* The initial state has its type.                                         *)
LEMMA TypeInit ==
  ASSUME Init
  PROVE  TypeInv
<1>1. NoSession \notin Sessions
  BY SessionsAssumption
<1>2. \A t \in Everyone : AtLabel(t)
  BY <1>1 DEF Init, AtLabel, Holding
<1>3. pc \in [Everyone -> Labels]
  BY DEF Init, Labels
<1>4. /\ op \in [Everyone -> Operations]
      /\ held \in [Everyone -> Sessions \cup {NoSession}]
      /\ drained \in [Everyone -> SUBSET Sessions]
      /\ kept \in [Everyone -> SUBSET Sessions]
      /\ stray \in [Everyone -> SUBSET Sessions]
      /\ adrift \in [Everyone -> SUBSET Sessions]
  BY DEF Init, Operations
<1>5. /\ mode \in Modes /\ closed \in BOOLEAN
      /\ idle \subseteq Sessions /\ live \subseteq Sessions
      /\ dirty \subseteq Sessions /\ forgotten \subseteq Sessions
  BY Zenon DEF Init
<1>6. created \in Int
  BY DEF Init
<1>7. QED  BY <1>2, <1>3, <1>4, <1>5, <1>6, Zenon DEF TypeInv

(* Where the sessions are: on the queue, in the hands of a task, or lost.  *)
(* A task keeps the places of all of them but of those it set adrift.      *)
Keeps(t) ==
  ((({held[t]} \cup drained[t]) \cup kept[t]) \cup stray[t]) \ {NoSession}
Hands(t) == Keeps(t) \cup adrift[t]
Rest == idle \cup forgotten
Tracked == {s \in Sessions : s \in Rest \/ \E t \in Everyone : s \in Keeps(t)}

Apart(t) ==
  /\ held[t] \notin drained[t] \cup kept[t] \cup stray[t] \cup adrift[t]
  /\ drained[t] \cap (kept[t] \cup stray[t] \cup adrift[t]) = {}
  /\ kept[t] \cap (stray[t] \cup adrift[t]) = {}
  /\ stray[t] \cap adrift[t] = {}

Exclusive ==
  /\ idle \cap forgotten = {}
  /\ \A t \in Everyone : Rest \cap Hands(t) = {} /\ Apart(t)
  /\ \A t, u \in Everyone : t # u => Hands(t) \cap Hands(u) = {}

(* What is known of a session from where it is.                            *)
Ready(s) == s \in live /\ s \notin dirty

HeldInOrder(t) ==
  /\ \A s \in drained[t] \cup kept[t] : Ready(s)
  /\ adrift[t] \subseteq live
  /\ pc[t] \in Holding \ {"login"} => held[t] \in live
  /\ pc[t] \in {"check", "relcheck"} => held[t] \notin dirty
  /\ pc[t] = "login" => held[t] \notin live

(* Why sessions may have been lost.                                        *)
Sweeping(t) == pc[t] = "sweep" \/ (pc[t] = "discard" /\ op[t] = "sweep")

Remembered(t) ==
  /\ drained[t] # {} \/ kept[t] # {} => Sweeping(t)
  /\ stray[t] # {} => May("cancel")
  /\ adrift[t] # {} => May("cancel") \/ (t = Sweeper /\ closed)

Excused ==
  forgotten # {} => May("logout") \/ May("cancel") \/ closed

Known == {s \in Sessions : s \in Rest \/ \E t \in Everyone : s \in Hands(t)}

Places ==
  /\ Exclusive
  /\ dirty \subseteq live /\ live \subseteq Known
  /\ \A s \in Rest : Ready(s)
  /\ \A t \in Everyone : HeldInOrder(t) /\ Remembered(t)
  /\ Excused

Counted == created = Cardinality(Tracked) /\ created <= MaxSize

IInv == TypeInv /\ Places /\ Counted

(* The steps by the task that takes them.                                  *)
Moves(t) ==
  \/ Run(t) \/ CallSweep(t)
  \/ /\ t \in Tasks
     /\ CallAcquire(t) \/ Work(t) \/ CallRelease(t) \/ CallClose(t) \/ Cancel(t)
  \/ t = Sweeper /\ SweeperEnds

(* Every step is a task's.                                                 *)
LEMMA NextMoves == Next <=> \E t \in Everyone : Moves(t)
BY DEF Next, Moves, Everyone

(* A new session is none that a task has in its hands or has dropped.      *)
LEMMA UnusedIsFree ==
  ASSUME NEW s \in Unused, NEW t \in Everyone
  PROVE  s \in Sessions /\ s \notin live /\ s \notin stray[t] /\ s # held[t]
<1>1. s \in Sessions /\ s \notin live
  BY DEF Unused
<1>2. s \notin UNION {stray[u] : u \in Everyone}
  BY DEF Unused
<1>3. s \notin {held[u] : u \in Everyone}
  BY DEF Unused
<1>4. s \notin stray[t]
  BY <1>2
<1>5. s # held[t]
  BY <1>3
<1>6. QED  BY <1>1, <1>4, <1>5

(* Whatever discards a session does so in a call.                          *)
LEMMA DiscardInCall ==
  ASSUME TypeInv, NEW t \in Everyone, pc[t] = "discard"
  PROVE  op[t] \in {"acquire", "warm", "release", "sweep", "close"}
<1>1. op[t] \in Operations /\ op[t] # "none"
  BY DEF TypeInv, AtLabel
<1>2. QED  BY <1>1 DEF Operations

(* Every step keeps the types.                                             *)
LEMMA TypeStep ==
  ASSUME TypeInv, NEW t \in Everyone, Moves(t)
  PROVE  TypeInv'
<1> USE SessionsAssumption, TasksAssumption, SizesAssumption
    DEF TypeInv, AtLabel, Holding, Labels, Operations, poolVars, serverVars,
        taskVars, sweepVars, lostVars, Goto, Hold, LetGo, Everyone
<1>1. CASE Take(t)  BY <1>1 DEF Take
<1>2. CASE Reserve(t)  BY <1>2 DEF Reserve, Unused
<1>3. CASE Blocked(t)  BY <1>3 DEF Blocked
<1>4. CASE Timeout(t)  BY <1>4 DEF Timeout
<1>5. CASE Login(t)  BY <1>5 DEF Login
<1>6. CASE Check(t)  BY <1>6 DEF Check
<1>7. CASE Work(t)  BY <1>7 DEF Work
<1>8. CASE CallRelease(t)  BY <1>8 DEF CallRelease
<1>9. CASE Reset(t)  BY <1>9 DEF Reset
<1>10. CASE ReturnCheck(t)  BY <1>10 DEF ReturnCheck
<1>11. CASE Discard(t)  BY <1>11 DEF Discard, GiveUpPlace, LoggedOut, Cancelled
<1>12. CASE DiscardRaises(t)  BY <1>12 DEF DiscardRaises, GiveUpPlace, LoggedOut, NeverLoggedOut, CallerEnds, Cancelled
<1>13. CASE CallSweep(t)  BY <1>13 DEF CallSweep, Over, Cancelled
<1>14. CASE SweepOne(t)  BY <1>14 DEF SweepOne
<1>15. CASE SweepPut(t)  BY <1>15 DEF SweepPut, Over
<1>16. CASE CallAcquire(t)  BY <1>16 DEF CallAcquire, EnsureSweeper
<1>17. CASE CallClose(t)  BY <1>17 DEF CallClose
<1>18. CASE CloseStop(t)  BY <1>18 DEF CloseStop
<1>19. CASE CloseDrain(t)  BY <1>19 DEF CloseDrain
<1>20. CASE Cancel(t)  BY <1>20 DEF Cancel, Drop
<1>21. CASE t = Sweeper /\ SweeperEnds  BY <1>21 DEF SweeperEnds
<1>22. QED
  BY <1>1, <1>2, <1>3, <1>4, <1>5, <1>6, <1>7, <1>8, <1>9, <1>10,
     <1>11, <1>12, <1>13, <1>14, <1>15, <1>16, <1>17, <1>18, <1>19, <1>20, <1>21
     DEF Moves, Run

(* A step that changes the sessions of one task and of none, moving them    *)
(* between them or bringing in new ones, keeps every session in one place. *)
Row(u) == <<held[u], drained[u], kept[u], stray[u], adrift[u]>>

LEMMA ExclusiveStep ==
  ASSUME Exclusive, NEW t \in Everyone, NEW F,
         \A u \in Everyone : F \cap (Rest \cup Hands(u)) = {},
         \A u \in Everyone \ {t} : Row(u)' = Row(u),
         Rest' \cup Hands(t)' \subseteq (Rest \cup Hands(t)) \cup F,
         Rest' \cap Hands(t)' = {}, Apart(t)', idle' \cap forgotten' = {}
  PROVE  Exclusive'
<1>1. \A u \in Everyone \ {t} : Hands(u)' = Hands(u) /\ Apart(u)'
  BY DEF Exclusive, Row, Hands, Keeps, Apart
<1>2. \A u \in Everyone \ {t} :
        Rest' \cap Hands(u)' = {} /\ Hands(t)' \cap Hands(u)' = {}
  BY <1>1 DEF Exclusive
<1>3. \A u, v \in Everyone \ {t} : u # v => Hands(u)' \cap Hands(v)' = {}
  BY <1>1 DEF Exclusive
<1>4. QED  BY <1>1, <1>2, <1>3 DEF Exclusive

(* Every step keeps each session in one place.                             *)
LEMMA ExclusiveKept ==
  ASSUME TypeInv, TypeInv', Places, NEW t \in Everyone, Moves(t)
  PROVE  Exclusive'
<1>0. Exclusive /\ NoSession \notin Sessions
  BY SessionsAssumption DEF Places
<1>same. ASSUME UNCHANGED <<idle, forgotten>>, Row(t)' = Row(t),
                \A u \in Everyone \ {t} : Row(u)' = Row(u)
         PROVE  Exclusive'
  BY <1>0, <1>same DEF Exclusive, Hands, Keeps, Rest, Apart, Row
<1>move. ASSUME \A u \in Everyone \ {t} : Row(u)' = Row(u),
                Rest' \cup Hands(t)' \subseteq Rest \cup Hands(t),
                Rest' \cap Hands(t)' = {}, Apart(t)', idle' \cap forgotten' = {}
         PROVE  Exclusive'
  BY <1>0, <1>move, ExclusiveStep
<1>now. /\ Rest \cap Hands(t) = {} /\ Apart(t) /\ idle \cap forgotten = {}
        /\ held[t] # NoSession <=> held[t] \in Sessions
  BY <1>0 DEF Exclusive, TypeInv
<1> USE DEF TypeInv, AtLabel, Holding, Apart, Hands, Keeps, Rest, Row, poolVars,
        serverVars, taskVars, sweepVars, lostVars, Goto, Hold, LetGo
<1>1. CASE Take(t)
  <2>1. \A u \in Everyone \ {t} : Row(u)' = Row(u)
    BY <1>1 DEF Take
  <2>2. PICK s \in idle : idle' = idle \ {s} /\ held' = [held EXCEPT ![t] = s]
    BY <1>1 DEF Take
  <2>3. UNCHANGED <<drained, kept, stray, adrift, forgotten>> /\ held[t] = NoSession
    BY <1>0, <1>1 DEF Take
  <2>4. QED  BY <1>0, <1>now, <2>1, <2>2, <2>3, <1>move
<1>2. CASE Reserve(t)
  <2>1. \A u \in Everyone \ {t} : Row(u)' = Row(u)
    BY <1>2 DEF Reserve
  <2>2. PICK s \in Unused : held' = [held EXCEPT ![t] = s]
    BY <1>2 DEF Reserve
  <2>3. s \in Sessions /\ s \notin live /\ \A u \in Everyone :
          s \notin stray[u] /\ s # held[u]
    BY <2>2, UnusedIsFree
  <2>4. s \notin Rest /\ \A u \in Everyone :
          s \notin drained[u] /\ s \notin kept[u] /\ s \notin adrift[u]
    BY <2>3 DEF Places, Ready, HeldInOrder
  <2>5. /\ UNCHANGED <<idle, drained, kept, stray, adrift, forgotten>>
        /\ held[t] = NoSession
    BY <1>0, <1>2 DEF Reserve
  <2>6. \A u \in Everyone : {s} \cap (Rest \cup Hands(u)) = {}
    BY <2>3, <2>4
  <2>7. /\ Rest' = Rest /\ Hands(t)' \subseteq Hands(t) \cup {s}
        /\ Rest' \cap Hands(t)' = {} /\ Apart(t)' /\ idle' \cap forgotten' = {}
    BY <1>0, <1>now, <2>2, <2>3, <2>4, <2>5
  <2>8. Rest' \cup Hands(t)' \subseteq (Rest \cup Hands(t)) \cup {s}
    BY <2>7
  <2> HIDE DEF Apart, Hands, Keeps, Rest, Row
  <2>9. QED  BY <1>0, <2>1, <2>6, <2>7, <2>8, ExclusiveStep
<1>3. CASE Login(t)
  <2>1. /\ \A u \in Everyone \ {t} : Row(u)' = Row(u)
        /\ UNCHANGED <<idle, drained, kept, stray, adrift, forgotten>>
        /\ UNCHANGED held \/ held' = [held EXCEPT ![t] = NoSession]
    BY <1>3 DEF Login
  <2>2. QED  BY <1>0, <1>now, <2>1, <1>move
<1>4. CASE Check(t) \/ ReturnCheck(t)
  <2>1. /\ \A u \in Everyone \ {t} : Row(u)' = Row(u)
        /\ UNCHANGED <<drained, kept, stray, adrift, forgotten>>
        /\ \/ UNCHANGED <<idle, held>>
           \/ /\ idle' = idle \cup {held[t]}
              /\ held' = [held EXCEPT ![t] = NoSession]
        /\ held[t] \in Sessions
    BY <1>4 DEF Check, ReturnCheck
  <2>2. held[t] \notin forgotten
    BY <1>0, <1>now, <2>1
  <2>3. QED  BY <1>0, <1>now, <2>1, <2>2, <1>move
<1>5. CASE Discard(t)
  <2>1. /\ \A u \in Everyone \ {t} : Row(u)' = Row(u)
        /\ UNCHANGED <<idle, drained, kept, stray, adrift, forgotten>>
        /\ held' = [held EXCEPT ![t] = NoSession]
    BY <1>5 DEF Discard, GiveUpPlace, LoggedOut
  <2>2. QED  BY <1>0, <1>now, <2>1, <1>move
<1>6. CASE DiscardRaises(t)
  <2>1. /\ UNCHANGED <<idle, stray>>
        /\ held' = [held EXCEPT ![t] = NoSession]
        /\ forgotten' = forgotten \cup drained[t] \cup kept[t]
        /\ drained' = [drained EXCEPT ![t] = {}]
        /\ kept' = [kept EXCEPT ![t] = {}]
        /\ held[t] \in Sessions
        /\ \/ UNCHANGED adrift
           \/ adrift' = [adrift EXCEPT ![t] = @ \cup {held[t]}]
    BY <1>6 DEF DiscardRaises, GiveUpPlace, LoggedOut, NeverLoggedOut, CallerEnds
  <2>2. \A u \in Everyone \ {t} : Row(u)' = Row(u)
    BY <2>1
  <2>3. /\ held'[t] = NoSession /\ drained'[t] = {} /\ kept'[t] = {}
        /\ stray'[t] = stray[t] /\ adrift'[t] \subseteq adrift[t] \cup {held[t]}
    BY <2>1
  <2>4. QED  BY <1>0, <1>now, <2>1, <2>2, <2>3, <1>move
<1>7. CASE CallSweep(t)
  <2>1. drained[t] = {}
    BY <1>7 DEF CallSweep, Over, Places, Remembered, Sweeping
  <2>2. /\ \A u \in Everyone \ {t} : Row(u)' = Row(u)
        /\ UNCHANGED <<held, kept, stray, adrift, forgotten>>
        /\ idle' = {} /\ drained' = [drained EXCEPT ![t] = idle]
    BY <1>7 DEF CallSweep
  <2>3. held[t] \notin idle
    BY <1>0, <1>now
  <2>4. QED  BY <1>0, <1>now, <2>1, <2>2, <2>3, <1>move
<1>8. CASE SweepOne(t)
  <2>1. PICK s \in drained[t], passed \in SUBSET drained[t] :
          /\ s \notin passed
          /\ drained' = [drained EXCEPT ![t] = @ \ ({s} \cup passed)]
          /\ kept' = [kept EXCEPT ![t] = @ \cup passed]
          /\ held' = [held EXCEPT ![t] = s]
    BY <1>8 DEF SweepOne
  <2>2. UNCHANGED <<idle, stray, adrift, forgotten>> /\ held[t] = NoSession
    BY <1>0, <1>8 DEF SweepOne
  <2>3. \A u \in Everyone \ {t} : Row(u)' = Row(u)
    BY <2>1, <2>2
  <2>4. /\ held'[t] = s /\ drained'[t] = drained[t] \ ({s} \cup passed)
        /\ kept'[t] = kept[t] \cup passed
    BY <2>1
  <2>5. QED  BY <1>0, <1>now, <2>1, <2>2, <2>3, <2>4, <1>move
<1>9. CASE SweepPut(t)
  <2>1. /\ \A u \in Everyone \ {t} : Row(u)' = Row(u)
        /\ UNCHANGED <<held, stray, adrift, forgotten>>
        /\ idle' = idle \cup drained[t] \cup kept[t]
        /\ drained'[t] = {} /\ kept'[t] = {}
    BY <1>9 DEF SweepPut
  <2>2. held[t] = NoSession
    BY <1>0, <1>9 DEF SweepPut
  <2>3. QED  BY <1>0, <1>now, <2>1, <2>2, <1>move
<1>10. CASE CloseDrain(t)
  <2>1. /\ \A u \in Everyone \ {t} : Row(u)' = Row(u)
        /\ UNCHANGED <<drained, kept, stray, adrift, forgotten>>
        /\ held[t] = NoSession
        /\ \/ UNCHANGED <<idle, held>>
           \/ \E s \in idle : idle' = idle \ {s} /\ held' = [held EXCEPT ![t] = s]
    BY <1>0, <1>10 DEF CloseDrain
  <2>2. QED  BY <1>0, <1>now, <2>1, <1>move
<1>11. CASE Cancel(t)
  <2>1. /\ \A u \in Everyone \ {t} : Row(u)' = Row(u)
        /\ UNCHANGED <<idle, drained, kept, adrift, forgotten>>
        /\ \/ UNCHANGED <<held, stray>>
           \/ /\ stray' = [stray EXCEPT ![t] = @ \cup {held[t]}]
              /\ held' = [held EXCEPT ![t] = NoSession]
              /\ held[t] \in Sessions
    BY <1>11 DEF Cancel, Drop
  <2>2. QED  BY <1>0, <1>now, <2>1, <1>move
<1>12. CASE \/ Blocked(t) \/ Timeout(t) \/ Reset(t) \/ CloseStop(t)
            \/ CallAcquire(t) \/ Work(t) \/ CallRelease(t) \/ CallClose(t)
            \/ SweeperEnds
  <2>1. UNCHANGED <<idle, forgotten, held, drained, kept, stray, adrift>>
    BY <1>12
       DEF Blocked, Timeout, Reset, CloseStop, CallAcquire, Work, CallRelease,
           CallClose, SweeperEnds
  <2>2. QED  BY <2>1, <1>same
<1>13. QED
  BY <1>1, <1>2, <1>3, <1>4, <1>5, <1>6, <1>7, <1>8, <1>9, <1>10, <1>11, <1>12
     DEF Moves, Run

(* A step that changes one task, its sessions and what is known of the one *)
(* it holds, leaves what it says of the others.                            *)
LEMMA LocalStep ==
  ASSUME TypeInv, TypeInv', Places, Exclusive', NEW t \in Everyone,
         \A u \in Everyone \ {t} :
           Row(u)' = Row(u) /\ pc'[u] = pc[u] /\ op'[u] = op[u],
         UNCHANGED mode, closed => closed',
         live \ {held[t]} \subseteq live', live' \subseteq live \cup {held[t]},
         dirty' \subseteq dirty \cup {held[t]}, dirty' \subseteq live',
         live' \cap (Rest \cup Hands(t)) \subseteq Rest' \cup Hands(t)',
         \A s \in Rest' : Ready(s)', HeldInOrder(t)', Remembered(t)', Excused'
  PROVE  Places'
<1>1. \A u \in Everyone \ {t} : Hands(u)' = Hands(u) /\ Hands(u) \cap Hands(t) = {}
  BY DEF Places, Exclusive, Row, Hands, Keeps
<1>2. held[t] # NoSession => held[t] \in Hands(t)
  BY DEF Hands, Keeps
<1>3. live' \subseteq Known'
  <2> SUFFICES ASSUME NEW s \in live' PROVE s \in Known'
    OBVIOUS
  <2>1. s \in Sessions /\ s # NoSession
    BY SessionsAssumption DEF TypeInv
  <2>2. s \in Rest \cup Hands(t) \/ \E u \in Everyone \ {t} : s \in Hands(u)
    BY <1>2, <2>1 DEF Places, Known
  <2>3. CASE s \in Rest \cup Hands(t)
    BY <2>1, <2>3 DEF Known
  <2>4. CASE \E u \in Everyone \ {t} : s \in Hands(u)
    BY <1>1, <2>1, <2>4 DEF Known
  <2>5. QED  BY <2>2, <2>3, <2>4
<1>4. ASSUME NEW u \in Everyone \ {t} PROVE HeldInOrder(u)' /\ Remembered(u)'
  <2>1. /\ \A s \in drained[u] \cup kept[u] \cup adrift[u] : s # held[t]
        /\ held[u] \in Sessions => held[u] # held[t]
    BY <1>1, <1>2, SessionsAssumption DEF Hands, Keeps, TypeInv
  <2>2. pc[u] \in Holding => held[u] \in Sessions
    BY DEF TypeInv, AtLabel
  <2>3. HeldInOrder(u) /\ Remembered(u)
    BY DEF Places
  <2>4. HeldInOrder(u)'
    BY <2>1, <2>2, <2>3 DEF HeldInOrder, Ready, Row, Holding
  <2>5. Remembered(u)'
    BY <2>3 DEF Remembered, Sweeping, May, Row
  <2>6. QED  BY <2>4, <2>5
<1>5. QED  BY <1>3, <1>4 DEF Places

(* Every step keeps the sessions in their places.                          *)
LEMMA PlacesStep ==
  ASSUME TypeInv, TypeInv', Places, NEW t \in Everyone, Moves(t)
  PROVE  Places'
<1>0. /\ Exclusive /\ Exclusive' /\ NoSession \notin Sessions
      /\ HeldInOrder(t) /\ Remembered(t) /\ Excused
      /\ dirty \subseteq live /\ \A s \in Rest : Ready(s)
  BY ExclusiveKept, SessionsAssumption DEF Places
<1>now. Rest \cap Hands(t) = {} /\ Apart(t)
  BY <1>0 DEF Exclusive
<1> DEFINE Alone == \A u \in Everyone \ {t} :
                      Row(u)' = Row(u) /\ pc'[u] = pc[u] /\ op'[u] = op[u]
           Closing == UNCHANGED mode /\ (closed => closed')
           Servers == /\ live \ {held[t]} \subseteq live'
                      /\ live' \subseteq live \cup {held[t]}
                      /\ dirty' \subseteq dirty \cup {held[t]}
                      /\ dirty' \subseteq live'
           Moved == live' \cap (Rest \cup Hands(t)) \subseteq Rest' \cup Hands(t)'
           Waiting == \A s \in Rest' : Ready(s)'
<1>local. ASSUME Alone, Closing, Servers, Moved, Waiting,
                 HeldInOrder(t)', Remembered(t)', Excused'
          PROVE  Places'
  BY <1>0, <1>local, LocalStep
<1> USE DEF TypeInv, AtLabel, Holding, Apart, Hands, Keeps, Rest, Row, Ready,
        HeldInOrder, Remembered, Sweeping, Excused, May, poolVars, serverVars,
        taskVars, sweepVars, lostVars, Goto, Hold, LetGo
<1>1. CASE Take(t)
  <2>1. Alone /\ Closing /\ Servers /\ Moved
    BY <1>0, <1>1 DEF Take
  <2>2. Waiting /\ HeldInOrder(t)' /\ Remembered(t)' /\ Excused'
    BY <1>0, <1>now, <1>1 DEF Take
  <2>3. QED  BY <2>1, <2>2, <1>local
<1>2. CASE Reserve(t)
  <2>1. Alone /\ Closing
    BY <1>2 DEF Reserve
  <2>2. Servers
    BY <1>0, <1>2 DEF Reserve
  <2>3. Moved
    BY <1>0, <1>2 DEF Reserve
  <2>4. Waiting
    BY <1>0, <1>now, <1>2 DEF Reserve
  <2>5. HeldInOrder(t)'
    <3>1. PICK s \in Unused : held' = [held EXCEPT ![t] = s] /\ pc'[t] = "login"
      BY <1>2 DEF Reserve
    <3>2. s \notin live
      BY <3>1, UnusedIsFree
    <3>3. QED  BY <1>0, <1>2, <3>1, <3>2 DEF Reserve
  <2>6. Remembered(t)' /\ Excused'
    BY <1>0, <1>2 DEF Reserve
  <2>7. QED  BY <2>1, <2>2, <2>3, <2>4, <2>5, <2>6, <1>local
<1>3. CASE Blocked(t)
  <2>1. Alone /\ Closing /\ Servers /\ Moved
    BY <1>0, <1>3 DEF Blocked
  <2>2. Waiting /\ HeldInOrder(t)' /\ Remembered(t)' /\ Excused'
    BY <1>0, <1>now, <1>3 DEF Blocked
  <2>3. QED  BY <2>1, <2>2, <1>local
<1>4. CASE Timeout(t)
  <2>1. Alone /\ Closing /\ Servers /\ Moved
    BY <1>0, <1>4 DEF Timeout
  <2>2. Waiting /\ HeldInOrder(t)' /\ Remembered(t)' /\ Excused'
    BY <1>0, <1>now, <1>4 DEF Timeout
  <2>3. QED  BY <2>1, <2>2, <1>local
<1>5. CASE Login(t)
  <2>1. Alone /\ Closing /\ Servers /\ Moved
    BY <1>0, <1>5 DEF Login
  <2>2. Waiting /\ HeldInOrder(t)' /\ Remembered(t)' /\ Excused'
    BY <1>0, <1>now, <1>5 DEF Login
  <2>3. QED  BY <2>1, <2>2, <1>local
<1>6. CASE Check(t)
  <2>1. Alone /\ Closing /\ Servers /\ Moved
    BY <1>0, <1>6 DEF Check
  <2>2. Waiting /\ HeldInOrder(t)' /\ Remembered(t)' /\ Excused'
    BY <1>0, <1>now, <1>6 DEF Check
  <2>3. QED  BY <2>1, <2>2, <1>local
<1>7. CASE t \in Tasks /\ Work(t)
  <2>1. Alone /\ Closing /\ Servers /\ Moved
    BY <1>0, <1>7 DEF Work
  <2>2. Waiting /\ HeldInOrder(t)' /\ Remembered(t)' /\ Excused'
    BY <1>0, <1>now, <1>7 DEF Work
  <2>3. QED  BY <2>1, <2>2, <1>local
<1>8. CASE t \in Tasks /\ CallRelease(t)
  <2>1. Alone /\ Closing /\ Servers /\ Moved
    BY <1>0, <1>8 DEF CallRelease
  <2>2. Waiting /\ HeldInOrder(t)' /\ Remembered(t)' /\ Excused'
    BY <1>0, <1>now, <1>8 DEF CallRelease
  <2>3. QED  BY <2>1, <2>2, <1>local
<1>9. CASE Reset(t)
  <2>1. Alone /\ Closing /\ Servers /\ Moved
    BY <1>0, <1>9 DEF Reset
  <2>2. Waiting /\ HeldInOrder(t)' /\ Remembered(t)' /\ Excused'
    BY <1>0, <1>now, <1>9 DEF Reset
  <2>3. QED  BY <2>1, <2>2, <1>local
<1>10. CASE ReturnCheck(t)
  <2>1. Alone /\ Closing /\ Servers /\ Moved
    BY <1>0, <1>10 DEF ReturnCheck
  <2>2. Waiting /\ HeldInOrder(t)' /\ Remembered(t)' /\ Excused'
    BY <1>0, <1>now, <1>10 DEF ReturnCheck
  <2>3. QED  BY <2>1, <2>2, <1>local
<1>11. CASE Discard(t)
  <2>1. Alone /\ Closing /\ Servers /\ Moved
    BY <1>0, <1>11 DEF Discard, GiveUpPlace, LoggedOut, Cancelled
  <2>2. Waiting /\ HeldInOrder(t)' /\ Remembered(t)' /\ Excused'
    BY <1>0, <1>now, <1>11 DEF Discard, GiveUpPlace, LoggedOut, Cancelled
  <2>3. QED  BY <2>1, <2>2, <1>local
<1>12. CASE DiscardRaises(t)
  <2>1. Alone /\ Closing /\ Servers /\ Moved
    BY <1>0, <1>12 DEF DiscardRaises, GiveUpPlace, LoggedOut, NeverLoggedOut,
           CallerEnds, Cancelled
  <2>2. Waiting /\ HeldInOrder(t)' /\ Remembered(t)' /\ Excused'
    BY <1>0, <1>now, <1>12 DEF DiscardRaises, GiveUpPlace, LoggedOut, NeverLoggedOut,
           CallerEnds, Cancelled
  <2>3. QED  BY <2>1, <2>2, <1>local
<1>13. CASE CallSweep(t)
  <2>1. Alone /\ Closing /\ Servers /\ Moved
    BY <1>0, <1>13 DEF CallSweep, Over, Cancelled
  <2>2. Waiting /\ HeldInOrder(t)' /\ Remembered(t)' /\ Excused'
    BY <1>0, <1>now, <1>13 DEF CallSweep, Over, Cancelled
  <2>3. QED  BY <2>1, <2>2, <1>local
<1>14. CASE SweepOne(t)
  <2>1. Alone /\ Closing /\ Servers /\ Moved
    BY <1>0, <1>14 DEF SweepOne
  <2>2. Waiting /\ HeldInOrder(t)' /\ Remembered(t)' /\ Excused'
    BY <1>0, <1>now, <1>14 DEF SweepOne
  <2>3. QED  BY <2>1, <2>2, <1>local
<1>15. CASE SweepPut(t)
  <2>1. Alone /\ Closing /\ Servers /\ Moved
    BY <1>0, <1>15 DEF SweepPut, Over
  <2>2. Waiting /\ HeldInOrder(t)' /\ Remembered(t)' /\ Excused'
    BY <1>0, <1>now, <1>15 DEF SweepPut, Over
  <2>3. QED  BY <2>1, <2>2, <1>local
<1>16. CASE CloseStop(t)
  <2>1. Alone /\ Closing /\ Servers /\ Moved
    BY <1>0, <1>16 DEF CloseStop
  <2>2. Waiting /\ HeldInOrder(t)' /\ Remembered(t)' /\ Excused'
    BY <1>0, <1>now, <1>16 DEF CloseStop
  <2>3. QED  BY <2>1, <2>2, <1>local
<1>17. CASE CloseDrain(t)
  <2>1. Alone /\ Closing /\ Servers /\ Moved
    BY <1>0, <1>17 DEF CloseDrain
  <2>2. Waiting /\ HeldInOrder(t)' /\ Remembered(t)' /\ Excused'
    BY <1>0, <1>now, <1>17 DEF CloseDrain
  <2>3. QED  BY <2>1, <2>2, <1>local
<1>18. CASE t \in Tasks /\ Cancel(t)
  <2>1. Alone /\ Closing /\ Servers /\ Moved
    BY <1>0, <1>18 DEF Cancel, Drop
  <2>2. Waiting /\ HeldInOrder(t)' /\ Remembered(t)' /\ Excused'
    BY <1>0, <1>now, <1>18 DEF Cancel, Drop
  <2>3. QED  BY <2>1, <2>2, <1>local
<1>19. CASE t \in Tasks /\ CallClose(t)
  <2>1. Alone /\ Closing /\ Servers /\ Moved
    BY <1>0, <1>19 DEF CallClose
  <2>2. Waiting /\ HeldInOrder(t)' /\ Remembered(t)' /\ Excused'
    BY <1>0, <1>now, <1>19 DEF CallClose
  <2>3. QED  BY <2>1, <2>2, <1>local
<1>20. CASE t = Sweeper /\ SweeperEnds
  <2>1. Alone /\ Closing /\ Servers /\ Moved
    BY <1>0, <1>20 DEF SweeperEnds
  <2>2. Waiting /\ HeldInOrder(t)' /\ Remembered(t)' /\ Excused'
    BY <1>0, <1>now, <1>20 DEF SweeperEnds
  <2>3. QED  BY <2>1, <2>2, <1>local
<1>21. CASE t \in Tasks /\ CallAcquire(t)
  <2>1. UNCHANGED <<mode, closed, idle, serverVars, held, sweepVars, lostVars>>
    BY <1>21 DEF CallAcquire
  <2>2. ASSUME NEW u \in Everyone PROVE HeldInOrder(u)' /\ Remembered(u)'
    BY <1>21, <2>1 DEF CallAcquire, EnsureSweeper, Places
  <2>3. QED  BY <1>0, <2>1, <2>2 DEF Places, Known
<1>22. QED
  BY <1>1, <1>2, <1>3, <1>4, <1>5, <1>6, <1>7, <1>8, <1>9, <1>10, <1>11, <1>12, <1>13, <1>14, <1>15, <1>16, <1>17, <1>18, <1>19, <1>20, <1>21 DEF Moves, Run

-----------------------------------------------------------------------------
(* Counting.  Each step leaves the tracked sessions and _created alone, or *)
(* adds a session and a place, or gives both back.                         *)
LEMMA FiniteTracked ==
  /\ IsFiniteSet(Tracked) /\ Cardinality(Tracked) \in Nat
  /\ IsFiniteSet(Everyone)
<1>1. Tracked \subseteq Sessions
  BY DEF Tracked
<1>2. IsFiniteSet(Everyone)
  BY TasksAssumption, FS_AddElement DEF Everyone
<1>3. QED  BY <1>1, <1>2, SessionsAssumption, FS_Subset, FS_CardinalityType

(* What a task holds is nowhere else.                                      *)
LEMMA HeldAlone ==
  ASSUME TypeInv, Places, NEW t \in Everyone, held[t] \in Sessions
  PROVE  /\ held[t] \notin Rest
         /\ \A u \in Everyone \ {t} : held[t] \notin Keeps(u)
         /\ held[t] \notin drained[t] \cup kept[t] \cup stray[t]
<1>1. held[t] \in Keeps(t)
  BY SessionsAssumption DEF Keeps
<1>2. QED  BY <1>1 DEF Places, Exclusive, Apart, Hands

(* Every step keeps _created exact and within maxsize.                     *)
LEMMA CountingStep ==
  ASSUME TypeInv, TypeInv', Places, Counted, NEW t \in Everyone, Moves(t)
  PROVE  Counted'
<1>0. /\ IsFiniteSet(Tracked) /\ Cardinality(Tracked) \in Nat
      /\ created \in Int /\ MaxSize \in Nat
  BY FiniteTracked, SizesAssumption DEF TypeInv
<1>same. ASSUME UNCHANGED <<Tracked, created>> PROVE Counted'
  BY <1>same DEF Counted
<1>take. ASSUME NEW s \in Sessions, s \notin Tracked, Tracked' = Tracked \cup {s},
                created < MaxSize, created' = created + 1
         PROVE  Counted'
  <2>1. Cardinality(Tracked \cup {s}) = Cardinality(Tracked) + 1
    BY <1>0, <1>take, FS_AddElement
  <2>2. QED  BY <1>0, <1>take, <2>1 DEF Counted
<1>give. ASSUME NEW s \in Tracked, Tracked' = Tracked \ {s},
                created' = created - 1
         PROVE  Counted'
  <2>1. Cardinality(Tracked \ {s}) = Cardinality(Tracked) - 1
    BY <1>0, <1>give, FS_RemoveElement
  <2>2. QED  BY <1>0, <1>give, <2>1 DEF Counted
<1> USE SessionsAssumption, TasksAssumption
    DEF TypeInv, AtLabel, Holding, Keeps, Rest, Tracked, poolVars, serverVars,
        taskVars, sweepVars, lostVars, Goto, Hold, LetGo
<1>1. CASE Take(t)
  <2>1. UNCHANGED <<Tracked, created>>
    BY <1>1 DEF Take
  <2>2. QED  BY <2>1, <1>same
<1>2. CASE Blocked(t)
  <2>1. UNCHANGED <<Tracked, created>>
    BY <1>2 DEF Blocked
  <2>2. QED  BY <2>1, <1>same
<1>3. CASE Timeout(t)
  <2>1. UNCHANGED <<Tracked, created>>
    BY <1>3 DEF Timeout
  <2>2. QED  BY <2>1, <1>same
<1>4. CASE Check(t)
  <2>1. UNCHANGED <<Tracked, created>>
    BY <1>4 DEF Check
  <2>2. QED  BY <2>1, <1>same
<1>5. CASE Work(t)
  <2>1. UNCHANGED <<Tracked, created>>
    BY <1>5 DEF Work
  <2>2. QED  BY <2>1, <1>same
<1>6. CASE CallRelease(t)
  <2>1. UNCHANGED <<Tracked, created>>
    BY <1>6 DEF CallRelease
  <2>2. QED  BY <2>1, <1>same
<1>7. CASE Reset(t)
  <2>1. UNCHANGED <<Tracked, created>>
    BY <1>7 DEF Reset
  <2>2. QED  BY <2>1, <1>same
<1>8. CASE ReturnCheck(t)
  <2>1. UNCHANGED <<Tracked, created>>
    BY <1>8 DEF ReturnCheck
  <2>2. QED  BY <2>1, <1>same
<1>9. CASE CallSweep(t)
  <2>1. drained[t] = {}
    BY <1>9 DEF CallSweep, Over, Places, Remembered, Sweeping
  <2>2. UNCHANGED <<Tracked, created>>
    BY <1>9, <2>1 DEF CallSweep
  <2>3. QED  BY <2>2, <1>same
<1>10. CASE SweepOne(t)
  <2>1. UNCHANGED <<Tracked, created>>
    BY <1>10 DEF SweepOne
  <2>2. QED  BY <2>1, <1>same
<1>11. CASE SweepPut(t)
  <2>1. UNCHANGED <<Tracked, created>>
    BY <1>11 DEF SweepPut, Over
  <2>2. QED  BY <2>1, <1>same
<1>12. CASE CallAcquire(t)
  <2>1. UNCHANGED <<Tracked, created>>
    BY <1>12 DEF CallAcquire, EnsureSweeper
  <2>2. QED  BY <2>1, <1>same
<1>13. CASE CallClose(t)
  <2>1. UNCHANGED <<Tracked, created>>
    BY <1>13 DEF CallClose
  <2>2. QED  BY <2>1, <1>same
<1>14. CASE CloseStop(t)
  <2>1. UNCHANGED <<Tracked, created>>
    BY <1>14 DEF CloseStop
  <2>2. QED  BY <2>1, <1>same
<1>15. CASE CloseDrain(t)
  <2>1. UNCHANGED <<Tracked, created>>
    BY <1>15 DEF CloseDrain
  <2>2. QED  BY <2>1, <1>same
<1>16. CASE Cancel(t)
  <2>1. UNCHANGED <<Tracked, created>>
    BY <1>16 DEF Cancel, Drop
  <2>2. QED  BY <2>1, <1>same
<1>17. CASE t = Sweeper /\ SweeperEnds
  <2>1. UNCHANGED <<Tracked, created>>
    BY <1>17 DEF SweeperEnds
  <2>2. QED  BY <2>1, <1>same
<1>18. CASE Reserve(t)
  <2>1. PICK s \in Unused : held' = [held EXCEPT ![t] = s]
    BY <1>18 DEF Reserve
  <2>2. s \in Sessions /\ s \notin Tracked
    BY <2>1, UnusedIsFree DEF Places, Ready, HeldInOrder
  <2>3. Tracked' = Tracked \cup {s}
    BY <1>18, <2>1, <2>2 DEF Reserve
  <2>4. created < MaxSize /\ created' = created + 1
    BY <1>18 DEF Reserve
  <2>5. QED  BY <2>2, <2>3, <2>4, <1>take
<1>19. CASE Login(t)
  <2>1. CASE created' = created
    <3>1. Tracked' = Tracked
      BY <1>19, <2>1 DEF Login
    <3>2. QED  BY <2>1, <3>1, <1>same
  <2>2. CASE held' = [held EXCEPT ![t] = NoSession] /\ created' = created - 1
    <3>1. held[t] \in Tracked /\ Tracked' = Tracked \ {held[t]}
      BY <1>19, <2>2, HeldAlone DEF Login
    <3>2. QED  BY <2>2, <3>1, <1>give
  <2>3. QED  BY <1>19, <2>1, <2>2 DEF Login
<1>20. CASE Discard(t) \/ DiscardRaises(t)
  <2>1. /\ held' = [held EXCEPT ![t] = NoSession] /\ created' = created - 1
        /\ UNCHANGED <<idle, stray>> /\ pc[t] = "discard"
        /\ \/ UNCHANGED <<forgotten, drained, kept>>
           \/ /\ forgotten' = forgotten \cup drained[t] \cup kept[t]
              /\ drained' = [drained EXCEPT ![t] = {}]
              /\ kept' = [kept EXCEPT ![t] = {}]
    BY <1>20 DEF Discard, DiscardRaises, GiveUpPlace, CallerEnds
  <2>2. /\ held[t] \in Sessions /\ held[t] \notin Rest
        /\ \A u \in Everyone \ {t} : held[t] \notin Keeps(u)
        /\ held[t] \notin drained[t] \cup kept[t] \cup stray[t]
    BY <2>1, HeldAlone
  <2>3. held[t] \in Tracked /\ Tracked' = Tracked \ {held[t]}
    BY <2>1, <2>2
  <2>4. QED  BY <2>1, <2>3, <1>give
<1>21. QED
  BY <1>1, <1>2, <1>3, <1>4, <1>5, <1>6, <1>7, <1>8, <1>9, <1>10,
     <1>11, <1>12, <1>13, <1>14, <1>15, <1>16, <1>17, <1>18, <1>19, <1>20
     DEF Moves, Run

(* The inductive invariant holds along every behaviour.                    *)
THEOREM Invariance == Spec => []IInv
<1>1. Init => IInv
  <2> SUFFICES ASSUME Init PROVE IInv
    OBVIOUS
  <2>1. TypeInv
    BY TypeInit
  <2>2. Tracked = {}
    BY DEF Init, Tracked, Keeps, Rest
  <2>3. Places
    BY <2>2
       DEF Init, Places, Exclusive, Apart, Hands, Keeps, Rest, Known, Ready,
           HeldInOrder, Remembered, Excused, Holding
  <2>4. Counted
    BY <2>2, FS_EmptySet, SizesAssumption DEF Init, Counted
  <2>5. QED  BY <2>1, <2>3, <2>4 DEF IInv
<1>2. IInv /\ [Next]_vars => IInv'
  <2> SUFFICES ASSUME IInv, [Next]_vars PROVE IInv'
    OBVIOUS
  <2>1. CASE Next
    <3>1. PICK t \in Everyone : Moves(t)
      BY <2>1, NextMoves
    <3>2. TypeInv'
      BY <3>1, TypeStep DEF IInv
    <3>3. Places' /\ Counted'
      BY <3>1, <3>2, PlacesStep, CountingStep DEF IInv
    <3>4. QED  BY <3>2, <3>3 DEF IInv
  <2>2. CASE UNCHANGED vars
    <3> USE <2>2 DEF vars, poolVars, serverVars, taskVars, sweepVars, lostVars, IInv
    <3>1. TypeInv'
      BY DEF TypeInv, AtLabel
    <3>2. Places'
      BY DEF Places, Exclusive, Apart, Hands, Keeps, Rest, Known, Ready,
             HeldInOrder, Remembered, Sweeping, Excused, May
    <3>3. Counted'
      BY DEF Counted, Tracked, Keeps, Rest
    <3>4. QED  BY <3>1, <3>2, <3>3
  <2>3. QED  BY <2>1, <2>2
<1>3. QED  BY <1>1, <1>2, PTL DEF Spec

(* Type correctness; that _created stays within 0 and maxsize is part of   *)
(* it, and rests on what it counts.                                        *)
THEOREM TypeCorrect == Spec => []TypeOK
<1>1. IInv => TypeOK
  <2> SUFFICES ASSUME IInv PROVE TypeOK
    OBVIOUS
  <2>1. adrift \in [Everyone -> SUBSET live] /\ forgotten \subseteq live
    BY DEF IInv, TypeInv, Places, HeldInOrder, Ready, Rest
  <2>2. created \in 0..MaxSize
    BY FiniteTracked, SizesAssumption DEF IInv, TypeInv, Counted
  <2>3. QED  BY <2>1, <2>2 DEF IInv, TypeInv, Places, TypeOK
<1>2. QED  BY <1>1, Invariance, PTL

-----------------------------------------------------------------------------
(* The number of places a session is in, as SessionsAccounted counts them. *)
Holders(s) == {t \in {u \in Everyone : held[u] # NoSession} : held[t] = s}
Drainers(s) == {t \in Everyone : s \in drained[t]}
Keepers(s) == {t \in Everyone : s \in kept[t]}
Droppers(s) == {t \in Everyone : s \in stray[t]}

PlacesOf(s) ==
  (IF s \in idle \cup forgotten THEN 1 ELSE 0)
  + Cardinality(Holders(s)) + Cardinality(Drainers(s))
  + Cardinality(Keepers(s)) + Cardinality(Droppers(s))

(* It is one for the tracked sessions and none for the others.             *)
LEMMA PlacedOnce ==
  ASSUME TypeInv, Places, NEW s \in Sessions
  PROVE  PlacesOf(s) = IF s \in Tracked THEN 1 ELSE 0
<1> USE SessionsAssumption
<1>1. \A t \in Everyone :
        s \in Keeps(t) <=>
          held[t] = s \/ s \in drained[t] \/ s \in kept[t] \/ s \in stray[t]
  BY DEF Keeps
<1>2. Cardinality({}) = 0
  BY FS_EmptySet
<1>3. ASSUME \A t \in Everyone : s \notin Keeps(t)
      PROVE  /\ Holders(s) = {} /\ Drainers(s) = {} /\ Keepers(s) = {}
             /\ Droppers(s) = {}
  BY <1>1, <1>3 DEF Holders, Drainers, Keepers, Droppers
<1>4. CASE s \in Rest
  <2>1. \A t \in Everyone : s \notin Keeps(t)
    BY <1>4 DEF Places, Exclusive, Hands
  <2>2. QED  BY <1>2, <1>3, <1>4, <2>1 DEF PlacesOf, Tracked, Rest
<1>5. ASSUME NEW t \in Everyone, s \in Keeps(t)
      PROVE  PlacesOf(s) = IF s \in Tracked THEN 1 ELSE 0
  <2>1. s \notin Rest /\ \A u \in Everyone \ {t} : s \notin Keeps(u)
    BY <1>5 DEF Places, Exclusive, Hands
  <2>2. Cardinality({t}) = 1
    BY FS_Singleton
  <2>3. s \in Tracked
    BY <1>5 DEF Tracked
  <2>4. Apart(t)
    BY DEF Places, Exclusive
  <2>5. \/ /\ Holders(s) = {t} /\ Drainers(s) = {} /\ Keepers(s) = {}
           /\ Droppers(s) = {}
        \/ /\ Holders(s) = {} /\ Drainers(s) = {t} /\ Keepers(s) = {}
           /\ Droppers(s) = {}
        \/ /\ Holders(s) = {} /\ Drainers(s) = {} /\ Keepers(s) = {t}
           /\ Droppers(s) = {}
        \/ /\ Holders(s) = {} /\ Drainers(s) = {} /\ Keepers(s) = {}
           /\ Droppers(s) = {t}
    BY <1>1, <1>5, <2>1, <2>4 DEF Apart, Holders, Drainers, Keepers, Droppers
  <2>6. QED  BY <1>2, <2>1, <2>2, <2>3, <2>5 DEF PlacesOf, Rest
<1>6. CASE s \notin Rest /\ \A t \in Everyone : s \notin Keeps(t)
  BY <1>2, <1>3, <1>6 DEF PlacesOf, Tracked, Rest
<1>7. QED  BY <1>4, <1>5, <1>6

(* _created counts, one each, the sessions on the queue, in the hands of   *)
(* tasks and lost by them; what else is logged in was discarded by a task  *)
(* that was cancelled before the logout ran; and sessions are lost in no   *)
(* other way than by a cancellation or a logout that cuts a sweep short.   *)
THEOREM AccountingTheorem == Spec => []SessionsAccounted
<1>1. IInv => SessionsAccounted
  <2> SUFFICES ASSUME IInv PROVE SessionsAccounted
    OBVIOUS
  <2> DEFINE Unplaced == UNION {adrift[t] : t \in Everyone}
  <2>1. \A s \in Sessions : PlacesOf(s) = IF s \in Tracked THEN 1 ELSE 0
    BY PlacedOnce DEF IInv
  <2>2. {s \in Sessions : PlacesOf(s) = 1} = Tracked
    BY <2>1 DEF Tracked
  <2>3. created = Cardinality({s \in Sessions : PlacesOf(s) = 1})
    BY <2>2 DEF IInv, Counted
  <2>4. ASSUME NEW s \in live PROVE s \in Tracked <=> s \notin Unplaced
    <3>1. s \in Sessions /\ s \in Known /\ Exclusive /\ \A t \in Everyone : Apart(t)
      BY DEF IInv, TypeInv, Places, Exclusive
    <3>2. s \in Unplaced <=> \E t \in Everyone : s \in adrift[t]
      OBVIOUS
    <3>3. s \in Tracked \/ s \in Unplaced
      BY <3>1, <3>2 DEF Known, Tracked, Hands
    <3>4. ASSUME NEW t \in Everyone, s \in adrift[t] PROVE s \notin Tracked
      <4>1. s \notin Rest /\ \A u \in Everyone \ {t} : s \notin Keeps(u)
        BY <3>1, <3>4 DEF Exclusive, Hands
      <4>2. s \notin Keeps(t)
        BY <3>1, <3>4 DEF Apart, Keeps
      <4>3. QED  BY <4>1, <4>2 DEF Tracked
    <3>5. QED  BY <3>2, <3>3, <3>4
  <2>5. \A s \in live : PlacesOf(s) = 1 <=> s \notin Unplaced
    BY <2>1, <2>4 DEF IInv, TypeInv
  <2>6. ASSUME NEW t \in Everyone
        PROVE  /\ adrift[t] # {} => May("cancel") \/ (t = Sweeper /\ closed)
               /\ stray[t] # {} => May("cancel")
               /\ drained[t] # {} \/ kept[t] # {} =>
                    op[t] = "sweep" /\ pc[t] # Over(t)
    BY DEF IInv, TypeInv, AtLabel, Places, Remembered, Sweeping, Over
  <2>7. idle \cap forgotten = {} /\ Excused
    BY DEF IInv, Places, Exclusive
  <2>8. QED
    BY <2>1, <2>3, <2>5, <2>6, <2>7
       DEF SessionsAccounted, PlacesOf, Holders, Drainers, Keepers, Droppers,
           Excused
<1>2. QED  BY <1>1, Invariance, PTL

-----------------------------------------------------------------------------
(* The refinement of SessionLeasing.  No session is leased twice, which    *)
(* makes its lessee well defined before and after a step.                  *)
OneLessee ==
  \A t, u \in Everyone : t # u => LeasedTo(t) \cap LeasedTo(u) = {}

(* A session is leased to one task at most when it is in one place at      *)
(* most.                                                                   *)
LEMMA ExclusiveLeases == Exclusive => OneLessee
BY SessionsAssumption DEF Exclusive, Hands, Keeps, OneLessee, LeasedTo

(* The lessee of a session is the one task it is leased to, if any.        *)
LEMMA LesseeNow ==
  ASSUME OneLessee, NEW s \in Sessions
  PROVE  /\ \A t \in Everyone : s \in LeasedTo(t) => Lessee[s] = t
         /\ (\A t \in Everyone : s \notin LeasedTo(t)) => Lessee[s] = NoTask
<1>1. \A t, u \in Everyone : s \in LeasedTo(t) /\ s \in LeasedTo(u) => t = u
  BY DEF OneLessee
<1>2. QED  BY <1>1 DEF Lessee

(* The same after a step.                                                  *)
LEMMA LesseeNext ==
  ASSUME OneLessee', NEW s \in Sessions
  PROVE  /\ \A t \in Everyone : s \in LeasedTo(t)' => Lessee'[s] = t
         /\ (\A t \in Everyone : s \notin LeasedTo(t)') => Lessee'[s] = NoTask
<1>1. \A t, u \in Everyone : s \in LeasedTo(t)' /\ s \in LeasedTo(u)' => t = u
  BY DEF OneLessee
<1>2. QED  BY <1>1 DEF Lessee

(* A step that changes the leases of one task, by one session at most,     *)
(* changes the lessee of that session and of no other.                     *)
OnlyLeaseOf(t, s) ==
  /\ \A u \in Everyone \ {t} : LeasedTo(u)' = LeasedTo(u)
  /\ LeasedTo(t)' \ {s} = LeasedTo(t) \ {s}

(* Such a step makes the task the lessee, or leaves the session without    *)
(* one.                                                                    *)
LEMMA LeaseChange ==
  ASSUME OneLessee, OneLessee', NEW t \in Everyone, NEW s \in Sessions,
         OnlyLeaseOf(t, s)
  PROVE  /\ s \in LeasedTo(t)' => Lessee' = [Lessee EXCEPT ![s] = t]
         /\ s \in LeasedTo(t) /\ s \notin LeasedTo(t)'
              => Lessee' = [Lessee EXCEPT ![s] = NoTask]
<1>1. /\ Lessee = [x \in Sessions |-> Lessee[x]]
      /\ Lessee' = [x \in Sessions |-> Lessee'[x]]
  BY DEF Lessee
<1>2. ASSUME NEW x \in Sessions \ {s} PROVE Lessee'[x] = Lessee[x]
  <2>1. \A u \in Everyone : x \in LeasedTo(u)' <=> x \in LeasedTo(u)
    BY DEF OnlyLeaseOf
  <2>2. CASE \E u \in Everyone : x \in LeasedTo(u)
    BY <2>1, <2>2, LesseeNow, LesseeNext
  <2>3. CASE \A u \in Everyone : x \notin LeasedTo(u)
    BY <2>1, <2>3, LesseeNow, LesseeNext
  <2>4. QED  BY <2>2, <2>3
<1>3. s \in LeasedTo(t)' => Lessee'[s] = t
  BY LesseeNext
<1>4. s \in LeasedTo(t) /\ s \notin LeasedTo(t)' => Lessee'[s] = NoTask
  <2> SUFFICES ASSUME s \in LeasedTo(t), s \notin LeasedTo(t)'
               PROVE  Lessee'[s] = NoTask
    OBVIOUS
  <2>1. \A u \in Everyone : s \notin LeasedTo(u)'
    BY DEF OneLessee, OnlyLeaseOf
  <2>2. QED  BY <2>1, LesseeNext
<1>5. QED  BY <1>1, <1>2, <1>3, <1>4

(* No lease changes, so no lessee does.                                    *)
LEMMA LeaseSame ==
  ASSUME \A u \in Everyone : LeasedTo(u)' = LeasedTo(u)
  PROVE  Lessee' = Lessee
BY DEF Lessee

(* The six ways a step of the pool appears to the abstract specification.  *)
LEMMA StutterMaps ==
  ASSUME \A u \in Everyone : LeasedTo(u)' = LeasedTo(u),
         UNCHANGED <<live, dirty>>
  PROVE  [Leasing!Next]_(Leasing!leaseVars)
BY LeaseSame DEF Leasing!leaseVars

(* Work on a leased session is the abstract Work.                          *)
LEMMA WorkMaps ==
  ASSUME OneLessee, NEW t \in Everyone, NEW s \in Sessions,
         s \in LeasedTo(t), s \in live,
         \A u \in Everyone : LeasedTo(u)' = LeasedTo(u), UNCHANGED live,
         dirty' \in {dirty \cup {s}, dirty \ {s}}
  PROVE  Leasing!Next
<1>1. Lessee[s] = t /\ Lessee' = Lessee
  BY LesseeNow, LeaseSame
<1>2. Leasing!Work(t, s)
  BY <1>1 DEF Leasing!Work
<1>3. QED  BY <1>2 DEF Leasing!Next

(* A task that gets hold of a live session nobody has is the abstract      *)
(* Borrow.                                                                 *)
LEMMA BorrowMaps ==
  ASSUME OneLessee, OneLessee', NEW t \in Everyone, NEW s \in Sessions,
         s \in live, \A u \in Everyone : s \notin LeasedTo(u),
         s \in LeasedTo(t)', OnlyLeaseOf(t, s), UNCHANGED <<live, dirty>>
  PROVE  Leasing!Next
<1>1. Lessee' = [Lessee EXCEPT ![s] = t] /\ Lessee[s] = NoTask
  BY LeaseChange, LesseeNow
<1>2. Leasing!Borrow(t, s)
  BY <1>1 DEF Leasing!Borrow
<1>3. QED  BY <1>2 DEF Leasing!Next

(* One that opens a session below the limit is the abstract Open.          *)
LEMMA OpenMaps ==
  ASSUME OneLessee, OneLessee', NEW t \in Everyone, NEW s \in Sessions,
         s \notin live, \A u \in Everyone : s \notin LeasedTo(u),
         live \subseteq Sessions,
         s \in LeasedTo(t)', OnlyLeaseOf(t, s),
         live' = live \cup {s}, UNCHANGED dirty
  PROVE  Leasing!Next
<1>1. Lessee' = [Lessee EXCEPT ![s] = t] /\ Lessee[s] = NoTask
  BY LeaseChange, LesseeNow
<1>2. Cardinality(live) < Cardinality(Sessions)
  <2>1. IsFiniteSet(Sessions \ {s}) /\ live \subseteq Sessions \ {s}
    BY SessionsAssumption, FS_Subset
  <2>2. Cardinality(live) <= Cardinality(Sessions \ {s})
    BY <2>1, FS_Subset
  <2>3. Cardinality(Sessions \ {s}) = Cardinality(Sessions) - 1
    BY SessionsAssumption, FS_RemoveElement
  <2>4. Cardinality(live) \in Nat /\ Cardinality(Sessions) \in Nat
    BY <2>1, SessionsAssumption, FS_Subset, FS_CardinalityType
  <2>5. QED  BY <2>2, <2>3, <2>4
<1>3. /\ Leasing!Cardinality(live) = Cardinality(live)
      /\ Leasing!Cardinality(Sessions) = Cardinality(Sessions)
  BY DEF Cardinality, Leasing!Cardinality
<1>4. Leasing!Open(t, s)
  BY <1>1, <1>2, <1>3 DEF Leasing!Open
<1>5. QED  BY <1>4 DEF Leasing!Next

(* One that lets a clean session go is the abstract GiveBack.              *)
LEMMA GiveBackMaps ==
  ASSUME OneLessee, OneLessee', NEW t \in Everyone, NEW s \in Sessions,
         s \in LeasedTo(t), s \notin LeasedTo(t)', s \notin dirty,
         OnlyLeaseOf(t, s), UNCHANGED <<live, dirty>>
  PROVE  Leasing!Next
<1>1. Lessee' = [Lessee EXCEPT ![s] = NoTask] /\ Lessee[s] = t
  BY LeaseChange, LesseeNow
<1>2. Leasing!GiveBack(t, s)
  BY <1>1 DEF Leasing!GiveBack
<1>3. QED  BY <1>2 DEF Leasing!Next

(* One that logs its session out is the abstract Shut.                     *)
LEMMA ShutMaps ==
  ASSUME OneLessee, OneLessee', NEW t \in Everyone, NEW s \in Sessions,
         s \in LeasedTo(t), s \notin LeasedTo(t)', s \in live,
         OnlyLeaseOf(t, s), live' = live \ {s}, dirty' = dirty \ {s}
  PROVE  Leasing!Next
<1>1. Lessee' = [Lessee EXCEPT ![s] = NoTask] /\ Lessee[s] = t
  BY LeaseChange, LesseeNow
<1>2. Leasing!Shut(t, s)
  BY <1>1 DEF Leasing!Shut
<1>3. QED  BY <1>2 DEF Leasing!Next

(* Every step of the pool is a step of the leasing, or none.               *)
LEMMA RefinementStep ==
  ASSUME IInv, IInv', NEW t \in Everyone, Moves(t)
  PROVE  [Leasing!Next]_(Leasing!leaseVars)
<1> DEFINE Goal == [Leasing!Next]_(Leasing!leaseVars)
           Steady == \A u \in Everyone : LeasedTo(u)' = LeasedTo(u)
<1>0. TypeInv /\ Places /\ Counted /\ OneLessee /\ OneLessee'
  BY ExclusiveLeases, PTL DEF IInv, Places
<1>none. ASSUME Steady, UNCHANGED <<live, dirty>> PROVE Goal
  BY <1>none, StutterMaps
<1>waiting. ASSUME NEW s \in Sessions,
                   s \in idle \/ \E u \in Everyone : s \in drained[u]
            PROVE  s \in live /\ \A u \in Everyone : s \notin LeasedTo(u)
  BY <1>0, <1>waiting, SessionsAssumption
     DEF Places, Exclusive, Apart, Hands, Keeps, Rest, Ready, HeldInOrder, LeasedTo
<1>gives. ASSUME held[t] \in Sessions, pc[t] # "login",
                 held' = [held EXCEPT ![t] = NoSession],
                 \A u \in Everyone \ {t} : pc'[u] = pc[u],
                 UNCHANGED <<stray, adrift>>, live' \in {live, live \ {held[t]}}
          PROVE  /\ held[t] \in LeasedTo(t) /\ held[t] \notin LeasedTo(t)'
                 /\ OnlyLeaseOf(t, held[t])
  <2>1. /\ held[t] \notin stray[t] \cup adrift[t]
        /\ \A u \in Everyone \ {t} : held[t] \notin stray[u] \cup adrift[u]
    BY <1>0, <1>gives, SessionsAssumption
       DEF Places, Exclusive, Apart, Hands, Keeps
  <2>2. QED
    BY <1>gives, <2>1, <1>0, SessionsAssumption DEF TypeInv, LeasedTo, OnlyLeaseOf
<1>takes. ASSUME NEW s \in Sessions, held[t] = NoSession, pc'[t] # "login",
                 held' = [held EXCEPT ![t] = s],
                 \A u \in Everyone \ {t} : pc'[u] = pc[u],
                 UNCHANGED <<stray, adrift, live>>
          PROVE  s \in LeasedTo(t)' /\ OnlyLeaseOf(t, s)
  BY <1>0, <1>takes, SessionsAssumption DEF TypeInv, LeasedTo, OnlyLeaseOf
<1> USE SessionsAssumption, TasksAssumption
    DEF TypeInv, AtLabel, Holding, poolVars, serverVars, taskVars, sweepVars,
        lostVars, Goto, Hold, LetGo
<1>1. CASE Take(t)
  <2>1. PICK s \in idle : held' = [held EXCEPT ![t] = s]
    BY <1>1 DEF Take
  <2>2. s \in Sessions /\ held[t] = NoSession /\ UNCHANGED <<live, dirty, stray, adrift>>
    BY <1>0, <1>1 DEF Take
  <2>3. pc'[t] # "login" /\ \A u \in Everyone \ {t} : pc'[u] = pc[u]
    BY <1>0, <1>1 DEF Take
  <2>4. QED  BY <1>0, <2>1, <2>2, <2>3, <1>takes, <1>waiting, BorrowMaps
<1>2. CASE SweepOne(t)
  <2>1. PICK s \in drained[t] : held' = [held EXCEPT ![t] = s]
    BY <1>2 DEF SweepOne
  <2>2. s \in Sessions /\ held[t] = NoSession /\ UNCHANGED <<live, dirty, stray, adrift>>
    BY <1>0, <1>2 DEF SweepOne
  <2>3. pc'[t] # "login" /\ \A u \in Everyone \ {t} : pc'[u] = pc[u]
    BY <1>0, <1>2 DEF SweepOne
  <2>4. QED  BY <1>0, <2>1, <2>2, <2>3, <1>takes, <1>waiting, BorrowMaps
<1>3. CASE CloseDrain(t)
  <2>1. CASE \E s \in idle : held' = [held EXCEPT ![t] = s] /\ pc'[t] = "discard"
    <3>1. PICK s \in idle : held' = [held EXCEPT ![t] = s]
      BY <2>1
    <3>2. s \in Sessions /\ held[t] = NoSession /\ UNCHANGED <<live, dirty, stray, adrift>>
      BY <1>0, <1>3 DEF CloseDrain
    <3>3. \A u \in Everyone \ {t} : pc'[u] = pc[u]
      BY <1>0, <1>3 DEF CloseDrain
    <3>4. QED  BY <1>0, <2>1, <3>1, <3>2, <3>3, <1>takes, <1>waiting, BorrowMaps
  <2>2. CASE UNCHANGED held
    <3>1. Steady /\ UNCHANGED <<live, dirty>>
      BY <1>0, <1>3, <2>2 DEF CloseDrain, LeasedTo
    <3>2. QED  BY <3>1, <1>none
  <2>3. QED  BY <1>0, <1>3, <2>1, <2>2 DEF CloseDrain
<1>4. CASE Reserve(t)
  <2>1. PICK s \in Unused : held' = [held EXCEPT ![t] = s]
    BY <1>4 DEF Reserve
  <2>2. Steady
    BY <1>0, <1>4, <2>1 DEF Reserve, LeasedTo
  <2>3. QED  BY <1>4, <2>2, <1>none DEF Reserve
<1>opens. ASSUME pc[t] = "login", live' = live \cup {held[t]}, UNCHANGED dirty,
                 held[t] \in LeasedTo(t)', OnlyLeaseOf(t, held[t])
          PROVE  Goal
  <2>1. /\ held[t] \in Sessions /\ held[t] \notin live
        /\ \A u \in Everyone : held[t] \notin LeasedTo(u)
    BY <1>0, <1>opens DEF Places, Exclusive, Hands, Keeps, HeldInOrder, LeasedTo
  <2>2. live \subseteq Sessions
    BY <1>0
  <2>3. QED  BY <1>0, <1>opens, <2>1, <2>2, OpenMaps
<1>5. CASE Login(t)
  <2>1. CASE live' = live \cup {held[t]} /\ pc'[t] = "check" /\ UNCHANGED held
    <3>1. held[t] \in LeasedTo(t)' /\ OnlyLeaseOf(t, held[t])
      BY <1>0, <1>5, <2>1
         DEF Login, LeasedTo, OnlyLeaseOf, Places, Exclusive, Hands, Keeps
    <3>2. QED  BY <1>5, <2>1, <3>1, <1>opens DEF Login
  <2>2. CASE held' = [held EXCEPT ![t] = NoSession] /\ UNCHANGED live
    <3>1. Steady /\ UNCHANGED <<live, dirty>>
      BY <1>0, <1>5, <2>2 DEF Login, LeasedTo
    <3>2. QED  BY <3>1, <1>none
  <2>3. QED  BY <1>0, <1>5, <2>1, <2>2 DEF Login
<1>6. CASE Check(t)
  <2>1. CASE UNCHANGED held
    <3>1. Steady /\ UNCHANGED <<live, dirty>>
      BY <1>0, <1>6, <2>1 DEF Check, LeasedTo
    <3>2. QED  BY <3>1, <1>none
  <2>2. CASE held' = [held EXCEPT ![t] = NoSession]
    <3>1. /\ held[t] \in Sessions /\ held[t] \notin dirty /\ pc[t] # "login"
          /\ UNCHANGED <<live, dirty, stray, adrift>>
          /\ \A u \in Everyone \ {t} : pc'[u] = pc[u]
      BY <1>0, <1>6 DEF Check, Places, HeldInOrder
    <3>2. QED  BY <1>0, <2>2, <3>1, <1>gives, GiveBackMaps
  <2>3. QED  BY <1>6, <2>1, <2>2 DEF Check
<1>7. CASE ReturnCheck(t)
  <2>1. CASE UNCHANGED held
    <3>1. Steady /\ UNCHANGED <<live, dirty>>
      BY <1>0, <1>7, <2>1 DEF ReturnCheck, LeasedTo
    <3>2. QED  BY <3>1, <1>none
  <2>2. CASE held' = [held EXCEPT ![t] = NoSession]
    <3>1. /\ held[t] \in Sessions /\ held[t] \notin dirty /\ pc[t] # "login"
          /\ UNCHANGED <<live, dirty, stray, adrift>>
          /\ \A u \in Everyone \ {t} : pc'[u] = pc[u]
      BY <1>0, <1>7 DEF ReturnCheck, Places, HeldInOrder
    <3>2. QED  BY <1>0, <2>2, <3>1, <1>gives, GiveBackMaps
  <2>3. QED  BY <1>7, <2>1, <2>2 DEF ReturnCheck
<1>8. CASE Discard(t) \/ DiscardRaises(t)
  <2>1. /\ held' = [held EXCEPT ![t] = NoSession] /\ pc[t] = "discard"
        /\ UNCHANGED stray /\ \A u \in Everyone \ {t} : pc'[u] = pc[u]
    BY <1>0, <1>8 DEF Discard, DiscardRaises, GiveUpPlace, CallerEnds
  <2>2. held[t] \in Sessions /\ held[t] \in live
    BY <1>0, <2>1 DEF Places, HeldInOrder
  <2>3. CASE LoggedOut(t)
    BY <1>0, <2>1, <2>2, <2>3, <1>gives, ShutMaps DEF LoggedOut
  <2>4. CASE NeverLoggedOut(t)
    <3>1. Steady /\ UNCHANGED <<live, dirty>>
      BY <1>0, <2>1, <2>2, <2>4 DEF NeverLoggedOut, LeasedTo
    <3>2. QED  BY <3>1, <1>none
  <2>5. QED  BY <1>8, <2>3, <2>4 DEF Discard, DiscardRaises
<1>9. CASE Work(t) \/ Reset(t)
  <2>1. /\ held[t] \in Sessions /\ held[t] \in live /\ UNCHANGED live
        /\ held[t] \in LeasedTo(t) /\ Steady
    BY <1>0, <1>9 DEF Work, Reset, Places, HeldInOrder, LeasedTo
  <2>2. dirty' \in {dirty \cup {held[t]}, dirty \ {held[t]}} \/ dirty' = dirty
    BY <1>9 DEF Work, Reset
  <2>3. QED  BY <1>0, <2>1, <2>2, <1>none, WorkMaps
<1>10. CASE Cancel(t)
  <2>1. CASE Drop(t) /\ pc[t] = "login" /\ live' = live \cup {held[t]}
    <3>1. held[t] \in LeasedTo(t)' /\ OnlyLeaseOf(t, held[t])
      BY <1>0, <1>10, <2>1
         DEF Cancel, Drop, LeasedTo, OnlyLeaseOf, Places, Exclusive, Hands, Keeps
    <3>2. QED  BY <1>10, <2>1, <3>1, <1>opens DEF Cancel
  <2>2. CASE Drop(t) /\ pc[t] = "login" /\ UNCHANGED live
    <3>1. Steady /\ UNCHANGED <<live, dirty>>
      BY <1>0, <1>10, <2>2 DEF Cancel, Drop, LeasedTo, Places, HeldInOrder
    <3>2. QED  BY <3>1, <1>none
  <2>3. CASE Drop(t) /\ pc[t] \in Holding \ {"login"} /\ UNCHANGED live
    <3>1. Steady /\ UNCHANGED <<live, dirty>>
      BY <1>0, <1>10, <2>3 DEF Cancel, Drop, LeasedTo, Places, HeldInOrder
    <3>2. QED  BY <3>1, <1>none
  <2>4. CASE UNCHANGED <<live, held, stray>>
    <3>1. Steady /\ UNCHANGED <<live, dirty>>
      BY <1>0, <1>10, <2>4 DEF Cancel, Drop, LeasedTo
    <3>2. QED  BY <3>1, <1>none
  <2>5. QED  BY <1>10, <2>1, <2>2, <2>3, <2>4 DEF Cancel, Drop
<1>11. CASE \/ Blocked(t) \/ Timeout(t) \/ CallRelease(t) \/ CallSweep(t)
            \/ SweepPut(t) \/ CloseStop(t)
            \/ t \in Tasks /\ (CallAcquire(t) \/ CallClose(t))
            \/ t = Sweeper /\ SweeperEnds
  <2>1. /\ UNCHANGED <<held, stray, adrift, live, dirty>>
        /\ \A u \in Everyone : held[u] \in Sessions =>
             pc'[u] = pc[u] \/ (pc[u] = "using" /\ pc'[u] # "login")
    BY <1>0, <1>11
       DEF Blocked, Timeout, CallRelease, CallSweep, SweepPut, CloseStop, Over,
           CallAcquire, CallClose, EnsureSweeper, SweeperEnds, Everyone
  <2>2. Steady
    BY <1>0, <2>1 DEF LeasedTo
  <2>3. QED  BY <2>1, <2>2, <1>none
<1>12. QED
  BY <1>1, <1>2, <1>3, <1>4, <1>5, <1>6, <1>7, <1>8, <1>9, <1>10, <1>11
     DEF Moves, Run

(* The pool implements SessionLeasing: each open session, one set adrift   *)
(* included, has one holder at most, and none is passed on with changes in *)
(* it, whichever tasks are cancelled at whichever await.                   *)
THEOREM Refinement == Spec => LeasingSpec
<1>1. Init => Leasing!Init
  <2> SUFFICES ASSUME Init PROVE Leasing!Init
    OBVIOUS
  <2>1. \A t \in Everyone : LeasedTo(t) = {}
    BY SessionsAssumption DEF Init, LeasedTo
  <2>2. Lessee = [s \in Sessions |-> NoTask]
    BY <2>1 DEF Lessee
  <2>3. QED  BY <2>2 DEF Init, Leasing!Init
<1>2. IInv /\ IInv' /\ [Next]_vars => [Leasing!Next]_(Leasing!leaseVars)
  <2> SUFFICES ASSUME IInv, IInv', [Next]_vars
               PROVE  [Leasing!Next]_(Leasing!leaseVars)
    OBVIOUS
  <2>1. CASE Next
    BY <2>1, NextMoves, RefinementStep
  <2>2. CASE UNCHANGED vars
    <3>1. \A u \in Everyone : LeasedTo(u)' = LeasedTo(u)
      BY <2>2 DEF vars, poolVars, serverVars, taskVars, sweepVars, lostVars, LeasedTo
    <3>2. QED  BY <2>2, <3>1, StutterMaps DEF vars, serverVars
  <2>3. QED  BY <2>1, <2>2
<1>3. QED  BY <1>1, <1>2, Invariance, PTL DEF Spec, LeasingSpec, Leasing!Spec
=============================================================================
