-------------------------- MODULE AsyncSessionPool --------------------------
(***************************************************************************)
(* AsyncSessionPool (gemstone_py/aio/pool.py): tasks of one event loop     *)
(* acquire, use, release, warm, sweep and close; a sweeper task runs in    *)
(* the background.  Control changes hands only where a task awaits, and    *)
(* there a task may be cancelled; the lock is never held across an await,  *)
(* so its blocks are part of the steps around them.                        *)
(*                                                                         *)
(* A waiting getter is woken by each put and looks at the queue again, so  *)
(* a waiting task may go on whenever there is something on the queue.      *)
(***************************************************************************)
EXTENDS Integers, FiniteSets

CONSTANTS
  Tasks,      \* tasks of the application
  Sweeper,    \* the background task
  Sessions,   \* identities of sessions
  NoSession, NoTask,
  MaxSize, MinSize,
  Modes       \* the setups

\* Sessions that time out when idle, fail a check, have to be recycled; a
\* login, an abort or a logout that fails; a waiting limit; a cancelled task.
Hazards == {"idle", "check", "recycle", "login", "reset", "logout", "timeout",
            "cancel"}

ASSUME TasksAssumption ==
  /\ IsFiniteSet(Tasks) /\ Sweeper \notin Tasks /\ NoTask \notin Tasks \cup {Sweeper}
ASSUME SessionsAssumption ==
  /\ IsFiniteSet(Sessions) /\ NoSession \notin Sessions
  /\ Cardinality(Sessions) >= MaxSize
ASSUME SizesAssumption ==
  MaxSize \in Nat \ {0} /\ MinSize \in 0..MaxSize
ASSUME ModesAssumption ==
  \A m \in Modes : m.happens \subseteq Hazards /\ m.scoped \in BOOLEAN

VARIABLES
  mode,      \* what may happen, and whether tasks use a request scope
  closed,    \* _closed
  created,   \* _created
  idle,      \* the sessions on _available
  live,      \* sessions logged in to the server
  dirty,     \* sessions with changes neither committed nor aborted
  pc,        \* where each task is suspended
  op,        \* the operation it is in
  held,      \* the session it works on or has borrowed
  drained,   \* the sessions a sweep has taken off the queue and not yet seen
  kept,      \* those it has seen and will put back (keep)
  stray,     \* the sessions a cancelled task has dropped
  adrift,    \* those it has discarded without their logout having run
  forgotten  \* those that were in the lists of a sweep that was cut short

poolVars == <<closed, created, idle>>
serverVars == <<live, dirty>>
sweepVars == <<drained, kept>>
lostVars == <<stray, adrift, forgotten>>
taskVars == <<pc, op, held, sweepVars, lostVars>>
vars == <<mode, poolVars, serverVars, taskVars>>

Everyone == Tasks \cup {Sweeper}
Labels == {"idle", "loop", "login", "check", "wait", "using", "discard",
           "reset", "relcheck", "sweep", "stop", "drain",
           "none", "sleep", "ended", "broken"}
Operations == {"none", "acquire", "warm", "release", "sweep", "close"}

TypeOK ==
  /\ mode \in Modes
  /\ closed \in BOOLEAN
  /\ created \in 0..MaxSize
  /\ idle \subseteq Sessions
  /\ live \subseteq Sessions
  /\ dirty \subseteq live
  /\ pc \in [Everyone -> Labels]
  /\ op \in [Everyone -> Operations]
  /\ held \in [Everyone -> Sessions \cup {NoSession}]
  /\ drained \in [Everyone -> SUBSET Sessions]
  /\ kept \in [Everyone -> SUBSET Sessions]
  /\ stray \in [Everyone -> SUBSET Sessions]
  /\ adrift \in [Everyone -> SUBSET live]
  /\ forgotten \subseteq live

May(hazard) == hazard \in mode.happens

Init ==
  /\ mode \in Modes
  /\ closed = FALSE
  /\ created = 0
  /\ idle = {} /\ live = {} /\ dirty = {}
  /\ pc = [t \in Everyone |-> IF t = Sweeper THEN "none" ELSE "idle"]
  /\ op = [t \in Everyone |-> "none"]
  /\ held = [t \in Everyone |-> NoSession]
  /\ drained = [t \in Everyone |-> {}] /\ kept = [t \in Everyone |-> {}]
  /\ stray = [t \in Everyone |-> {}] /\ adrift = [t \in Everyone |-> {}]
  /\ forgotten = {}

-----------------------------------------------------------------------------
Goto(t, label) == pc' = [pc EXCEPT ![t] = label]
Hold(t, s) == held' = [held EXCEPT ![t] = s]
LetGo(t) == Hold(t, NoSession)

\* Where a task is when its call is over; the sweeper sleeps again.
Over(t) == IF t = Sweeper THEN "sleep" ELSE "idle"

\* _ensure_sweeper_started: in a closed pool its loop ends at once.
EnsureSweeper(t, label) ==
  pc' = [pc EXCEPT ![t] = label,
                   ![Sweeper] = IF @ = "none" /\ May("idle")
                                THEN IF closed THEN "ended" ELSE "sleep"
                                ELSE @]

\* The sessions that are no session of this pool at the moment.
Unused == Sessions \ (live \cup (UNION {stray[t] : t \in Everyone})
                           \cup {held[t] : t \in Everyone})

-----------------------------------------------------------------------------
(* acquire() and warm().                                                   *)

\* A call of acquire finds the pool closed, or enters its loop; so does warm.
CallAcquire(t) ==
  /\ pc[t] = "idle"
  /\ \E call \in {"acquire", "warm"} :
       /\ op' = [op EXCEPT ![t] = call]
       /\ EnsureSweeper(t, IF closed THEN "idle" ELSE "loop")
  /\ UNCHANGED <<mode, poolVars, serverVars, held, sweepVars, lostVars>>

\* An idle session is there; one that was idle for too long goes at once.
Take(t) ==
  /\ op[t] = "acquire"
  /\ pc[t] \in {"loop", "wait"}
  /\ \E s \in idle :
       /\ idle' = idle \ {s}
       /\ Hold(t, s)
  /\ \/ Goto(t, "check")
     \/ May("idle") /\ Goto(t, "discard")
  /\ UNCHANGED <<mode, closed, created, serverVars, op, sweepVars, lostVars>>

\* There is none, and a place is free: it is taken before the login.
Reserve(t) ==
  /\ pc[t] = "loop"
  /\ op[t] = "acquire" => idle = {}
  /\ ~closed /\ created < MaxSize
  /\ created' = created + 1
  /\ \E s \in Unused : Hold(t, s)
  /\ Goto(t, "login")
  /\ UNCHANGED <<mode, closed, idle, serverVars, op, sweepVars, lostVars>>

\* A closed pool raises; a full one ends warm and makes acquire wait.
Blocked(t) ==
  /\ pc[t] = "loop"
  /\ op[t] = "acquire" => idle = {}
  /\ closed \/ created >= MaxSize
  /\ Goto(t, IF closed \/ op[t] = "warm" THEN "idle" ELSE "wait")
  /\ UNCHANGED <<mode, poolVars, serverVars, op, held, sweepVars, lostVars>>

\* The deadline has passed, in the loop or while waiting.
Timeout(t) ==
  /\ May("timeout")
  /\ pc[t] = "wait"
  /\ Goto(t, "idle")
  /\ UNCHANGED <<mode, poolVars, serverVars, op, held, sweepVars, lostVars>>

\* The login is answered; a failed one gives the place back.
Login(t) ==
  /\ pc[t] = "login"
  /\ \/ /\ live' = live \cup {held[t]}
        /\ Goto(t, "check")
        /\ UNCHANGED <<created, held>>
     \/ /\ May("login")
        /\ created' = created - 1
        /\ LetGo(t)
        /\ Goto(t, "idle")
        /\ UNCHANGED live
  /\ UNCHANGED <<mode, closed, idle, dirty, op, sweepVars, lostVars>>

\* The health check: acquire hands the session out, warm puts it on the queue
\* and goes on or has made enough; neither looks whether the pool was closed
\* meanwhile.
Check(t) ==
  /\ pc[t] = "check"
  /\ \/ /\ op[t] = "acquire"
        /\ Goto(t, "using")
        /\ UNCHANGED <<idle, held>>
     \/ /\ op[t] = "warm"
        /\ idle' = idle \cup {held[t]}
        /\ LetGo(t)
        /\ \E label \in {"loop", "idle"} : Goto(t, label)
     \/ /\ May("check") \/ (May("recycle") /\ op[t] = "acquire")
        /\ Goto(t, "discard")
        /\ UNCHANGED <<idle, held>>
  /\ UNCHANGED <<mode, closed, created, serverVars, op, sweepVars, lostVars>>

-----------------------------------------------------------------------------
(* The borrower, and release().                                            *)

Work(t) ==
  /\ pc[t] = "using"
  /\ \E changes \in {{held[t]}, {}} : dirty' = (dirty \ {held[t]}) \cup changes
  /\ UNCHANGED <<mode, poolVars, live, taskVars>>

\* The borrower says that the session is clean, that it is not fit for use, or
\* neither; AsyncSessionPoolLease says neither, AsyncRequestScope the former
\* two after a commit or an abort.
CallRelease(t) ==
  /\ pc[t] = "using"
  /\ op' = [op EXCEPT ![t] = "release"]
  /\ \/ Goto(t, "discard")
     \/ ~closed /\ Goto(t, "reset")
     \/ ~closed /\ held[t] \notin dirty /\ Goto(t, "relcheck")
  /\ UNCHANGED <<mode, poolVars, serverVars, held, sweepVars, lostVars>>

\* Mutant: a failed abort goes unnoticed.
MutantReset(t) ==
  /\ pc[t] = "reset"
  /\ Goto(t, "relcheck")
  /\ dirty' \in {dirty, dirty \ {held[t]}}
  /\ UNCHANGED <<mode, poolVars, live, op, held, sweepVars, lostVars>>

Reset(t) ==
  /\ pc[t] = "reset"
  /\ \/ /\ Goto(t, "relcheck")
        /\ dirty' = dirty \ {held[t]}
     \/ /\ May("reset")
        /\ Goto(t, "discard")
        /\ UNCHANGED dirty
  /\ UNCHANGED <<mode, poolVars, live, op, held, sweepVars, lostVars>>

\* The health check on the way back, then the queue.
ReturnCheck(t) ==
  /\ pc[t] = "relcheck"
  /\ \/ /\ idle' = idle \cup {held[t]}
        /\ LetGo(t)
        /\ Goto(t, "idle")
     \/ /\ May("check") \/ May("recycle")
        /\ Goto(t, "discard")
        /\ UNCHANGED <<idle, held>>
  /\ UNCHANGED <<mode, closed, created, serverVars, op, sweepVars, lostVars>>

-----------------------------------------------------------------------------
(* _discard_session().                                                     *)

GiveUpPlace(t) ==
  /\ created' = created - 1
  /\ LetGo(t)

LoggedOut(t) ==
  /\ live' = live \ {held[t]}
  /\ dirty' = dirty \ {held[t]}
  /\ UNCHANGED adrift

\* The call was still waiting for the session's executor: it never runs.
NeverLoggedOut(t) ==
  /\ adrift' = [adrift EXCEPT ![t] = @ \cup {held[t]}]
  /\ UNCHANGED serverVars

\* close() has cancelled the sweeper.
Cancelled(t) == t = Sweeper /\ closed

Discard(t) ==
  /\ pc[t] = "discard"
  /\ ~Cancelled(t)
  /\ GiveUpPlace(t) /\ LoggedOut(t)
  /\ Goto(t, CASE op[t] \in {"acquire", "warm"} -> "loop"
               [] op[t] = "release" -> "idle"
               [] op[t] = "sweep" -> "sweep"
               [] op[t] = "close" -> "drain")
  /\ UNCHANGED <<mode, closed, idle, op, sweepVars, stray, forgotten>>

\* The exception goes through whatever called: a sweep loses its lists, a
\* close leaves the queue as it is.
CallerEnds(t) ==
  /\ forgotten' = forgotten \cup drained[t] \cup kept[t]
  /\ drained' = [drained EXCEPT ![t] = {}]
  /\ kept' = [kept EXCEPT ![t] = {}]
  /\ Goto(t, IF t # Sweeper THEN "idle"
             ELSE IF Cancelled(t) THEN "ended" ELSE "broken")

\* Mutant: the place is given back only after a logout that went well.
MutantDiscardRaises(t) ==
  /\ pc[t] = "discard"
  /\ May("logout")
  /\ LetGo(t) /\ LoggedOut(t)
  /\ CallerEnds(t)
  /\ UNCHANGED <<mode, closed, created, idle, op, stray>>

\* The logout raises, or the task is cancelled in it.  The place is given back
\* all the same.
DiscardRaises(t) ==
  /\ pc[t] = "discard"
  /\ GiveUpPlace(t)
  /\ \/ May("logout") /\ ~Cancelled(t) /\ LoggedOut(t)
     \/ /\ (May("cancel") /\ t # Sweeper) \/ Cancelled(t)
        /\ LoggedOut(t) \/ NeverLoggedOut(t)
  /\ CallerEnds(t)
  /\ UNCHANGED <<mode, closed, idle, op, stray>>

-----------------------------------------------------------------------------
(* sweep_idle() and the sweeper.                                           *)

\* The queue is drained into a list.
CallSweep(t) ==
  /\ May("idle")
  /\ pc[t] = Over(t)
  /\ ~Cancelled(t)
  /\ op' = [op EXCEPT ![t] = "sweep"]
  /\ drained' = [drained EXCEPT ![t] = idle]
  /\ idle' = {}
  /\ Goto(t, "sweep")
  /\ UNCHANGED <<mode, closed, created, serverVars, held, kept, lostVars>>

\* The sweep comes to a session that has to go: all of them in a closed pool,
\* else those that timed out while the pool is above minsize.  The sessions it
\* passes on the way are kept.
SweepOne(t) ==
  /\ pc[t] = "sweep"
  /\ closed \/ created > MinSize
  /\ \E s \in drained[t] : \E passed \in SUBSET (drained[t] \ {s}) :
       /\ closed => passed = {}
       /\ drained' = [drained EXCEPT ![t] = @ \ ({s} \cup passed)]
       /\ kept' = [kept EXCEPT ![t] = @ \cup passed]
       /\ Hold(t, s)
  /\ Goto(t, "discard")
  /\ UNCHANGED <<mode, poolVars, serverVars, op, lostVars>>

\* It has come to the end: what it kept goes back on the queue, of a pool that
\* may have been closed since.
SweepPut(t) ==
  /\ pc[t] = "sweep"
  /\ closed => drained[t] = {}
  /\ idle' = idle \cup drained[t] \cup kept[t]
  /\ drained' = [drained EXCEPT ![t] = {}]
  /\ kept' = [kept EXCEPT ![t] = {}]
  /\ Goto(t, Over(t))
  /\ UNCHANGED <<mode, closed, created, serverVars, op, held, lostVars>>

\* Mutant: the loop takes the cancellation for the end of its sleep.
MutantSweeperEnds ==
  /\ closed
  /\ pc[Sweeper] = "sleep"
  /\ UNCHANGED vars

\* The sweeper is cancelled in its sleep.
SweeperEnds ==
  /\ closed
  /\ pc[Sweeper] = "sleep"
  /\ Goto(Sweeper, "ended")
  /\ UNCHANGED <<mode, poolVars, serverVars, op, held, sweepVars, lostVars>>

-----------------------------------------------------------------------------
(* close().                                                                *)

\* The first call closes the pool and cancels the sweeper.
CallClose(t) ==
  /\ pc[t] = "idle"
  /\ ~closed
  /\ closed' = TRUE
  /\ op' = [op EXCEPT ![t] = "close"]
  /\ Goto(t, IF pc[Sweeper] = "none" THEN "drain" ELSE "stop")
  /\ UNCHANGED <<mode, created, idle, serverVars, held, sweepVars, lostVars>>

\* It waits for the sweeper; if that died of an exception, it is raised here
\* and nothing is drained.
CloseStop(t) ==
  /\ pc[t] = "stop"
  /\ \/ pc[Sweeper] = "ended" /\ Goto(t, "drain")
     \/ pc[Sweeper] = "broken" /\ Goto(t, "idle")
  /\ UNCHANGED <<mode, poolVars, serverVars, op, held, sweepVars, lostVars>>

CloseDrain(t) ==
  /\ pc[t] = "drain"
  /\ \/ /\ \E s \in idle : idle' = idle \ {s} /\ Hold(t, s)
        /\ Goto(t, "discard")
     \/ /\ idle = {}
        /\ Goto(t, "idle")
        /\ UNCHANGED <<idle, held>>
  /\ UNCHANGED <<mode, closed, created, serverVars, op, sweepVars, lostVars>>

-----------------------------------------------------------------------------
(* Cancellation of a task where it awaits.                                 *)

\* What it holds is dropped: no except clause meets a CancelledError.  A login
\* goes on in the session's thread.
Drop(t) ==
  /\ stray' = [stray EXCEPT ![t] = @ \cup {held[t]}]
  /\ live' \in {live, IF pc[t] = "login" THEN live \cup {held[t]} ELSE live}
  /\ LetGo(t)
  /\ Goto(t, "idle")

Cancel(t) ==
  /\ May("cancel")
  /\ \/ pc[t] \in {"login", "check", "reset", "relcheck"} /\ Drop(t)
     \/ pc[t] = "using" /\ mode.scoped /\ Drop(t)
     \/ pc[t] = "wait" /\ Goto(t, "idle") /\ UNCHANGED <<live, held, stray>>
     \/ pc[t] = "stop" /\ Goto(t, "drain") /\ UNCHANGED <<live, held, stray>>
  /\ UNCHANGED <<mode, poolVars, dirty, op, sweepVars, adrift, forgotten>>

-----------------------------------------------------------------------------
\* What the event loop does without the application.
Run(t) ==
  \/ Take(t) \/ Reserve(t) \/ Blocked(t) \/ Timeout(t) \/ Login(t) \/ Check(t)
  \/ Reset(t) \/ ReturnCheck(t) \/ Discard(t) \/ DiscardRaises(t)
  \/ SweepOne(t) \/ SweepPut(t) \/ CloseStop(t) \/ CloseDrain(t)

Next ==
  \/ \E t \in Everyone : Run(t) \/ CallSweep(t)
  \/ \E t \in Tasks :
       CallAcquire(t) \/ Work(t) \/ CallRelease(t) \/ CallClose(t) \/ Cancel(t)
  \/ SweeperEnds

Spec == Init /\ [][Next]_vars

\* The loop runs every task that can go on, and the server answers.
FairSpec ==
  Spec /\ WF_vars(SweeperEnds) /\ \A t \in Everyone : WF_vars(Run(t))

-----------------------------------------------------------------------------
(* Properties.                                                             *)

\* created counts, one each, the sessions on the queue, those a task works on
\* or has borrowed, those on the lists of a sweep, and those that a cancelled
\* task or a sweep cut short has lost; no session is in two of these places.
\* Every other session that is logged in was discarded by a task cancelled
\* before the logout ran, and belongs to no one.  Sessions are lost to
\* cancellation alone, those of a sweep to a logout that raises too.
SessionsAccounted ==
  LET holders == {t \in Everyone : held[t] # NoSession}
      Placed(s) == (IF s \in idle \cup forgotten THEN 1 ELSE 0)
                   + Cardinality({t \in holders : held[t] = s})
                   + Cardinality({t \in Everyone : s \in drained[t]})
                   + Cardinality({t \in Everyone : s \in kept[t]})
                   + Cardinality({t \in Everyone : s \in stray[t]})
      unplaced == UNION {adrift[t] : t \in Everyone}
  IN /\ \A s \in Sessions : Placed(s) \in {0, 1}
     /\ idle \cap forgotten = {}
     /\ created = Cardinality({s \in Sessions : Placed(s) = 1})
     /\ \A s \in live : Placed(s) = 1 <=> s \notin unplaced
     /\ \A t \in Everyone :
          /\ adrift[t] # {} => May("cancel") \/ (t = Sweeper /\ closed)
          /\ stray[t] # {} => May("cancel")
          /\ drained[t] # {} \/ kept[t] # {} => op[t] = "sweep" /\ pc[t] # Over(t)
     /\ forgotten # {} => May("logout") \/ May("cancel") \/ closed

\* The open sessions that a task has borrowed, works on or has dropped, logged
\* out or not, and the one task of each.
LeasedTo(t) ==
  {s \in Sessions : \/ held[t] = s /\ pc[t] # "login"
                    \/ s \in (stray[t] \cap live) \cup adrift[t]}

Lessee ==
  [s \in Sessions |->
     IF \E t \in Everyone : s \in LeasedTo(t)
     THEN CHOOSE t \in Everyone : s \in LeasedTo(t)
     ELSE NoTask]

\* What was borrowed comes to the next borrower without changes of the last
\* one and to no other meanwhile, whoever is cancelled at whatever await: the
\* pool implements SessionLeasing, but for the number of open sessions, which
\* SessionsAccounted counts.
Leasing == INSTANCE SessionLeasing WITH
  Threads <- Everyone,
  Bound <- Cardinality(Sessions),
  Nobody <- NoTask,
  open <- live,
  lessee <- Lessee,
  tainted <- dirty
LeasingSpec == Leasing!Spec

\* release, sweep_idle and close come to their end, whatever raises in them,
\* whoever is cancelled and with the sweeper in any state.
CallsEnd ==
  \A t \in Everyone :
    op[t] \in {"release", "sweep", "close"} /\ pc[t] \notin {"idle", "using"}
    ~> pc[t] \in {"idle", "sleep", "ended", "broken"}
=============================================================================
