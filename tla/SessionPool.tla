---------------------------- MODULE SessionPool ----------------------------
(***************************************************************************)
(* GemStoneSessionPool (gemstone_py/session_providers.py): a bounded pool  *)
(* of logged-in sessions shared by the threads of one process.             *)
(*                                                                         *)
(* Every access to _created and _closed under the pool's lock, every       *)
(* queue operation and every call to the server is one step of the thread  *)
(* that makes it, so all the interleavings of the calls are explored.      *)
(* Time, session age, use counts and validation queries appear only as     *)
(* their outcome: a kind of failure in Faults may happen wherever the code *)
(* tests for it.  The LIFO order of the idle queue is abstracted to a set. *)
(***************************************************************************)
EXTENDS Integers, FiniteSets

CONSTANTS
  Workers,      \* application threads
  Sweeper,      \* the background idle sweeper thread
  Sessions,     \* identities of session objects
  MaxSize,      \* maxsize
  MinSize,      \* minsize
  Timed,        \* does acquire have a timeout
  Faults,       \* the kinds of failure the environment may cause
  NoThread, NoSession

Threads == Workers \cup {Sweeper}

FaultKinds == {"create", "reset", "unhealthy", "recycle", "idle", "logout"}

ASSUME ThreadsAssumption ==
  /\ IsFiniteSet(Workers)
  /\ Sweeper \notin Workers
  /\ NoThread \notin Threads
ASSUME SessionsAssumption == IsFiniteSet(Sessions) /\ NoSession \notin Sessions
ASSUME SizeAssumption ==
  /\ MaxSize \in Nat \ {0}
  /\ MinSize \in 0..MaxSize
ASSUME ModeAssumption ==
  /\ Timed \in BOOLEAN
  /\ Faults \subseteq FaultKinds

VARIABLES
  created,  \* _created: capacity in use, reservations included
  closed,   \* _closed
  stop,     \* _idle_sweeper_stop
  avail,    \* _available: the sessions waiting in the queue
  live,     \* sessions logged in to the server
  owner,    \* _owner_thread_id of each session
  dirty,    \* sessions holding changes neither committed nor aborted
  pc,       \* where each thread is
  op,       \* the pool call each thread is in
  cur,      \* the session each thread holds
  todo,     \* sessions a sweep or a close has drained and not yet looked at
  keep,     \* sessions a sweep will put back
  left,     \* sessions a warm call has still to prepare
  orderly   \* history: close() has met no other pool call, see Note

poolVars == <<created, closed, stop, avail>>
sessionVars == <<live, owner, dirty>>
threadVars == <<pc, op, cur, todo, keep, left>>
vars == <<poolVars, sessionVars, threadVars, orderly>>

Labels == {"idle", "using", "acq_get", "acq_reserve", "create", "prepare",
           "deadline", "wait", "rel_reset", "rel_health", "rel_put",
           "discard", "decrement", "warm_reserve", "warm_health", "warm_put",
           "drain", "sweep_check", "sweep_put", "close_stop", "close_join",
           "close_discard"}
Calls == {"none", "acquire", "release", "warm", "sweep", "close"}

TypeOK ==
  /\ created \in Int
  /\ closed \in BOOLEAN
  /\ stop \in BOOLEAN
  /\ avail \subseteq Sessions
  /\ live \subseteq Sessions
  /\ owner \in [Sessions -> Threads \cup {NoThread}]
  /\ dirty \subseteq Sessions
  /\ pc \in [Threads -> Labels]
  /\ op \in [Threads -> Calls]
  /\ cur \in [Threads -> Sessions \cup {NoSession}]
  /\ todo \in [Threads -> SUBSET Sessions]
  /\ keep \in [Threads -> SUBSET Sessions]
  /\ left \in [Threads -> Int]
  /\ orderly \in BOOLEAN

\* The labels at which a thread holds a session in cur.
Holding == {"using", "prepare", "rel_reset", "rel_health", "rel_put",
            "discard", "warm_health", "warm_put"}

Init ==
  /\ created = 0
  /\ closed = FALSE
  /\ stop = FALSE
  /\ avail = {}
  /\ live = {}
  /\ owner = [s \in Sessions |-> NoThread]
  /\ dirty = {}
  /\ pc = [t \in Threads |-> "idle"]
  /\ op = [t \in Threads |-> "none"]
  /\ cur = [t \in Threads |-> NoSession]
  /\ todo = [t \in Threads |-> {}]
  /\ keep = [t \in Threads |-> {}]
  /\ left = [t \in Threads |-> 0]
  /\ orderly = TRUE

-----------------------------------------------------------------------------
(* Shared vocabulary.                                                      *)

\* The sessions in the hands of thread t.
InHands(t) == ({cur[t]} \ {NoSession}) \cup todo[t] \cup keep[t]

\* The sessions the pool still accounts for.
Tracked == avail \cup UNION {InHands(t) : t \in Threads}

\* The threads that hold a unit of _created without a session: one that is
\* logging a new session in, or that has logged one out and not yet counted.
Pending == {t \in Threads : pc[t] \in {"create", "decrement"}}

\* A session object that nobody refers to.
Fresh == Sessions \ (Tracked \cup live)

Enter(t, call, label) == /\ pc' = [pc EXCEPT ![t] = label]
                         /\ op' = [op EXCEPT ![t] = call]
Goto(t, label) == Enter(t, IF label = "idle" THEN "none" ELSE op[t], label)
Return(t) == Goto(t, "idle")
Hold(t, s) == cur' = [cur EXCEPT ![t] = s]

\* May t make server calls on s: logged in, and bound to t or to no thread.
CanCall(t, s) == s \in live /\ owner[s] \in {t, NoThread}

\* What _session_idle_timeout_reason, _session_is_healthy and
\* _session_recycle_reason may say of a logged-in session.
CheckoutFails == Faults \cap {"idle", "unhealthy", "recycle"} # {}
ReturnFails == Faults \cap {"unhealthy", "recycle"} # {}

-----------------------------------------------------------------------------
(* acquire().                                                              *)

\* The call begins; on a closed pool it raises at once and changes nothing.
CallAcquire(t) ==
  /\ t \in Workers
  /\ pc[t] = "idle"
  /\ ~closed
  /\ Enter(t, "acquire", "acq_get")
  /\ UNCHANGED <<poolVars, sessionVars, cur, todo, keep, left>>

\* Mutant: the session handed out stays in the queue.
MutantTake(t, s) ==
  /\ UNCHANGED avail
  /\ Hold(t, s)
  /\ Goto(t, "prepare")
  /\ UNCHANGED <<created, closed, stop, sessionVars, todo, keep, left>>

\* A session taken from the queue, by get_nowait or by the blocking get.
Take(t, s) ==
  /\ avail' = avail \ {s}
  /\ Hold(t, s)
  /\ Goto(t, "prepare")
  /\ UNCHANGED <<created, closed, stop, sessionVars, todo, keep, left>>

AcquireGet(t) ==
  /\ pc[t] = "acq_get"
  /\ \/ \E s \in avail : Take(t, s)
     \/ /\ avail = {}
        /\ Goto(t, "acq_reserve")
        /\ UNCHANGED <<poolVars, sessionVars, cur, todo, keep, left>>

\* Under the lock: refuse, reserve a unit of capacity, or decide to wait.
AcquireReserve(t) ==
  /\ pc[t] = "acq_reserve"
  /\ \/ /\ closed
        /\ Return(t)
        /\ UNCHANGED created
     \/ /\ ~closed
        /\ created < MaxSize
        /\ created' = created + 1
        /\ Goto(t, "create")
     \/ /\ ~closed
        /\ created >= MaxSize
        /\ Goto(t, "deadline")
        /\ UNCHANGED created
  /\ UNCHANGED <<closed, stop, avail, sessionVars, cur, todo, keep, left>>

\* Mutant: a failed login keeps its reservation.
MutantCreate(t) ==
  /\ pc[t] = "create"
  /\ \/ \E s \in Fresh :
          /\ live' = live \cup {s}
          /\ owner' = [owner EXCEPT ![s] = t]
          /\ Hold(t, s)
          /\ Goto(t, IF op[t] = "warm" THEN "warm_health" ELSE "prepare")
          /\ UNCHANGED left
     \/ /\ "create" \in Faults
        /\ left' = [left EXCEPT ![t] = 0]
        /\ Return(t)
        /\ UNCHANGED <<live, owner, cur>>
  /\ UNCHANGED <<created, closed, stop, avail, dirty, todo, keep>>

\* _create_session, for acquire and for warm: a login binds the session to
\* the thread; a failed login gives the reservation back and raises.
Create(t) ==
  /\ pc[t] = "create"
  /\ \/ \E s \in Fresh :
          /\ live' = live \cup {s}
          /\ owner' = [owner EXCEPT ![s] = t]
          /\ Hold(t, s)
          /\ Goto(t, IF op[t] = "warm" THEN "warm_health" ELSE "prepare")
          /\ UNCHANGED <<created, left>>
     \/ /\ "create" \in Faults
        /\ created' = created - 1
        /\ left' = [left EXCEPT ![t] = 0]
        /\ Return(t)
        /\ UNCHANGED <<live, owner, cur>>
  /\ UNCHANGED <<closed, stop, avail, dirty, todo, keep>>

\* _prepare_session_for_checkout: bind the session to the thread, then test
\* it.  A session bound to another thread makes the claim, and so acquire,
\* raise: the session is then neither idle nor held.
Prepare(t) ==
  LET s == cur[t] IN
  /\ pc[t] = "prepare"
  /\ IF s \in live /\ ~CanCall(t, s)
     THEN /\ Return(t)
          /\ Hold(t, NoSession)
          /\ UNCHANGED owner
     ELSE /\ owner' = IF s \in live THEN [owner EXCEPT ![s] = t] ELSE owner
          /\ \/ s \in live /\ Goto(t, "using")
             \/ (s \notin live \/ CheckoutFails) /\ Goto(t, "discard")
          /\ UNCHANGED cur
  /\ UNCHANGED <<poolVars, live, dirty, todo, keep, left>>

\* The deadline may have passed before the blocking get, whatever is idle.
AcquireDeadline(t) ==
  /\ pc[t] = "deadline"
  /\ \/ Timed /\ Return(t)
     \/ Goto(t, "wait")
  /\ UNCHANGED <<poolVars, sessionVars, cur, todo, keep, left>>

AcquireWake(t) == pc[t] = "wait" /\ \E s \in avail : Take(t, s)

\* LifoQueue.get raises Empty only when the queue is empty at the deadline.
AcquireTimeout(t) ==
  /\ pc[t] = "wait"
  /\ Timed
  /\ avail = {}
  /\ Return(t)
  /\ UNCHANGED <<poolVars, sessionVars, cur, todo, keep, left>>

-----------------------------------------------------------------------------
(* What the borrower of a session does with it.                            *)

Using(t) == pc[t] = "using" /\ CanCall(t, cur[t])

\* A change that the session's transaction has neither committed nor aborted.
Write(t) ==
  /\ Using(t)
  /\ dirty' = dirty \cup {cur[t]}
  /\ UNCHANGED <<poolVars, live, owner, threadVars>>

\* commit() or abort(), also the abort lease() makes when its body raised.
Settle(t) ==
  /\ Using(t)
  /\ dirty' = dirty \ {cur[t]}
  /\ UNCHANGED <<poolVars, live, owner, threadVars>>

\* Mutant: the session is unbound and stays logged in.
MutantLogout(t, s) ==
  IF CanCall(t, s)
  THEN /\ owner' = [owner EXCEPT ![s] = NoThread]
       /\ dirty' = dirty \ {s}
       /\ UNCHANGED live
  ELSE UNCHANGED sessionVars

\* GemStoneSession.logout: where the thread may call the server, the session
\* is logged out and unbound and its changes are gone; elsewhere it raises.
Logout(t, s) ==
  IF CanCall(t, s)
  THEN /\ live' = live \ {s}
       /\ owner' = [owner EXCEPT ![s] = NoThread]
       /\ dirty' = dirty \ {s}
  ELSE UNCHANGED sessionVars

BorrowerLogout(t) ==
  /\ "logout" \in Faults
  /\ Using(t)
  /\ Logout(t, cur[t])
  /\ UNCHANGED <<poolVars, threadVars>>

-----------------------------------------------------------------------------
(* release().                                                              *)

\* Mutant: release does not look at closed.
MutantReleaseClosed(t, discard, clean) ==
  /\ pc[t] = "using"
  /\ discard => "reset" \in Faults
  /\ clean => cur[t] \notin dirty
  /\ Enter(t, "release", IF discard THEN "discard"
                         ELSE IF clean THEN "rel_health" ELSE "rel_reset")
  /\ UNCHANGED <<poolVars, sessionVars, cur, todo, keep, left>>

\* _closed is read without the lock.  The callers, lease() and RequestScope,
\* say clean only of a session they have just committed or aborted, and
\* discard only when that abort has failed.
CallRelease(t, discard, clean) ==
  /\ pc[t] = "using"
  /\ discard => "reset" \in Faults
  /\ clean => cur[t] \notin dirty
  /\ Enter(t, "release", IF discard \/ closed THEN "discard"
                         ELSE IF clean THEN "rel_health" ELSE "rel_reset")
  /\ UNCHANGED <<poolVars, sessionVars, cur, todo, keep, left>>

\* Mutant: the reset does not abort.
MutantReset(t) ==
  /\ pc[t] = "rel_reset"
  /\ Goto(t, "rel_health")
  /\ UNCHANGED <<poolVars, sessionVars, cur, todo, keep, left>>

ReleaseReset(t) ==
  /\ pc[t] = "rel_reset"
  /\ \/ /\ CanCall(t, cur[t])
        /\ dirty' = dirty \ {cur[t]}
        /\ Goto(t, "rel_health")
     \/ /\ ~CanCall(t, cur[t]) \/ "reset" \in Faults
        /\ Goto(t, "discard")
        /\ UNCHANGED dirty
  /\ UNCHANGED <<poolVars, live, owner, cur, todo, keep, left>>

\* The health test, then the age and use-count test.
ReleaseHealth(t) ==
  /\ pc[t] = "rel_health"
  /\ \/ cur[t] \in live /\ Goto(t, "rel_put")
     \/ (cur[t] \notin live \/ ReturnFails) /\ Goto(t, "discard")
  /\ UNCHANGED <<poolVars, sessionVars, cur, todo, keep, left>>

\* Mutant: puts what the thread holds, not the session it was told to put.
MutantPut(t, s, label) ==
  /\ avail' = avail \cup {cur[t]}
  /\ Hold(t, NoSession)
  /\ Goto(t, label)

\* put_nowait of s: into the queue, or discarded when the queue is full.
PutOrDiscard(t, s, label) ==
  IF Cardinality(avail) < MaxSize
  THEN /\ avail' = avail \cup {s}
       /\ Hold(t, NoSession)
       /\ Goto(t, label)
  ELSE /\ UNCHANGED avail
       /\ Hold(t, s)
       /\ Goto(t, "discard")

\* Unbinding the session precedes the put; nobody can see it in between.
ReleasePut(t) ==
  /\ pc[t] = "rel_put"
  /\ owner' = [owner EXCEPT ![cur[t]] = NoThread]
  /\ PutOrDiscard(t, cur[t], "idle")
  /\ UNCHANGED <<created, closed, stop, live, dirty, todo, keep, left>>

-----------------------------------------------------------------------------
(* _discard_session(): log out, then count the session out under the lock. *)

Discard(t) ==
  /\ pc[t] = "discard"
  /\ Logout(t, cur[t])
  /\ Hold(t, NoSession)
  /\ Goto(t, "decrement")
  /\ UNCHANGED <<poolVars, todo, keep, left>>

\* Where each call goes on after a discard.
Resume == [none |-> "idle", acquire |-> "acq_get", release |-> "idle",
           warm |-> "warm_reserve", sweep |-> "sweep_check",
           close |-> "close_discard"]

Decrement(t) ==
  /\ pc[t] = "decrement"
  /\ created' = IF created > 0 THEN created - 1 ELSE created
  /\ Goto(t, Resume[op[t]])
  /\ UNCHANGED <<closed, stop, avail, sessionVars, cur, todo, keep, left>>

-----------------------------------------------------------------------------
(* warm().                                                                 *)

CallWarm(t) ==
  /\ t \in Workers
  /\ pc[t] = "idle"
  /\ Enter(t, "warm", "warm_reserve")
  /\ \E n \in 0..MaxSize : left' = [left EXCEPT ![t] = n]
  /\ UNCHANGED <<poolVars, sessionVars, cur, todo, keep>>

\* Stops at the target, at a closed pool (it raises) or at a full one.
WarmReserve(t) ==
  /\ pc[t] = "warm_reserve"
  /\ IF left[t] > 0 /\ ~closed /\ created < MaxSize
     THEN created' = created + 1 /\ Goto(t, "create") /\ UNCHANGED left
     ELSE /\ Return(t)
          /\ left' = [left EXCEPT ![t] = 0]
          /\ UNCHANGED created
  /\ UNCHANGED <<closed, stop, avail, sessionVars, cur, todo, keep>>

WarmHealth(t) ==
  /\ pc[t] = "warm_health"
  /\ \/ cur[t] \in live /\ Goto(t, "warm_put")
     \/ "unhealthy" \in Faults /\ Goto(t, "discard")
  /\ UNCHANGED <<poolVars, sessionVars, cur, todo, keep, left>>

WarmPut(t) ==
  /\ pc[t] = "warm_put"
  /\ owner' = [owner EXCEPT ![cur[t]] = NoThread]
  /\ left' = [left EXCEPT ![t] = IF Cardinality(avail) < MaxSize
                                 THEN left[t] - 1 ELSE 0]
  /\ PutOrDiscard(t, cur[t], "warm_reserve")
  /\ UNCHANGED <<created, closed, stop, live, dirty, todo, keep>>

-----------------------------------------------------------------------------
(* sweep_idle(), by the background thread or by any other.                 *)

CallSweep(t) ==
  /\ pc[t] = "idle"
  /\ "idle" \in Faults
  /\ t = Sweeper => ~stop
  /\ Enter(t, "sweep", "drain")
  /\ UNCHANGED <<poolVars, sessionVars, cur, todo, keep, left>>

\* The loop over get_nowait with which sweep_idle and close empty the queue.
Drain(t) ==
  /\ pc[t] = "drain"
  /\ \/ \E s \in avail :
          /\ avail' = avail \ {s}
          /\ todo' = [todo EXCEPT ![t] = @ \cup {s}]
          /\ UNCHANGED <<pc, op>>
     \/ /\ avail = {}
        /\ Goto(t, IF op[t] = "sweep" THEN "sweep_check" ELSE "close_discard")
        /\ UNCHANGED <<avail, todo>>
  /\ UNCHANGED <<created, closed, stop, sessionVars, cur, keep, left>>

\* For one drained session: closed and can_evict are read under the lock, and
\* acted on after it is released.
SweepCheck(t) ==
  /\ pc[t] = "sweep_check"
  /\ \/ /\ todo[t] = {}
        /\ Goto(t, "sweep_put")
        /\ UNCHANGED <<cur, todo, keep>>
     \/ \E s \in todo[t] :
          /\ todo' = [todo EXCEPT ![t] = @ \ {s}]
          /\ \/ /\ closed \/ created > MinSize
                /\ Hold(t, s)
                /\ Goto(t, "discard")
                /\ UNCHANGED keep
             \/ /\ ~closed
                /\ keep' = [keep EXCEPT ![t] = @ \cup {s}]
                /\ UNCHANGED <<pc, op, cur>>
  /\ UNCHANGED <<poolVars, sessionVars, left>>

\* Mutant: a session put back is not struck off the list.
MutantSweepPut(t) ==
  /\ pc[t] = "sweep_put"
  /\ \/ /\ keep[t] = {}
        /\ Return(t)
        /\ UNCHANGED <<avail, cur>>
     \/ \E s \in keep[t] : PutOrDiscard(t, s, "sweep_put")
  /\ UNCHANGED <<created, closed, stop, sessionVars, todo, keep, left>>

\* Put one kept session back; closed is not looked at again.
SweepPut(t) ==
  /\ pc[t] = "sweep_put"
  /\ \/ /\ keep[t] = {}
        /\ Return(t)
        /\ UNCHANGED <<avail, cur, keep>>
     \/ \E s \in keep[t] :
          /\ keep' = [keep EXCEPT ![t] = @ \ {s}]
          /\ PutOrDiscard(t, s, "sweep_put")
  /\ UNCHANGED <<created, closed, stop, sessionVars, todo, left>>

-----------------------------------------------------------------------------
(* close().                                                                *)

CallClose(t) ==
  /\ t \in Workers
  /\ pc[t] = "idle"
  /\ closed' = TRUE
  /\ Enter(t, "close", "close_stop")
  /\ UNCHANGED <<created, stop, avail, sessionVars, cur, todo, keep, left>>

CloseStop(t) ==
  /\ pc[t] = "close_stop"
  /\ stop' = TRUE
  /\ Goto(t, "close_join")
  /\ UNCHANGED <<created, closed, avail, sessionVars, cur, todo, keep, left>>

\* The sweeper is joined for one second at most: its sweep may go on.
CloseJoin(t) ==
  /\ pc[t] = "close_join"
  /\ Goto(t, "drain")
  /\ UNCHANGED <<poolVars, sessionVars, cur, todo, keep, left>>

CloseDiscard(t) ==
  /\ pc[t] = "close_discard"
  /\ \/ /\ todo[t] = {}
        /\ Return(t)
        /\ UNCHANGED <<cur, todo>>
     \/ \E s \in todo[t] :
          /\ todo' = [todo EXCEPT ![t] = @ \ {s}]
          /\ Hold(t, s)
          /\ Goto(t, "discard")
  /\ UNCHANGED <<poolVars, sessionVars, keep, left>>

-----------------------------------------------------------------------------
(* The steps a thread takes by itself once it is inside a call.            *)
Step(t) ==
  \/ AcquireGet(t) \/ AcquireReserve(t) \/ Create(t) \/ Prepare(t)
  \/ AcquireDeadline(t) \/ AcquireWake(t) \/ AcquireTimeout(t)
  \/ ReleaseReset(t) \/ ReleaseHealth(t) \/ ReleasePut(t)
  \/ Discard(t) \/ Decrement(t)
  \/ WarmReserve(t) \/ WarmHealth(t) \/ WarmPut(t)
  \/ Drain(t) \/ SweepCheck(t) \/ SweepPut(t)
  \/ CloseStop(t) \/ CloseJoin(t) \/ CloseDiscard(t)

\* What the application decides: the calls, and the use of a session.
Borrower(t) ==
  \/ CallAcquire(t) \/ CallWarm(t) \/ CallSweep(t) \/ CallClose(t)
  \/ Write(t) \/ Settle(t) \/ BorrowerLogout(t)
  \/ \E discard, clean \in BOOLEAN : CallRelease(t, discard, clean)

\* Was no pool call under way when close() was called, and the sweep over when
\* its join returned.  No action reads it.
Note ==
  orderly' =
    /\ orderly
    /\ closed' # closed => \A t \in Workers : pc[t] \in {"idle", "using"}
    /\ \A t \in Threads :
         pc[t] = "close_join" /\ pc'[t] # pc[t] => pc[Sweeper] = "idle"

Next == (\E t \in Threads : Step(t) \/ Borrower(t)) /\ Note

Spec == Init /\ [][Next]_vars

\* A thread inside a call keeps running: the interpreter schedules it.
FairSpec == Spec /\ \A t \in Threads : WF_vars(Step(t) /\ Note)

-----------------------------------------------------------------------------
(* Safety.                                                                 *)

\* _created counts exactly the sessions the pool still accounts for and the
\* logins and logouts under way, and never passes maxsize: no path through
\* acquire, release, warm, sweep_idle, close or a failure loses or forges a
\* unit of capacity.
CapacityAccounted ==
  /\ created = Cardinality(Tracked) + Cardinality(Pending)
  /\ created <= MaxSize

\* Every session logged in to the server is one the pool accounts for, so no
\* more than maxsize sessions are ever logged in and none is orphaned.
NoOrphanSession ==
  /\ live \subseteq Tracked
  /\ Cardinality(live) <= MaxSize

\* A session is in one place only: idle in the queue, in the hands of one
\* thread, or in one of the lists of one sweep or close.
ExclusiveSessions ==
  /\ \A t \in Threads :
       /\ InHands(t) \cap avail = {}
       /\ cur[t] \notin todo[t] \cup keep[t]
       /\ todo[t] \cap keep[t] = {}
  /\ \A t, u \in Threads : t # u => InHands(t) \cap InHands(u) = {}

\* A session waiting in the queue is logged in, bound to no thread, and
\* carries no change of the borrower that returned it: the next borrower can
\* claim it and cannot commit what a stranger wrote.
IdleSessionsReady ==
  \A s \in avail : s \in live /\ owner[s] = NoThread /\ s \notin dirty

\* put_nowait never finds the queue full: the queue_full discards of
\* release, warm and sweep_idle are dead code.
QueueNeverFull ==
  \A t \in Threads :
    pc[t] \in {"rel_put", "warm_put"} \/ keep[t] # {}
      => Cardinality(avail) < MaxSize

\* A session is used by the thread it is bound to: the calls a borrower makes
\* never raise for being made from another thread.
BorrowerOwnsSession ==
  \A t \in Threads :
    pc[t] = "using" /\ cur[t] \in live => owner[cur[t]] = t

\* When close() is called with no other pool call under way, then once it and
\* the calls after it have returned no idle session is left behind, and the
\* only sessions still logged in are those still borrowed.
ClosedPoolEmpty ==
  orderly /\ closed /\ (\A t \in Threads : pc[t] \in {"idle", "using"})
    => avail = {} /\ live \subseteq {cur[t] : t \in Threads}

\* While the pool is open a thread stays blocked in acquire only for want of
\* capacity: when no other thread holds a session or is inside a call, either
\* a session is there to be taken or maxsize sessions exist.
BlockedOnlyAtCapacity ==
  /\ ~closed
  /\ \E t \in Threads : pc[t] = "wait"
  /\ \A t \in Threads : pc[t] \in {"idle", "wait"}
  => avail # {} \/ created >= MaxSize

(* Liveness.                                                               *)

\* sweep_idle and close come to an end, whatever the other threads do.
MaintenanceEnds ==
  \A t \in Threads : op[t] \in {"sweep", "close"} ~> op[t] = "none"

\* A call to release always returns, and the session has left the thread.
ReleaseEnds ==
  \A t \in Workers : op[t] = "release" ~> pc[t] = "idle" /\ cur[t] = NoSession

\* An acquire with a timeout never hangs: it ends, with a session or an error,
\* unless it goes on finding sessions that fail the tests made at checkout.
TimedAcquireEnds ==
  Timed => \A t \in Workers :
    op[t] = "acquire" ~> op[t] # "acquire" \/ pc[t] \in {"using", "discard"}

\* No call on the pool goes on for ever, whatever fails in it and whichever
\* thread makes it: neither of the above.
CallsEnd == MaintenanceEnds /\ ReleaseEnds /\ TimedAcquireEnds

-----------------------------------------------------------------------------
(* What the pool promises its users, whatever its queue and counters do:   *)
(* see SessionLeasing.                                                     *)
Lessee ==
  [s \in Sessions |->
     IF \E t \in Threads : s \in InHands(t)
     THEN CHOOSE t \in Threads : s \in InHands(t) ELSE NoThread]

Leasing == INSTANCE SessionLeasing WITH
  Bound <- MaxSize, Nobody <- NoThread,
  open <- live, tainted <- dirty, lessee <- Lessee

\* The pool implements the abstract leasing of sessions: at most maxsize open
\* at a time, each leased to one thread at most, closed by its lessee alone,
\* and never passed on with uncommitted changes.
LeasingSpec == Leasing!Spec
=============================================================================
