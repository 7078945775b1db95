-------------------------- MODULE MigrationRunner --------------------------
(***************************************************************************)
(* upgrade() and downgrade() of gemstone_py/migrations.py, run by several  *)
(* processes against one stone, and the class-style Migration.run().       *)
(*                                                                         *)
(* In the stone are the table of applied steps, the advisory lock, and the *)
(* data each step changes.  A callback changes its data in two parts, so   *)
(* that 0 is untouched, 2 migrated, and anything else torn or migrated     *)
(* twice; between the parts it may commit for itself, as the migrations of *)
(* docs/user-manual.md do.                                                 *)
(* A session sees the stone as of its last login, abort or commit.         *)
(***************************************************************************)
EXTENDS Integers, MigrationPlan

CONSTANTS
  Runners,       \* processes that run migrations
  Ids,           \* ids of the steps, class-style migrations included
  Table, Lock,   \* the two entries of UserGlobals
  Nobody,        \* no owner of the lock
  ChunkSize,     \* Migration.chunk_size
  Modes          \* the setups

Directions == {"upgrade", "downgrade", "class"}
FaultKinds == {"step", "abort", "interrupt", "lost_answer", "crash"}
Takeovers == {"never", "stale", "force"}

ASSUME NamesAssumption ==
  /\ Nobody \notin Runners
  /\ Table # Lock /\ {Table, Lock} \cap Ids = {}
  /\ {"seized", "torn", "dropped"} \cap Ids = {}
ASSUME ChunkAssumption == ChunkSize \in Nat \ {0}
ASSUME ModesAssumption ==
  \A m \in Modes :
    /\ Manifest(m.manifest, Ids, {NoSum})
    /\ ToSet(m.own) \subseteq Ids
    /\ IdsOf(m.manifest) \cap ToSet(m.own) = {}
    /\ m.own \in Seq(Ids)
    /\ \A i, j \in 1..Len(m.own) : m.own[i] = m.own[j] => i = j
    /\ m.applied \subseteq IdsOf(m.manifest)
    /\ \A x \in m.applied : DepsOf(m.manifest, x) \subseteq m.applied
    /\ m.does \in [Runners -> Directions]
    /\ m.lock \in BOOLEAN
    /\ m.takeover \in Takeovers
    /\ m.faults \subseteq FaultKinds
    /\ m.busy \subseteq Ids
    /\ m.retries \in Nat \ {0}  \* Migration.max_retries
    /\ m.commits \in BOOLEAN    \* callbacks may commit for themselves
    /\ m.first \in 1..2         \* of a step's change, the part before that

\* The applied steps are on record with the checksums of their files.
Record(table) == [x \in table |-> NoSum]

VARIABLES
  stone,    \* what is committed
  view,     \* what the session of each runner sees
  written,  \* what it has written in its transaction
  stale,    \* what others have committed since its view was taken
  mode,     \* the setup
  pc,       \* where each runner is
  pending,  \* the steps it has still to run
  goal,     \* the steps it planned to run, or the instances it has changed
            \* and not dropped
  mine,     \* its copy of the table, read when it planned
  locked,   \* does it hold the lock, as far as it knows
  failed,   \* has a step of it failed
  early,    \* has the callback of its step committed for itself
  attempt,  \* which attempt to commit a class-style migration is on
  result,   \* how the call ended
  history   \* disturbances the properties tell apart, and steps that left
            \* changes behind without their record; no action reads it

stoneVars == <<stone, view, written, stale>>
runVars == <<pc, pending, goal, mine, locked, failed, early, attempt, result>>
vars == <<stoneVars, mode, runVars, history>>

Slots == {Table, Lock} \cup Ids
Stones == [table : SUBSET Ids, lock : Runners \cup {Nobody}, data : [Ids -> Int]]
Labels == {"start", "plan", "lock", "step", "record", "commit", "release",
           "change", "retry", "crashed", "done"}
Results == {"none", "ok", "dry", "refused", "failed"}
Disturbances == {"seized", "torn", "dropped"}

TypeOK ==
  /\ stone \in Stones
  /\ view \in [Runners -> Stones]
  /\ written \in [Runners -> SUBSET Slots]
  /\ stale \in [Runners -> SUBSET Slots]
  /\ mode \in Modes
  /\ pc \in [Runners -> Labels]
  /\ pending \in [Runners -> Seq(Ids)]
  /\ goal \in [Runners -> SUBSET Ids]
  /\ mine \in [Runners -> SUBSET Ids]
  /\ locked \in [Runners -> BOOLEAN]
  /\ failed \in [Runners -> BOOLEAN]
  /\ early \in [Runners -> BOOLEAN]
  /\ attempt \in [Runners -> 1..mode.retries]
  /\ result \in [Runners -> Results]
  /\ history \subseteq Disturbances \cup Ids

Fault(kind) == kind \in mode.faults

Init ==
  /\ mode \in Modes
  /\ stone = [table |-> mode.applied, lock |-> Nobody,
              data |-> [x \in Ids |-> IF x \in mode.applied THEN 2 ELSE 0]]
  /\ view = [r \in Runners |-> stone]
  /\ written = [r \in Runners |-> {}]
  /\ stale = [r \in Runners |-> {}]
  /\ pc = [r \in Runners |-> "start"]
  /\ pending = [r \in Runners |-> <<>>]
  /\ goal = [r \in Runners |-> {}]
  /\ mine = [r \in Runners |-> {}]
  /\ locked = [r \in Runners |-> FALSE]
  /\ failed = [r \in Runners |-> FALSE]
  /\ early = [r \in Runners |-> FALSE]
  /\ attempt = [r \in Runners |-> 1]
  /\ result = [r \in Runners |-> "none"]
  /\ history = {}

-----------------------------------------------------------------------------
(* The session.                                                            *)

Goto(r, label) == pc' = [pc EXCEPT ![r] = label]
Finish(r, how) == Goto(r, "done") /\ result' = [result EXCEPT ![r] = how]
Disturb(what) == history' = history \cup what

\* A login or an abort.
Refresh(r) ==
  /\ view' = [view EXCEPT ![r] = stone]
  /\ written' = [written EXCEPT ![r] = {}]
  /\ stale' = [stale EXCEPT ![r] = {}]
  /\ UNCHANGED stone

\* The stone with the entries W taken from v.
Merge(v, W) ==
  [table |-> IF Table \in W THEN v.table ELSE stone.table,
   lock |-> IF Lock \in W THEN v.lock ELSE stone.lock,
   data |-> [x \in Ids |-> IF x \in W THEN v.data[x] ELSE stone.data[x]]]

\* The server takes v at the entries W from the transaction of r.
Land(r, v, W) ==
  /\ stone' = Merge(v, W)
  /\ view' = [view EXCEPT ![r] = stone']
  /\ written' = [written EXCEPT ![r] = {}]
  /\ stale' = [q \in Runners |-> IF q = r THEN {} ELSE stale[q] \cup W]

MustConflict(r, W) == W \cap stale[r] # {}
MayConflict(r, W) == W # {} /\ stale[r] # {}

\* Commit fails and is followed by an abort: it conflicted, or it took effect
\* and the answer was lost.
FailedCommit(r, v, W) ==
  \/ MayConflict(r, W) /\ Refresh(r)
  \/ /\ Fault("lost_answer") /\ ~MustConflict(r, W)
     /\ Land(r, v, W)

-----------------------------------------------------------------------------
(* upgrade() and downgrade().                                              *)

Up(r) == mode.does[r] = "upgrade"
ModuleStyle(r) == mode.does[r] # "class"

\* The session is opened, some time before it is used.
Login(r) ==
  /\ pc[r] = "start"
  /\ ModuleStyle(r)
  /\ Refresh(r)
  /\ Goto(r, "plan")
  /\ UNCHANGED <<mode, pending, goal, mine, locked, failed, early, attempt,
                 result, history>>

\* The table is read and the plan made from it; a dry run ends here.  Nothing
\* to do takes no lock.
Plan(r) ==
  /\ pc[r] = "plan"
  /\ \E target \in Ids \cup {NoStep, Base} :
       LET plan == Intended(mode.does[r], mode.manifest,
                            Record(view[r].table), target)
       IN \/ plan.error # "none" /\ Finish(r, "refused")
                                 /\ UNCHANGED <<pending, goal, mine>>
          \/ plan.error = "none" /\ Finish(r, "dry")
                                 /\ UNCHANGED <<pending, goal, mine>>
          \/ /\ plan.error = "none"
             /\ pending' = [pending EXCEPT ![r] = plan.plan]
             /\ goal' = [goal EXCEPT ![r] = ToSet(plan.plan)]
             /\ mine' = [mine EXCEPT ![r] = view[r].table]
             /\ IF plan.plan = <<>> THEN Finish(r, "ok")
                ELSE Goto(r, IF mode.lock THEN "lock" ELSE "step")
                     /\ UNCHANGED result
  /\ UNCHANGED <<stoneVars, mode, locked, failed, early, attempt,
                 history>>

\* Mutant: whoever comes takes the lock.
MutantMayTake(r) == TRUE

\* What the runner sees decides whether the lock may be taken: it is free, or
\* old enough, or taken by force.
MayTake(r) == view[r].lock = Nobody \/ mode.takeover # "never"

\* Does r take the lock from a run that goes on, or from a dead one that has
\* committed something since r made its plan.
Seizes(r) ==
  /\ mode.takeover # "never"
  /\ stone.lock # Nobody
  /\ pc[stone.lock] \notin {"crashed", "done"} \/ stale[r] # {}

\* acquire_migration_lock: read, write and commit.  Only a lock that the clock
\* says is stale, or force, is written over.
AcquireLock(r) ==
  LET claim == [view[r] EXCEPT !.lock = r] IN
  /\ pc[r] = "lock"
  /\ \/ /\ view[r].lock # Nobody /\ mode.takeover # "force"
        /\ Finish(r, "refused")
        /\ UNCHANGED <<stoneVars, locked, history>>
     \/ /\ MayTake(r)
        /\ ~MustConflict(r, {Lock})
        /\ Land(r, claim, {Lock})
        /\ locked' = [locked EXCEPT ![r] = TRUE]
        /\ Disturb(IF Seizes(r) THEN {"seized"} ELSE {})
        /\ Goto(r, "step")
        /\ UNCHANGED result
     \/ /\ MayTake(r)
        /\ FailedCommit(r, claim, {Lock})
        /\ Disturb(IF Seizes(r) /\ stone'.lock = r THEN {"seized"} ELSE {})
        /\ Finish(r, "refused")
        /\ UNCHANGED locked
  /\ UNCHANGED <<mode, pending, goal, mine, failed, early, attempt>>

\* Where a run goes when its steps are over.
Leave(r, how) ==
  IF locked[r] THEN Goto(r, "release") /\ UNCHANGED result ELSE Finish(r, how)

\* What the callback of the step does to its data, before it may commit for
\* itself and after.
First(r) == IF Up(r) THEN mode.first ELSE -mode.first
Rest(r) == IF Up(r) THEN 2 - mode.first ELSE mode.first - 2

\* The step at hand, if what it has committed has no record yet.
Unrecorded(r) == IF early[r] THEN {Head(pending[r])} ELSE {}

\* The callback of the step makes its first changes.
BeginStep(r) ==
  LET x == Head(pending[r]) IN
  /\ pc[r] = "step"
  /\ view' = [view EXCEPT ![r].data[x] = @ + First(r)]
  /\ written' = [written EXCEPT ![r] = @ \cup {x}]
  /\ Goto(r, "record")
  /\ UNCHANGED <<stone, stale, mode, pending, goal, mine, locked, failed, early,
                 attempt, result, history>>

\* It commits them, with the session it was given.
CallbackCommits(r) ==
  /\ pc[r] = "record"
  /\ mode.commits /\ ~early[r]
  /\ ~MustConflict(r, written[r])
  /\ Land(r, view[r], written[r])
  /\ early' = [early EXCEPT ![r] = TRUE]
  /\ UNCHANGED <<mode, pc, pending, goal, mine, locked, failed, attempt, result,
                 history>>

\* It makes the others; then the table is written from the runner's own copy.
RecordStep(r) ==
  LET x == Head(pending[r])
      table == IF Up(r) THEN mine[r] \cup {x} ELSE mine[r] \ {x}
  IN
  /\ pc[r] = "record"
  /\ mine' = [mine EXCEPT ![r] = table]
  /\ view' = [view EXCEPT ![r].data[x] = @ + Rest(r), ![r].table = table]
  /\ written' = [written EXCEPT ![r] =
                   @ \cup {Table} \cup (IF Rest(r) = 0 THEN {} ELSE {x})]
  /\ Goto(r, "commit")
  /\ UNCHANGED <<stone, stale, mode, pending, goal, locked, failed, early,
                 attempt, result, history>>

CommitStep(r) ==
  /\ pc[r] = "commit"
  /\ ~MustConflict(r, written[r])
  /\ Land(r, view[r], written[r])
  /\ pending' = [pending EXCEPT ![r] = Tail(@)]
  /\ early' = [early EXCEPT ![r] = FALSE]
  /\ IF Len(pending[r]) > 1 THEN Goto(r, "step") /\ UNCHANGED result
     ELSE Leave(r, "ok")
  /\ UNCHANGED <<mode, goal, mine, locked, failed, attempt, history>>

\* Mutant: a failed step is not aborted.
MutantFailStep(r) ==
  /\ pc[r] \in {"step", "record"} /\ Fault("step")
  /\ failed' = [failed EXCEPT ![r] = TRUE]
  /\ early' = [early EXCEPT ![r] = FALSE]
  /\ Disturb(Unrecorded(r))
  /\ Leave(r, "failed")
  /\ UNCHANGED <<stoneVars, mode, pending, goal, mine, locked, attempt>>

\* Mutant: after the abort the next step is tried.
MutantGoOn(r) ==
  /\ pc[r] = "step" /\ Fault("step")
  /\ Refresh(r)
  /\ pending' = [pending EXCEPT ![r] = Tail(@)]
  /\ IF Len(pending[r]) > 1 THEN Goto(r, "step") /\ UNCHANGED result
     ELSE Leave(r, "failed")
  /\ UNCHANGED <<mode, goal, mine, locked, failed, early, attempt, history>>

\* Where a run is when it sends a commit, its own or its callback's.
Committing(r) ==
  pc[r] = "commit" \/ (pc[r] = "record" /\ mode.commits /\ ~early[r])

\* An Exception from the callback or from a commit, which conflicted or took
\* effect with its answer lost: abort, then leave.  The abort may fail too.
FailStep(r) ==
  /\ pc[r] \in {"step", "record", "commit"}
  /\ \/ /\ Fault("step") \/ (Committing(r) /\ MayConflict(r, written[r]))
        /\ \/ Refresh(r) /\ Disturb(Unrecorded(r))
           \/ Fault("abort") /\ UNCHANGED stoneVars
                             /\ Disturb({"torn"} \cup Unrecorded(r))
     \/ /\ Committing(r) /\ Fault("lost_answer")
        /\ ~MustConflict(r, written[r])
        /\ Land(r, view[r], written[r])
        /\ Disturb(IF pc[r] = "commit" THEN {} ELSE {Head(pending[r])})
  /\ failed' = [failed EXCEPT ![r] = TRUE]
  /\ early' = [early EXCEPT ![r] = FALSE]
  /\ Leave(r, "failed")
  /\ UNCHANGED <<mode, pending, goal, mine, locked, attempt>>

\* What is no Exception passes the except clause by: no abort.
Interrupt(r) ==
  /\ Fault("interrupt")
  /\ pc[r] \in {"step", "record", "commit"}
  /\ failed' = [failed EXCEPT ![r] = TRUE]
  /\ early' = [early EXCEPT ![r] = FALSE]
  /\ Disturb({"torn"} \cup Unrecorded(r))
  /\ Leave(r, "failed")
  /\ UNCHANGED <<stoneVars, mode, pending, goal, mine, locked, attempt>>

\* Mutant: the lock is removed without a look at its owner.
MutantReleaseLock(r) ==
  LET freed == [view[r] EXCEPT !.lock = Nobody]
      outcome == IF failed[r] THEN "failed" ELSE "ok"
  IN
  /\ pc[r] = "release"
  /\ ~MustConflict(r, written[r] \cup {Lock})
  /\ Land(r, freed, written[r] \cup {Lock})
  /\ Finish(r, outcome)
  /\ UNCHANGED <<mode, pending, goal, mine, locked, failed, early, attempt,
                 history>>

\* release_migration_lock, in the finally clause: nothing if the lock is gone,
\* an error if it is another's, else its removal and a commit, which takes
\* along whatever else the transaction holds.
ReleaseLock(r) ==
  LET freed == [view[r] EXCEPT !.lock = Nobody]
      W == written[r] \cup {Lock}
      outcome == IF failed[r] THEN "failed" ELSE "ok"
  IN
  /\ pc[r] = "release"
  /\ \/ /\ view[r].lock = Nobody
        /\ Finish(r, outcome)
        /\ UNCHANGED stoneVars
     \/ /\ view[r].lock \notin {Nobody, r} /\ mode.takeover # "force"
        /\ Finish(r, "failed")
        /\ UNCHANGED stoneVars
     \/ /\ view[r].lock = r \/ (view[r].lock # Nobody /\ mode.takeover = "force")
        /\ \/ /\ ~MustConflict(r, W)
              /\ Land(r, freed, W)
              /\ Finish(r, outcome)
           \/ /\ FailedCommit(r, freed, W)
              /\ Finish(r, "failed")
  /\ UNCHANGED <<mode, pending, goal, mine, locked, failed, early, attempt,
                 history>>

-----------------------------------------------------------------------------
(* Migration.run() and rollback() over the instances of a class, by         *)
(* each_in_chunks: a commit with retry after each chunk and one at the end. *)

\* The abort run() begins with; the instances are listed once.
ClassStart(r) ==
  /\ pc[r] = "start"
  /\ ~ModuleStyle(r)
  /\ Refresh(r)
  /\ pending' = [pending EXCEPT ![r] = mode.own]
  /\ Goto(r, IF mode.own = <<>> THEN "retry" ELSE "change")
  /\ UNCHANGED <<mode, goal, mine, locked, failed, early, attempt, result,
                 history>>

\* The callback changes one instance; a chunk may end after it.
ClassChange(r) ==
  LET x == Head(pending[r])
      done == Len(mode.own) - Len(pending[r]) + 1
  IN
  /\ pc[r] = "change"
  /\ view' = [view EXCEPT ![r].data[x] = @ + 2]
  /\ written' = [written EXCEPT ![r] = @ \cup {x}]
  /\ pending' = [pending EXCEPT ![r] = Tail(@)]
  /\ Goto(r, IF done % ChunkSize = 0 \/ Len(pending[r]) = 1
             THEN "retry" ELSE "change")
  /\ goal' = [goal EXCEPT ![r] = @ \cup {x}]
  /\ UNCHANGED <<stone, stale, mode, mine, locked, failed, early, attempt,
                 result, history>>

\* Mutant: the loop ends without raising.
MutantClassRetry(r) ==
  /\ pc[r] = "retry"
  /\ MayConflict(r, written[r])
  /\ attempt[r] = mode.retries
  /\ Finish(r, "ok")
  /\ UNCHANGED <<stoneVars, mode, pending, goal, mine, locked, failed, early,
                 attempt, history>>

\* _commit_with_retry meets a conflict: it aborts, which drops what the
\* callback changed, and commits again; the last attempt raises without abort.
ClassRetry(r) ==
  /\ pc[r] = "retry"
  /\ MayConflict(r, written[r])
  /\ \/ /\ attempt[r] < mode.retries
        /\ attempt' = [attempt EXCEPT ![r] = @ + 1]
        /\ Refresh(r)
        /\ goal' = [goal EXCEPT ![r] = @ \ written[r]]
        /\ Disturb({"dropped"})
        /\ UNCHANGED <<pc, result>>
     \/ /\ attempt[r] = mode.retries
        /\ Finish(r, "failed")
        /\ UNCHANGED <<stoneVars, goal, attempt, history>>
  /\ UNCHANGED <<mode, pending, mine, locked, failed, early>>

\* A chunk is in, or what is left of it.
ClassCommit(r) ==
  /\ pc[r] = "retry"
  /\ ~MustConflict(r, written[r])
  /\ Land(r, view[r], written[r])
  /\ attempt' = [attempt EXCEPT ![r] = 1]
  /\ IF pending[r] = <<>> THEN Finish(r, "ok")
     ELSE Goto(r, "change") /\ UNCHANGED result
  /\ UNCHANGED <<mode, pending, goal, mine, locked, failed, early, history>>

-----------------------------------------------------------------------------
(* The surroundings.                                                       *)

\* The application commits to the objects a step migrates.
Application(x) ==
  /\ x \in mode.busy
  /\ \E r \in Runners : x \notin stale[r]
  /\ stale' = [r \in Runners |-> stale[r] \cup {x}]
  /\ UNCHANGED <<stone, view, written, mode, runVars, history>>

\* A runner's process dies, and its transaction with it.
Crash(r) ==
  /\ Fault("crash")
  /\ pc[r] \notin {"start", "crashed", "done"}
  /\ Goto(r, "crashed")
  /\ Refresh(r)
  /\ Disturb(Unrecorded(r))
  /\ early' = [early EXCEPT ![r] = FALSE]
  /\ UNCHANGED <<mode, pending, goal, mine, locked, failed, attempt, result>>

Step(r) ==
  \/ Login(r) \/ Plan(r) \/ AcquireLock(r) \/ BeginStep(r) \/ CallbackCommits(r)
  \/ RecordStep(r) \/ CommitStep(r) \/ FailStep(r) \/ ReleaseLock(r)
  \/ ClassStart(r) \/ ClassChange(r) \/ ClassRetry(r) \/ ClassCommit(r)

Next ==
  \/ \E r \in Runners : Step(r) \/ Interrupt(r) \/ Crash(r)
  \/ \E x \in Ids : Application(x)

Spec == Init /\ [][Next]_vars

-----------------------------------------------------------------------------
(* Properties.                                                             *)

\* A step is on record if and only if all of its changes are in the stone,
\* whatever fails between the two, as long as no run is robbed of its lock
\* while it lives or after it made a plan stale, and no exception gets past the
\* abort.  The runner commits a step and its record together; a callback that
\* commits for itself (docs/user-manual.md:609-621) breaks this for its own
\* step alone: from that commit until the record's, and for good if the run
\* fails or dies between them; and for no other step if runs take the lock,
\* since its commit renews the session's view and leaves the runner's copy of
\* the table as it was.
RecordedWithEffect ==
  history \cap {"seized", "torn"} = {} /\ (mode.commits => mode.lock) =>
    \A x \in IdsOf(mode.manifest) :
      x \notin history \cup UNION {Unrecorded(r) : r \in Runners}
      => stone.data[x] = IF x \in stone.table THEN 2 ELSE 0

\* What the steps on record depend on is on record too, between any two
\* commits of upgrades, downgrades or both at once, even of a run that was
\* robbed of its lock: what a run writes is its own copy of the table, closed
\* under dependencies when it was read, and changed in the order of the plan.
DependenciesHeld ==
  \A x \in stone.table : DepsOf(mode.manifest, x) \subseteq stone.table

\* The lock is read and then written, and only the commit tells whether
\* somebody else did the same: two runs never believe they hold it, unless it
\* was taken from one that is alive.
OneRunAtATime ==
  "seized" \notin history =>
    \A q, r \in Runners :
      /\ locked[q] /\ pc[q] \in {"step", "record", "commit", "release"}
      /\ locked[r] /\ pc[r] \in {"step", "record", "commit", "release"}
      => q = r

\* A run that says it succeeded has left no lock behind, and nobody else's
\* lock was removed by it.
LockFreed ==
  [][\A r \in Runners :
       /\ result'[r] = "ok" => stone'.lock # r
       /\ stone.lock = r /\ stone'.lock = Nobody
          => pc[r] = "release" \/ mode.takeover = "force"]_vars

\* A class-style migration that succeeded has migrated the instances of the
\* chunks that went in at the first attempt, each once, and no other: what a
\* conflict drops is not made again.
OnlyFirstAttemptsLand ==
  \A r \in Runners :
    /\ ~ModuleStyle(r) /\ result[r] = "ok"
    /\ \A q \in Runners \ {r} : ModuleStyle(q)
    => /\ \A x \in ToSet(mode.own) : stone.data[x] = IF x \in goal[r] THEN 2 ELSE 0
       /\ "dropped" \notin history => goal[r] = ToSet(mode.own)

\* What the comment of _commit_with_retry says (migrations.py:1537-1541): the
\* changes survive the abort and are included in the retry, so a migration
\* that ends well has migrated everything.
MigratedWhenDone ==
  \A r \in Runners :
    ~ModuleStyle(r) /\ result[r] = "ok" => goal[r] = ToSet(mode.own)
=============================================================================
