----------------------- MODULE MigrationRunnerProofs -----------------------
(***************************************************************************)
(* Proofs about MigrationRunner for any number of runners, every manifest, *)
(* and every mix of directions, faults and ways to take over the lock.     *)
(* What the runner relies on in a plan is proved in MigrationPlanProofs.   *)
(***************************************************************************)
EXTENDS MigrationRunner, MigrationPlanProofs

-----------------------------------------------------------------------------
(* The invariant, by parts.                                                *)

\* The steps of the manifest; the tables that hold what their steps depend on;
\* the runs that must hold the lock.
Steps == IdsOf(mode.manifest)
Closed(table) == \A x \in table : DepsOf(mode.manifest, x) \subseteq table
Critical(r) == pc[r] \in {"step", "record", "commit", "release"}

\* Where a run is and what it has then.
PlacedAt(r) ==
  /\ pc[r] \in IF ModuleStyle(r)
               THEN Labels \ {"change", "retry"}
               ELSE {"start", "change", "retry", "crashed", "done"}
  /\ result[r] # "none" => pc[r] = "done"
  /\ pc[r] \in {"lock", "step", "record", "commit", "change"} => pending[r] # <<>>
  /\ pc[r] \in {"start", "plan", "lock"} => ~locked[r]
  /\ pc[r] = "lock" => mode.lock
  /\ pc[r] \in {"step", "record", "commit"} => locked[r] = mode.lock
  /\ pc[r] = "release" => locked[r]
  /\ early[r] => mode.commits /\ pc[r] \in {"record", "commit"}
  /\ ModuleStyle(r) \/ (~locked[r] /\ ToSet(pending[r]) \subseteq ToSet(mode.own))

Places == \A r \in Runners : PlacedAt(r)

\* What it has written there.
Wrote(r) ==
  /\ written[r] \subseteq IF ModuleStyle(r) THEN {Table} \cup Steps
                          ELSE ToSet(mode.own)
  /\ pc[r] \in {"start", "plan", "lock", "step"} => written[r] = {}
  /\ pc[r] = "record" => written[r] = IF early[r] THEN {} ELSE {Head(pending[r])}
  /\ pc[r] = "commit" =>
       /\ Table \in written[r] /\ written[r] \subseteq {Head(pending[r]), Table}
       /\ Head(pending[r]) \notin written[r] => early[r] /\ Rest(r) = 0

Writes == \A r \in Runners : Wrote(r)

\* A view differs from the stone only where something was written, here or
\* by others.
Agrees(r) ==
  /\ Lock \notin stale[r] => view[r].lock = stone.lock
  /\ Table \notin stale[r] \cup written[r] => view[r].table = stone.table
  /\ \A x \in Ids \ (stale[r] \cup written[r]) :
       view[r].data[x] = stone.data[x]

ViewsAgree == \A r \in Runners : Agrees(r)

\* Who has the lock knows it, and who believes to have it does.
Holds(r) ==
  /\ Lock \in stale[r] => stone.lock # r
  /\ stone.lock = r => (locked[r] \/ pc[r] = "done") /\ result[r] # "ok"
  /\ "seized" \notin history /\ locked[r] /\ Critical(r) => stone.lock = r

LockKept == \A r \in Runners : Holds(r)

Sound(table) == table \subseteq Steps /\ Closed(table)

\* What a run works with: closed tables and a plan for its copy of the table.
Planned(r) ==
  /\ Sound(view[r].table)
  /\ Sound(mine[r])
  /\ pc[r] \in {"lock", "step", "record"} =>
       PlanSound(mode.does[r], mode.manifest, mine[r], pending[r])
  /\ pc[r] = "commit" =>
       /\ PlanSound(mode.does[r], mode.manifest, mine[r], Tail(pending[r]))
       /\ view[r].table = mine[r]
       /\ Head(pending[r]) \in Steps
       /\ Head(pending[r]) \in mine[r] <=> Up(r)

PlansHold == Sound(stone.table) /\ \A r \in Runners : Planned(r)

\* The table as it was before the step at hand.
Before(r) ==
  IF pc[r] # "commit" THEN mine[r]
  ELSE IF Up(r) THEN mine[r] \ {Head(pending[r])}
  ELSE mine[r] \cup {Head(pending[r])}

\* A run that waits for the lock with a stale table sees a moved lock, or would
\* have to seize it; one that has the lock works on the committed table.
Fresh(r) ==
  /\ mode.lock /\ pc[r] \in {"plan", "lock"} /\ Table \in stale[r]
     => Lock \in stale[r] \/ stone.lock # Nobody
  /\ pc[r] \in {"lock", "step", "record", "commit"} /\ Table \notin stale[r]
     => stone.table = Before(r)
  /\ mode.lock /\ pc[r] \in {"step", "record", "commit"} => Table \notin stale[r]

\* Callbacks that commit for themselves are made under the lock.
Guarded == mode.commits => mode.lock

CopiesFresh == "seized" \notin history /\ Guarded => \A r \in Runners : Fresh(r)

\* The transaction of a run holds the step at hand and nothing else; what its
\* callback has committed is in the stone.
Effect(r) ==
  LET x == Head(pending[r]) IN
  /\ ModuleStyle(r) /\ pc[r] \in {"release", "done"} => written[r] = {}
  /\ pc[r] = "record" /\ x \notin stale[r]
     => view[r].data[x] = stone.data[x] + (IF early[r] THEN 0 ELSE First(r))
  /\ pc[r] = "commit" /\ x \notin stale[r]
     => view[r].data[x] = stone.data[x] + (IF early[r] THEN 0 ELSE First(r)) + Rest(r)
  /\ early[r] /\ x \notin history
     => stone.data[x] = (IF Up(r) THEN 0 ELSE 2) + First(r)

Effects ==
  history \cap {"seized", "torn"} = {} /\ Guarded => \A r \in Runners : Effect(r)

\* The only class-style run.
Alone(r) == ~ModuleStyle(r) /\ \A q \in Runners \ {r} : ModuleStyle(q)

Injective(seq) == \A i, j \in 1..Len(seq) : seq[i] = seq[j] => i = j

\* The instances of a class-style migration: those in goal are changed in the
\* view, and in the stone unless they are written and not yet committed.
Migrating(r) ==
  /\ written[r] \subseteq goal[r]
  /\ \A x \in ToSet(mode.own) :
       /\ stone.data[x] = IF x \in goal[r] \ written[r] THEN 2 ELSE 0
       /\ view[r].data[x] = IF x \in goal[r] THEN 2 ELSE 0
  /\ goal[r] \cap ToSet(pending[r]) = {}
  /\ goal[r] \cup ToSet(pending[r]) \subseteq ToSet(mode.own)
  /\ Injective(pending[r])
  /\ "dropped" \notin history => goal[r] \cup ToSet(pending[r]) = ToSet(mode.own)

Migrates(r) ==
  Alone(r) =>
    /\ pc[r] = "start" => /\ goal[r] = {}
                          /\ \A x \in ToSet(mode.own) : stone.data[x] = 0
    /\ pc[r] \in {"change", "retry"} \/ result[r] = "ok" => Migrating(r)
    /\ result[r] = "ok" => pending[r] = <<>> /\ written[r] = {}

Instances == \A r \in Runners : Migrates(r)

-----------------------------------------------------------------------------
(* What the assumptions say of the setup.                                  *)
LEMMA ModeFacts ==
  ASSUME mode \in Modes
  PROVE  /\ Manifest(mode.manifest, Ids, {NoSum}) /\ Steps \subseteq Ids
         /\ ToSet(mode.own) \subseteq Ids
         /\ Steps \cap ToSet(mode.own) = {}
         /\ mode.own \in Seq(Ids)
         /\ \A i, j \in 1..Len(mode.own) : mode.own[i] = mode.own[j] => i = j
         /\ mode.applied \subseteq Steps
         /\ Closed(mode.applied)
         /\ \A r \in Runners : mode.does[r] \in Directions
         /\ mode.lock \in BOOLEAN
         /\ mode.retries \in Nat \ {0}
         /\ mode.commits \in BOOLEAN /\ mode.first \in 1..2
<1>1. /\ Manifest(mode.manifest, Ids, {NoSum})
      /\ ToSet(mode.own) \subseteq Ids
      /\ IdsOf(mode.manifest) \cap ToSet(mode.own) = {}
      /\ mode.own \in Seq(Ids)
      /\ \A i, j \in 1..Len(mode.own) : mode.own[i] = mode.own[j] => i = j
  BY ModesAssumption
<1>2. /\ mode.applied \subseteq IdsOf(mode.manifest)
      /\ \A x \in mode.applied : DepsOf(mode.manifest, x) \subseteq mode.applied
      /\ mode.does \in [Runners -> Directions]
      /\ mode.lock \in BOOLEAN
      /\ mode.retries \in Nat \ {0}
      /\ mode.commits \in BOOLEAN /\ mode.first \in 1..2
  BY ModesAssumption
<1>3. IdsOf(mode.manifest) \subseteq Ids
  <2> DEFINE AStep == [id : Ids, deps : Seq(Ids), down : BOOLEAN, sum : {NoSum}]
  <2>1. \A s \in AStep : s.id \in Ids
    OBVIOUS
  <2>2. mode.manifest \in Seq(AStep)
    BY <1>1 DEF Manifest
  <2> HIDE DEF AStep
  <2>3. \A i \in DOMAIN mode.manifest : mode.manifest[i] \in AStep
    BY <2>2
  <2>4. QED  BY <2>1, <2>3 DEF IdsOf
<1>4. QED  BY <1>1, <1>2, <1>3 DEF Steps, Closed

(* The values of a sequence, its head and its tail.                        *)
LEMMA SequenceFacts ==
  ASSUME NEW S, NEW s \in Seq(S), s # <<>>
  PROVE  /\ Head(s) \in S /\ Tail(s) \in Seq(S)
         /\ Len(s) \in Nat \ {0} /\ Len(Tail(s)) = Len(s) - 1
         /\ s[1] = Head(s)
         /\ \A i \in 1..Len(Tail(s)) : Tail(s)[i] = s[i + 1]
         /\ ToSet(s) = {Head(s)} \cup ToSet(Tail(s))
         /\ ToSet(s) \subseteq S
<1>1. /\ Head(s) \in S /\ Tail(s) \in Seq(S) /\ s[1] = Head(s)
      /\ Len(s) \in Nat \ {0} /\ Len(Tail(s)) = Len(s) - 1
      /\ \A i \in 1..Len(Tail(s)) : Tail(s)[i] = s[i + 1]
  OBVIOUS
<1>a. DOMAIN s = 1..Len(s) /\ DOMAIN Tail(s) = 1..Len(Tail(s))
  BY <1>1
<1>2. /\ ToSet(s) = {s[i] : i \in 1..Len(s)}
      /\ ToSet(Tail(s)) = {Tail(s)[i] : i \in 1..Len(Tail(s))}
  BY <1>a, Zenon DEF ToSet
<1>3. ToSet(s) \subseteq {Head(s)} \cup ToSet(Tail(s))
  <2> SUFFICES ASSUME NEW i \in 1..Len(s)
               PROVE  s[i] = Head(s) \/ s[i] \in ToSet(Tail(s))
    BY <1>2
  <2>1. CASE i = 1
    BY <2>1, <1>1
  <2>2. CASE i # 1
    <3>1. i - 1 \in 1..Len(Tail(s)) /\ Tail(s)[i - 1] = s[i]
      BY <2>2, <1>1
    <3>2. QED  BY <3>1, <1>2
  <2>3. QED  BY <2>1, <2>2
<1>4. ToSet(Tail(s)) \subseteq ToSet(s)
  <2> SUFFICES ASSUME NEW i \in 1..Len(Tail(s))
               PROVE  Tail(s)[i] \in ToSet(s)
    BY <1>2
  <2>1. i + 1 \in 1..Len(s) /\ Tail(s)[i] = s[i + 1]
    BY <1>1
  <2>2. QED  BY <2>1, <1>2
<1>5. Head(s) \in ToSet(s)
  BY <1>1, <1>2
<1>6. ToSet(s) \subseteq S
  BY <1>2
<1>7. QED  BY <1>1, <1>3, <1>4, <1>5, <1>6

(* The empty sequence has no values.                                       *)
LEMMA EmptyFacts == ToSet(<<>>) = {} /\ Len(<<>>) = 0
BY DEF ToSet

-----------------------------------------------------------------------------
(* Types.                                                                  *)

SessionsTyped ==
  /\ stone \in Stones
  /\ view \in [Runners -> Stones]
  /\ written \in [Runners -> SUBSET Slots]
  /\ stale \in [Runners -> SUBSET Slots]

RunsTyped ==
  /\ mode \in Modes
  /\ pc \in [Runners -> Labels]
  /\ pending \in [Runners -> Seq(Ids)]
  /\ goal \in [Runners -> SUBSET Ids]
  /\ mine \in [Runners -> SUBSET Ids]
  /\ locked \in [Runners -> BOOLEAN]
  /\ failed \in [Runners -> BOOLEAN]
  /\ early \in [Runners -> BOOLEAN]
  /\ attempt \in [Runners -> 1..mode.retries]
  /\ result \in [Runners -> Results]
  /\ history \subseteq Disturbances \cup Ids

(* The type of the state in two halves.                                    *)
LEMMA TypeParts == TypeOK <=> SessionsTyped /\ RunsTyped
BY DEF TypeOK, SessionsTyped, RunsTyped

(* What the server makes of a commit, entry by entry.                      *)
LEMMA LandFacts ==
  ASSUME SessionsTyped, NEW r \in Runners, NEW v \in Stones,
         NEW W \in SUBSET Slots, Land(r, v, W)
  PROVE  /\ SessionsTyped'
         /\ stone'.table = IF Table \in W THEN v.table ELSE stone.table
         /\ stone'.lock = IF Lock \in W THEN v.lock ELSE stone.lock
         /\ \A x \in Ids :
              stone'.data[x] = IF x \in W THEN v.data[x] ELSE stone.data[x]
         /\ view'[r] = stone' /\ written'[r] = {} /\ stale'[r] = {}
         /\ \A q \in Runners \ {r} : /\ view'[q] = view[q]
                                     /\ written'[q] = written[q]
                                     /\ stale'[q] = stale[q] \cup W
<1>1. Merge(v, W) \in Stones
  BY DEF Merge, Stones, SessionsTyped
<1>2. /\ Merge(v, W).table = IF Table \in W THEN v.table ELSE stone.table
      /\ Merge(v, W).lock = IF Lock \in W THEN v.lock ELSE stone.lock
      /\ \A x \in Ids : Merge(v, W).data[x] = IF x \in W THEN v.data[x] ELSE stone.data[x]
  BY DEF Merge
<1>3. stone' = Merge(v, W)
  BY DEF Land
<1>4. SessionsTyped'
  BY <1>1, <1>3 DEF Land, SessionsTyped
<1>5. QED  BY <1>2, <1>3, <1>4 DEF Land, SessionsTyped

(* An abort.                                                               *)
LEMMA RefreshFacts ==
  ASSUME SessionsTyped, NEW r \in Runners, Refresh(r)
  PROVE  /\ SessionsTyped'
         /\ stone' = stone
         /\ view'[r] = stone /\ written'[r] = {} /\ stale'[r] = {}
         /\ \A q \in Runners \ {r} : /\ view'[q] = view[q]
                                     /\ written'[q] = written[q]
                                     /\ stale'[q] = stale[q]
BY DEF Refresh, SessionsTyped

(* The lock entry as its taker and its releaser write it.                  *)
LEMMA ClaimFacts ==
  ASSUME SessionsTyped, NEW r \in Runners, NEW o \in Runners \cup {Nobody}
  PROVE  LET v == [view[r] EXCEPT !.lock = o]
         IN /\ v \in Stones /\ v.lock = o
            /\ v.table = view[r].table /\ v.data = view[r].data
BY DEF SessionsTyped, Stones

(* A change to an object in the transaction of r.                          *)
LEMMA ChangeFacts ==
  ASSUME SessionsTyped, NEW r \in Runners, NEW x \in Ids, NEW d \in Int
  PROVE  LET v == [view[r] EXCEPT !.data[x] = @ + d]
         IN /\ v \in Stones /\ v.lock = view[r].lock /\ v.table = view[r].table
            /\ v.data[x] = view[r].data[x] + d
            /\ \A y \in Ids \ {x} : v.data[y] = view[r].data[y]
<1> DEFINE u == view[r]
           data == [u.data EXCEPT ![x] = @ + d]
           v == [view[r] EXCEPT !.data[x] = @ + d]
<1>1. u \in Stones
  BY DEF SessionsTyped
<1>2. /\ u.data \in [Ids -> Int] /\ data \in [Ids -> Int]
      /\ data[x] = u.data[x] + d /\ \A y \in Ids \ {x} : data[y] = u.data[y]
  BY <1>1 DEF Stones
<1>3. v = [u EXCEPT !.data = data]
  OBVIOUS
<1> HIDE DEF data, u
<1>4. QED  BY <1>1, <1>2, <1>3 DEF Stones

(* A failed commit is an abort, or lands.                                  *)
LEMMA FailedCommitFacts ==
  ASSUME NEW r \in Runners, NEW v, NEW W, FailedCommit(r, v, W)
  PROVE  Refresh(r) \/ (~MustConflict(r, W) /\ Land(r, v, W))
BY DEF FailedCommit

(* The two parts of what a step changes.                                   *)
LEMMA StepParts ==
  ASSUME RunsTyped, NEW r \in Runners
  PROVE  /\ First(r) \in Int /\ Rest(r) \in Int
         /\ First(r) + Rest(r) = IF Up(r) THEN 2 ELSE -2
<1>1. mode.first \in 1..2
  BY ModeFacts DEF RunsTyped
<1>2. QED  BY <1>1 DEF First, Rest

(* What an action of a runner does to its session: nothing, an abort, some *)
(* writes in its transaction, or a commit of its work with the lock taken  *)
(* or given back.                                                          *)
Writing(r) ==
  \E v \in Stones, W \in SUBSET (Slots \ {Lock}) :
    /\ pc[r] \in {"step", "record", "change"}
    /\ BeginStep(r) \/ RecordStep(r) \/ ClassChange(r)
    /\ view' = [view EXCEPT ![r] = v]
    /\ written' = [written EXCEPT ![r] = @ \cup W]
    /\ UNCHANGED <<stone, stale>>
    /\ v.lock = view[r].lock
    /\ Table \notin W => v.table = view[r].table
    /\ \A x \in Ids \ W : v.data[x] = view[r].data[x]

Landing(r) ==
  \E v \in Stones, W \in SUBSET (written[r] \cup {Lock}) :
    /\ ~MustConflict(r, W)
    /\ Land(r, v, W)
    /\ v.table = view[r].table /\ v.data = view[r].data
    /\ Lock \in W => \/ pc[r] = "lock" /\ v.lock = r /\ W = {Lock}
                     \/ /\ pc[r] = "release" /\ v.lock = Nobody
                        /\ view[r].lock # r => mode.takeover = "force"
    /\ Lock \notin W => W = written[r] /\ pc[r] \in {"record", "commit", "retry"}

(* Every action does one of the four.                                      *)
LEMMA SessionMoves ==
  ASSUME SessionsTyped, RunsTyped, Places, Writes, NEW r \in Runners,
         Step(r) \/ Interrupt(r) \/ Crash(r)
  PROVE  UNCHANGED stoneVars \/ Refresh(r) \/ Writing(r) \/ Landing(r)
<1>1. ASSUME NEW o \in Runners \cup {Nobody}, NEW W \in SUBSET (written[r] \cup {Lock}),
             Lock \in W,
             ~MustConflict(r, W) /\ Land(r, [view[r] EXCEPT !.lock = o], W),
             \/ pc[r] = "lock" /\ o = r /\ W = {Lock}
             \/ /\ pc[r] = "release" /\ o = Nobody
                /\ view[r].lock # r => mode.takeover = "force"
      PROVE  Landing(r)
  BY <1>1, ClaimFacts DEF Landing
<1>2. ASSUME ~MustConflict(r, written[r]), Land(r, view[r], written[r]),
             pc[r] \in {"record", "commit", "retry"}
      PROVE  Landing(r)
  <2>1. view[r] \in Stones /\ written[r] \in SUBSET (written[r] \cup {Lock})
    BY DEF SessionsTyped
  <2>2. Lock \notin written[r]
    BY NamesAssumption, ModeFacts DEF Writes, Wrote, RunsTyped
  <2>3. QED  BY <1>2, <2>1, <2>2 DEF Landing
<1>3. ASSUME NEW v, NEW W, FailedCommit(r, v, W)
      PROVE  Refresh(r) \/ (~MustConflict(r, W) /\ Land(r, v, W))
  BY <1>3, FailedCommitFacts
<1>4. pc[r] \in {"step", "record", "change"} => Head(pending[r]) \in Ids
  <2>1. pc[r] \in {"step", "record", "change"} => pending[r] \in Seq(Ids) /\ pending[r] # <<>>
    BY DEF RunsTyped, Places, PlacedAt
  <2>2. QED  BY <2>1, SequenceFacts
<1>5. \A x \in Ids : {x} \in SUBSET (Slots \ {Lock}) /\ {x, Table} \in SUBSET (Slots \ {Lock})
  BY NamesAssumption DEF Slots
<1>6. First(r) \in Int /\ Rest(r) \in Int /\ 2 \in Int
  BY StepParts
<1>7. ASSUME NEW x \in Ids, NEW d \in Int, pc[r] \in {"step", "change"},
             view' = [view EXCEPT ![r].data[x] = @ + d],
             written' = [written EXCEPT ![r] = @ \cup {x}],
             UNCHANGED <<stone, stale>>, BeginStep(r) \/ ClassChange(r)
      PROVE  Writing(r)
  <2> DEFINE v == [view[r] EXCEPT !.data[x] = @ + d]
  <2>1. /\ v \in Stones /\ v.lock = view[r].lock /\ v.table = view[r].table
        /\ \A y \in Ids \ {x} : v.data[y] = view[r].data[y]
    BY ChangeFacts
  <2>2. view' = [view EXCEPT ![r] = v]
    BY <1>7
  <2> HIDE DEF v
  <2>3. QED  BY <1>5, <1>7, <2>1, <2>2 DEF Writing
<1>8. CASE Login(r) \/ ClassStart(r) \/ Crash(r)
  BY <1>8 DEF Login, ClassStart, Crash
<1>9. CASE Plan(r) \/ Interrupt(r)
  BY <1>9 DEF Plan, Interrupt
<1>10. CASE AcquireLock(r)
  <2> DEFINE v == [view[r] EXCEPT !.lock = r]
  <2>1. pc[r] = "lock" /\ {Lock} \in SUBSET (written[r] \cup {Lock})
    BY <1>10 DEF AcquireLock
  <2>2. \/ UNCHANGED stoneVars
        \/ ~MustConflict(r, {Lock}) /\ Land(r, v, {Lock})
        \/ FailedCommit(r, v, {Lock})
    BY <1>10 DEF AcquireLock
  <2>3. ~MustConflict(r, {Lock}) /\ Land(r, v, {Lock}) => Landing(r)
    BY <2>1, <1>1
  <2>4. FailedCommit(r, v, {Lock}) => Refresh(r) \/ Landing(r)
    BY <1>3, <2>3
  <2>5. QED  BY <2>2, <2>3, <2>4
<1>11. CASE BeginStep(r)
  BY <1>4, <1>6, <1>7, <1>11 DEF BeginStep
<1>11a. CASE CallbackCommits(r)
  BY <1>11a, <1>2 DEF CallbackCommits
<1>12. CASE RecordStep(r)
  <2>1. ASSUME NEW x \in Ids, NEW d \in Int, NEW table \in SUBSET Ids,
               view' = [view EXCEPT ![r].data[x] = @ + d, ![r].table = table],
               written' = [written EXCEPT ![r] =
                            @ \cup {Table} \cup (IF d = 0 THEN {} ELSE {x})]
        PROVE  Writing(r)
    <3> DEFINE w == [view[r] EXCEPT !.data[x] = @ + d]
               v == [w EXCEPT !.table = table]
    <3>1. /\ w \in Stones /\ w.lock = view[r].lock
          /\ w.data[x] = view[r].data[x] + d
          /\ \A y \in Ids \ {x} : w.data[y] = view[r].data[y]
      BY ChangeFacts
    <3>2. view' = [view EXCEPT ![r] = v]
      BY <2>1
    <3> HIDE DEF w
    <3>3. v \in Stones /\ v.lock = w.lock /\ v.data = w.data
      BY <3>1 DEF Stones
    <3>4. pc[r] = "record" /\ UNCHANGED <<stone, stale>>
      BY <1>12 DEF RecordStep
    <3> DEFINE W == {Table} \cup (IF d = 0 THEN {} ELSE {x})
    <3>5. W \in SUBSET (Slots \ {Lock}) /\ Table \in W /\ (d # 0 => x \in W)
      BY <1>5
    <3>6. written' = [written EXCEPT ![r] = @ \cup W]
      <4>1. written[r] \cup {Table} \cup (IF d = 0 THEN {} ELSE {x}) = written[r] \cup W
        OBVIOUS
      <4>2. QED  BY <2>1, <4>1
    <3> HIDE DEF v, W
    <3>7. /\ v \in Stones /\ v.lock = view[r].lock
          /\ \A y \in Ids \ W : v.data[y] = view[r].data[y]
      <4>1. d = 0 => v.data[x] = view[r].data[x]
        <5>1. view[r].data[x] \in Int
          BY DEF SessionsTyped, Stones
        <5>2. QED  BY <3>1, <3>3, <5>1
      <4>2. QED  BY <3>1, <3>3, <3>5, <4>1
    <3>8. QED  BY <1>12, <3>2, <3>4, <3>5, <3>6, <3>7 DEF Writing
  <2>2. LET table == IF Up(r) THEN mine[r] \cup {Head(pending[r])}
                     ELSE mine[r] \ {Head(pending[r])}
        IN table \in SUBSET Ids
    BY <1>12, <1>4 DEF RecordStep, RunsTyped
  <2>3. QED  BY <1>4, <1>6, <1>12, <2>1, <2>2 DEF RecordStep
<1>13. CASE CommitStep(r)
  BY <1>13, <1>2 DEF CommitStep
<1>14. CASE FailStep(r)
  BY <1>14, <1>2 DEF FailStep, Committing
<1>15. CASE ReleaseLock(r)
  <2> DEFINE v == [view[r] EXCEPT !.lock = Nobody]
             W == written[r] \cup {Lock}
  <2>1. pc[r] = "release" /\ W \in SUBSET (written[r] \cup {Lock}) /\ Lock \in W
    BY <1>15 DEF ReleaseLock
  <2>2. \/ UNCHANGED stoneVars
        \/ /\ ~MustConflict(r, W) /\ Land(r, v, W)
           /\ view[r].lock # r => mode.takeover = "force"
        \/ /\ FailedCommit(r, v, W)
           /\ view[r].lock # r => mode.takeover = "force"
    BY <1>15 DEF ReleaseLock
  <2>3. ASSUME ~MustConflict(r, W), Land(r, v, W),
               view[r].lock # r => mode.takeover = "force"
        PROVE  Landing(r)
    BY <2>1, <2>3, <1>1
  <2>4. FailedCommit(r, v, W) => Refresh(r) \/ (~MustConflict(r, W) /\ Land(r, v, W))
    BY <1>3
  <2> HIDE DEF v, W
  <2>5. QED  BY <2>2, <2>3, <2>4
<1>16. CASE ClassChange(r)
  BY <1>4, <1>6, <1>7, <1>16 DEF ClassChange
<1>17. CASE ClassRetry(r)
  BY <1>17 DEF ClassRetry
<1>18. CASE ClassCommit(r)
  BY <1>18, <1>2 DEF ClassCommit
<1>19. QED
  BY <1>8, <1>9, <1>10, <1>11, <1>11a, <1>12, <1>13, <1>14, <1>15, <1>16, <1>17,
     <1>18 DEF Step

(* Each of them leaves the types, and the sessions of the others.          *)
LEMMA SessionTypes ==
  ASSUME SessionsTyped, NEW r \in Runners,
         UNCHANGED stoneVars \/ Refresh(r) \/ Writing(r) \/ Landing(r)
  PROVE  /\ SessionsTyped'
         /\ \A q \in Runners \ {r} : view'[q] = view[q] /\ written'[q] = written[q]
<1>1. CASE UNCHANGED stoneVars
  BY <1>1 DEF stoneVars, SessionsTyped
<1>2. CASE Refresh(r)
  BY <1>2, RefreshFacts
<1>3. CASE Writing(r)
  BY <1>3 DEF Writing, SessionsTyped
<1>4. CASE Landing(r)
  <2>1. written[r] \cup {Lock} \subseteq Slots
    BY DEF SessionsTyped, Slots
  <2>2. PICK v \in Stones, W \in SUBSET Slots : Land(r, v, W)
    BY <1>4, <2>1 DEF Landing
  <2>3. QED  BY <2>2, LandFacts
<1>5. QED  BY <1>1, <1>2, <1>3, <1>4

(* What a run takes over from the planner.                                 *)
LEMMA PlanFacts ==
  ASSUME SessionsTyped, RunsTyped, Places, PlansHold, NEW r \in Runners, Plan(r)
  PROVE  \/ /\ UNCHANGED <<pending, goal, mine>>
            /\ Finish(r, "refused") \/ Finish(r, "dry")
         \/ \E plan \in Seq(Steps) :
              /\ ToSet(plan) \subseteq Steps
              /\ PlanSound(mode.does[r], mode.manifest, view[r].table, plan)
              /\ pending' = [pending EXCEPT ![r] = plan]
              /\ goal' = [goal EXCEPT ![r] = ToSet(plan)]
              /\ mine' = [mine EXCEPT ![r] = view[r].table]
              /\ IF plan = <<>> THEN Finish(r, "ok")
                 ELSE /\ Goto(r, IF mode.lock THEN "lock" ELSE "step")
                      /\ UNCHANGED result
<1> DEFINE P(t) == Intended(mode.does[r], mode.manifest, Record(view[r].table), t)
<1>1. PICK target \in Ids \cup {NoStep, Base} :
        \/ P(target).error # "none" /\ Finish(r, "refused")
                                    /\ UNCHANGED <<pending, goal, mine>>
        \/ P(target).error = "none" /\ Finish(r, "dry")
                                    /\ UNCHANGED <<pending, goal, mine>>
        \/ /\ P(target).error = "none"
           /\ pending' = [pending EXCEPT ![r] = P(target).plan]
           /\ goal' = [goal EXCEPT ![r] = ToSet(P(target).plan)]
           /\ mine' = [mine EXCEPT ![r] = view[r].table]
           /\ IF P(target).plan = <<>> THEN Finish(r, "ok")
              ELSE Goto(r, IF mode.lock THEN "lock" ELSE "step")
                   /\ UNCHANGED result
  BY DEF Plan
<1>2. /\ mode \in Modes /\ mode.does[r] \in Directions \ {"class"}
      /\ view[r].table \in SUBSET IdsOf(mode.manifest)
  BY ModeFacts DEF Plan, RunsTyped, Places, PlacedAt, ModuleStyle, Directions, PlansHold, Planned, Sound, Steps
<1>3. P(target).error = "none" =>
        PlanSound(mode.does[r], mode.manifest, view[r].table, P(target).plan)
  <2>1. Manifest(mode.manifest, Ids, {NoSum}) /\ DOMAIN Record(view[r].table) = view[r].table
    BY <1>2, ModeFacts DEF Record
  <2>2. mode.does[r] \in {"upgrade", "downgrade"}
    BY <1>2 DEF Directions
  <2>3. P(target).error = "none" =>
          PlanSound(mode.does[r], mode.manifest, DOMAIN Record(view[r].table), P(target).plan)
    BY <2>1, <2>2, PlansAreSoundFor
  <2>4. QED  BY <2>1, <2>3
<1>4. PlanSound(mode.does[r], mode.manifest, view[r].table, P(target).plan)
      => /\ P(target).plan \in Seq(Steps)
         /\ ToSet(P(target).plan) \subseteq Steps
  <2>1. \A plan \in Seq(Steps) : ToSet(plan) \subseteq Steps
    BY SequenceFacts, EmptyFacts
  <2>2. QED  BY <2>1 DEF PlanSound, Steps
<1> HIDE DEF P
<1>5. QED  BY <1>1, <1>3, <1>4

(* The head of a plan.                                                     *)
LEMMA PlanHead ==
  ASSUME NEW direction, NEW steps, NEW applied, NEW plan, plan # <<>>,
         PlanSound(direction, steps, applied, plan)
  PROVE  /\ plan \in Seq(IdsOf(steps)) /\ Head(plan) \in IdsOf(steps)
         /\ Head(plan) \in applied <=> direction = "downgrade"
<1>1. plan \in Seq(IdsOf(steps))
  BY DEF PlanSound
<1>2. 1 \in 1..Len(plan) /\ plan[1] = Head(plan) /\ Head(plan) \in IdsOf(steps)
  BY <1>1
<1>3. QED  BY <1>1, <1>2 DEF PlanSound

(* And the types of how far it has got.                                    *)
LEMMA RunTypes ==
  ASSUME SessionsTyped, RunsTyped, Places, PlansHold, NEW r \in Runners,
         Step(r) \/ Interrupt(r) \/ Crash(r)
  PROVE  RunsTyped'
<1> USE DEF RunsTyped, Labels, Results, Disturbances, Goto, Finish, Leave, Disturb
<1>1. pending[r] # <<>> => /\ Head(pending[r]) \in Ids
                           /\ Tail(pending[r]) \in Seq(Ids)
  BY SequenceFacts
<1>2. mode.own \in Seq(Ids) /\ mode.retries \in Nat \ {0}
  BY ModeFacts
<1>3. CASE Login(r)
  BY <1>3 DEF Login
<1>4. CASE Plan(r)
  <2>1. UNCHANGED <<mode, locked, failed, early, attempt, history>>
    BY <1>4 DEF Plan
  <2>2. CASE UNCHANGED <<pending, goal, mine>> /\ (Finish(r, "refused") \/ Finish(r, "dry"))
    BY <2>1, <2>2
  <2>3. ASSUME NEW plan \in Seq(Steps),
               ToSet(plan) \subseteq Steps,
               pending' = [pending EXCEPT ![r] = plan],
               goal' = [goal EXCEPT ![r] = ToSet(plan)],
               mine' = [mine EXCEPT ![r] = view[r].table],
               \/ Finish(r, "ok")
               \/ Goto(r, IF mode.lock THEN "lock" ELSE "step") /\ UNCHANGED result
        PROVE  RunsTyped'
    <3>1. plan \in Seq(Ids) /\ ToSet(plan) \subseteq Ids
      BY <2>3, ModeFacts
    <3>2. view[r].table \in SUBSET Ids
      BY DEF SessionsTyped, Stones
    <3>3. QED  BY <2>1, <2>3, <3>1, <3>2
  <2>4. QED  BY <1>4, <2>2, <2>3, PlanFacts
<1>5. CASE AcquireLock(r)
  BY <1>5 DEF AcquireLock
<1>6. CASE BeginStep(r) \/ CallbackCommits(r)
  BY <1>6 DEF BeginStep, CallbackCommits
<1>7. CASE RecordStep(r)
  BY <1>7, <1>1 DEF RecordStep, Places, PlacedAt
<1>8. CASE CommitStep(r)
  BY <1>8, <1>1 DEF CommitStep, Places, PlacedAt
<1>9. CASE FailStep(r) \/ Interrupt(r) \/ Crash(r)
  <2>1. Unrecorded(r) \subseteq Ids
    BY <1>1 DEF Unrecorded, Places, PlacedAt
  <2>2. pc[r] = "record" => Head(pending[r]) \in Ids
    BY <1>1 DEF Places, PlacedAt
  <2>3. history' \subseteq Disturbances \cup Ids
    BY <1>9, <2>1, <2>2 DEF FailStep, Interrupt, Crash, Committing
  <2>4. QED  BY <1>9, <2>3 DEF FailStep, Interrupt, Crash
<1>11. CASE ReleaseLock(r)
  BY <1>11 DEF ReleaseLock
<1>12. CASE ClassStart(r)
  BY <1>12, <1>2 DEF ClassStart
<1>13. CASE ClassChange(r)
  BY <1>13, <1>1 DEF ClassChange, Places, PlacedAt
<1>14. CASE ClassRetry(r)
  <2>1. attempt[r] \in 1..mode.retries /\ mode' = mode
    BY <1>14 DEF ClassRetry
  <2>2. attempt' \in [Runners -> 1..mode.retries]
    <3>1. CASE UNCHANGED attempt
      BY <3>1
    <3>2. CASE attempt[r] < mode.retries /\ attempt' = [attempt EXCEPT ![r] = @ + 1]
      <4>1. attempt[r] + 1 \in 1..mode.retries
        BY <2>1, <3>2, <1>2
      <4>2. QED  BY <3>2, <4>1
    <3>3. QED  BY <1>14, <3>1, <3>2 DEF ClassRetry
  <2>3. UNCHANGED <<pending, mine, locked, failed, early>>
    BY <1>14 DEF ClassRetry
  <2>4. goal' \in [Runners -> SUBSET Ids]
    <3>1. goal \in [Runners -> SUBSET Ids] /\ goal[r] \ written[r] \in SUBSET Ids
      OBVIOUS
    <3>2. goal' = goal \/ goal' = [goal EXCEPT ![r] = @ \ written[r]]
      BY <1>14 DEF ClassRetry
    <3> HIDE DEF RunsTyped, Goto, Finish, Leave, Disturb
    <3>3. QED  BY <3>1, <3>2
  <2>7. history' \subseteq Disturbances \cup Ids
    BY <1>14 DEF ClassRetry
  <2>5. pc' \in [Runners -> Labels] /\ result' \in [Runners -> Results]
    BY <1>14 DEF ClassRetry
  <2>6. QED  BY <2>1, <2>2, <2>3, <2>4, <2>5, <2>7
<1>15. CASE ClassCommit(r)
  <2>1. mode' = mode /\ 1 \in 1..mode.retries
    BY <1>15, <1>2 DEF ClassCommit
  <2>2. attempt' \in [Runners -> 1..mode.retries]
    BY <1>15, <2>1 DEF ClassCommit
  <2>3. QED  BY <1>15, <2>1, <2>2 DEF ClassCommit
<1>17. QED
  BY <1>3, <1>4, <1>5, <1>6, <1>7, <1>8, <1>9, <1>11, <1>12, <1>13, <1>14,
     <1>15 DEF Step

(* The setup never changes.                                                *)
LEMMA ModeKept ==
  ASSUME NEW r \in Runners, Step(r) \/ Interrupt(r) \/ Crash(r)
  PROVE  mode' = mode
<1>1. CASE Login(r) \/ Plan(r) \/ AcquireLock(r)
  BY <1>1 DEF Login, Plan, AcquireLock
<1>2. CASE BeginStep(r) \/ CallbackCommits(r) \/ RecordStep(r) \/ CommitStep(r)
  BY <1>2 DEF BeginStep, CallbackCommits, RecordStep, CommitStep
<1>3. CASE FailStep(r) \/ Interrupt(r) \/ ReleaseLock(r) \/ Crash(r)
  BY <1>3 DEF FailStep, Interrupt, ReleaseLock, Crash
<1>4. CASE ClassStart(r) \/ ClassChange(r) \/ ClassRetry(r) \/ ClassCommit(r)
  BY <1>4 DEF ClassStart, ClassChange, ClassRetry, ClassCommit
<1>5. QED  BY <1>1, <1>2, <1>3, <1>4 DEF Step

(* What is another runner's own stays as it is.                            *)
Kept(q) ==
  /\ pc'[q] = pc[q] /\ pending'[q] = pending[q] /\ goal'[q] = goal[q]
  /\ mine'[q] = mine[q] /\ locked'[q] = locked[q] /\ result'[q] = result[q]
  /\ early'[q] = early[q]

(* A step of one runner keeps every other.                                 *)
LEMMA OthersKept ==
  ASSUME RunsTyped, NEW r \in Runners, NEW q \in Runners \ {r},
         Step(r) \/ Interrupt(r) \/ Crash(r)
  PROVE  Kept(q)
<1> USE DEF RunsTyped, Kept, Goto, Finish, Leave
<1>1. CASE Login(r) \/ Plan(r) \/ AcquireLock(r)
  BY <1>1 DEF Login, Plan, AcquireLock
<1>2. CASE BeginStep(r) \/ CallbackCommits(r) \/ RecordStep(r) \/ CommitStep(r)
  BY <1>2 DEF BeginStep, CallbackCommits, RecordStep, CommitStep
<1>3. CASE FailStep(r) \/ Interrupt(r) \/ ReleaseLock(r) \/ Crash(r)
  BY <1>3 DEF FailStep, Interrupt, ReleaseLock, Crash
<1>4. CASE ClassStart(r) \/ ClassChange(r) \/ ClassRetry(r) \/ ClassCommit(r)
  BY <1>4 DEF ClassStart, ClassChange, ClassRetry, ClassCommit
<1>5. QED  BY <1>1, <1>2, <1>3, <1>4 DEF Step

(* A step leaves every run where its label says, with what it needs there. *)
LEMMA PlacesKept ==
  ASSUME SessionsTyped, RunsTyped, Places, PlansHold, NEW r \in Runners,
         Step(r) \/ Interrupt(r) \/ Crash(r)
  PROVE  Places'
<1>0. PlacedAt(r)
  BY DEF Places
<1>1. /\ pending[r] \in Seq(Ids)
      /\ Len(pending[r]) > 1 => Tail(pending[r]) # <<>>
      /\ pending[r] # <<>> /\ Len(pending[r]) # 1 => Tail(pending[r]) # <<>>
  <2>1. pending[r] \in Seq(Ids)
    BY DEF RunsTyped
  <2>2. pending[r] # <<>> /\ Len(pending[r]) # 1 => Tail(pending[r]) # <<>>
    <3> DEFINE p == pending[r]
    <3> HIDE DEF p
    <3>1. \A s \in Seq(Ids) : s # <<>> => Len(Tail(s)) = Len(s) - 1 /\ Len(s) \in Nat
      BY SequenceFacts
    <3>2. p # <<>> /\ Tail(p) = <<>> => Len(p) = 1
      <4> SUFFICES ASSUME p # <<>>, Tail(p) = <<>> PROVE Len(p) = 1
        OBVIOUS
      <4>1. Len(Tail(p)) = 0
        BY EmptyFacts, Zenon
      <4>2. Len(Tail(p)) = Len(p) - 1 /\ Len(p) \in Nat
        BY <2>1, <3>1 DEF p
      <4>3. QED  BY <4>1, <4>2
    <3>3. QED  BY <3>2 DEF p
  <2>3. Len(pending[r]) > 1 => pending[r] # <<>>
    BY EmptyFacts
  <2>4. QED  BY <2>1, <2>2, <2>3
<1>2. mode.lock \in BOOLEAN /\ locked[r] \in BOOLEAN
  BY ModeFacts DEF RunsTyped
<1>3. mode' = mode /\ \A q \in Runners \ {r} : Kept(q)
  BY ModeKept, OthersKept
<1>4. \A q \in Runners \ {r} : PlacedAt(q)'
  BY <1>3 DEF Kept, Places, PlacedAt, ModuleStyle
<1>5. PlacedAt(r)'
  <2> USE <1>0, <1>1, <1>2, <1>3 DEF RunsTyped, PlacedAt, ModuleStyle, Labels, Goto, Finish, Leave
  <2>1. CASE Login(r)
    BY <2>1 DEF Login
  <2>2. CASE Plan(r)
    <3>1. UNCHANGED <<locked, early>> /\ pc[r] = "plan"
      BY <2>2 DEF Plan
    <3>2. CASE UNCHANGED pending /\ (Finish(r, "refused") \/ Finish(r, "dry"))
      BY <3>1, <3>2
    <3>3. ASSUME NEW plan, pending' = [pending EXCEPT ![r] = plan],
                 IF plan = <<>> THEN Finish(r, "ok")
                 ELSE /\ Goto(r, IF mode.lock THEN "lock" ELSE "step")
                      /\ UNCHANGED result
          PROVE  PlacedAt(r)'
      BY <3>1, <3>3
    <3>4. QED  BY <2>2, <3>2, <3>3, PlanFacts
  <2>3. CASE AcquireLock(r)
    <3>1. /\ pc[r] = "lock" /\ UNCHANGED <<pending, early>>
          /\ \/ Finish(r, "refused") /\ UNCHANGED locked
             \/ /\ locked' = [locked EXCEPT ![r] = TRUE]
                /\ Goto(r, "step") /\ UNCHANGED result
      BY <2>3 DEF AcquireLock
    <3>2. QED  BY <3>1
  <2>4. CASE BeginStep(r) \/ CallbackCommits(r)
    BY <2>4 DEF BeginStep, CallbackCommits
  <2>5. CASE RecordStep(r)
    BY <2>5 DEF RecordStep
  <2>6. CASE CommitStep(r)
    BY <2>6 DEF CommitStep
  <2>7. CASE FailStep(r)
    BY <2>7 DEF FailStep
  <2>8. CASE Interrupt(r)
    BY <2>8 DEF Interrupt
  <2>9. CASE ReleaseLock(r)
    BY <2>9 DEF ReleaseLock
  <2>10. CASE ClassStart(r)
    BY <2>10, ModeFacts DEF ClassStart
  <2>11. CASE ClassChange(r)
    <3>1. ToSet(Tail(pending[r])) \subseteq ToSet(mode.own)
      BY <2>11, SequenceFacts DEF ClassChange
    <3>2. QED  BY <2>11, <3>1 DEF ClassChange
  <2>12. CASE ClassRetry(r)
    BY <2>12 DEF ClassRetry
  <2>13. CASE ClassCommit(r)
    BY <2>13 DEF ClassCommit
  <2>14. CASE Crash(r)
    BY <2>14 DEF Crash
  <2>15. QED
    BY <2>1, <2>2, <2>3, <2>4, <2>5, <2>6, <2>7, <2>8, <2>9, <2>10, <2>11, <2>12,
       <2>13, <2>14 DEF Step
<1>6. QED  BY <1>4, <1>5 DEF Places

(* What a transaction has written.                                         *)
LEMMA WritesKept ==
  ASSUME SessionsTyped, RunsTyped, Places, Writes, PlansHold, NEW r \in Runners,
         Step(r) \/ Interrupt(r) \/ Crash(r)
  PROVE  Writes'
<1>1. /\ UNCHANGED stoneVars \/ Refresh(r) \/ Writing(r) \/ Landing(r)
      /\ \A q \in Runners \ {r} : written'[q] = written[q]
  BY SessionMoves, SessionTypes
<1>2. mode' = mode /\ \A q \in Runners \ {r} : Kept(q)
  BY ModeKept, OthersKept
<1>3. \A q \in Runners \ {r} : Wrote(q)'
  BY <1>1, <1>2 DEF Kept, Writes, Wrote, ModuleStyle, Steps, Rest, Up
<1>4. Refresh(r) \/ Landing(r) => written'[r] = {}
  BY DEF Refresh, Landing, Land, SessionsTyped
<1>5. Wrote(r)'
  <2> USE <1>2, <1>4 DEF RunsTyped, Wrote, ModuleStyle, Steps, Goto, Finish, Leave
  <2>0. Wrote(r) /\ PlacedAt(r)
    BY DEF Writes, Places
  <2>1. pending[r] # <<>> => Head(pending[r]) \in ToSet(pending[r])
    BY SequenceFacts
  <2>2. CASE Login(r) \/ Crash(r) \/ ClassStart(r)
    BY <2>0, <2>2 DEF Login, Crash, ClassStart
  <2>3. CASE Plan(r)
    <3>1. UNCHANGED written /\ pc[r] = "plan" /\ pc'[r] \notin {"record", "commit"}
      BY <2>3, PlanFacts DEF Plan, stoneVars
    <3>2. QED  BY <2>0, <2>3, <3>1
  <2>4. CASE AcquireLock(r)
    <3>1. pc[r] = "lock" /\ pc'[r] \in {"step", "done"}
      BY <2>4 DEF AcquireLock
    <3>2. written'[r] = {}
      BY <1>1, <2>0, <3>1 DEF stoneVars, Writing
    <3>3. QED  BY <3>1, <3>2
  <2>5. CASE BeginStep(r)
    <3>1. /\ pc[r] = "step" /\ pc'[r] = "record" /\ UNCHANGED <<pending, early>>
          /\ written'[r] = written[r] \cup {Head(pending[r])}
      BY <2>5 DEF BeginStep, SessionsTyped
    <3>2. ModuleStyle(r)
      BY <2>0, <3>1 DEF PlacedAt
    <3>3. Head(pending[r]) \in Steps
      BY <2>0, <3>1, PlanHead DEF PlansHold, Planned, Steps, PlacedAt
    <3>4. ~early[r]
      BY <2>0, <3>1 DEF PlacedAt
    <3>5. QED  BY <2>0, <3>1, <3>2, <3>3, <3>4
  <2>5a. CASE CallbackCommits(r)
    <3>1. /\ pc[r] = "record" /\ pc'[r] = "record" /\ early'[r] = TRUE
          /\ Land(r, view[r], written[r])
      BY <2>5a DEF CallbackCommits
    <3>2. written'[r] = {}
      BY <3>1 DEF Land, SessionsTyped
    <3>3. QED  BY <3>1, <3>2
  <2>6. CASE RecordStep(r)
    <3>1. /\ pc[r] = "record" /\ pc'[r] = "commit" /\ UNCHANGED <<pending, early>>
          /\ written'[r] = written[r] \cup {Table}
                             \cup (IF Rest(r) = 0 THEN {} ELSE {Head(pending[r])})
      BY <2>6 DEF RecordStep, SessionsTyped
    <3>2. ModuleStyle(r) /\ pending[r] # <<>>
      BY <2>0, <3>1 DEF PlacedAt
    <3>3. Head(pending[r]) \in Steps
      BY <2>0, <3>1, <3>2, PlanHead DEF PlansHold, Planned, Steps
    <3>4. Rest(r)' = Rest(r)
      BY DEF Rest, Up
    <3>5. QED  BY <2>0, <3>1, <3>2, <3>3, <3>4
  <2>7. CASE CommitStep(r)
    <3>1. pc[r] = "commit" /\ pc'[r] \in {"step", "release", "done"}
      BY <2>7 DEF CommitStep
    <3>2. written'[r] = {}
      BY <2>7 DEF CommitStep, Land, SessionsTyped
    <3>3. QED  BY <3>1, <3>2
  <2>8. CASE FailStep(r) \/ Interrupt(r) \/ ReleaseLock(r)
    <3>1. pc'[r] \in {"release", "done"}
      BY <2>8 DEF FailStep, Interrupt, ReleaseLock
    <3>2. written'[r] = {} \/ written'[r] = written[r]
      <4>1. ASSUME NEW v, NEW W, Land(r, v, W)
            PROVE  written'[r] = {}
        BY <4>1 DEF Land, SessionsTyped
      <4>2. ASSUME NEW v, NEW W, FailedCommit(r, v, W)
            PROVE  written'[r] = {}
        BY <4>1, <4>2, FailedCommitFacts
      <4>3. CASE FailStep(r)
        BY <4>1, <4>3, <1>4 DEF FailStep, stoneVars
      <4>4. CASE Interrupt(r) \/ ReleaseLock(r)
        BY <4>1, <4>2, <4>4 DEF Interrupt, ReleaseLock, stoneVars
      <4>5. QED  BY <2>8, <4>3, <4>4
    <3>3. QED  BY <2>0, <3>1, <3>2
  <2>9. CASE ClassChange(r)
    <3>1. /\ pc[r] = "change" /\ pc'[r] \in {"change", "retry"}
          /\ written'[r] = written[r] \cup {Head(pending[r])}
      BY <2>9 DEF ClassChange, SessionsTyped
    <3>2. Head(pending[r]) \in ToSet(mode.own)
      BY <2>0, <2>1, <3>1 DEF PlacedAt
    <3>3. ~ModuleStyle(r)
      BY <2>0, <3>1 DEF PlacedAt
    <3>4. QED  BY <2>0, <3>1, <3>2, <3>3
  <2>10. CASE ClassRetry(r) \/ ClassCommit(r)
    <3>1. pc[r] = "retry" /\ pc'[r] \in {"retry", "change", "done"}
      BY <2>10 DEF ClassRetry, ClassCommit
    <3>2. written'[r] = {} \/ written'[r] = written[r]
      BY <1>1, <3>1 DEF stoneVars, Writing
    <3>3. QED  BY <2>0, <3>1, <3>2
  <2>11. QED
    BY <2>2, <2>3, <2>4, <2>5, <2>5a, <2>6, <2>7, <2>8, <2>9, <2>10 DEF Step
<1>6. QED  BY <1>3, <1>5 DEF Writes

-----------------------------------------------------------------------------
(* The views.                                                              *)
LEMMA ViewsKept ==
  ASSUME SessionsTyped, ViewsAgree, NEW r \in Runners,
         UNCHANGED stoneVars \/ Refresh(r) \/ Writing(r) \/ Landing(r)
  PROVE  ViewsAgree'
<1>1. SUFFICES ASSUME NEW q \in Runners PROVE Agrees(q)'
  BY DEF ViewsAgree
<1>2. Agrees(q)
  BY DEF ViewsAgree
<1>3. CASE UNCHANGED stoneVars
  BY <1>2, <1>3 DEF stoneVars, Agrees
<1>4. CASE Refresh(r)
  BY <1>2, <1>4, RefreshFacts DEF Agrees
<1>5. CASE Writing(r)
  <2>1. PICK v \in Stones, W \in SUBSET (Slots \ {Lock}) :
          /\ view' = [view EXCEPT ![r] = v]
          /\ written' = [written EXCEPT ![r] = @ \cup W]
          /\ UNCHANGED <<stone, stale>>
          /\ v.lock = view[r].lock
          /\ Table \notin W => v.table = view[r].table
          /\ \A x \in Ids \ W : v.data[x] = view[r].data[x]
    BY <1>5 DEF Writing
  <2>2. CASE q = r
    <3>1. /\ view'[q] = v /\ written'[q] = written[q] \cup W
          /\ stone' = stone /\ stale' = stale
      BY <2>1, <2>2 DEF SessionsTyped
    <3>2. QED  BY <1>2, <2>1, <2>2, <3>1 DEF Agrees
  <2>3. CASE q # r
    BY <1>2, <2>1, <2>3 DEF Agrees, SessionsTyped
  <2>4. QED  BY <2>2, <2>3
<1>6. CASE Landing(r)
  <2>1. written[r] \cup {Lock} \subseteq Slots
    BY DEF SessionsTyped, Slots
  <2>2. PICK v \in Stones, W \in SUBSET Slots : Land(r, v, W)
    BY <1>6, <2>1 DEF Landing
  <2>3. CASE q = r
    BY <2>2, <2>3, LandFacts DEF Agrees
  <2>4. CASE q # r
    <3>1. /\ view'[q] = view[q] /\ written'[q] = written[q]
          /\ stale'[q] = stale[q] \cup W
          /\ Table \notin W => stone'.table = stone.table
          /\ Lock \notin W => stone'.lock = stone.lock
          /\ \A x \in Ids \ W : stone'.data[x] = stone.data[x]
      BY <2>2, <2>4, LandFacts
    <3>2. QED  BY <1>2, <3>1 DEF Agrees
  <2>5. QED  BY <2>3, <2>4
<1>7. QED  BY <1>3, <1>4, <1>5, <1>6

-----------------------------------------------------------------------------
(* The lock.                                                               *)

(* Who moves the lock.                                                     *)
LockStays(r) ==
  /\ stone'.lock = stone.lock
  /\ \A q \in Runners : Lock \in stale'[q] => Lock \in stale[q]

LockTaken(r) ==
  /\ pc[r] = "lock" /\ Lock \notin stale[r] /\ stone'.lock = r
  /\ MayTake(r)
  /\ Seizes(r) => "seized" \in history'
  /\ stale'[r] = {}
  /\ locked'[r] \/ pc'[r] = "done"
  /\ result'[r] # "ok"

LockLeft(r) ==
  /\ pc[r] = "release" /\ Lock \notin stale[r] /\ stone'.lock = Nobody
  /\ pc'[r] = "done"
  /\ view[r].lock # r => mode.takeover = "force"

(* A step leaves the lock alone, takes it or gives it up.                  *)
LEMMA LockMoves ==
  ASSUME SessionsTyped, RunsTyped, Places, Writes, NEW r \in Runners,
         Step(r) \/ Interrupt(r) \/ Crash(r)
  PROVE  LockStays(r) \/ LockTaken(r) \/ LockLeft(r)
<1>1. UNCHANGED stoneVars => LockStays(r)
  BY DEF stoneVars, LockStays
<1>2. Refresh(r) => LockStays(r)
  BY DEF Refresh, LockStays, SessionsTyped
<1>3. CASE AcquireLock(r)
  <2> DEFINE v == [view[r] EXCEPT !.lock = r]
  <2>1. v \in Stones /\ v.lock = r
    BY ClaimFacts
  <2>2. ASSUME Land(r, v, {Lock}) PROVE stone'.lock = r /\ stale'[r] = {}
    <3> HIDE DEF v
    <3>1. PICK W : W = {Lock} /\ W \in SUBSET Slots /\ Lock \in W
      BY DEF Slots
    <3>2. Land(r, v, W)
      BY <2>2, <3>1
    <3>3. QED  BY <2>1, <3>1, <3>2, LandFacts
  <2>3. ~MustConflict(r, {Lock}) => Lock \notin stale[r]
    BY DEF MustConflict
  <2>4. result[r] # "ok"
    BY <1>3 DEF AcquireLock, Places, PlacedAt
  <2>5. \/ UNCHANGED stoneVars
        \/ /\ MayTake(r) /\ ~MustConflict(r, {Lock}) /\ Land(r, v, {Lock})
           /\ Disturb(IF Seizes(r) THEN {"seized"} ELSE {})
           /\ locked' = [locked EXCEPT ![r] = TRUE] /\ UNCHANGED result
        \/ /\ MayTake(r) /\ FailedCommit(r, v, {Lock})
           /\ Disturb(IF Seizes(r) /\ stone'.lock = r THEN {"seized"} ELSE {})
           /\ Finish(r, "refused")
    BY <1>3 DEF AcquireLock
  <2>6. FailedCommit(r, v, {Lock})
        => Refresh(r) \/ (~MustConflict(r, {Lock}) /\ Land(r, v, {Lock}))
    BY FailedCommitFacts
  <2>7. pc[r] = "lock"
    BY <1>3 DEF AcquireLock
  <2> HIDE DEF v
  <2>8. QED
    BY <1>1, <1>2, <2>2, <2>3, <2>4, <2>5, <2>6, <2>7
       DEF LockTaken, Disturb, Finish, Goto, RunsTyped
<1>4. CASE ReleaseLock(r)
  <2> DEFINE v == [view[r] EXCEPT !.lock = Nobody]
             W == written[r] \cup {Lock}
  <2>1. v \in Stones /\ v.lock = Nobody /\ W \in SUBSET Slots /\ Lock \in W
    BY ClaimFacts DEF Slots, SessionsTyped
  <2>2. ASSUME Land(r, v, W) PROVE stone'.lock = Nobody
    <3> HIDE DEF v, W
    <3>1. QED  BY <2>1, <2>2, LandFacts
  <2>3. ~MustConflict(r, W) => Lock \notin stale[r]
    BY <2>1 DEF MustConflict
  <2>4. /\ pc[r] = "release" /\ pc'[r] = "done"
        /\ \/ UNCHANGED stoneVars
           \/ /\ ~MustConflict(r, W) /\ Land(r, v, W)
              /\ view[r].lock # r => mode.takeover = "force"
           \/ /\ FailedCommit(r, v, W)
              /\ view[r].lock # r => mode.takeover = "force"
    BY <1>4 DEF ReleaseLock, Finish, Goto, RunsTyped
  <2>5. FailedCommit(r, v, W) => Refresh(r) \/ (~MustConflict(r, W) /\ Land(r, v, W))
    BY FailedCommitFacts
  <2> HIDE DEF v, W
  <2>6. QED
    BY <1>1, <1>2, <2>2, <2>3, <2>4, <2>5 DEF LockLeft
<1>5. CASE Crash(r)
  BY <1>2, <1>5 DEF Crash
<1>6. CASE ~AcquireLock(r) /\ ~ReleaseLock(r) /\ ~Crash(r)
  <2>1. Writing(r) => LockStays(r)
    BY DEF Writing, LockStays
  <2>2. pc[r] \notin {"lock", "release"}
    BY <1>6 DEF Step, Login, Plan, BeginStep, CallbackCommits, RecordStep, CommitStep, FailStep, Interrupt,
                ClassStart, ClassChange, ClassRetry, ClassCommit
  <2>3. ASSUME Landing(r) PROVE LockStays(r)
    <3>1. written[r] \cup {Lock} \subseteq Slots
      BY DEF SessionsTyped, Slots
    <3>2. PICK v \in Stones, W \in SUBSET Slots : Land(r, v, W) /\ Lock \notin W
      BY <2>2, <2>3, <3>1 DEF Landing
    <3>3. QED  BY <3>2, LandFacts DEF LockStays
  <2>4. QED  BY <1>1, <1>2, <2>1, <2>3, SessionMoves
<1>7. QED  BY <1>3, <1>4, <1>5, <1>6

(* What giving the lock back does to it.                                   *)
LEMMA FreedFacts ==
  ASSUME SessionsTyped, NEW r \in Runners, ~MustConflict(r, written[r] \cup {Lock}),
         Land(r, [view[r] EXCEPT !.lock = Nobody], written[r] \cup {Lock})
  PROVE  Lock \notin stale[r] /\ stone'.lock = Nobody
<1> DEFINE v == [view[r] EXCEPT !.lock = Nobody]
           W == written[r] \cup {Lock}
<1>1. v \in Stones /\ v.lock = Nobody /\ W \in SUBSET Slots /\ Lock \in W
  BY ClaimFacts DEF Slots, SessionsTyped
<1>2. Land(r, v, W) /\ ~MustConflict(r, W)
  OBVIOUS
<1> HIDE DEF v, W
<1>3. stone'.lock = Nobody
  BY <1>1, <1>2, LandFacts
<1>4. Lock \notin stale[r]
  BY <1>1, <1>2 DEF MustConflict
<1>5. QED  BY <1>3, <1>4

(* When a run ends well.                                                   *)
LEMMA EndsWell ==
  ASSUME SessionsTyped, RunsTyped, Places, PlansHold, NEW r \in Runners,
         Step(r) \/ Interrupt(r) \/ Crash(r),
         result'[r] = "ok"
  PROVE  \/ pc[r] \in {"plan", "commit", "retry"} /\ ~locked[r]
         \/ /\ pc[r] = "release"
            /\ view[r].lock = Nobody \/ LockLeft(r)
<1> USE DEF RunsTyped, Goto, Finish, Leave
<1>1. PlacedAt(r)
  BY DEF Places
<1>2. CASE Login(r) \/ ClassStart(r) \/ Crash(r)
  BY <1>1, <1>2 DEF Login, ClassStart, Crash, PlacedAt
<1>3. CASE Plan(r)
  BY <1>1, <1>3 DEF Plan, PlacedAt
<1>4. CASE AcquireLock(r)
  BY <1>1, <1>4 DEF AcquireLock, PlacedAt
<1>5. CASE BeginStep(r) \/ CallbackCommits(r) \/ RecordStep(r) \/ ClassChange(r)
  BY <1>1, <1>5 DEF BeginStep, CallbackCommits, RecordStep, ClassChange, PlacedAt
<1>6. CASE CommitStep(r)
  BY <1>1, <1>6 DEF CommitStep, PlacedAt
<1>7. CASE FailStep(r) \/ Interrupt(r)
  <2>1. result'[r] \in {result[r], "failed"} /\ pc[r] \in {"step", "record", "commit"}
    BY <1>7 DEF FailStep, Interrupt
  <2>2. QED  BY <1>1, <2>1 DEF PlacedAt
<1>8. CASE ReleaseLock(r)
  <2>1. /\ pc[r] = "release" /\ pc'[r] = "done"
        /\ \/ view[r].lock = Nobody
           \/ /\ view[r].lock # r => mode.takeover = "force"
              /\ ~MustConflict(r, written[r] \cup {Lock})
              /\ Land(r, [view[r] EXCEPT !.lock = Nobody], written[r] \cup {Lock})
    BY <1>8 DEF ReleaseLock
  <2>2. QED  BY <2>1, FreedFacts DEF LockLeft
<1>9. CASE ClassRetry(r) \/ ClassCommit(r)
  BY <1>1, <1>9 DEF ClassRetry, ClassCommit, PlacedAt, ModuleStyle
<1>10. QED
  BY <1>2, <1>3, <1>4, <1>5, <1>6, <1>7, <1>8, <1>9 DEF Step

(* A commit of the lock's record alone makes its writer's record the lock. *)
LEMMA ClaimLands ==
  ASSUME SessionsTyped, NEW r \in Runners, NEW v \in Stones,
         Land(r, v, {Lock})
  PROVE  stone'.lock = v.lock
<1>1. Merge(v, {Lock}).lock = v.lock
  BY DEF Merge
<1>2. QED  BY <1>1 DEF Land

(* What a run knows of its lock, and where it may be with it.              *)
LEMMA CriticalMoves ==
  ASSUME SessionsTyped, RunsTyped, Places, PlansHold, NEW r \in Runners,
         Step(r) \/ Interrupt(r) \/ Crash(r)
  PROVE  /\ locked[r] => locked'[r]
         /\ pc[r] # "done"
         /\ locked'[r] /\ Critical(r)' =>
              (locked[r] /\ Critical(r)) \/ stone'.lock = r
         /\ pc[r] \notin {"lock", "release"} => locked'[r] = locked[r]
         /\ history \subseteq history'
<1> USE DEF RunsTyped, Goto, Finish, Leave, Critical
<1>1. PlacedAt(r)
  BY DEF Places
<1>2. CASE Login(r) \/ ClassStart(r) \/ Crash(r)
  BY <1>1, <1>2 DEF Login, ClassStart, Crash, PlacedAt, Disturb
<1>3. CASE Plan(r)
  BY <1>1, <1>3 DEF Plan, PlacedAt, Disturb
<1>4. CASE AcquireLock(r)
  <2> DEFINE v == [view[r] EXCEPT !.lock = r]
  <2>1. v \in Stones /\ v.lock = r
    BY ClaimFacts
  <2>2. pc'[r] = "done" \/ Land(r, v, {Lock})
    BY <1>4 DEF AcquireLock
  <2> HIDE DEF v
  <2>3. CASE pc'[r] = "done"
    BY <1>1, <1>4, <2>3 DEF AcquireLock, PlacedAt, Disturb
  <2>4. CASE Land(r, v, {Lock})
    <3>1. stone'.lock = r
      BY <2>1, <2>4, ClaimLands
    <3>2. QED  BY <1>1, <1>4, <3>1 DEF AcquireLock, PlacedAt, Disturb
  <2>5. QED  BY <2>2, <2>3, <2>4
<1>5. CASE BeginStep(r) \/ CallbackCommits(r) \/ RecordStep(r) \/ ClassChange(r)
  BY <1>1, <1>5 DEF BeginStep, CallbackCommits, RecordStep, ClassChange, PlacedAt,
                    Disturb
<1>6. CASE CommitStep(r)
  BY <1>1, <1>6 DEF CommitStep, PlacedAt, Disturb
<1>7. CASE FailStep(r) \/ Interrupt(r)
  BY <1>1, <1>7 DEF FailStep, Interrupt, Disturb
<1>8. CASE ReleaseLock(r)
  BY <1>8 DEF ReleaseLock
<1>9. CASE ClassRetry(r) \/ ClassCommit(r)
  BY <1>1, <1>9 DEF ClassRetry, ClassCommit, PlacedAt, ModuleStyle, Disturb
<1>10. QED
  BY <1>2, <1>3, <1>4, <1>5, <1>6, <1>7, <1>8, <1>9 DEF Step

(* The lock names the run that believes to hold it, and after every step   *)
(* it still does.                                                          *)
LEMMA LockKeptBy ==
  ASSUME SessionsTyped, RunsTyped, Places, Writes, ViewsAgree, LockKept, PlansHold,
         NEW r \in Runners, Step(r) \/ Interrupt(r) \/ Crash(r)
  PROVE  LockKept'
<1>1. LockStays(r) \/ LockTaken(r) \/ LockLeft(r)
  BY LockMoves
<1>2. /\ locked[r] => locked'[r]
      /\ pc[r] # "done"
      /\ locked'[r] /\ Critical(r)' =>
           (locked[r] /\ Critical(r)) \/ stone'.lock = r
      /\ pc[r] \notin {"lock", "release"} => locked'[r] = locked[r]
      /\ history \subseteq history'
  BY CriticalMoves
<1>3. \A q \in Runners : Holds(q) /\ Agrees(q) /\ PlacedAt(q)
  BY DEF LockKept, ViewsAgree, Places
<1>4. stone.lock \in Runners \cup {Nobody} /\ Nobody \notin Runners
  BY NamesAssumption DEF SessionsTyped, Stones
<1>5. Holds(r)'
  <2>1. CASE LockStays(r)
    <3>1. stone'.lock = stone.lock /\ (Lock \in stale'[r] => Lock \in stale[r])
      BY <2>1 DEF LockStays
    <3>2. stone'.lock = r => locked[r] /\ result'[r] # "ok"
      BY <1>2, <1>3, <3>1, <1>4, EndsWell DEF Holds, Agrees, LockLeft
    <3>3. "seized" \notin history' /\ locked'[r] /\ Critical(r)' => stone'.lock = r
      BY <1>2, <1>3, <3>1 DEF Holds
    <3>4. QED  BY <1>2, <1>3, <3>1, <3>2, <3>3 DEF Holds
  <2>2. CASE LockTaken(r)
    BY <2>2 DEF LockTaken, Holds
  <2>3. CASE LockLeft(r)
    BY <2>3, <1>4 DEF LockLeft, Holds, Critical
  <2>4. QED  BY <1>1, <2>1, <2>2, <2>3
<1>6. ASSUME NEW q \in Runners \ {r}
      PROVE  Holds(q)'
  <2>1. Kept(q)
    BY OthersKept
  <2>2. Critical(q)' <=> Critical(q)
    BY <2>1 DEF Kept, Critical
  <2>3. CASE LockStays(r)
    BY <1>2, <1>3, <2>1, <2>2, <2>3 DEF Kept, LockStays, Holds
  <2>4. CASE LockTaken(r)
    <3>1. stone'.lock = r /\ stone'.lock # q
      BY <2>4 DEF LockTaken
    <3>2. ASSUME "seized" \notin history', locked[q], Critical(q) PROVE FALSE
      <4>1. stone.lock = q /\ view[r].lock = q
        BY <1>2, <1>3, <2>4, <3>2 DEF Holds, Agrees, LockTaken
      <4>2. mode.takeover # "never" /\ pc[q] \notin {"crashed", "done"}
        BY <1>4, <2>4, <3>2, <4>1 DEF LockTaken, MayTake, Critical
      <4>3. Seizes(r)
        BY <1>4, <4>1, <4>2 DEF Seizes
      <4>4. QED  BY <2>4, <3>2, <4>3 DEF LockTaken
    <3>3. QED  BY <2>1, <2>2, <3>1, <3>2 DEF Holds, Kept
  <2>5. CASE LockLeft(r)
    <3>1. stone'.lock # q
      BY <1>4, <2>5 DEF LockLeft
    <3>2. ASSUME "seized" \notin history', locked[q], Critical(q) PROVE FALSE
      <4>1. locked[r] /\ Critical(r) /\ "seized" \notin history
        BY <1>2, <1>3, <2>5, <3>2 DEF PlacedAt, LockLeft, Critical
      <4>2. QED  BY <1>3, <3>2, <4>1 DEF Holds
    <3>3. QED  BY <2>1, <2>2, <3>1, <3>2 DEF Holds, Kept
  <2>6. QED  BY <1>1, <2>3, <2>4, <2>5
<1>7. QED  BY <1>5, <1>6 DEF LockKept

-----------------------------------------------------------------------------
(* The plans.                                                              *)

(* The table after the step at the head of a plan.                         *)
After(direction, applied, x) ==
  IF direction = "upgrade" THEN applied \cup {x} ELSE applied \ {x}

(* The rest of a plan is a plan for the table its head leaves.             *)
LEMMA PlanGoesOn ==
  ASSUME NEW direction \in {"upgrade", "downgrade"}, NEW steps, NEW applied, NEW plan,
         plan # <<>>, PlanSound(direction, steps, applied, plan)
  PROVE  PlanSound(direction, steps, After(direction, applied, Head(plan)), Tail(plan))
<1> DEFINE S == IdsOf(steps)
           rest == Tail(plan)
           new == After(direction, applied, Head(plan))
           Earlier(i) == {plan[j] : j \in 1..(i - 1)}
           Before2(i) == {rest[j] : j \in 1..(i - 1)}
<1>1. plan \in Seq(S)
  BY DEF PlanSound
<1>2. /\ rest \in Seq(S) /\ Len(plan) \in Nat \ {0} /\ Len(rest) = Len(plan) - 1
      /\ plan[1] = Head(plan)
      /\ \A i \in 1..Len(rest) : rest[i] = plan[i + 1]
  BY <1>1
<1>3. /\ \A i, j \in 1..Len(plan) : plan[i] = plan[j] => i = j
      /\ \A i \in 1..Len(plan) : plan[i] \in applied <=> direction = "downgrade"
      /\ direction = "upgrade" =>
           \A i \in 1..Len(plan) : DepsOf(steps, plan[i]) \subseteq applied \cup Earlier(i)
      /\ direction = "downgrade" =>
           \A i \in 1..Len(plan), y \in applied :
              plan[i] \in DepsOf(steps, y) => y \in Earlier(i)
  BY Zenon DEF PlanSound
<1> HIDE DEF S, rest
<1>4. \A i, j \in 1..Len(rest) : rest[i] = rest[j] => i = j
  <2> TAKE i, j \in 1..Len(rest)
  <2>1. i + 1 \in 1..Len(plan) /\ j + 1 \in 1..Len(plan)
    BY <1>2
  <2>2. QED  BY <1>2, <1>3, <2>1
<1>5. \A i \in 1..Len(rest) : /\ i + 1 \in 1..Len(plan) /\ 1 \in 1..Len(plan)
                              /\ rest[i] = plan[i + 1]
                              /\ rest[i] # Head(plan)
                              /\ i \in Nat \ {0}
  <2> TAKE i \in 1..Len(rest)
  <2>1. /\ i + 1 \in 1..Len(plan) /\ 1 \in 1..Len(plan) /\ i + 1 # 1
        /\ i \in Nat \ {0}
    BY <1>2
  <2>2. QED  BY <1>2, <1>3, <2>1
<1>6. \A i \in 1..Len(rest) : Earlier(i + 1) \subseteq {Head(plan)} \cup Before2(i)
  <2> SUFFICES ASSUME NEW i \in 1..Len(rest), NEW j \in 1..(i + 1 - 1)
               PROVE  plan[j] = Head(plan) \/ plan[j] \in Before2(i)
    OBVIOUS
  <2>1. CASE j = 1
    BY <1>2, <2>1
  <2>2. CASE j # 1
    <3>1. j - 1 \in 1..(i - 1) /\ j - 1 \in 1..Len(rest) /\ (j - 1) + 1 = j
      BY <1>2, <2>2
    <3>2. rest[j - 1] = plan[j]
      BY <1>2, <3>1
    <3>3. QED  BY <3>1, <3>2
  <2>3. QED  BY <2>1, <2>2
<1>7. \A i \in 1..Len(rest) : rest[i] \in new <=> direction = "downgrade"
  BY <1>3, <1>5 DEF After
<1>8. ASSUME direction = "upgrade", NEW i \in 1..Len(rest)
      PROVE  DepsOf(steps, rest[i]) \subseteq new \cup Before2(i)
  <2>1. DepsOf(steps, plan[i + 1]) \subseteq applied \cup Earlier(i + 1)
    BY <1>3, <1>5, <1>8
  <2>2. new = applied \cup {Head(plan)}
    BY <1>8 DEF After
  <2> HIDE DEF Earlier, Before2, new
  <2>3. QED  BY <1>5, <1>6, <2>1, <2>2
<1>9. ASSUME direction = "downgrade", NEW i \in 1..Len(rest), NEW y \in new,
             rest[i] \in DepsOf(steps, y)
      PROVE  y \in Before2(i)
  <2>1. y \in applied /\ y # Head(plan)
    BY <1>9 DEF After
  <2>2. y \in Earlier(i + 1)
    BY <1>3, <1>5, <1>9, <2>1
  <2> HIDE DEF Earlier, Before2, new
  <2>3. QED  BY <1>6, <2>1, <2>2
<1> HIDE DEF new
<1>10. PlanSound(direction, steps, new, rest)
  <2>1. rest \in Seq(IdsOf(steps))
    BY <1>2 DEF S
  <2>2. direction = "upgrade" =>
          \A i \in 1..Len(rest) : DepsOf(steps, rest[i]) \subseteq new \cup Before2(i)
    BY <1>8
  <2>3. direction = "downgrade" =>
          \A i \in 1..Len(rest), y \in new :
            rest[i] \in DepsOf(steps, y) => y \in Before2(i)
    BY <1>9
  <2>4. QED  BY <1>4, <1>7, <2>1, <2>2, <2>3, Zenon DEF PlanSound
<1>11. QED  BY <1>10 DEF new, rest

(* The head of a plan leaves a table that holds the dependencies of what   *)
(* is on it.                                                               *)
LEMMA StepSound ==
  ASSUME NEW direction \in {"upgrade", "downgrade"}, NEW applied, NEW plan,
         Sound(applied), plan # <<>>, PlanSound(direction, mode.manifest, applied, plan)
  PROVE  Sound(After(direction, applied, Head(plan)))
<1>1. /\ plan \in Seq(Steps) /\ Head(plan) \in Steps
  BY PlanHead DEF Steps
<1>2. 1 \in 1..Len(plan) /\ plan[1] = Head(plan) /\ 1..(1 - 1) = {}
  BY <1>1
<1>3. CASE direction = "upgrade"
  <2>1. DepsOf(mode.manifest, Head(plan)) \subseteq applied
    BY <1>2, <1>3 DEF PlanSound
  <2>2. QED  BY <1>1, <1>3, <2>1 DEF Sound, Closed, After
<1>4. CASE direction = "downgrade"
  <2>1. \A y \in applied : Head(plan) \notin DepsOf(mode.manifest, y)
    BY <1>2, <1>4 DEF PlanSound
  <2>2. QED  BY <1>4, <2>1 DEF Sound, Closed, After
<1>5. QED  BY <1>3, <1>4

(* The tables a step leaves in the stone and in the view.                  *)
LEMMA TablesKept ==
  ASSUME SessionsTyped, PlansHold, mode' = mode, NEW r \in Runners,
         UNCHANGED stoneVars \/ Refresh(r) \/ Writing(r) \/ Landing(r)
  PROVE  /\ Sound(stone.table)' /\ (\A t : Sound(t)' <=> Sound(t))
         /\ ~Writing(r) => Sound(view'[r].table)
<1>1. \A t : Sound(t)' <=> Sound(t)
  BY DEF Sound, Closed, Steps
<1>2. Sound(stone.table) /\ Sound(view[r].table)
  BY DEF PlansHold, Planned
<1>3. Sound(stone'.table) /\ (~Writing(r) => Sound(view'[r].table))
  <2>1. CASE UNCHANGED stoneVars
    BY <1>2, <2>1 DEF stoneVars
  <2>2. CASE Refresh(r)
    BY <1>2, <2>2, RefreshFacts
  <2>3. CASE Writing(r)
    BY <1>2, <2>3 DEF Writing
  <2>4. CASE Landing(r)
    <3>1. written[r] \cup {Lock} \subseteq Slots
      BY DEF SessionsTyped, Slots
    <3>2. PICK v \in Stones, W \in SUBSET Slots : Land(r, v, W) /\ v.table = view[r].table
      BY <2>4, <3>1 DEF Landing
    <3>3. stone'.table \in {view[r].table, stone.table} /\ view'[r] = stone'
      BY <3>2, LandFacts
    <3>4. QED  BY <1>2, <3>3
  <2>5. QED  BY <2>1, <2>2, <2>3, <2>4
<1>4. Sound(stone.table)'
  BY <1>3 DEF Sound, Closed, Steps
<1>5. QED  BY <1>1, <1>3, <1>4

(* Every table stays closed under dependencies, and what is left of a plan *)
(* a plan for the run's copy of the table.                                 *)
LEMMA PlansKept ==
  ASSUME SessionsTyped, RunsTyped, Places, Writes, PlansHold,
         NEW r \in Runners, Step(r) \/ Interrupt(r) \/ Crash(r)
  PROVE  PlansHold'
<1>1. UNCHANGED stoneVars \/ Refresh(r) \/ Writing(r) \/ Landing(r)
  BY SessionMoves
<1>2. mode' = mode
  BY ModeKept
<1>3. /\ Sound(stone.table)' /\ (\A t : Sound(t)' <=> Sound(t))
      /\ ~Writing(r) => Sound(view'[r].table)
  BY <1>1, <1>2, TablesKept
<1>4. Planned(r) /\ PlacedAt(r) /\ mode.lock \in BOOLEAN
  BY ModeFacts DEF PlansHold, Places, RunsTyped
<1>5. ASSUME NEW q \in Runners \ {r}
      PROVE  Planned(q)'
  <2>1. Planned(q) /\ Kept(q) /\ view'[q] = view[q]
    BY <1>1, OthersKept, SessionTypes DEF PlansHold
  <2>2. Sound(view[q].table)' /\ Sound(mine[q])'
    BY <1>2, <2>1 DEF Planned, Kept, Sound, Closed, Steps
  <2>3. QED  BY <1>2, <2>1, <2>2 DEF Planned, Kept, Up, Steps
<1>6. Planned(r)'
  <2> SUFFICES /\ Sound(view'[r].table) /\ Sound(mine'[r])
               /\ pc'[r] \in {"lock", "step", "record"} =>
                    PlanSound(mode.does[r], mode.manifest, mine'[r], pending'[r])
               /\ pc'[r] = "commit" =>
                    /\ PlanSound(mode.does[r], mode.manifest, mine'[r], Tail(pending'[r]))
                    /\ view'[r].table = mine'[r]
                    /\ Head(pending'[r]) \in Steps
                    /\ Head(pending'[r]) \in mine'[r] <=> Up(r)
    <3>1. Sound(view[r].table)' /\ Sound(mine[r])'
      BY <1>2 DEF Sound, Closed, Steps
    <3>2. QED  BY <1>2, <3>1 DEF Planned, Up, Steps
  <2> USE DEF Goto, Finish, Leave
  <2>1. CASE BeginStep(r)
    <3>1. Head(pending[r]) \in Ids /\ First(r) \in Int
      BY <1>4, <2>1, SequenceFacts, StepParts DEF BeginStep, RunsTyped, PlacedAt
    <3>2. view'[r].table = view[r].table
      <4>1. [view[r] EXCEPT !.data[Head(pending[r])] = @ + First(r)].table = view[r].table
        BY <3>1, ChangeFacts
      <4>2. QED  BY <2>1, <4>1 DEF BeginStep, SessionsTyped
    <3>3. pc[r] = "step" /\ pc'[r] = "record" /\ UNCHANGED <<pending, mine>>
      BY <2>1 DEF BeginStep, RunsTyped
    <3>4. QED  BY <1>4, <3>2, <3>3 DEF Planned
  <2>2. CASE RecordStep(r)
    <3> DEFINE x == Head(pending[r])
               table == After(mode.does[r], mine[r], x)
    <3>1. /\ pc[r] = "record" /\ pc'[r] = "commit" /\ UNCHANGED pending
      BY <2>2 DEF RecordStep, RunsTyped
    <3>2. mine'[r] = table
      BY <2>2 DEF RecordStep, RunsTyped, After, Up
    <3>3. view'[r].table = table
      <4>1. view[r] \in Stones
        BY DEF SessionsTyped
      <4>2. \A d : [[view[r] EXCEPT !.data = d] EXCEPT !.table = table].table = table
        BY <4>1 DEF Stones
      <4>3. QED  BY <2>2, <4>2 DEF RecordStep, SessionsTyped, After, Up
    <3>4. /\ mode.does[r] \in {"upgrade", "downgrade"} /\ pending[r] # <<>>
          /\ PlanSound(mode.does[r], mode.manifest, mine[r], pending[r])
          /\ Sound(mine[r])
      BY <1>4, <3>1, ModeFacts DEF PlacedAt, Planned, ModuleStyle, Directions, RunsTyped
    <3>5. /\ PlanSound(mode.does[r], mode.manifest, table, Tail(pending[r]))
          /\ Sound(table)
      BY <3>4, PlanGoesOn, StepSound
    <3>6. x \in Steps /\ (x \in table <=> Up(r))
      BY <3>4, PlanHead DEF After, Up, Steps
    <3> HIDE DEF x, table
    <3>7. QED  BY <3>1, <3>2, <3>3, <3>5, <3>6 DEF x
  <2>3. CASE ClassChange(r)
    <3>1. Head(pending[r]) \in Ids
      BY <1>4, <2>3, SequenceFacts DEF ClassChange, RunsTyped, PlacedAt
    <3>2. view'[r].table = view[r].table
      <4>1. [view[r] EXCEPT !.data[Head(pending[r])] = @ + 2].table = view[r].table
        BY <3>1, ChangeFacts
      <4>2. QED  BY <2>3, <4>1 DEF ClassChange, SessionsTyped
    <3>3. pc'[r] \in {"change", "retry"} /\ UNCHANGED mine
      BY <2>3 DEF ClassChange, RunsTyped
    <3>4. QED  BY <1>4, <3>2, <3>3 DEF Planned
  <2>4. CASE Plan(r)
    <3>1. UNCHANGED stoneVars
      BY <2>4 DEF Plan
    <3>2. Sound(view[r].table) /\ view' = view /\ pc[r] = "plan"
      BY <1>4, <2>4, <3>1 DEF Planned, Plan, stoneVars
    <3>3. CASE UNCHANGED mine /\ (Finish(r, "refused") \/ Finish(r, "dry"))
      BY <1>4, <3>2, <3>3 DEF RunsTyped, Planned
    <3>4. ASSUME NEW plan,
                 PlanSound(mode.does[r], mode.manifest, view[r].table, plan),
                 pending' = [pending EXCEPT ![r] = plan],
                 mine' = [mine EXCEPT ![r] = view[r].table],
                 \/ Finish(r, "ok")
                 \/ Goto(r, IF mode.lock THEN "lock" ELSE "step")
          PROVE  /\ Sound(mine'[r])
                 /\ PlanSound(mode.does[r], mode.manifest, mine'[r], pending'[r])
                 /\ pc'[r] \in {"lock", "step", "done"}
      BY <1>4, <3>2, <3>4 DEF RunsTyped, Planned
    <3>5. QED  BY <2>4, <3>2, <3>3, <3>4, PlanFacts
  <2>5. CASE ~BeginStep(r) /\ ~RecordStep(r) /\ ~ClassChange(r) /\ ~Plan(r)
    <3>1. Sound(view'[r].table)
      BY <1>3, <2>5 DEF Writing
    <3>2. /\ mine'[r] = mine[r]
          /\ pc'[r] \notin {"lock", "commit"}
          /\ pc'[r] = "record" => pc[r] = "record" /\ pending'[r] = pending[r]
          /\ pc'[r] = "step" => \/ pc[r] = "lock" /\ pending'[r] = pending[r]
                                \/ pc[r] = "commit" /\ pending'[r] = Tail(pending[r])
      <4> USE DEF RunsTyped
      <4>1. CASE Login(r) \/ ClassStart(r) \/ Crash(r)
        BY <4>1 DEF Login, ClassStart, Crash
      <4>2. CASE AcquireLock(r) \/ CallbackCommits(r)
        BY <4>2 DEF AcquireLock, CallbackCommits
      <4>3. CASE CommitStep(r)
        BY <4>3 DEF CommitStep
      <4>4. CASE FailStep(r) \/ Interrupt(r)
        BY <4>4 DEF FailStep, Interrupt
      <4>5. CASE ReleaseLock(r)
        BY <4>5 DEF ReleaseLock
      <4>6. CASE ClassRetry(r) \/ ClassCommit(r)
        BY <4>6 DEF ClassRetry, ClassCommit
      <4>7. QED  BY <2>5, <4>1, <4>2, <4>3, <4>4, <4>5, <4>6 DEF Step
    <3>3. QED  BY <1>4, <3>1, <3>2 DEF Planned
  <2>6. QED  BY <2>1, <2>2, <2>3, <2>4, <2>5
<1>7. QED  BY <1>3, <1>5, <1>6 DEF PlansHold

-----------------------------------------------------------------------------
(* Copies and effects.                                                     *)

(* What a step of r commits are the entries W of its view.                 *)
Commits(r, W) ==
  /\ W \subseteq written[r] \cup {Lock}
  /\ W \cap stale[r] = {}
  /\ \/ W = {}
     \/ W = {Lock} /\ pc[r] = "lock"
     \/ Lock \in W /\ pc[r] = "release"
     \/ Lock \notin W /\ W = written[r] /\ pc[r] \in {"record", "commit", "retry"}
  /\ stone'.table = IF Table \in W THEN view[r].table ELSE stone.table
  /\ Lock \notin W => stone'.lock = stone.lock
  /\ \A x \in Ids :
       stone'.data[x] = IF x \in W THEN view[r].data[x] ELSE stone.data[x]
  /\ \A q \in Runners \ {r} : stale'[q] = stale[q] \cup W /\ view'[q] = view[q]

(* Every action commits some entries of the view, or none.                 *)
LEMMA CommitFacts ==
  ASSUME SessionsTyped, RunsTyped, Places, Writes,
         NEW r \in Runners, Step(r) \/ Interrupt(r) \/ Crash(r)
  PROVE  \E W \in SUBSET Slots : Commits(r, W)
<1>1. UNCHANGED stoneVars \/ Refresh(r) \/ Writing(r) \/ Landing(r)
  BY SessionMoves
<1>2. \A q \in Runners \ {r} : view'[q] = view[q]
  BY <1>1, SessionTypes
<1>3. CASE UNCHANGED stoneVars \/ Refresh(r) \/ Writing(r)
  <2>1. stone' = stone /\ \A q \in Runners \ {r} : stale'[q] = stale[q]
    <3>1. CASE UNCHANGED stoneVars
      BY <3>1 DEF stoneVars
    <3>2. CASE Refresh(r)
      BY <3>2, RefreshFacts
    <3>3. CASE Writing(r)
      BY <3>3 DEF Writing
    <3>4. QED  BY <1>3, <3>1, <3>2, <3>3
  <2>2. Commits(r, {})
    BY <1>2, <2>1 DEF Commits
  <2>3. QED  BY <2>2
<1>4. CASE Landing(r)
  <2>1. written[r] \cup {Lock} \subseteq Slots
    BY DEF SessionsTyped, Slots
  <2>2. PICK v \in Stones, W \in SUBSET Slots :
          /\ W \subseteq written[r] \cup {Lock}
          /\ ~MustConflict(r, W)
          /\ Land(r, v, W)
          /\ v.table = view[r].table /\ v.data = view[r].data
          /\ Lock \in W => \/ pc[r] = "lock" /\ W = {Lock}
                           \/ pc[r] = "release"
          /\ Lock \notin W => W = written[r] /\ pc[r] \in {"record", "commit", "retry"}
    BY <1>4, <2>1 DEF Landing
  <2>3. Commits(r, W)
    BY <2>2, LandFacts DEF Commits, MustConflict
  <2>4. QED  BY <2>3
<1>5. QED  BY <1>1, <1>3, <1>4

(* The copy of the table a run works with stays fresh.                     *)
LEMMA CopiesKept ==
  ASSUME SessionsTyped, RunsTyped, Places, Writes, ViewsAgree, LockKept, PlansHold,
         CopiesFresh, NEW r \in Runners, Step(r) \/ Interrupt(r) \/ Crash(r)
  PROVE  CopiesFresh'
<1>1. PICK W \in SUBSET Slots : Commits(r, W)
  BY CommitFacts
<1>2. mode' = mode /\ history \subseteq history'
  BY ModeKept, CriticalMoves
<1>3. SUFFICES ASSUME "seized" \notin history', Guarded
               PROVE  \A q \in Runners : Fresh(q)'
  BY <1>2 DEF CopiesFresh, Guarded
<1>4. /\ \A q \in Runners : Fresh(q)
      /\ "seized" \notin history
      /\ PlacedAt(r) /\ Wrote(r) /\ Agrees(r) /\ Holds(r) /\ Planned(r)
      /\ mode.lock \in BOOLEAN
  BY <1>2, <1>3, ModeFacts
     DEF CopiesFresh, Places, Writes, ViewsAgree, LockKept, PlansHold, RunsTyped
<1>5. Table # Lock /\ Nobody \notin Runners
  BY NamesAssumption
<1>5a. Table \in W => pc[r] \in {"commit", "release"} /\ (mode.lock => locked[r])
  <2> SUFFICES ASSUME Table \in W
               PROVE  pc[r] \in {"commit", "release"}
    BY <1>4 DEF PlacedAt
  <2>1. W \subseteq written[r] \cup {Lock} /\ Table \in written[r]
        /\ pc[r] \in {"lock", "release", "record", "commit", "retry"}
    BY <1>1, <1>5 DEF Commits
  <2>2. ModuleStyle(r)
    BY <1>4, <2>1, NamesAssumption, ModeFacts DEF Wrote, RunsTyped
  <2>3. pc[r] \notin {"lock", "retry"}
    BY <1>4, <2>1, <2>2 DEF Wrote, PlacedAt
  <2>4. pc[r] # "record"
    <3> SUFFICES ASSUME pc[r] = "record" PROVE FALSE
      OBVIOUS
    <3>1. pending[r] \in Seq(Ids) /\ pending[r] # <<>>
      BY <1>4 DEF PlacedAt, RunsTyped
    <3>2. Head(pending[r]) # Table
      BY <3>1, SequenceFacts, NamesAssumption
    <3>3. QED  BY <1>4, <2>1, <3>2 DEF Wrote
  <2>5. QED  BY <2>1, <2>3, <2>4
<1>6. ASSUME NEW q \in Runners \ {r}
      PROVE  Fresh(q)'
  <2>1. Kept(q) /\ stale'[q] = stale[q] \cup W
    BY <1>1, OthersKept DEF Commits
  <2>2. ASSUME mode.lock, pc[q] \in {"plan", "lock"}, Table \in stale'[q]
        PROVE  Lock \in stale'[q] \/ stone'.lock # Nobody
    <3>1. CASE Lock \in W
      BY <2>1, <3>1
    <3>2. CASE Lock \notin W /\ Table \in stale[q]
      BY <1>1, <1>4, <2>1, <2>2, <3>2 DEF Fresh, Commits
    <3>3. CASE Lock \notin W /\ Table \in W
      <4>1. stone'.lock = stone.lock
        BY <1>1, <3>3 DEF Commits
      <4>2. locked[r] /\ Critical(r)
        BY <1>5a, <2>2, <3>3 DEF Critical
      <4>3. QED  BY <1>4, <1>5, <4>1, <4>2 DEF Holds
    <3>4. QED  BY <2>1, <2>2, <3>1, <3>2, <3>3
  <2>3. Table \notin stale'[q] => Table \notin stale[q] /\ stone'.table = stone.table
    BY <1>1, <2>1 DEF Commits
  <2>4. Before(q)' = Before(q)
    BY <1>2, <2>1 DEF Before, Kept, Up
  <2>5. ASSUME mode.lock, pc[q] \in {"step", "record", "commit"}
        PROVE  Table \notin stale'[q]
    <3>1. Table \notin stale[q] /\ Holds(q) /\ PlacedAt(q)
      BY <1>4, <2>5 DEF Fresh, LockKept, Places
    <3>2. stone.lock = q
      BY <1>4, <2>5, <3>1 DEF PlacedAt, Holds, Critical
    <3>3. Table \in W => stone.lock = r
      BY <1>4, <1>5a, <2>5 DEF Holds, Critical
    <3>4. QED  BY <2>1, <3>1, <3>2, <3>3
  <2>6. QED  BY <1>2, <1>4, <2>1, <2>2, <2>3, <2>4, <2>5 DEF Fresh, Kept
<1>7. Fresh(r)'
  <2> USE DEF Goto, Finish, Leave
  <2>1. CASE Login(r)
    <3>1. stale'[r] = {} /\ pc'[r] = "plan"
      BY <2>1, RefreshFacts DEF Login, RunsTyped
    <3>2. QED  BY <3>1 DEF Fresh
  <2>2. CASE Plan(r)
    <3>1. UNCHANGED stoneVars /\ pc[r] = "plan"
      BY <2>2 DEF Plan
    <3>2. /\ pc'[r] \in {"lock", "step", "done"}
          /\ pc'[r] # "done" => mine'[r] = view[r].table
          /\ pc'[r] = "step" => ~mode.lock
      <4>1. CASE Finish(r, "refused") \/ Finish(r, "dry")
        BY <4>1 DEF RunsTyped
      <4>2. ASSUME NEW plan,
                   mine' = [mine EXCEPT ![r] = view[r].table],
                   \/ Finish(r, "ok")
                   \/ Goto(r, IF mode.lock THEN "lock" ELSE "step")
            PROVE  /\ pc'[r] \in {"lock", "step", "done"} /\ mine'[r] = view[r].table
                   /\ pc'[r] = "step" => ~mode.lock
        BY <1>4, <4>2 DEF RunsTyped
      <4>3. QED  BY <2>2, <4>1, <4>2, PlanFacts
    <3>3. Table \notin stale[r] => stone.table = view[r].table
      BY <1>4, <3>1 DEF Wrote, Agrees
    <3>4. QED  BY <1>2, <1>4, <3>1, <3>2, <3>3 DEF Fresh, Before, stoneVars
  <2>3. CASE AcquireLock(r)
    <3>1. CASE pc'[r] = "done"
      BY <3>1 DEF Fresh
    <3>2. CASE pc'[r] # "done"
      <4> DEFINE v == [view[r] EXCEPT !.lock = r]
      <4>1. /\ pc[r] = "lock" /\ pc'[r] = "step" /\ mine' = mine
            /\ MayTake(r) /\ ~MustConflict(r, {Lock}) /\ Land(r, v, {Lock})
            /\ history' = history \cup (IF Seizes(r) THEN {"seized"} ELSE {})
        BY <2>3, <3>2 DEF AcquireLock, Disturb, RunsTyped
      <4>2. v \in Stones
        BY ClaimFacts
      <4> HIDE DEF v
      <4>3. PICK L \in SUBSET Slots : L = {Lock} /\ Table \notin L
        <5>1. {Lock} \in SUBSET Slots /\ Table \notin {Lock}
          BY <1>5 DEF Slots
        <5>2. QED  BY <5>1, Zenon
      <4>4. stone'.table = stone.table /\ stale'[r] = {}
        BY <4>1, <4>2, <4>3, LandFacts
      <4>5. Table \notin stale[r]
        <5> SUFFICES ASSUME Table \in stale[r] PROVE FALSE
          OBVIOUS
        <5>1. Lock \notin stale[r] /\ ~Seizes(r)
          BY <1>3, <4>1 DEF MustConflict
        <5>2. stone.lock # Nobody /\ view[r].lock = stone.lock
          BY <1>4, <4>1, <5>1 DEF Fresh, Agrees, PlacedAt
        <5>3. QED  BY <4>1, <5>1, <5>2 DEF MayTake, Seizes
      <4>6. stone.table = mine[r]
        BY <1>4, <4>1, <4>5 DEF Fresh, Before
      <4>7. QED  BY <4>1, <4>4, <4>6 DEF Fresh, Before
    <3>3. QED  BY <3>1, <3>2
  <2>4. CASE BeginStep(r)
    <3>1. /\ pc[r] = "step" /\ pc'[r] = "record"
          /\ UNCHANGED <<stone, stale, mine>>
      BY <2>4 DEF BeginStep, RunsTyped
    <3>2. QED  BY <1>2, <1>4, <3>1 DEF Fresh, Before
  <2>4a. CASE CallbackCommits(r)
    <3>1. /\ pc[r] = "record" /\ pc'[r] = "record" /\ mode.commits
          /\ UNCHANGED mine /\ Land(r, view[r], written[r])
      BY <2>4a DEF CallbackCommits
    <3>2. Table \notin stale[r] /\ stone.table = mine[r]
      BY <1>3, <1>4, <3>1 DEF Fresh, Before, Guarded
    <3>3. Table \notin written[r]
      <4>1. pending[r] \in Seq(Ids) /\ pending[r] # <<>>
        BY <1>4, <3>1 DEF PlacedAt, RunsTyped
      <4>2. Head(pending[r]) # Table
        BY <4>1, SequenceFacts, NamesAssumption
      <4>3. QED  BY <1>4, <3>1, <4>2 DEF Wrote
    <3>4. stone'.table = mine[r] /\ stale'[r] = {}
      <4>1. view[r] \in Stones /\ written[r] \in SUBSET Slots
        BY DEF SessionsTyped
      <4>2. QED  BY <3>1, <3>2, <3>3, <4>1, LandFacts
    <3>5. QED  BY <3>1, <3>4 DEF Fresh, Before
  <2>5. CASE RecordStep(r)
    <3>1. /\ pc[r] = "record" /\ pc'[r] = "commit"
          /\ UNCHANGED <<stone, stale, pending, mode>>
          /\ mine'[r] = IF Up(r) THEN mine[r] \cup {Head(pending[r])}
                        ELSE mine[r] \ {Head(pending[r])}
      BY <2>5 DEF RecordStep, RunsTyped
    <3>2. Head(pending[r]) \in mine[r] <=> ~Up(r)
      <4>1. /\ PlanSound(mode.does[r], mode.manifest, mine[r], pending[r])
            /\ pending[r] # <<>>
            /\ mode.does[r] \in {"upgrade", "downgrade"}
        BY <1>4, <3>1, ModeFacts DEF Planned, PlacedAt, ModuleStyle, Directions, RunsTyped
      <4>2. QED  BY <4>1, PlanHead DEF Up
    <3>3. Table \notin stale[r] => stone.table = mine[r]
      BY <1>4, <3>1 DEF Fresh, Before
    <3>4. Before(r)' = mine[r]
      BY <3>1, <3>2 DEF Before, Up
    <3>5. QED  BY <1>4, <3>1, <3>3, <3>4 DEF Fresh
  <2>6. CASE CommitStep(r)
    <3>1. /\ pc[r] = "commit" /\ pc'[r] \in {"step", "release", "done"}
          /\ mine' = mine /\ Land(r, view[r], written[r])
      BY <2>6 DEF CommitStep, RunsTyped
    <3>2. view[r].table = mine[r] /\ Table \in written[r]
      BY <1>4, <3>1 DEF Planned, Wrote
    <3>3. stone'.table = mine[r] /\ stale'[r] = {}
      <4>1. view[r] \in Stones /\ written[r] \in SUBSET Slots
        BY DEF SessionsTyped
      <4>2. QED  BY <3>1, <3>2, <4>1, LandFacts
    <3>4. QED  BY <3>1, <3>3 DEF Fresh, Before
  <2>7. CASE FailStep(r) \/ Interrupt(r) \/ ReleaseLock(r) \/ Crash(r)
    <3>1. pc'[r] \in {"release", "crashed", "done"}
      BY <2>7 DEF FailStep, Interrupt, ReleaseLock, Crash, RunsTyped
    <3>2. QED  BY <3>1 DEF Fresh
  <2>8. CASE ClassStart(r) \/ ClassChange(r) \/ ClassRetry(r) \/ ClassCommit(r)
    <3>1. pc'[r] \in {"change", "retry", "done"}
      BY <2>8 DEF ClassStart, ClassChange, ClassRetry, ClassCommit, RunsTyped
    <3>2. QED  BY <3>1 DEF Fresh
  <2>9. QED
    BY <2>1, <2>2, <2>3, <2>4, <2>4a, <2>5, <2>6, <2>7, <2>8 DEF Step
<1>8. QED  BY <1>6, <1>7

(* What a callback has committed for itself is recorded, or counted, and   *)
(* a step it is committed in says so.                                      *)
LEMMA CountedSteps ==
  ASSUME SessionsTyped, RunsTyped, Places, NEW r \in Runners,
         Step(r) \/ Interrupt(r) \/ Crash(r), "torn" \notin history'
  PROVE  /\ \/ Unrecorded(r) \subseteq Unrecorded(r)' \cup history'
            \/ /\ pc[r] = "commit" /\ ~MustConflict(r, written[r])
               /\ Land(r, view[r], written[r])
         /\ pc[r] = "record"
            => stone' = stone \/ Head(pending[r]) \in Unrecorded(r)' \cup history'
<1> USE DEF RunsTyped
<1>1. PlacedAt(r)
  BY DEF Places
<1>2. pc[r] \notin {"record", "commit"} => Unrecorded(r) = {}
  BY <1>1 DEF PlacedAt, Unrecorded
<1>3. CASE BeginStep(r)
  BY <1>2, <1>3 DEF BeginStep
<1>4. CASE CallbackCommits(r)
  BY <1>4 DEF CallbackCommits, Unrecorded
<1>5. CASE RecordStep(r)
  BY <1>5 DEF RecordStep, Unrecorded
<1>6. CASE CommitStep(r)
  BY <1>6 DEF CommitStep
<1>7. CASE FailStep(r)
  <2>1. CASE Refresh(r) /\ Disturb(Unrecorded(r))
    BY <2>1 DEF Refresh, Disturb
  <2>2. CASE Disturb({"torn"} \cup Unrecorded(r))
    BY <2>2 DEF Disturb
  <2>3. CASE /\ Committing(r) /\ ~MustConflict(r, written[r])
             /\ Land(r, view[r], written[r])
             /\ Disturb(IF pc[r] = "commit" THEN {} ELSE {Head(pending[r])})
    BY <2>3 DEF Committing, Unrecorded, Disturb
  <2>4. QED  BY <1>7, <2>1, <2>2, <2>3 DEF FailStep
<1>8. CASE Interrupt(r) \/ Crash(r)
  BY <1>8 DEF Interrupt, Crash, Disturb, Refresh
<1>9. CASE pc[r] \notin {"record", "commit"}
  BY <1>2, <1>9
<1>10. pc[r] \in {"record", "commit"} =>
         \/ CallbackCommits(r) \/ RecordStep(r) \/ CommitStep(r) \/ FailStep(r)
         \/ Interrupt(r) \/ Crash(r)
  BY DEF Step, Login, Plan, AcquireLock, BeginStep, ReleaseLock, ClassStart, ClassChange,
         ClassRetry, ClassCommit
<1>11. QED  BY <1>4, <1>5, <1>6, <1>7, <1>8, <1>9, <1>10

(* What is on record has its effect, and a transaction its share of it.    *)
LEMMA EffectsKept ==
  ASSUME SessionsTyped, RunsTyped, Places, Writes, ViewsAgree, LockKept, PlansHold,
         CopiesFresh, Effects, RecordedWithEffect, Places',
         NEW r \in Runners, Step(r) \/ Interrupt(r) \/ Crash(r)
  PROVE  Effects' /\ RecordedWithEffect'
<1> DEFINE Told == history \cup UNION {Unrecorded(q) : q \in Runners}
           Old(q) == IF Up(q) THEN 0 ELSE 2
<1>1. PICK W \in SUBSET Slots : Commits(r, W)
  BY CommitFacts
<1>2. mode' = mode /\ history \subseteq history'
  BY ModeKept, CriticalMoves
<1>3. SUFFICES ASSUME history' \cap {"seized", "torn"} = {}, Guarded
               PROVE  /\ \A q \in Runners : Effect(q)'
                      /\ \A x \in Steps : x \notin Told' =>
                           stone'.data[x] = IF x \in stone'.table THEN 2 ELSE 0
  BY <1>2 DEF Effects, RecordedWithEffect, Steps, Guarded
<1>4. /\ \A q \in Runners : Effect(q) /\ Fresh(q)
      /\ \A x \in Steps : x \notin Told =>
           stone.data[x] = IF x \in stone.table THEN 2 ELSE 0
      /\ PlacedAt(r) /\ Wrote(r) /\ Agrees(r) /\ Planned(r)
  <2>1. history \cap {"seized", "torn"} = {} /\ "seized" \notin history
    BY <1>2, <1>3
  <2>2. QED
    BY <1>3, <2>1 DEF Effects, CopiesFresh, RecordedWithEffect, Steps, Places, Writes,
                      ViewsAgree, PlansHold, Guarded
<1>5. Table # Lock /\ Table \notin Ids /\ Lock \notin Ids /\ Steps \subseteq Ids
  BY NamesAssumption, ModeFacts DEF RunsTyped
<1>a. ASSUME NEW q \in Runners, pc[q] \in {"step", "record", "commit"}
      PROVE  Head(pending[q]) \in Ids /\ Head(pending[q]) \in Steps
  <2>1. pending[q] \in Seq(Ids) /\ pending[q] # <<>>
    BY <1>a DEF RunsTyped, Places, PlacedAt
  <2>2. Head(pending[q]) \in Steps
    BY <1>a, <2>1, PlanHead DEF PlansHold, Planned, Steps
  <2>3. QED  BY <1>5, <2>2
\* The callback of one run only has committed for itself.
<1>b. ASSUME NEW q \in Runners, early[q],
             NEW p \in Runners \ {q}
      PROVE  ~locked[p] \/ ~Critical(p)
  <2>1. locked[q] /\ Critical(q)
    BY <1>b, <1>3 DEF Places, PlacedAt, Guarded, Critical
  <2>2. "seized" \notin history
    BY <1>2, <1>3
  <2>3. Holds(q) /\ Holds(p)
    BY DEF LockKept
  <2>4. QED  BY <2>1, <2>2, <2>3 DEF Holds
<1>c. \A q \in Runners : First(q)' = First(q) /\ Rest(q)' = Rest(q)
                         /\ First(q) \in Int /\ Rest(q) \in Int
                         /\ First(q) + Rest(q) = IF Up(q) THEN 2 ELSE -2
  BY <1>2, StepParts DEF First, Rest, Up
<1>d. \A q \in Runners \ {r} :
        /\ Kept(q) /\ stale'[q] = stale[q] \cup W /\ view'[q] = view[q]
        /\ written'[q] = written[q] /\ Unrecorded(q)' = Unrecorded(q)
  <2> TAKE q \in Runners \ {r}
  <2>1. /\ Kept(q) /\ stale'[q] = stale[q] \cup W /\ view'[q] = view[q]
        /\ written'[q] = written[q]
    BY <1>1, OthersKept, SessionMoves, SessionTypes DEF Commits
  <2>2. Unrecorded(q)' = Unrecorded(q)
    BY <2>1 DEF Kept, Unrecorded
  <2>3. QED  BY <2>1, <2>2
\* What is committed of the steps is the one at hand.
<1>e. /\ pc[r] \in {"record", "commit"} \/ (Table \notin W /\ W \cap Steps = {})
      /\ pc[r] \in {"record", "commit"} =>
           W = {} \/ (W = written[r] /\ W \subseteq {Head(pending[r]), Table})
      /\ pc[r] = "record" => Table \notin W
  <2>1. W = {} \/ W = {Lock} => Table \notin W /\ W \cap Steps = {}
    BY <1>5
  <2>2. CASE Lock \in W /\ pc[r] = "release"
    <3>1. written[r] = {}
      BY <1>4, <2>2 DEF Effect, PlacedAt
    <3>2. QED  BY <1>1, <2>1, <2>2, <3>1 DEF Commits
  <2>3. CASE W = written[r] /\ pc[r] = "retry"
    <3>1. written[r] \subseteq ToSet(mode.own)
      BY <1>4, <2>3 DEF PlacedAt, Wrote
    <3>2. Table \notin W /\ W \cap Steps = {}
      BY <1>5, <2>3, <3>1, ModeFacts DEF RunsTyped
    <3>3. QED  BY <2>3, <3>2
  <2>4. CASE W = written[r] /\ pc[r] \in {"record", "commit"}
    <3>1. W \subseteq {Head(pending[r]), Table} /\ (pc[r] = "record" => W \subseteq {Head(pending[r])})
      BY <1>4, <2>4 DEF Wrote
    <3>2. Head(pending[r]) # Table
      BY <1>5, <1>a, <2>4
    <3>3. QED  BY <2>4, <3>1, <3>2
  <2>5. CASE W = {} \/ (W = {Lock} /\ pc[r] = "lock")
    BY <2>1, <2>5
  <2>6. QED  BY <1>1, <2>2, <2>3, <2>4, <2>5 DEF Commits
<1>6. ASSUME NEW q \in Runners \ {r}
      PROVE  Effect(q)'
  <2>1. \A x \in Ids : x \notin stale'[q] => x \notin stale[q] /\ stone'.data[x] = stone.data[x]
    BY <1>1, <1>d DEF Commits
  <2>2. early[q] => stone'.data[Head(pending[q])] = stone.data[Head(pending[q])]
    <3> SUFFICES ASSUME early[q]
                 PROVE  stone'.data[Head(pending[q])] = stone.data[Head(pending[q])]
      OBVIOUS
    <3>1. mode.lock /\ pc[q] \in {"record", "commit"}
      BY <1>3 DEF Places, PlacedAt, Guarded
    <3>2. pc[r] \notin {"record", "commit"}
      BY <1>4, <1>b, <3>1 DEF PlacedAt, Critical
    <3>3. Head(pending[q]) \in Ids \ W
      BY <1>a, <1>e, <3>1, <3>2
    <3>4. QED  BY <1>1, <3>3 DEF Commits
  <2>3. Effect(q) /\ (pc[q] \in {"record", "commit"} => Head(pending[q]) \in Ids)
    BY <1>4, <1>a
  <2>4. QED
    BY <1>2, <1>c, <1>d, <2>1, <2>2, <2>3 DEF Effect, Kept, ModuleStyle, Up
\* What the table and the data were before the step at hand.
<1>f. ASSUME pc[r] \in {"record", "commit"}, Table \notin stale[r],
             Head(pending[r]) \notin history,
             \A q \in Runners \ {r} : Head(pending[r]) \notin Unrecorded(q)
      PROVE  /\ stone.table = Before(r)
             /\ stone.data[Head(pending[r])] =
                  IF early[r] THEN Old(r) + First(r) ELSE Old(r)
  <2>1. stone.table = Before(r)
    BY <1>4, <1>f DEF Fresh
  <2>2. Head(pending[r]) \in Before(r) <=> ~Up(r)
    <3>1. CASE pc[r] = "commit"
      BY <1>4, <3>1 DEF Before, Planned
    <3>2. CASE pc[r] = "record"
      <4>1. /\ PlanSound(mode.does[r], mode.manifest, mine[r], pending[r])
            /\ pending[r] # <<>>
            /\ mode.does[r] \in {"upgrade", "downgrade"}
        BY <1>4, <3>2, ModeFacts DEF Planned, PlacedAt, ModuleStyle, Directions, RunsTyped
      <4>2. QED  BY <3>2, <4>1, PlanHead DEF Up, Before
    <3>3. QED  BY <1>f, <3>1, <3>2
  <2>3. CASE early[r]
    BY <1>4, <1>f, <2>1, <2>3 DEF Effect
  <2>4. CASE ~early[r]
    <3>1. Head(pending[r]) \notin Told
      BY <1>f, <2>4 DEF Unrecorded
    <3>2. QED  BY <1>4, <1>a, <1>f, <2>1, <2>2, <2>4, <3>1
  <2>5. QED  BY <2>3, <2>4
<1>7. ASSUME NEW x \in Steps, x \notin Told'
      PROVE  stone'.data[x] = IF x \in stone'.table THEN 2 ELSE 0
  <2>0. x \notin history /\ \A q \in Runners \ {r} : x \notin Unrecorded(q)
    BY <1>2, <1>7, <1>d
  <2>1. CASE pc[r] = "commit" /\ Commits(r, written[r])
    <3> DEFINE h == Head(pending[r])
    <3>1. /\ Table \in written[r] /\ written[r] \subseteq {h, Table} /\ h \in Steps /\ h \in Ids
          /\ h \notin written[r] => early[r] /\ Rest(r) = 0
          /\ view[r].table = mine[r]
          /\ h \in mine[r] <=> Up(r)
      BY <1>4, <1>a, <2>1 DEF Wrote, Planned
    <3>2. /\ Table \notin stale[r] /\ stone'.table = mine[r]
          /\ \A y \in Ids \ written[r] : stone'.data[y] = stone.data[y]
          /\ h \in written[r] => h \notin stale[r] /\ stone'.data[h] = view[r].data[h]
      BY <2>1, <3>1 DEF Commits
    <3>3. stone.table = IF Up(r) THEN mine[r] \ {h} ELSE mine[r] \cup {h}
      BY <1>4, <2>1, <3>2 DEF Fresh, Before
    <3>4. CASE x = h
      <4>1. stone.data[h] = IF early[r] THEN Old(r) + First(r) ELSE Old(r)
        BY <1>f, <2>0, <2>1, <3>2, <3>4
      <4>2. h \in written[r] =>
              stone'.data[h] = stone.data[h] + (IF early[r] THEN 0 ELSE First(r)) + Rest(r)
        BY <1>4, <2>1, <3>2 DEF Effect
      <4>3. h \notin written[r] =>
              stone'.data[h] = stone.data[h] /\ early[r] /\ Rest(r) = 0
        BY <3>1, <3>2
      <4>4. stone'.data[h] = IF Up(r) THEN 2 ELSE 0
        <5> DEFINE d == stone.data[h]
                   e == stone'.data[h]
        <5> HIDE DEF h, d, e
        <5>1. CASE Up(r)
          BY <1>c, <4>1, <4>2, <4>3, <5>1 DEF d, e
        <5>2. CASE ~Up(r)
          BY <1>c, <4>1, <4>2, <4>3, <5>2 DEF d, e
        <5>3. QED  BY <5>1, <5>2 DEF e
      <4> HIDE DEF h
      <4>5. QED  BY <3>1, <3>2, <3>4, <4>4
    <3>5. CASE x # h
      <4>1. x \notin Told
        BY <2>0, <3>5 DEF Unrecorded
      <4>2. x \notin written[r] /\ x \in Ids
        BY <1>5, <3>1, <3>5
      <4> HIDE DEF h
      <4>3. x \in stone'.table <=> x \in stone.table
        BY <3>2, <3>3, <3>5
      <4>4. QED  BY <1>4, <3>2, <4>1, <4>2, <4>3
    <3>6. QED  BY <3>4, <3>5
  <2>2. CASE ~(pc[r] = "commit" /\ Commits(r, written[r]))
    <3>1. /\ Unrecorded(r) \subseteq Unrecorded(r)' \cup history'
          /\ pc[r] = "record" =>
               stone' = stone \/ Head(pending[r]) \in Unrecorded(r)' \cup history'
      <4>1. ASSUME pc[r] = "commit", ~MustConflict(r, written[r]),
                   Land(r, view[r], written[r])
            PROVE  Commits(r, written[r])
        <5>1. view[r] \in Stones /\ written[r] \in SUBSET Slots /\ Lock \notin written[r]
          BY <1>4, <1>5, <1>a, <4>1 DEF SessionsTyped, Wrote
        <5>2. QED  BY <4>1, <5>1, LandFacts DEF Commits, MustConflict
      <4>2. "torn" \notin history'
        BY <1>3
      <4>3. QED  BY <2>2, <4>1, <4>2, CountedSteps
    <3>2. x \notin Told
      BY <1>7, <2>0, <3>1
    <3>3. stone.data[x] = IF x \in stone.table THEN 2 ELSE 0
      BY <1>4, <3>2
    <3>4. CASE Table \notin W /\ x \notin W
      BY <1>1, <1>5, <3>3, <3>4 DEF Commits
    <3>5. CASE pc[r] = "record"
      <4>1. stone' = stone \/ x # Head(pending[r])
        <5>1. Unrecorded(r)' \cup history' \subseteq Told'
          OBVIOUS
        <5> HIDE DEF Told
        <5>2. QED  BY <1>7, <3>1, <3>5, <5>1
      <4>2. x # Head(pending[r]) => x \notin W
        BY <1>5, <1>e, <3>5
      <4>3. QED  BY <1>e, <3>3, <3>4, <3>5, <4>1, <4>2
    <3>6. CASE pc[r] = "commit"
      BY <1>1, <1>e, <2>2, <3>4, <3>6
    <3>7. CASE pc[r] \notin {"record", "commit"}
      BY <1>e, <3>4, <3>7
    <3>8. QED  BY <3>5, <3>6, <3>7
  <2>3. QED  BY <2>1, <2>2
<1>8. Effect(r)'
  <2> USE DEF Goto, Finish, Leave
  <2>1. CASE BeginStep(r)
    <3> DEFINE x == Head(pending[r])
    <3>1. /\ pc[r] = "step" /\ pc'[r] = "record"
          /\ UNCHANGED <<stone, stale, pending, early>>
          /\ view' = [view EXCEPT ![r].data[x] = @ + First(r)]
      BY <2>1 DEF BeginStep, RunsTyped
    <3>2. x \in Ids /\ First(r) \in Int /\ ~early[r]
      BY <1>4, <1>a, <1>c, <3>1 DEF PlacedAt
    <3>3. view'[r].data[x] = view[r].data[x] + First(r)
      BY <3>1, <3>2, ChangeFacts DEF SessionsTyped
    <3>4. x \notin stale[r] => view[r].data[x] = stone.data[x]
      BY <1>4, <3>1, <3>2 DEF Agrees, Wrote
    <3>5. QED  BY <1>c, <3>1, <3>2, <3>3, <3>4 DEF Effect
  <2>2. CASE RecordStep(r)
    <3> DEFINE x == Head(pending[r])
    <3>1. /\ pc[r] = "record" /\ pc'[r] = "commit"
          /\ UNCHANGED <<stone, stale, pending, early, history>>
      BY <2>2 DEF RecordStep, RunsTyped
    <3>2. x \in Ids /\ Rest(r) \in Int
      BY <1>a, <1>c, <3>1
    <3>3. view'[r].data[x] = view[r].data[x] + Rest(r)
      <4>1. \A d, t : [[view[r] EXCEPT !.data = d] EXCEPT !.table = t].data = d
        <5>1. view[r] \in Stones
          BY DEF SessionsTyped
        <5>2. QED  BY <5>1 DEF Stones
      <4>2. view[r].data \in [Ids -> Int]
        BY DEF SessionsTyped, Stones
      <4>3. PICK t : view' = [view EXCEPT ![r].data[x] = @ + Rest(r), ![r].table = t]
        BY <2>2 DEF RecordStep
      <4>4. view'[r].data = [view[r].data EXCEPT ![x] = @ + Rest(r)]
        BY <4>1, <4>3 DEF SessionsTyped
      <4>5. QED  BY <3>2, <4>2, <4>4
    <3>4. x \notin stale[r] =>
            view[r].data[x] = stone.data[x] + (IF early[r] THEN 0 ELSE First(r))
      BY <1>4, <3>1 DEF Effect
    <3>5. early[r] /\ x \notin history => stone.data[x] = Old(r) + First(r)
      BY <1>4 DEF Effect
    <3>6. Up(r)' = Up(r)
      BY <1>2 DEF Up
    <3>7. QED  BY <1>c, <3>1, <3>3, <3>4, <3>5, <3>6 DEF Effect
  <2>2a. CASE CallbackCommits(r)
    <3> DEFINE x == Head(pending[r])
    <3>1. /\ pc[r] = "record" /\ pc'[r] = "record" /\ mode.commits /\ ~early[r]
          /\ ~MustConflict(r, written[r]) /\ Land(r, view[r], written[r])
          /\ early'[r] = TRUE /\ UNCHANGED <<pending, history>>
      BY <2>2a DEF CallbackCommits, RunsTyped
    <3>2. x \in Ids /\ written[r] = {x} /\ x \notin stale[r] /\ Table \notin stale[r]
      BY <1>3, <1>4, <1>a, <3>1 DEF Wrote, MustConflict, Fresh, Guarded
    <3>3. stone'.data[x] = view[r].data[x] /\ view'[r] = stone'
      <4>1. view[r] \in Stones /\ written[r] \in SUBSET Slots
        BY DEF SessionsTyped
      <4>2. QED  BY <3>1, <3>2, <4>1, LandFacts
    <3>4. view[r].data[x] = stone.data[x] + First(r)
      BY <1>4, <3>1, <3>2 DEF Effect
    <3>5. x \notin history => stone.data[x] = Old(r)
      <4>1. \A q \in Runners \ {r} : Unrecorded(q) = {}
        <5> TAKE q \in Runners \ {r}
        <5>1. locked[r] /\ Critical(r)
          BY <1>3, <1>4, <3>1 DEF PlacedAt, Critical, Guarded
        <5>2. QED  BY <1>b, <5>1 DEF Unrecorded
      <4>2. QED  BY <1>f, <3>1, <3>2, <4>1
    <3>6. stone'.data[x] \in Int
      <4>1. SessionsTyped'
        BY SessionMoves, SessionTypes
      <4>2. QED  BY <3>2, <4>1 DEF SessionsTyped, Stones
    <3>7. Up(r)' = Up(r)
      BY <1>2 DEF Up
    <3> HIDE DEF x
    <3>8. QED  BY <1>c, <3>1, <3>3, <3>4, <3>5, <3>6, <3>7 DEF Effect, x
  <2>3. ASSUME ModuleStyle(r), pc'[r] \in {"release", "done"}
        PROVE  written'[r] = {}
    <3>1. ASSUME NEW v, NEW L, Land(r, v, L) PROVE written'[r] = {}
      BY <3>1 DEF Land, SessionsTyped
    <3>2. ASSUME NEW v, NEW L, FailedCommit(r, v, L) PROVE written'[r] = {}
      BY <3>1, <3>2, FailedCommitFacts, RefreshFacts
    <3>3. CASE Plan(r)
      BY <1>4, <3>3 DEF Plan, Wrote, stoneVars
    <3>4. CASE AcquireLock(r)
      BY <1>4, <3>1, <3>2, <3>4 DEF AcquireLock, Wrote, stoneVars
    <3>5. CASE CommitStep(r)
      BY <3>1, <3>5 DEF CommitStep
    <3>6. CASE FailStep(r)
      <4>1. Refresh(r) \/ Land(r, view[r], written[r])
        BY <1>3, <3>6 DEF FailStep, Disturb
      <4>2. QED  BY <3>1, <4>1, RefreshFacts
    <3>7. CASE Interrupt(r)
      BY <1>3, <3>7 DEF Interrupt, Disturb
    <3>8. CASE ReleaseLock(r)
      BY <1>4, <2>3, <3>1, <3>2, <3>8 DEF ReleaseLock, Effect, stoneVars
    <3>9. CASE Login(r) \/ BeginStep(r) \/ CallbackCommits(r) \/ RecordStep(r) \/ Crash(r)
      BY <2>3, <3>9 DEF Login, BeginStep, CallbackCommits, RecordStep, Crash, RunsTyped
    <3>10. CASE ClassStart(r) \/ ClassChange(r) \/ ClassRetry(r) \/ ClassCommit(r)
      BY <1>4, <2>3, <3>10 DEF ClassStart, ClassChange, ClassRetry, ClassCommit, PlacedAt
    <3>11. QED
      BY <3>3, <3>4, <3>5, <3>6, <3>7, <3>8, <3>9, <3>10 DEF Step
  <2>4. CASE ~BeginStep(r) /\ ~CallbackCommits(r) /\ ~RecordStep(r)
    <3>1. pc'[r] \notin {"record", "commit"}
      <4> USE DEF RunsTyped
      <4>1. CASE Login(r) \/ ClassStart(r) \/ Crash(r)
        BY <4>1 DEF Login, ClassStart, Crash
      <4>2. CASE Plan(r)
        BY <4>2, PlanFacts DEF Plan
      <4>3. CASE AcquireLock(r) \/ CommitStep(r)
        BY <4>3 DEF AcquireLock, CommitStep
      <4>4. CASE FailStep(r) \/ Interrupt(r) \/ ReleaseLock(r)
        BY <4>4 DEF FailStep, Interrupt, ReleaseLock
      <4>5. CASE ClassChange(r) \/ ClassRetry(r) \/ ClassCommit(r)
        BY <4>5 DEF ClassChange, ClassRetry, ClassCommit
      <4>6. QED  BY <2>4, <4>1, <4>2, <4>3, <4>4, <4>5 DEF Step
    <3>2. early'[r] => pc'[r] \in {"record", "commit"}
      BY DEF Places, PlacedAt
    <3>3. QED  BY <1>2, <2>3, <3>1, <3>2 DEF Effect, ModuleStyle
  <2>5. QED  BY <2>1, <2>2, <2>2a, <2>4
<1>9. QED  BY <1>6, <1>7, <1>8

-----------------------------------------------------------------------------
(* The instances of a class-style migration.                               *)

(* The head of a sequence without duplicates is not in its tail.           *)
LEMMA InjectiveTail ==
  ASSUME NEW S, NEW s \in Seq(S), s # <<>>, Injective(s)
  PROVE  Injective(Tail(s)) /\ Head(s) \notin ToSet(Tail(s))
<1>1. /\ Len(s) \in Nat \ {0} /\ Len(Tail(s)) = Len(s) - 1 /\ s[1] = Head(s)
      /\ \A i \in 1..Len(Tail(s)) : Tail(s)[i] = s[i + 1]
      /\ DOMAIN Tail(s) = 1..Len(Tail(s))
  OBVIOUS
<1>2. \A i \in 1..Len(Tail(s)) : i + 1 \in 1..Len(s) /\ i + 1 # 1 /\ i \in Nat
  BY <1>1
<1>3. Injective(Tail(s))
  <2> SUFFICES ASSUME NEW i \in 1..Len(Tail(s)), NEW j \in 1..Len(Tail(s)),
                      Tail(s)[i] = Tail(s)[j]
               PROVE  i = j
    BY DEF Injective
  <2>1. i + 1 = j + 1
    BY <1>1, <1>2 DEF Injective
  <2>2. QED  BY <1>2, <2>1
<1>4. ASSUME NEW i \in 1..Len(Tail(s)) PROVE Tail(s)[i] # Head(s)
  <2>1. 1 \in 1..Len(s) /\ i + 1 \in 1..Len(s) /\ i + 1 # 1
    BY <1>1, <1>2
  <2>2. QED  BY <1>1, <2>1 DEF Injective
<1>5. ToSet(Tail(s)) = {Tail(s)[i] : i \in 1..Len(Tail(s))}
  BY <1>1, Zenon DEF ToSet
<1>6. QED  BY <1>3, <1>4, <1>5

(* A module-style run leaves the instances alone.                          *)
LEMMA OthersMigrate ==
  ASSUME SessionsTyped, RunsTyped, Places, Writes, PlansHold, Instances,
         NEW r \in Runners, Step(r) \/ Interrupt(r) \/ Crash(r),
         NEW q \in Runners \ {r}
  PROVE  Migrates(q)'
<1>1. PICK W \in SUBSET Slots : Commits(r, W)
  BY CommitFacts
<1>2. mode' = mode /\ history \subseteq history'
  BY ModeKept, CriticalMoves
<1>3. /\ Kept(q) /\ stale'[q] = stale[q] \cup W /\ view'[q] = view[q]
      /\ written'[q] = written[q]
  BY <1>1, OthersKept, SessionMoves, SessionTypes DEF Commits
<1>4. Alone(q)' <=> Alone(q)
  BY <1>2 DEF Alone, ModuleStyle
<1>5. ASSUME Alone(q)
      PROVE  \A x \in ToSet(mode.own) : stone'.data[x] = stone.data[x]
  <2>1. W \subseteq {Table, Lock} \cup Steps
    BY <1>1, <1>5 DEF Alone, Writes, Wrote, Commits
  <2>2. \A x \in ToSet(mode.own) : x \in Ids /\ x \notin W
    BY <2>1, NamesAssumption, ModeFacts DEF RunsTyped
  <2>3. QED  BY <1>1, <2>2 DEF Commits
<1>6. Migrates(q)
  BY DEF Instances
<1>7. Alone(q) /\ Migrating(q) => Migrating(q)'
  BY <1>2, <1>3, <1>5 DEF Migrating, Kept
<1>8. QED  BY <1>2, <1>3, <1>4, <1>5, <1>6, <1>7 DEF Migrates, Kept

(* A class-style run changes them one by one and commits them by chunks.   *)
LEMMA RunMigrates ==
  ASSUME SessionsTyped, RunsTyped, Places, Writes, PlansHold, Instances,
         NEW r \in Runners, Step(r) \/ Interrupt(r) \/ Crash(r)
  PROVE  Migrates(r)'
<1>1. mode' = mode /\ history \subseteq history'
  BY ModeKept, CriticalMoves
<1>2. Migrates(r) /\ PlacedAt(r) /\ Wrote(r)
  BY DEF Instances, Places, Writes
<1>3. SUFFICES ASSUME Alone(r)
               PROVE  /\ pc'[r] # "start"
                      /\ pc'[r] \in {"change", "retry"} \/ result'[r] = "ok" => Migrating(r)'
                      /\ result'[r] = "ok" => pending'[r] = <<>> /\ written'[r] = {}
  BY <1>1 DEF Migrates, Alone, ModuleStyle
<1>4. ~ModuleStyle(r)
  BY <1>3 DEF Alone
<1> DEFINE own == ToSet(mode.own)
<1>5. /\ own \subseteq Ids /\ mode.own \in Seq(Ids) /\ Injective(mode.own)
      /\ pending[r] \in Seq(Ids)
  BY ModeFacts DEF RunsTyped, Injective
<1> USE DEF Goto, Finish
<1>6. CASE ClassStart(r)
  <2>1. /\ pc[r] = "start" /\ pc'[r] \in {"change", "retry"} /\ Refresh(r)
        /\ pending'[r] = mode.own /\ UNCHANGED <<goal, result>>
    BY <1>6 DEF ClassStart, RunsTyped
  <2>2. /\ goal'[r] = {} /\ stone' = stone /\ view'[r] = stone /\ written'[r] = {}
        /\ \A x \in own : stone.data[x] = 0
        /\ result'[r] # "ok"
    BY <1>2, <1>3, <2>1, RefreshFacts DEF Migrates, PlacedAt
  <2>3. Migrating(r)'
    BY <1>1, <1>5, <2>1, <2>2 DEF Migrating
  <2>4. QED  BY <2>1, <2>2, <2>3
<1>7. CASE ClassChange(r)
  <2> DEFINE x == Head(pending[r])
  <2>1. /\ pc[r] = "change" /\ pc'[r] \in {"change", "retry"}
        /\ view' = [view EXCEPT ![r].data[x] = @ + 2]
        /\ written'[r] = written[r] \cup {x}
        /\ pending'[r] = Tail(pending[r])
        /\ goal'[r] = goal[r] \cup {x}
        /\ UNCHANGED <<stone, result, history>>
    BY <1>7 DEF ClassChange, SessionsTyped, RunsTyped
  <2>2. pending[r] # <<>> /\ result[r] # "ok" /\ Migrating(r)
    BY <1>2, <1>3, <2>1 DEF PlacedAt, Migrates
  <2>3. /\ x \in Ids /\ ToSet(pending[r]) = {x} \cup ToSet(Tail(pending[r]))
        /\ Injective(Tail(pending[r])) /\ x \notin ToSet(Tail(pending[r]))
    BY <1>5, <2>2, SequenceFacts, InjectiveTail DEF Migrating
  <2>4. x \in own /\ x \notin goal[r]
    BY <2>2, <2>3 DEF Migrating
  <2>5. view'[r].data[x] = 2 /\ \A y \in own \ {x} : view'[r].data[y] = view[r].data[y]
    <3>1. /\ [view[r] EXCEPT !.data[x] = @ + 2].data[x] = view[r].data[x] + 2
          /\ \A y \in Ids \ {x} :
               [view[r] EXCEPT !.data[x] = @ + 2].data[y] = view[r].data[y]
      <4> HIDE DEF x
      <4>1. 2 \in Int
        OBVIOUS
      <4>2. QED  BY <2>3, <4>1, ChangeFacts
    <3>2. view'[r] = [view[r] EXCEPT !.data[x] = @ + 2]
      BY <2>1 DEF SessionsTyped
    <3>3. view[r].data[x] = 0
      BY <2>2, <2>4 DEF Migrating
    <3>4. QED  BY <1>5, <3>1, <3>2, <3>3
  <2> HIDE DEF x
  <2>6. Migrating(r)'
    BY <1>1, <2>1, <2>2, <2>3, <2>4, <2>5 DEF Migrating
  <2>7. QED  BY <2>1, <2>2, <2>6
<1>8. CASE ClassRetry(r)
  <2>1. CASE attempt[r] < mode.retries /\ UNCHANGED <<pc, result>>
    <3>1. /\ pc[r] = "retry" /\ Refresh(r) /\ pending' = pending
          /\ goal'[r] = goal[r] \ written[r] /\ "dropped" \in history'
      BY <1>8, <2>1 DEF ClassRetry, RunsTyped, Disturb
    <3>2. stone' = stone /\ view'[r] = stone /\ written'[r] = {}
      BY <3>1, RefreshFacts
    <3>3. Migrating(r) /\ result[r] # "ok"
      BY <1>2, <1>3, <3>1 DEF Migrates, PlacedAt
    <3>4. Migrating(r)'
      BY <1>1, <3>1, <3>2, <3>3 DEF Migrating
    <3>5. QED  BY <2>1, <3>1, <3>3, <3>4
  <2>2. CASE Finish(r, "failed")
    BY <2>2 DEF RunsTyped
  <2>3. QED  BY <1>8, <2>1, <2>2 DEF ClassRetry
<1>9. CASE ClassCommit(r)
  <2>1. /\ pc[r] = "retry" /\ Land(r, view[r], written[r])
        /\ UNCHANGED <<pending, goal, history>>
        /\ pc'[r] \in {"change", "done"}
        /\ result'[r] = "ok" => result[r] = "ok" \/ pending[r] = <<>>
    BY <1>9 DEF ClassCommit, RunsTyped
  <2>2. Migrating(r) /\ result[r] # "ok"
    BY <1>2, <1>3, <2>1 DEF Migrates, PlacedAt
  <2>3. /\ view[r] \in Stones /\ written[r] \in SUBSET Slots
    BY DEF SessionsTyped
  <2>4. /\ written'[r] = {} /\ view'[r] = stone'
        /\ \A x \in own : stone'.data[x] = IF x \in written[r] THEN view[r].data[x]
                                           ELSE stone.data[x]
    BY <1>5, <2>1, <2>3, LandFacts
  <2>5. Migrating(r)'
    BY <1>1, <2>1, <2>2, <2>4 DEF Migrating
  <2>6. QED  BY <2>1, <2>2, <2>4, <2>5
<1>10. CASE Crash(r)
  BY <1>2, <1>10 DEF Crash, RunsTyped, PlacedAt
<1>11. pc[r] \in {"start", "change", "retry", "crashed", "done"}
  BY <1>2, <1>4 DEF PlacedAt
<1>12. ~(Login(r) \/ Plan(r) \/ AcquireLock(r) \/ BeginStep(r) \/ CallbackCommits(r)
         \/ RecordStep(r) \/ CommitStep(r) \/ FailStep(r) \/ ReleaseLock(r) \/ Interrupt(r))
  BY <1>4, <1>11 DEF Login, Plan, AcquireLock, BeginStep, CallbackCommits, RecordStep,
                     CommitStep, FailStep, ReleaseLock, Interrupt
<1>13. QED  BY <1>6, <1>7, <1>8, <1>9, <1>10, <1>12 DEF Step

-----------------------------------------------------------------------------
(* The invariant.                                                          *)

IInv ==
  /\ TypeOK /\ Places /\ Writes
  /\ ViewsAgree /\ LockKept /\ PlansHold
  /\ CopiesFresh /\ Effects /\ RecordedWithEffect
  /\ Instances

(* The invariant holds at first.                                           *)
LEMMA InitInv ==
  ASSUME Init
  PROVE  IInv
<1>1. /\ mode \in Modes /\ history = {}
      /\ stone = [table |-> mode.applied, lock |-> Nobody,
                  data |-> [x \in Ids |-> IF x \in mode.applied THEN 2 ELSE 0]]
      /\ \A r \in Runners :
           /\ view[r] = stone /\ written[r] = {} /\ stale[r] = {}
           /\ pc[r] = "start" /\ pending[r] = <<>> /\ goal[r] = {} /\ mine[r] = {}
           /\ locked[r] = FALSE /\ early[r] = FALSE /\ result[r] = "none"
  BY DEF Init
<1>2. /\ Steps \subseteq Ids /\ Steps \cap ToSet(mode.own) = {}
      /\ ToSet(mode.own) \subseteq Ids /\ mode.applied \subseteq Steps
      /\ Closed(mode.applied) /\ mode.retries \in Nat \ {0}
  BY <1>1, ModeFacts
<1>3. /\ stone.table = mode.applied /\ stone.lock = Nobody
      /\ \A x \in Ids : stone.data[x] = IF x \in mode.applied THEN 2 ELSE 0
  BY <1>1
<1>4. SessionsTyped
  <2>1. stone \in Stones
    BY <1>1, <1>2 DEF Stones
  <2>2. QED  BY <2>1 DEF Init, SessionsTyped
<1>5. RunsTyped
  <2>1. 1 \in 1..mode.retries
    BY <1>2
  <2>2. QED  BY <2>1 DEF Init, RunsTyped, Labels, Results, Disturbances
<1>6. Places
  BY <1>1, EmptyFacts DEF Places, PlacedAt, Labels
<1>7. Writes /\ ViewsAgree
  BY <1>1 DEF Writes, Wrote, ViewsAgree, Agrees
<1>8. LockKept
  BY <1>1, <1>3, NamesAssumption DEF LockKept, Holds
<1>9. PlansHold
  BY <1>1, <1>2, <1>3 DEF PlansHold, Planned, Sound, Closed
<1>10. CopiesFresh /\ Effects
  BY <1>1 DEF CopiesFresh, Fresh, Effects, Effect
<1>11. RecordedWithEffect
  BY <1>2, <1>3 DEF RecordedWithEffect, Steps
<1>12. Instances
  BY <1>1, <1>2, <1>3 DEF Instances, Migrates
<1>13. QED
  BY <1>4, <1>5, <1>6, <1>7, <1>8, <1>9, <1>10, <1>11, <1>12, TypeParts DEF IInv

(* What the application commits makes views stale and nothing else.        *)
LEMMA ApplicationInv ==
  ASSUME IInv, NEW x \in Ids, Application(x)
  PROVE  IInv'
<1>1. /\ UNCHANGED <<stone, view, written, mode, runVars, history>>
      /\ stale' = [r \in Runners |-> stale[r] \cup {x}]
      /\ x \in Slots /\ x # Table /\ x # Lock
  BY NamesAssumption DEF Application, Slots
<1>2. \A r \in Runners : /\ stale'[r] = stale[r] \cup {x}
                         /\ Lock \in stale'[r] <=> Lock \in stale[r]
                         /\ Table \in stale'[r] <=> Table \in stale[r]
  BY <1>1
<1>3. SessionsTyped' /\ RunsTyped'
  BY <1>1, TypeParts DEF IInv, SessionsTyped, RunsTyped, runVars
<1>4. Places' /\ Writes'
  BY <1>1 DEF IInv, Places, PlacedAt, Writes, Wrote, ModuleStyle, Steps, Rest, Up, runVars
<1>5. ViewsAgree'
  BY <1>1, <1>2 DEF IInv, ViewsAgree, Agrees
<1>6. LockKept'
  BY <1>1, <1>2 DEF IInv, LockKept, Holds, Critical, runVars
<1>7. PlansHold'
  BY <1>1 DEF IInv, PlansHold, Planned, Sound, Closed, Steps, Up, runVars
<1>8. CopiesFresh'
  BY <1>1, <1>2 DEF IInv, CopiesFresh, Fresh, Before, Up, Guarded, runVars
<1>9. Effects'
  BY <1>1, <1>2 DEF IInv, Effects, Effect, ModuleStyle, First, Rest, Up, Guarded, runVars
<1>10. RecordedWithEffect'
  BY <1>1 DEF IInv, RecordedWithEffect, Unrecorded, runVars
<1>11. Instances'
  BY <1>1 DEF IInv, Instances, Migrates, Migrating, Alone, ModuleStyle, runVars
<1>12. QED
  BY <1>3, <1>4, <1>5, <1>6, <1>7, <1>8, <1>9, <1>10, <1>11 DEF IInv, TypeOK,
     SessionsTyped, RunsTyped

(* Every step keeps it.                                                    *)
LEMMA StepInv ==
  ASSUME IInv, [Next]_vars
  PROVE  IInv'
<1>1. SessionsTyped /\ RunsTyped
  BY TypeParts DEF IInv
<1>2. ASSUME NEW r \in Runners, Step(r) \/ Interrupt(r) \/ Crash(r)
      PROVE  IInv'
  <2>1. SessionsTyped' /\ RunsTyped'
    BY <1>1, <1>2, SessionMoves, SessionTypes, RunTypes DEF IInv
  <2>2. Places' /\ Writes' /\ PlansHold'
    BY <1>1, <1>2, PlacesKept, WritesKept, PlansKept DEF IInv
  <2>3. ViewsAgree' /\ LockKept'
    BY <1>1, <1>2, SessionMoves, ViewsKept, LockKeptBy DEF IInv
  <2>4. CopiesFresh' /\ Effects' /\ RecordedWithEffect'
    BY <1>1, <1>2, <2>2, CopiesKept, EffectsKept DEF IInv
  <2>5. Instances'
    <3>1. \A q \in Runners \ {r} : Migrates(q)'
      BY <1>1, <1>2, OthersMigrate DEF IInv
    <3>2. Migrates(r)'
      BY <1>1, <1>2, RunMigrates DEF IInv
    <3>3. QED  BY <3>1, <3>2 DEF Instances
  <2>6. TypeOK'
    BY <2>1 DEF TypeOK, SessionsTyped, RunsTyped
  <2>7. QED  BY <2>2, <2>3, <2>4, <2>5, <2>6 DEF IInv
<1>3. CASE UNCHANGED vars
  <2> USE DEF vars, stoneVars, runVars
  <2>1. TypeOK' /\ Places' /\ Writes'
    BY <1>3 DEF IInv, TypeOK, Places, PlacedAt, Writes, Wrote, ModuleStyle, Steps, Rest,
                Up
  <2>2. ViewsAgree' /\ LockKept' /\ PlansHold'
    BY <1>3 DEF IInv, ViewsAgree, Agrees, LockKept, Holds, Critical, PlansHold, Planned,
                Sound, Closed, Steps, Up
  <2>3. CopiesFresh' /\ Effects' /\ RecordedWithEffect'
    <3>1. CopiesFresh'
      BY <1>3 DEF IInv, CopiesFresh, Fresh, Before, Up, Guarded
    <3>2. Effects'
      BY <1>3 DEF IInv, Effects, Effect, ModuleStyle, First, Rest, Up, Guarded
    <3>3. RecordedWithEffect'
      BY <1>3 DEF IInv, RecordedWithEffect, Unrecorded
    <3>4. QED  BY <3>1, <3>2, <3>3
  <2>4. Instances'
    BY <1>3 DEF IInv, Instances, Migrates, Migrating, Alone, ModuleStyle
  <2>5. QED  BY <2>1, <2>2, <2>3, <2>4 DEF IInv
<1>4. QED  BY <1>2, <1>3, ApplicationInv DEF Next

(* The invariant holds in every state, whatever fails and in whatever order *)
(* the runners, the application and their commits meet.                    *)
THEOREM Invariance == Spec => []IInv
BY InitInv, StepInv, PTL DEF Spec

-----------------------------------------------------------------------------
(* What it says of upgrade(), downgrade() and Migration.run().             *)

(* Every variable stays in its type: no attempt beyond max_retries, no     *)
(* step run that the plan does not have.                                   *)
THEOREM TypeCorrect == Spec => []TypeOK
<1>1. IInv => TypeOK
  BY DEF IInv
<1>2. QED  BY <1>1, Invariance, PTL

(* Two runs never believe at once that they hold the advisory lock, unless *)
(* it was taken from a run that is alive.                                  *)
THEOREM OneAtATime == Spec => []OneRunAtATime
<1>1. IInv => OneRunAtATime
  BY DEF IInv, LockKept, Holds, Critical, OneRunAtATime
<1>2. QED  BY <1>1, Invariance, PTL

(* What is on record has had its full effect and nothing else has, through *)
(* failed commits, lost answers, crashes and stale plans, but for the steps *)
(* whose own callback committed and whose record did not follow.           *)
THEOREM RecordsAreTrue == Spec => []RecordedWithEffect
<1>1. IInv => RecordedWithEffect
  BY DEF IInv
<1>2. QED  BY <1>1, Invariance, PTL

(* The table is closed under dependencies, seized locks or not.            *)
THEOREM DependenciesStay == Spec => []DependenciesHeld
<1>1. IInv => DependenciesHeld
  BY DEF IInv, PlansHold, Sound, Closed, DependenciesHeld
<1>2. QED  BY <1>1, Invariance, PTL

(* A class-style migration that ends well has changed the instances of the *)
(* chunks whose first commit went in, once each, and no other; it is all of *)
(* them if no commit was retried.                                          *)
THEOREM InstancesChangeOnce == Spec => []OnlyFirstAttemptsLand
<1>1. ASSUME IInv PROVE OnlyFirstAttemptsLand
  <2> SUFFICES ASSUME NEW r \in Runners, Alone(r), result[r] = "ok"
               PROVE  /\ \A x \in ToSet(mode.own) :
                           stone.data[x] = IF x \in goal[r] THEN 2 ELSE 0
                      /\ "dropped" \notin history => goal[r] = ToSet(mode.own)
    BY DEF OnlyFirstAttemptsLand, Alone
  <2>1. Migrating(r) /\ pending[r] = <<>> /\ written[r] = {}
    BY <1>1 DEF IInv, Instances, Migrates
  <2>2. ToSet(pending[r]) = {}
    BY <2>1, EmptyFacts
  <2>3. QED  BY <2>1, <2>2 DEF Migrating
<1>2. QED  BY <1>1, Invariance, PTL

(* A run that ends well has left no lock, and nobody takes another's lock  *)
(* away but by force.                                                      *)
THEOREM LocksAreFreed == Spec => LockFreed
<1>1. ASSUME IInv, IInv', [Next]_vars, NEW r \in Runners
      PROVE  /\ result'[r] = "ok" => stone'.lock # r
             /\ stone.lock = r /\ stone'.lock = Nobody
                => pc[r] = "release" \/ mode.takeover = "force"
  <2>1. result'[r] = "ok" => stone'.lock # r
    BY <1>1 DEF IInv, LockKept, Holds
  <2>2. ASSUME stone.lock = r, stone'.lock = Nobody
        PROVE  pc[r] = "release" \/ mode.takeover = "force"
    <3>1. stone'.lock # stone.lock
      BY <2>2, NamesAssumption
    <3>2. PICK q \in Runners : Step(q) \/ Interrupt(q) \/ Crash(q)
      BY <1>1, <3>1 DEF Next, Application, vars, stoneVars
    <3>3. LockLeft(q)
      <4>1. LockStays(q) \/ LockTaken(q) \/ LockLeft(q)
        BY <1>1, <3>2, LockMoves, TypeParts DEF IInv
      <4>2. QED  BY <2>2, <3>1, <4>1, NamesAssumption DEF LockStays, LockTaken
    <3>4. Agrees(q)
      BY <1>1 DEF IInv, ViewsAgree
    <3>5. QED  BY <2>2, <3>3, <3>4 DEF LockLeft, Agrees
  <2>3. QED  BY <2>1, <2>2
<1>2. IInv /\ IInv' /\ [Next]_vars =>
        [\A r \in Runners :
           /\ result'[r] = "ok" => stone'.lock # r
           /\ stone.lock = r /\ stone'.lock = Nobody
              => pc[r] = "release" \/ mode.takeover = "force"]_vars
  BY <1>1
<1>3. QED  BY <1>2, Invariance, PTL DEF Spec, LockFreed
=============================================================================
