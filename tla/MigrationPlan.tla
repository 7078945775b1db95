--------------------------- MODULE MigrationPlan ---------------------------
(***************************************************************************)
(* The planning half of gemstone_py/migrations.py: the order of a          *)
(* manifest's steps, and the steps an upgrade or a downgrade has to run.   *)
(*                                                                         *)
(* A manifest is a sequence of steps [id, deps, down, sum]: its id, the    *)
(* ids it depends on, whether it can be rolled back, and the checksum of   *)
(* its file.  What the stone has on record is a function from the applied  *)
(* ids to the checksums stored with them.                                  *)
(***************************************************************************)
EXTENDS Naturals, FiniteSets, Sequences, SequencesExt

CONSTANT
  NoStep,   \* None: no target, no current version
  Base,     \* target="base", for a downgrade of everything
  NoSum     \* a missing checksum

Manifest(steps, Names, Sums) ==
  steps \in Seq([id : Names, deps : Seq(Names), down : BOOLEAN, sum : Sums])

IdsOf(steps) == {steps[i].id : i \in DOMAIN steps}
IdSeq(steps) == [i \in DOMAIN steps |-> steps[i].id]
StepOf(steps, x) == CHOOSE s \in ToSet(steps) : s.id = x
DepsOf(steps, x) == ToSet(StepOf(steps, x).deps)
NamedIn(steps) ==
  IdsOf(steps) \cup UNION {ToSet(steps[i].deps) : i \in DOMAIN steps}

Failure(why) == [error |-> why, plan |-> <<>>]
Success(plan) == [error |-> "none", plan |-> plan]

\* The steps of s visited one after the other, from v on.
Each(visit, s, v) ==
  LET after[i \in 0..Len(s)] == IF i = 0 THEN v ELSE visit[s[i]][after[i - 1]]
  IN after[Len(s)]

\* visit(): a step goes to the end of the plan after its dependencies, and what
\* is met again while it is being visited is a cycle.
Visits(steps) == [plan : Seq(NamedIn(steps)), visiting : SUBSET NamedIn(steps),
                  error : {"none", "unknown", "cycle", "depth"}]
Placed(x, v) ==
  IF v.error # "none" THEN v ELSE [v EXCEPT !.visiting = @ \ {x}, !.plan = Append(@, x)]
\* Mutant: a step is visited once it is met.
MutantVisit(steps, visit) == [x \in NamedIn(steps) |-> [v \in Visits(steps) |->
  IF v.error # "none" \/ x \in ToSet(v.plan) \cup v.visiting THEN v
  ELSE IF x \notin IdsOf(steps) THEN [v EXCEPT !.error = "unknown"]
  ELSE Placed(x, Each(visit, StepOf(steps, x).deps, [v EXCEPT !.visiting = @ \cup {x}]))]]

Visit(steps, visit) == [x \in NamedIn(steps) |-> [v \in Visits(steps) |->
  IF v.error # "none" \/ x \in ToSet(v.plan) THEN v
  ELSE IF x \notin IdsOf(steps) THEN [v EXCEPT !.error = "unknown"]
  ELSE IF x \in v.visiting THEN [v EXCEPT !.error = "cycle"]
  ELSE Placed(x, Each(visit, StepOf(steps, x).deps, [v EXCEPT !.visiting = @ \cup {x}]))]]

\* visit() calls itself, each time with one more step being visited: that ends
\* before the depth is used up.
TooDeep(steps) == [x \in NamedIn(steps) |-> [v \in Visits(steps) |->
  IF v.error # "none" THEN v ELSE [v EXCEPT !.error = "depth"]]]
VisitDown(steps, n) ==
  LET visit[depth \in Nat] ==
        IF depth = 0 THEN TooDeep(steps) ELSE Visit(steps, visit[depth - 1])
  IN visit[n]

\* _ordered_steps: depth first, dependencies before the step, otherwise in the
\* order of the manifest.
Order(steps) ==
  LET visited == Each(VisitDown(steps, Len(steps) + 1), IdSeq(steps),
                      [plan |-> <<>>, visiting |-> {}, error |-> "none"])
  IN IF Cardinality(IdsOf(steps)) # Len(steps) THEN Failure("duplicate")
     ELSE IF visited.error # "none" THEN Failure(visited.error) ELSE Success(visited.plan)

\* _check_applied_against_manifest: nothing is on record that the manifest
\* does not know, and no file has changed since it was applied.
FitsRecord(steps, record) ==
  \A x \in DOMAIN record :
    /\ x \in IdsOf(steps)
    /\ StepOf(steps, x).sum \in {record[x], NoSum} \/ record[x] = NoSum

\* The part of an order up to x, x included, or all of it.
UpTo(order, x) ==
  IF x \in ToSet(order)
  THEN SubSeq(order, 1, CHOOSE i \in DOMAIN order : order[i] = x)
  ELSE order

\* What of an order is in S, in that order.
Within(order, S) ==
  LET kept[i \in 0..Len(order)] ==
        IF i = 0 THEN <<>>
        ELSE IF order[i] \in S THEN Append(kept[i - 1], order[i]) ELSE kept[i - 1]
  IN kept[Len(order)]

\* plan_upgrade: everything not yet applied, up to the target in the order
\* and not only what the target depends on.
PlanUpgrade(order, applied, target) ==
  IF target # NoStep /\ target \notin ToSet(order) THEN Failure("target")
  ELSE Success(Within(UpTo(order, target), ToSet(order) \ applied))

\* plan_downgrade: in reverse order what is applied after the target.
PlanDowngrade(order, applied, target) ==
  IF target \notin {NoStep, Base} \cup (ToSet(order) \cap applied)
  THEN Failure("target")
  ELSE LET kept == IF target \in {NoStep, Base} THEN {} ELSE ToSet(UpTo(order, target))
       IN Success(Within(Reverse(order), applied \ kept))

\* What upgrade() and downgrade() intend to run for a given record, or why
\* they refuse: a bad manifest, a record that does not fit, an unknown target,
\* a step that cannot be rolled back.
Intended(direction, steps, record, target) ==
  LET Reversible(plan) == \A i \in DOMAIN plan.plan : StepOf(steps, plan.plan[i]).down
      Checked(plan) ==
        IF direction = "downgrade" /\ ~Reversible(plan) THEN Failure("irreversible") ELSE plan
      Planned(order) ==
        IF order.error # "none" THEN order
        ELSE IF ~FitsRecord(steps, record) THEN Failure("record")
        ELSE Checked(IF direction = "upgrade"
                     THEN PlanUpgrade(order.plan, DOMAIN record, target)
                     ELSE PlanDowngrade(order.plan, DOMAIN record, target))
  IN Planned(Order(steps))

-----------------------------------------------------------------------------
(* Properties.                                                             *)

\* Steps come once each, and after what they depend on.
InOrder(steps, plan) ==
  /\ plan \in Seq(IdsOf(steps))
  /\ \A i, j \in 1..Len(plan) : plan[i] = plan[j] => i = j
  /\ \A i \in 1..Len(plan) : DepsOf(steps, plan[i]) \subseteq {plan[j] : j \in 1..(i - 1)}

\* y is reached from x: it is in whatever holds the dependencies of x, and with
\* a step its dependencies.
DependsOn(steps, x, y) ==
  \A S \in SUBSET NamedIn(steps) :
    /\ DepsOf(steps, x) \subseteq S
    /\ \A z \in S \cap IdsOf(steps) : DepsOf(steps, z) \subseteq S
    => y \in S

SomeUnknown(steps) == NamedIn(steps) # IdsOf(steps)
SomeCycle(steps) == \E x \in IdsOf(steps) : DependsOn(steps, x, x)

\* The order has every step, each once and after its dependencies, and a manifest
\* that has one is without faults; a manifest is refused only for a fault it has.
OrderIsRight(steps) ==
  LET order == Order(steps) IN
  CASE order.error = "none" ->
         /\ InOrder(steps, order.plan) /\ ToSet(order.plan) = IdsOf(steps)
         /\ ~SomeUnknown(steps) /\ ~SomeCycle(steps)
    [] order.error = "duplicate" -> \E i, j \in DOMAIN steps : i # j /\ steps[i].id = steps[j].id
    [] order.error = "unknown" -> SomeUnknown(steps)
    [] order.error = "cycle" -> SomeCycle(steps)
    [] OTHER -> FALSE

\* What the runner may rely on when it executes a plan made for the applied
\* steps: each step once, only what is not applied (downgrade: applied), every
\* step after its dependencies (downgrade: before them).
PlanSound(direction, steps, applied, plan) ==
  LET Before(i) == {plan[j] : j \in 1..(i - 1)} IN
  /\ plan \in Seq(IdsOf(steps))
  /\ \A i, j \in 1..Len(plan) : plan[i] = plan[j] => i = j
  /\ \A i \in 1..Len(plan) : plan[i] \in applied <=> direction = "downgrade"
  /\ direction = "upgrade" =>
       \A i \in 1..Len(plan) : DepsOf(steps, plan[i]) \subseteq applied \cup Before(i)
  /\ direction = "downgrade" =>
       \A i \in 1..Len(plan), y \in applied :
          plan[i] \in DepsOf(steps, y) => y \in Before(i)

\* Whatever is on record and whichever target is asked for, a plan made for a
\* manifest is one that the runner can rely on.
PlansAreSound(steps) ==
  \A direction \in {"upgrade", "downgrade"}, target \in IdsOf(steps) \cup {NoStep, Base} :
    \A applied \in SUBSET IdsOf(steps) :
      LET intended == Intended(direction, steps, [x \in applied |-> NoSum], target)
      IN intended.error = "none" => PlanSound(direction, steps, applied, intended.plan)
=============================================================================
