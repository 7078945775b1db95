---------------------------- MODULE Computations ----------------------------
(***************************************************************************)
(* The code's pure computations that say the same of every input: the      *)
(* conversions of Values, the planner of MigrationPlan and the mappings,   *)
(* lists and logs of Collections.  A behaviour takes one input.  Which     *)
(* there are is left to what uses this module: a run takes a few inputs,   *)
(* the theorems take all.                                                  *)
(***************************************************************************)
EXTENDS Values, MigrationPlan, Collections

CONSTANTS
  Contents,   \* what a float, a text or a dictionary's key can be
  StepNames,  \* the ids a manifest can name
  Checksums,  \* those its files can have
  Keys,       \* those of a mapping
  Stored      \* what an entry of a mapping, a list or a log can be

ASSUME StoredAssumption == {Absent, Raised, Unstorable} \cap Stored = {}

VARIABLE input     \* [theme, ...]: what the behaviour is about

-----------------------------------------------------------------------------
(* All inputs.                                                             *)

AnyScalar ==
  {<<"none">>} \cup {<<"bool", b>> : b \in BOOLEAN} \cup {<<"int", i>> : i \in Int}
  \cup ({"float", "str"} \X Contents)

\* A proxy does not stand for a Symbol or an Array: those come back as the text
\* and the list they are equal to, and go to the stone as others.
Referred == STRING \ {"Symbol", "Array"}

AnyValue ==
  AnyScalar
  \cup {<<"list", items>> : items \in Seq(AnyScalar)}
  \cup {<<"dict", pairs>> : pairs \in Seq(Contents \X AnyScalar)}
  \cup {<<"proxy", type, Object(class, x)>> : type \in STRING, class \in Referred, x \in Contents}

AnyText == {value \in STRING \X Contents : value[1] # "datetime"}
Datetimes(hours, offsets) ==
  {<<"datetime", hour, zone>> : hour \in hours, zone \in {<<>>} \cup {<<o>> : o \in offsets}}

AnyManifest == Seq([id : StepNames, deps : Seq(StepNames), down : BOOLEAN, sum : Checksums])

\* A program may try to write what cannot be stored.
Written == Stored \cup {Unstorable}
Mappings(keys) == [keys -> Stored \cup {Absent}]
Alterations == {"append", "shift", "nothing"}

-----------------------------------------------------------------------------
(* Behaviours.                                                             *)

ConversionInputs(words, values, converted) ==
  \/ \E i \in words : input' = [theme |-> "word", i |-> i]
  \/ \E value \in values : input' = [theme |-> "value", value |-> value]
  \/ \E value \in converted : input' = [theme |-> "converter", value |-> value]

PlanInputs(manifests) ==
  \E manifest \in manifests : input' = [theme |-> "order", manifest |-> manifest]

MappingInputs(mappings, keys, values, updates) ==
  \E d \in mappings, k \in keys, v \in values, items \in updates :
    input' = [theme |-> "mapping", d |-> d, k |-> k, v |-> v, items |-> items]
ListInputs(lists, values) ==
  \E s \in lists, v \in values : \E altered \in [DOMAIN s -> Alterations] :
    input' = [theme |-> "list", s |-> s, v |-> v, changes |-> altered]
LogInputs(logs, orders, additions) ==
  \E log \in logs, order \in orders, added \in additions :
    /\ ToSet(order) \subseteq DOMAIN log
    /\ input' = [theme |-> "log", log |-> log, order |-> order, added |-> added]

TakesAny ==
  /\ input.theme = "none"
  /\ \/ ConversionInputs(Int, AnyValue, AnyText \cup Datetimes(Int, Int))
     \/ PlanInputs(AnyManifest)
     \/ MappingInputs(Mappings(Keys), Keys, Written, Seq(Keys \X Written))
     \/ ListInputs(Seq(Stored), Stored)
     \/ LogInputs(Seq(Stored), Seq(Nat), Seq(Stored))

Computation == input = [theme |-> "none"] /\ [][TakesAny]_input

-----------------------------------------------------------------------------
(* Properties.                                                             *)

\* Integers, values and what the registry converts come back as they were,
\* whichever interface writes and reads them, and all interfaces, in Python and
\* in Rust, make the same words and objects of them.
ConversionsAgree ==
  /\ input.theme = "word" => WordsAreTrue(input.i)
  /\ input.theme = "value" => ValuesComeBack(input.value)
  /\ input.theme = "converter" => ConvertersAgree(input.value)

\* The steps of a manifest come in an order that respects their dependencies, a
\* manifest is refused only for a fault it has, and a plan runs what it should,
\* each step when it can.
PlansAgree ==
  input.theme = "order" => OrderIsRight(input.manifest) /\ PlansAreSound(input.manifest)

\* The collections of the stone do what those of Python do, failures in the
\* middle and changes during an iteration included; and entries of the log,
\* deleted by the place they had, are the ones that go if the last goes first.
CollectionsAgree ==
  /\ input.theme = "mapping" => MappingsLikeDict(input.d, input.k, input.v, input.items)
  /\ input.theme = "list" => CollectionsLikeList(input.s, input.v, input.changes)
  /\ input.theme = "log" =>
       /\ LogDeletesBackwards(input.log, input.order, input.added)
       /\ LogDeletesForwards(input.log, input.order, input.added)
=============================================================================
