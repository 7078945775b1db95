----------------------------- MODULE Inspection -----------------------------
(***************************************************************************)
(* inspection.py: one object with its instance variables, and a dump of    *)
(* the objects that are reached through them.  Objects refer to each other *)
(* in cycles; the dump goes to a given depth and does not open an object   *)
(* again below itself.                                                     *)
(*                                                                         *)
(* A graph maps each object to the sequence of its slots, [name, value].   *)
(* A dump is the set of its lines: the path of slot names that leads to an *)
(* object, the object, and how it is shown.                                *)
(***************************************************************************)
EXTENDS Naturals, Sequences, FiniteSets, SequencesExt

Line(path, object, shown) == [path |-> path, object |-> object, shown |-> shown]

\* What one may ask for: a depth, names of slots and classes or every one, and
\* a number of slots or any.
All == "all"

\* inspect_oop: the slots that are asked for, the first ones up to the limit.
Wanted(graph, ask, o) ==
  SelectSeq(graph[o], LAMBDA slot : ask.slots = {All} \/ slot.name \in ask.slots)
Slots(graph, ask, o) ==
  LET wanted == Wanted(graph, ask, o)
  IN IF Len(wanted) <= ask.maxSlots THEN wanted ELSE SubSeq(wanted, 1, ask.maxSlots)

Skipped(class, ask, o) == ask.classes # {All} /\ class[o] \notin ask.classes

\* The objects that are not opened again below o.
SeenBelow(seen, o) == seen \cup {o}

RECURSIVE Dump(_, _, _, _, _, _, _)

\* dump_oop, of object o at the end of path, depth levels deep.
Dump(graph, class, ask, o, path, depth, seen) ==
  IF o \in seen THEN {Line(path, o, "cycle")}
  ELSE IF Skipped(class, ask, o) THEN {Line(path, o, "filtered")}
  ELSE IF depth = 0 THEN {Line(path, o, "summary")}
  ELSE
    LET slots == Slots(graph, ask, o) IN
    {Line(path, o, "open")} \cup
    UNION {LET below == Append(path, slots[i].name) IN
           IF depth = 1 THEN {Line(below, slots[i].value, "summary")}
           ELSE Dump(graph, class, ask, slots[i].value, below, depth - 1,
                     SeenBelow(seen, o))
           : i \in DOMAIN slots}

-----------------------------------------------------------------------------
(* The reference: walks through the graph.                                 *)

Names(graph) == UNION {{graph[o][i].name : i \in DOMAIN graph[o]} : o \in DOMAIN graph}

\* The objects along a path of slots from o; an empty sequence if there is no
\* such path.
Along(graph, ask, o, path) ==
  FoldLeft(
    LAMBDA walk, name :
      IF walk = <<>> THEN <<>>
      ELSE LET slots == Slots(graph, ask, Last(walk))
               hits == {i \in DOMAIN slots : slots[i].name = name}
           IN IF hits = {} THEN <<>> ELSE Append(walk, slots[CHOOSE i \in hits : TRUE].value),
    <<o>>, path)

Paths(graph, depth) == UNION {[1..n -> Names(graph)] : n \in 0..depth}

\* A path is shown when the objects before its end are all different and all of
\* the wanted classes, whatever the graph looks like: the dump stops at cycles,
\* shows each object again where another path leads to it, and never goes deeper
\* than asked.  (At its last level, the dump of one slot or more deep does not
\* look whether the object was seen or is filtered.)
DumpShowsPaths(graph, class, ask, o) ==
  LET Inner(walk) == Front(walk)
      Shown(path) ==
        LET walk == Along(graph, ask, o, path) IN
        /\ walk # <<>>
        /\ \A i, j \in DOMAIN Inner(walk) : walk[i] = walk[j] => i = j
        /\ \A i \in DOMAIN Inner(walk) : ~Skipped(class, ask, walk[i])
      lines == Dump(graph, class, ask, o, <<>>, ask.depth, {})
  IN /\ {l.path : l \in lines} = {p \in Paths(graph, ask.depth) : Shown(p)}
     /\ \A l \in lines :
          LET walk == Along(graph, ask, o, l.path) IN
          /\ l.object = Last(walk)
          /\ l.shown = "cycle" => Last(walk) \in {Front(walk)[i] : i \in DOMAIN Front(walk)}
          /\ l.shown = "open" => Len(l.path) < ask.depth
=============================================================================
