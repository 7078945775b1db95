---------------------------- MODULE Collections ----------------------------
(***************************************************************************)
(* The collections on the server under the Python interface that wraps     *)
(* them: GsDict and PersistentRoot (persistent_root.py), RCHash and        *)
(* RCQueue (concurrency.py), OrderedCollection (ordered_collection.py),    *)
(* ObjectLog (objectlog.py), beside what a Python dict or list does.       *)
(*                                                                         *)
(* A mapping is a function to values or Absent; an operation gives the     *)
(* mapping after it and its answer.  "none" is nil here and None there.    *)
(***************************************************************************)
EXTENDS Integers, Sequences, FiniteSets, SequencesExt

Absent == "absent"
Raised == "raised"       \* any exception for the caller
Unstorable == "lambda"   \* a value that has no OOP

Result(c, answer) == [contents |-> c, answer |-> answer]

-----------------------------------------------------------------------------
(* GsDict and PersistentRoot.                                              *)

\* __getitem__: the illegal OOP tells a missing key from nil.
GetItem(d, k) == IF d[k] = Absent THEN Raised ELSE d[k]
Has(d, k) == GetItem(d, k) # Raised
Get(d, k, default) == IF Has(d, k) THEN d[k] ELSE default

SetItem(d, k, v) == IF v = Unstorable THEN Result(d, Raised)
                    ELSE Result([d EXCEPT ![k] = v], "none")
DelItem(d, k) == IF Has(d, k) THEN Result([d EXCEPT ![k] = Absent], "none")
                 ELSE Result(d, Raised)

\* pop(key, default); Absent when there is no default.
Pop(d, k, default) ==
  IF Has(d, k) THEN Result(DelItem(d, k).contents, GetItem(d, k))
  ELSE Result(d, IF default = Absent THEN Raised ELSE default)

SetDefault(d, k, v) ==
  IF Has(d, k) THEN Result(d, GetItem(d, k))
  ELSE Result(SetItem(d, k, v).contents, IF v = Unstorable THEN Raised ELSE v)

\* update: one write after the other; update_many: all values are converted
\* before the first is written.
Update(d, items) ==
  LET after[i \in 0..Len(items)] ==
        IF i = 0 THEN Result(d, "none")
        ELSE IF after[i - 1].answer = Raised THEN after[i - 1]
        ELSE SetItem(after[i - 1].contents, items[i][1], items[i][2])
  IN after[Len(items)]
UpdateMany(d, items) ==
  IF \E i \in DOMAIN items : items[i][2] = Unstorable THEN Result(d, Raised)
  ELSE Update(d, items)

\* get_many: the keys that were asked for, each with its value or the default.
GetMany(d, keys, default) == [k \in ToSet(keys) |-> Get(d, k, default)]

\* RCHash: the server answers nil for a missing key, so that a nil is looked up
\* a second time; get has its default converted and sent along; a missing key is
\* deleted in silence.
HashGetItem(d, k) ==
  LET answer == IF d[k] = Absent THEN "none" ELSE d[k]
  IN IF answer = "none" /\ d[k] = Absent THEN Raised ELSE answer
HashGet(d, k, default) ==
  IF default = Unstorable THEN Raised ELSE IF d[k] = Absent THEN default ELSE d[k]
HashDelItem(d, k) == Result([d EXCEPT ![k] = Absent], "none")

-----------------------------------------------------------------------------
(* OrderedCollection.  Sequences of values.                                *)

Append1(s, v) == Result(Append(s, v), "none")
Extend(s, items) == Result(s \o items, "none")
PopLast(s) == IF s = <<>> THEN Result(s, Raised) ELSE Result(Front(s), Last(s))
Shift(s) == IF s = <<>> THEN Result(s, Raised) ELSE Result(Tail(s), Head(s))

Includes(s, v) == \E i \in DOMAIN s : s[i] = v
First(s, v) == CHOOSE i \in DOMAIN s : s[i] = v /\ \A j \in 1..(i - 1) : s[j] # v

\* remove:ifAbsent: answers what it removed, or nil; when it answers nil, delete
\* looks whether the value is there, which the last nil no longer is.
Discard(s, v) ==
  IF Includes(s, v) THEN Result(RemoveAt(s, First(s, v)), v) ELSE Result(s, "none")
Delete(s, v) ==
  LET removed == Discard(s, v) IN
  IF removed.answer = "none" /\ ~Includes(removed.contents, v)
  THEN Result(removed.contents, Raised) ELSE Result(removed.contents, v)

\* __getitem__, from 0, or from -1 at the end.
Item(s, index) ==
  LET i == IF index < 0 THEN index + Len(s) ELSE index
  IN IF i \in 0..(Len(s) - 1) THEN s[i + 1] ELSE Raised

\* Iteration while the collection changes: the size is read once, each item
\* when its turn comes; changes[i] is made after the item i.  RCQueue does the
\* same.
Changed(s, change) ==
  CASE change = "append" -> Append(s, "new")
    [] change = "shift" /\ s # <<>> -> Tail(s)
    [] OTHER -> s

\* One step: the item i of what is there now, or an exception, the last thing seen.
Advance(st, i, change) ==
  IF Raised \in ToSet(st.seen) THEN st
  ELSE IF i \in DOMAIN st.now
  THEN [now |-> Changed(st.now, change), seen |-> Append(st.seen, st.now[i])]
  ELSE [now |-> st.now, seen |-> Append(st.seen, Raised)]

Iterate(s, changes) ==
  LET after[i \in 0..Len(s)] ==
        IF i = 0 THEN [now |-> s, seen |-> <<>>] ELSE Advance(after[i - 1], i, changes[i])
  IN after[Len(s)].seen

\* reverse_iter walks through an Array made at its start; with the indices.
ReverseIterate(s) == LET array == s IN [i \in DOMAIN array |-> array[Len(array) + 1 - i]]
ReverseWithIndex(s) ==
  LET items == ReverseIterate(s)
  IN [i \in DOMAIN items |-> <<items[i], Len(s) - i>>]

-----------------------------------------------------------------------------
(* ObjectLog: entries are fetched with their place in the log, and deleted *)
(* at that place, each in a session of its own that commits.               *)

Entries(log) == [i \in DOMAIN log |-> [entry |-> log[i], index |-> i - 1]]

\* Mutant: places are counted from 1 on one side.
MutantDeleteEntry(log, e) == IF e.index \in DOMAIN log THEN RemoveAt(log, e.index) ELSE log

DeleteEntry(log, e) == IF e.index + 1 <= Len(log) THEN RemoveAt(log, e.index + 1) ELSE log

\* Entries of one snapshot are deleted one after the other, while others add.
DeleteInTurn(log, order, added) ==
  LET snapshot == Entries(log)
      after[i \in 0..Len(order)] ==
        IF i = 0 THEN log ELSE DeleteEntry(after[i - 1], snapshot[order[i]]) \o added
  IN after[Len(order)]

-----------------------------------------------------------------------------
(* What Python does.                                                       *)

PyHas(d, k) == d[k] # Absent
PyUpdate(d, items) ==
  LET Writes(k) == {i \in DOMAIN items : items[i][1] = k} IN
  [k \in DOMAIN d |-> IF Writes(k) = {} THEN d[k] ELSE items[Max(Writes(k))][2]]

\* The mappings do what a dict does, a key whose value is nil is there like any
\* other, and where a value cannot be stored update_many writes nothing and
\* update what comes before it.  (RCHash deletes what is not there.)
MappingsLikeDict(d, k, v, items) ==
  /\ GetItem(d, k) = (IF PyHas(d, k) THEN d[k] ELSE Raised)
  /\ HashGetItem(d, k) = GetItem(d, k) /\ (v # Unstorable => HashGet(d, k, v) = Get(d, k, v))
  /\ PyHas(d, k) => HashDelItem(d, k) = DelItem(d, k)
  /\ LET gone == [d EXCEPT ![k] = Absent] IN
     /\ Pop(d, k, v) = (IF PyHas(d, k) THEN Result(gone, d[k]) ELSE Result(d, v))
     /\ Pop(d, k, Absent) = (IF PyHas(d, k) THEN Result(gone, d[k]) ELSE Result(d, Raised))
  /\ v # Unstorable =>
       SetDefault(d, k, v) = (IF PyHas(d, k) THEN Result(d, d[k])
                              ELSE Result([d EXCEPT ![k] = v], v))
  /\ GetMany(d, <<k>>, v)[k] = (IF PyHas(d, k) THEN d[k] ELSE v)
  /\ LET bad == {i \in DOMAIN items : items[i][2] = Unstorable} IN
     IF bad = {}
     THEN /\ Update(d, items) = Result(PyUpdate(d, items), "none")
          /\ UpdateMany(d, items) = Update(d, items)
     ELSE LET first == Min(bad) IN
          /\ UpdateMany(d, items) = Result(d, Raised)
          /\ Update(d, items) = Result(PyUpdate(d, SubSeq(items, 1, first - 1)), Raised)

\* The collection does what a list does; but delete of the only nil removes it
\* and raises.  Going through it backwards shows it as it was at the start
\* whatever is changed meanwhile; going forwards does so unless items are taken
\* off, and never shows more than there were.
CollectionsLikeList(s, v, changes) ==
  /\ Delete(s, v).contents = Discard(s, v).contents
  /\ (Delete(s, v).answer = Raised) =
       (~Includes(s, v) \/ (v = "none" /\ Cardinality({i \in DOMAIN s : s[i] = v}) = 1))
  /\ \A i \in DOMAIN s :
       /\ Item(s, i - 1) = s[i] /\ Item(s, i - 1 - Len(s)) = s[i]
       /\ ReverseWithIndex(s)[i] = <<Item(s, -i), Len(s) - i>>
  /\ Item(s, Len(s)) = Raised /\ Item(s, -Len(s) - 1) = Raised
  /\ LET seen == Iterate(s, changes)
     IN /\ Len(seen) <= Len(s)
        /\ (\A i \in DOMAIN s : changes[i] # "shift") => seen = s

\* The entries asked for, and no others, go.
AskedAreGone(log, order, added) ==
  LET asked == ToSet(order)
      left == DeleteInTurn(log, order, added)
  IN /\ Len(left) = Len(log) - Len(order) + Len(order) * Len(added)
     /\ \A i \in DOMAIN log \ asked :
          left[i - Cardinality({a \in asked : a < i})] = log[i]

\* Entries of a snapshot that are deleted from the last to the first are the
\* ones that go, whatever is added meanwhile.
LogDeletesBackwards(log, order, added) ==
  (\A i, j \in DOMAIN order : i < j => order[i] > order[j]) => AskedAreGone(log, order, added)

\* Of two that are deleted the other way round, as objectlog.py:386-388 shows it,
\* the second stays: the one after it goes, or what was added, or nothing.
LogDeletesForwards(log, order, added) ==
  Len(order) = 2 /\ order[1] < order[2] =>
    LET left == DeleteInTurn(log, order, added)
    IN /\ left[order[2] - 1] = log[order[2]]
       /\ \A i \in (order[2] + 2)..Len(log) : left[i - 2] = log[i]
=============================================================================
