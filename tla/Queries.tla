------------------------------- MODULE Queries -------------------------------
(***************************************************************************)
(* GSCollection, GSCollectionIterator and Query (gsquery.py): named sets   *)
(* of records on the server, searched there by the first predicate of a    *)
(* query and filtered in Python by the others.                             *)
(*                                                                         *)
(* A record is a function from its keys to values.  A key is a path: a     *)
(* sequence of segments, <<"@", "zip">> with the mark of an instance       *)
(* variable or <<"zip">> without; a value may be such a record again.  A   *)
(* collection is the sequence of its members in the order the server walks *)
(* through them, which is fixed while it does not change.                  *)
(* With an equality index the search answers what the scan does (external).*)
(***************************************************************************)
EXTENDS Integers, Sequences, FiniteSets, SequencesExt

Nil == [kind |-> "nil", n |-> 0]
Num(i) == [kind |-> "int", n |-> i]
Bool(b) == [kind |-> "bool", n |-> IF b THEN 1 ELSE 0]
Missing == [kind |-> "missing", n |-> 0]
Dict(record) == [kind |-> "dict", n |-> 0, of |-> record]

Ops == {"lt", "lte", "gt", "gte", "eql", "neq"}
Numbers == {"int", "bool"}

ByOrder(op, a, b) ==
  CASE op = "lt" -> a < b [] op = "lte" -> a <= b [] op = "gt" -> a > b [] op = "gte" -> a >= b

Answer(b) == IF b THEN "yes" ELSE "no"

-----------------------------------------------------------------------------
(* The two evaluations of a predicate [path, op, value].                   *)

\* On the server the path is one key, "@address.@zip", just as it is written, and
\* nil never matches;
\* true is no number and has no order.
ServerMatches(r, p) ==
  LET v == IF p.path \in DOMAIN r THEN r[p.path] ELSE Nil IN
  CASE v = Nil -> "no"
    [] v # Nil /\ p.op = "eql" -> Answer(v = p.value)
    [] v # Nil /\ p.op = "neq" -> Answer(v # p.value)
    [] v # Nil /\ p.op \notin {"eql", "neq"} ->
         IF v.kind = "int" /\ p.value.kind = "int"
         THEN Answer(ByOrder(p.op, v.n, p.value.n)) ELSE "raised"

\* _record_path_value: the key as it is, or the way through nested records, in
\* which a segment without its mark stands in for one that is missing.
Plain(segment) == IF Head(segment) = "@" THEN Tail(segment) ELSE segment
RecordPathValue(r, path) ==
  LET Into(current, segment) ==
        CASE current.kind # "dict" -> Missing
          [] current.kind = "dict" /\ <<segment>> \in DOMAIN current.of -> current.of[<<segment>>]
          [] current.kind = "dict" /\ <<segment>> \notin DOMAIN current.of ->
               IF <<Plain(segment)>> \in DOMAIN current.of THEN current.of[<<Plain(segment)>>]
               ELSE Missing
  IN IF path \in DOMAIN r THEN r[path] ELSE FoldLeft(Into, Dict(r), path)

\* In Python True is the number 1, and None has no order.
PyEqual(a, b) == IF a.kind \in Numbers /\ b.kind \in Numbers THEN a.n = b.n ELSE a = b

RecordMatchesPredicate(r, p) ==
  LET v == RecordPathValue(r, p.path) IN
  CASE v = Missing -> "no"
    [] v # Missing /\ p.op = "eql" -> Answer(PyEqual(v, p.value))
    [] v # Missing /\ p.op = "neq" -> Answer(~PyEqual(v, p.value))
    [] v # Missing /\ p.op \notin {"eql", "neq"} ->
         IF v.kind \in Numbers /\ p.value.kind \in Numbers
         THEN Answer(ByOrder(p.op, v.n, p.value.n)) ELSE "raised"

-----------------------------------------------------------------------------
(* Searching and iterating.                                                *)

\* The records of the select:, or Raised when the scan fails on one of them.
Raised == "raised"
SearchResult(col, p) ==
  IF \E i \in DOMAIN col : ServerMatches(col[i], p) = Raised THEN Raised
  ELSE SelectSeq(col, LAMBDA r : ServerMatches(r, p) = "yes")

\* Mutant: the next chunk begins at the last record of this one.
MutantFillBuffer(it, chunk) ==
  LET size == Len(it.array)
      stop == IF it.next + chunk - 1 < size THEN it.next + chunk - 1 ELSE size
  IN [it EXCEPT !.buffer = SubSeq(it.array, it.next, stop),
                !.next = IF stop = size THEN stop + 1 ELSE stop]

\* The iterator reads the members into an Array when it opens and the records
\* from there, chunk by chunk.
Open(col) == [array |-> col, next |-> 1, buffer |-> <<>>, closed |-> FALSE]
FillBuffer(it, chunk) ==
  LET size == Len(it.array)
      stop == IF it.next + chunk - 1 < size THEN it.next + chunk - 1 ELSE size
  IN IF it.next > size THEN it
     ELSE [it EXCEPT !.buffer = SubSeq(it.array, it.next, stop), !.next = stop + 1]

\* __next__: <<the iterator after it, the record or Missing at the end>>.
NextRecord(it, chunk) ==
  LET full == IF it.buffer = <<>> THEN FillBuffer(it, chunk) ELSE it IN
  IF full.buffer = <<>> THEN <<[full EXCEPT !.closed = TRUE], Missing>>
  ELSE <<[full EXCEPT !.buffer = Tail(@)], Head(full.buffer)>>

\* Everything an iterator yields, one __next__ more than there are records.
Yielded(col, chunk) ==
  LET turns == [i \in 1..(2 * Len(col) + 1) |-> i]
      run == FoldLeft(LAMBDA st, i :
                        IF st.it.closed THEN st
                        ELSE LET step == NextRecord(st.it, chunk)
                             IN [it |-> step[1],
                                 seen |-> IF step[2] = Missing THEN st.seen
                                          ELSE Append(st.seen, step[2])],
                      [it |-> Open(col), seen |-> <<>>], turns)
  IN run.seen

\* Query.iter: the first predicate on the server, the others on each record as
\* it comes; all() stops at the first that is not met.
MeetsAll(r, predicates) ==
  FoldLeft(LAMBDA st, p : IF st = "yes" THEN RecordMatchesPredicate(r, p) ELSE st,
           "yes", predicates)

QueryAll(col, predicates, chunk) ==
  IF predicates = <<>> THEN Yielded(col, chunk)
  ELSE LET found == SearchResult(col, Head(predicates)) IN
       IF found = Raised THEN Raised
       ELSE LET records == Yielded(found, chunk) IN
            IF \E i \in DOMAIN records : MeetsAll(records[i], Tail(predicates)) = Raised
            THEN Raised
            ELSE SelectSeq(records, LAMBDA r : MeetsAll(r, Tail(predicates)) = "yes")

\* first(): one record at a time until one is met, or one raises.
QueryFirst(col, predicates) ==
  LET found == IF predicates = <<>> THEN col ELSE SearchResult(col, Head(predicates)) IN
  IF found = Raised THEN Raised
  ELSE LET others == IF predicates = <<>> THEN <<>> ELSE Tail(predicates)
           decided == {i \in DOMAIN found : MeetsAll(found[i], others) # "no"}
       IN IF decided = {} THEN Missing
          ELSE LET i == CHOOSE i \in decided : \A j \in decided : i <= j
               IN IF MeetsAll(found[i], others) = Raised THEN Raised ELSE found[i]

-----------------------------------------------------------------------------
(* Writing.                                                                *)

BulkInsert(col, elements) == col \o elements

\* remove: of every member that a search for the value finds.
RemoveEqual(col, path, value) ==
  SelectSeq(col, LAMBDA r : ServerMatches(r, [path |-> path, op |-> "eql", value |-> value]) # "yes")

\* Values that Python takes for equal are asked for once.
FirstOfEquals(values) ==
  FoldLeft(LAMBDA seen, v : IF \E i \in DOMAIN seen : PyEqual(seen[i], v) THEN seen
                            ELSE Append(seen, v),
           <<>>, values)

BulkDeleteWhere(col, path, values) ==
  FoldLeft(LAMBDA left, v : RemoveEqual(left, path, v), col, FirstOfEquals(values))

\* For every key in the order of its first element: what has it is removed and
\* the last element with it put in.  An element without the path raises before
\* anything is written.
BulkUpsertUnique(col, path, elements) ==
  IF \E i \in DOMAIN elements : path \notin DOMAIN elements[i] THEN Raised
  ELSE LET keys == FirstOfEquals([i \in DOMAIN elements |-> elements[i][path]])
           LastWith(key) == SelectSeq(elements, LAMBDA e : PyEqual(e[path], key))
       IN FoldLeft(LAMBDA now, key : Append(RemoveEqual(now, path, key), Last(LastWith(key))),
                   col, keys)

\* intersect compares the records as JSON texts, in which True is not 1.
Intersect(a, b) == SelectSeq(a, LAMBDA r : \E i \in DOMAIN b : b[i] = r)

\* The class an index is made for: that of the value of one element.
IndexClass(sample, path) ==
  IF path \in DOMAIN sample /\ sample[path] # Nil THEN sample[path].kind ELSE "string"

\* The named collections: every use makes one that is not there; list makes none.
EnsureRoot(root, name) == IF name \in DOMAIN root THEN root ELSE [n \in DOMAIN root \cup {name} |-> IF n = name THEN <<>> ELSE root[n]]
ReplaceRecords(root, name, elements) == [EnsureRoot(root, name) EXCEPT ![name] = elements]
Drop(root, name) == [n \in DOMAIN root \ {name} |-> root[n]]

-----------------------------------------------------------------------------
\* A predicate means the same on both sides for a record that has its path as
\* one key, with a value that is not nil and a number of the predicate's kind.
PlainFor(r, p) == p.path \in DOMAIN r /\ r[p.path].kind = p.value.kind
                  /\ r[p.path].kind \in Numbers /\ (p.value.kind = "bool" => p.op \in {"eql", "neq"})

\* Whichever of two predicates is asked first, the records that meet both come
\* back, each once and in the order of the collection, for every size of the
\* chunks; first() is the first of them.
QueriesCommute(col, p, q, chunk) ==
  /\ Yielded(col, chunk) = col
  /\ (\A i \in DOMAIN col : PlainFor(col[i], p) /\ PlainFor(col[i], q)) =>
       LET both == QueryAll(col, <<p, q>>, chunk) IN
       /\ both = QueryAll(col, <<q, p>>, chunk)
       /\ both = QueryAll(SearchResult(col, p), <<q>>, chunk)
       /\ both = Intersect(SearchResult(col, p), SearchResult(col, q))
       /\ QueryFirst(col, <<p, q>>) = IF both = <<>> THEN Missing ELSE Head(both)

\* After an upsert of elements with keys that are neither nil nor a number and
\* its boolean, there is one record for each of their keys, the last that was
\* given, and the other records are as they were; after a delete no record has
\* one of the values.
KeysStayUnique(col, path, elements) ==
  LET all == {elements[i] : i \in DOMAIN elements}
      keys == {e[path] : e \in all}
      clear == (\A e \in all : path \in DOMAIN e)
               /\ (\A e \in all : e[path] # Nil)
               /\ \A a, b \in keys : PyEqual(a, b) => a = b
      Has(r, k) == path \in DOMAIN r /\ r[path] = k
  IN clear =>
       LET now == BulkUpsertUnique(col, path, elements)
           kept == SelectSeq(col, LAMBDA r : \A k \in keys : ~Has(r, k))
       IN /\ \A k \in keys : Cardinality({i \in DOMAIN now : Has(now[i], k)}) = 1
          /\ SubSeq(now, 1, Len(kept)) = kept
          /\ Len(now) = Len(kept) + Cardinality(keys)
          /\ \A i \in DOMAIN elements :
               (\A j \in (i + 1)..Len(elements) : elements[j][path] # elements[i][path]) =>
                  \E m \in DOMAIN now : now[m] = elements[i]
          /\ BulkDeleteWhere(now, path, [i \in DOMAIN elements |-> elements[i][path]]) = kept
=============================================================================
