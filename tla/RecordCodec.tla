----------------------------- MODULE RecordCodec -----------------------------
(***************************************************************************)
(* How GSCollection reads its records (gsquery.py): the server writes one  *)
(* line of JSON for each record, Python splits the lines and parses them.  *)
(*                                                                         *)
(* A value is an atom (null, a boolean, a number), a text, a list, a map   *)
(* (a sequence of <<key, value>>), or something else, which the server     *)
(* prints.  Texts are those of SmalltalkBatch; JSON's other characters are *)
(* added to them.                                                          *)
(***************************************************************************)
EXTENDS SmalltalkBatch

RECURSIVE EncodeValue(_), ParseValue(_), ParseItems(_, _, _)

Atom(a) == [is |-> "atom", atom |-> a]
Text(t) == [is |-> "text", text |-> t]
ListOf(items) == [is |-> "list", items |-> items]
MapOf(pairs) == [is |-> "map", pairs |-> pairs]
Other == [is |-> "other"]

EncodeString(t) == <<"quote">> \o FlattenSeq([i \in DOMAIN t |-> EscapeJson(t[i])]) \o <<"quote">>

Joined(pieces) ==
  FlattenSeq([i \in DOMAIN pieces |-> IF i = 1 THEN pieces[i] ELSE <<",">> \o pieces[i]])

\* The block encodeValue and the two it calls.
EncodeValue(v) ==
  CASE v.is = "atom" -> <<v.atom>>
    [] v.is = "text" -> EncodeString(v.text)
    [] v.is = "list" ->
         <<"[">> \o Joined([i \in DOMAIN v.items |-> EncodeValue(v.items[i])]) \o <<"]">>
    [] v.is = "map" ->
         <<"{">> \o Joined([i \in DOMAIN v.pairs |->
                              EncodeString(v.pairs[i][1]) \o <<":">>
                                \o EncodeValue(v.pairs[i][2])]) \o <<"}">>
    [] v.is = "other" -> <<"x", "x">>

\* json.loads: a value at the head of a text and what follows it.
Bad == [value |-> Other, rest |-> <<"bad">>]

StringEnd(t) ==
  LET ends == {i \in 2..Len(t) : t[i] = "quote"
                 /\ LoadsJson(SubSeq(t, 1, i)) # <<"error">>}
  IN IF ends = {} THEN 0 ELSE CHOOSE i \in ends : \A j \in ends : i <= j

StringTo(t, end) ==
  IF end = 0 THEN Bad
  ELSE [value |-> Text(LoadsJson(SubSeq(t, 1, end))[1]), rest |-> SubSeq(t, end + 1, Len(t))]

\* A pair of a map, whose key is parsed.
Keyed(key, one) == [value |-> <<key, one.value>>, rest |-> one.rest]
ParsePair(key) ==
  IF key.value.is # "text" \/ key.rest = <<>> \/ Head(key.rest) # ":" THEN Bad
  ELSE Keyed(key.value.text, ParseValue(Tail(key.rest)))

\* The items of a list or the pairs of a map, up to the closing bracket, when
\* one more of them is parsed.
Closing(open) == IF open = "[" THEN "]" ELSE "}"
ParseOn(open, items, one) ==
  IF one.rest = <<>> THEN [items |-> <<>>, rest |-> Bad.rest]
  ELSE IF Head(one.rest) = Closing(open)
  THEN [items |-> Append(items, one.value), rest |-> Tail(one.rest)]
  ELSE IF Head(one.rest) = "," THEN ParseItems(Tail(one.rest), open, Append(items, one.value))
  ELSE [items |-> <<>>, rest |-> Bad.rest]

ParseItems(t, open, items) ==
  IF t # <<>> /\ Head(t) = Closing(open) /\ items = <<>>
  THEN [items |-> <<>>, rest |-> Tail(t)]
  ELSE ParseOn(open, items,
               IF open = "[" THEN ParseValue(t) ELSE ParsePair(ParseValue(t)))

Collected(open, all) ==
  [value |-> IF open = "[" THEN ListOf(all.items) ELSE MapOf(all.items), rest |-> all.rest]

ParseValue(t) ==
  IF t = <<>> THEN Bad
  ELSE CASE Head(t) \in {"null", "true", "1"} -> [value |-> Atom(Head(t)), rest |-> Tail(t)]
         [] Head(t) = "quote" -> StringTo(t, StringEnd(t))
         [] Head(t) \in {"[", "{"} -> Collected(Head(t), ParseItems(Tail(t), Head(t), <<>>))
         [] OTHER -> Bad

\* A line is one value and no more.
Whole(one) == IF one.rest = <<>> THEN one.value ELSE Other

Failed == <<Other>>
AllOrNone(values) == IF \E i \in DOMAIN values : values[i] = Other THEN Failed ELSE values
ParseLines(lines) == AllOrNone([i \in DOMAIN lines |-> Whole(ParseValue(lines[i]))])

\* _records_from_collection_oop: one line that does not parse fails the fetch.
FetchRecords(records) ==
  ParseLines(Lines(FlattenSeq([i \in DOMAIN records |->
                                 EncodeValue(records[i]) \o <<"lf">>])))

\* _records_from_array_range_oop.
FetchRange(records, start, stop) == FetchRecords(SubSeq(records, start, stop))

RECURSIVE Splits(_)
Splits(v) ==
  CASE v.is = "text" -> ~SplitsNoLine(v.text)
    [] v.is = "list" -> \E i \in DOMAIN v.items : Splits(v.items[i])
    [] v.is = "map" -> \E i \in DOMAIN v.pairs :
                         ~SplitsNoLine(v.pairs[i][1]) \/ Splits(v.pairs[i][2])
    [] OTHER -> FALSE

\* Records of texts, numbers, lists and records come back as they are, nested
\* ones too, whatever quotes, brackets and line ends their texts hold, in one
\* fetch as in slices of any size; but one text with a line end that only Python
\* knows makes the fetch of everything fail, of the records that are in order
\* as well.
RecordsComeBack(records) ==
  /\ FetchRecords(records)
       = IF \E i \in DOMAIN records : Splits(records[i]) THEN Failed ELSE records
  /\ \A start, stop \in DOMAIN records :
       (\A i \in start..stop : ~Splits(records[i]))
         => FetchRange(records, start, stop) = SubSeq(records, start, stop)
=============================================================================
