--------------------------- MODULE SmalltalkBatch ---------------------------
(***************************************************************************)
(* Text fetched in batches: one Smalltalk expression writes all the rows   *)
(* into one string, Python takes it apart (_smalltalk_batch.py, and the    *)
(* callers in persistent_root.py, concurrency.py and objectlog.py).  A     *)
(* text is a sequence of characters; of these only the ones that either    *)
(* side treats specially are told apart: "bs" is a backslash, "bar" the    *)
(* field separator, "vt" any of the other characters (vertical tab, form   *)
(* feed, U+2028, ...) at which splitlines() splits.                        *)
(***************************************************************************)
EXTENDS Naturals, Sequences, SequencesExt

Letters == {"x", "n", "r", "p", "q"}
Chars == Letters \cup {"bs", "bar", "quote", "lf", "cr", "vt"}

\* The Smalltalk side.

\* Mutant: a backslash is not doubled.
MutantEscape(c) ==
  CASE c = "bar" -> <<"bs", "p">>
    [] c = "cr" -> <<"bs", "r">>
    [] c = "lf" -> <<"bs", "n">>
    [] OTHER -> <<c>>

Escape(c) ==
  CASE c = "bs" -> <<"bs", "bs">>
    [] c = "bar" -> <<"bs", "p">>
    [] c = "cr" -> <<"bs", "r">>
    [] c = "lf" -> <<"bs", "n">>
    [] OTHER -> <<c>>

Encode(text) == FlattenSeq([i \in DOMAIN text |-> Escape(text[i])])

\* The fields of each row, with bars between them and end after the last.
Rows(rows, end) ==
  LET Row(fields) ==
        FlattenSeq([i \in DOMAIN fields |->
          (IF i = 1 THEN <<>> ELSE <<"bar">>) \o Encode(fields[i])]) \o end
  IN FlattenSeq([r \in DOMAIN rows |-> Row(rows[r])])

\* The Python side.

Unescape(c) ==
  CASE c = "n" -> <<"lf">>
    [] c = "r" -> <<"cr">>
    [] c = "p" -> <<"bar">>
    [] c = "bs" -> <<"bs">>
    [] OTHER -> <<"bs", c>>

\* A backslash waits for the next character; one at the end stands for itself.
Decode(field) ==
  LET Step(st, c) ==
        IF st.waiting THEN [text |-> st.text \o Unescape(c), waiting |-> FALSE]
        ELSE IF c = "bs" THEN [st EXCEPT !.waiting = TRUE]
        ELSE [st EXCEPT !.text = Append(@, c)]
      all == FoldLeft(Step, [text |-> <<>>, waiting |-> FALSE], field)
  IN IF all.waiting THEN Append(all.text, "bs") ELSE all.text

DecodeAll(fields) == [i \in DOMAIN fields |-> Decode(fields[i])]

\* The pieces of s between the characters in Ends.
SplitAt(s, Ends) ==
  FoldLeft(LAMBDA pieces, c :
             IF c \in Ends THEN Append(pieces, <<>>)
             ELSE [pieces EXCEPT ![Len(pieces)] = Append(@, c)],
           << <<>> >>, s)

NotEmpty(s) == s # <<>>
Lines(raw) == SelectSeq(SplitAt(raw, {"lf", "cr", "vt"}), NotEmpty)

\* fetch_mapping_string_keys: an empty line is no key.
FetchKeys(keys) ==
  DecodeAll(Lines(Rows([i \in DOMAIN keys |-> <<keys[i]>>], <<"lf">>)))

\* A line up to the first bar, and what follows; a line without one is dropped.
HasBar(line) == "bar" \in {line[i] : i \in DOMAIN line}
BeforeBar(line) == SplitAt(line, {"bar"})[1]
AfterBar(line) == SubSeq(line, Len(BeforeBar(line)) + 2, Len(line))

\* fetch_mapping_string_pairs.
FetchPairs(pairs) ==
  LET lines == SelectSeq(Lines(Rows(pairs, <<"lf">>)), HasBar)
  IN [i \in DOMAIN lines |-> <<Decode(BeforeBar(lines[i])), Decode(AfterBar(lines[i]))>>]

\* fetch_mapping_string_oop_lists: a name and the OOPs (texts here) after it.
FetchLists(rows) ==
  LET lines == Lines(Rows(rows, <<"lf">>))
      Fields(line) == SplitAt(line, {"bar"})
  IN [i \in DOMAIN lines |->
       <<Decode(Fields(lines[i])[1])>> \o SelectSeq(Tail(Fields(lines[i])), NotEmpty)]

\* RCHash: rows of two JSON strings (brackets and comma are left out).
EscapeJson(c) ==
  CASE c \in {"bs", "quote"} -> <<"bs", c>>
    [] c = "cr" -> <<"bs", "r">>
    [] c = "lf" -> <<"bs", "n">>
    [] OTHER -> <<c>>

JsonRow(pair) ==
  LET Quoted(t) == <<"quote">> \o FlattenSeq([i \in DOMAIN t |-> EscapeJson(t[i])])
                     \o <<"quote">>
  IN Quoted(pair[1]) \o Quoted(pair[2]) \o <<"lf">>

\* json.loads of a line: the strings in it; an escape it does not know, a raw
\* control character, or an open string at the end of the line is an error.
LoadsJson(line) ==
  LET Add(st, c) == [st EXCEPT !.strings[Len(st.strings)] = Append(@, c),
                               !.waiting = FALSE]
      Step(st, c) ==
        IF st.waiting
        THEN CASE c \in {"bs", "quote"} -> Add(st, c)
               [] c = "n" -> Add(st, "lf")
               [] c = "r" -> Add(st, "cr")
               [] OTHER -> [st EXCEPT !.bad = TRUE]
        ELSE IF c = "quote"
        THEN [st EXCEPT !.inside = ~@,
                        !.strings = IF st.inside THEN @ ELSE Append(@, <<>>)]
        ELSE IF ~st.inside \/ c \in {"cr", "lf", "vt"} THEN [st EXCEPT !.bad = TRUE]
        ELSE IF c = "bs" THEN [st EXCEPT !.waiting = TRUE]
        ELSE Add(st, c)
      all == FoldLeft(Step, [strings |-> <<>>, inside |-> FALSE, waiting |-> FALSE,
                             bad |-> FALSE], line)
  IN IF all.bad \/ all.inside THEN <<"error">> ELSE all.strings

FetchScalars(pairs) ==
  LET lines == Lines(FlattenSeq([i \in DOMAIN pairs |-> JsonRow(pairs[i])]))
  IN [i \in DOMAIN lines |-> LoadsJson(lines[i])]

-----------------------------------------------------------------------------
(* The object log ends each of its rows with backslash q.                  *)

\* raw.split("\\q").
SplitLog(raw) ==
  FoldLeft(LAMBDA pieces, c :
             LET piece == Last(pieces) IN
             IF c = "q" /\ piece # <<>> /\ Last(piece) = "bs"
             THEN Append(Front(pieces), Front(piece)) \o << <<>> >>
             ELSE [pieces EXCEPT ![Len(pieces)] = Append(@, c)],
           << <<>> >>, raw)

\* _fetch_log_entries, of rows with a level, a label and a tag (the fields the
\* code leaves to the server are left out): a piece with too few fields is no
\* entry, the index of an entry is that of its piece, and quotes around the tag
\* are taken off.
Unquote(t) ==
  IF t # <<>> /\ Head(t) = "quote" /\ Last(t) = "quote"
  THEN SubSeq(t, 2, Len(t) - 1) ELSE t

FetchLog(rows) ==
  LET pieces == SplitLog(Rows(rows, <<"bs", "q">>))
      Fields(i) == SplitAt(pieces[i], {"bar"})
      full == SelectSeq([i \in DOMAIN pieces |-> i], LAMBDA i : Len(Fields(i)) >= 3)
  IN [e \in DOMAIN full |->
       LET f == Fields(full[e]) IN
       [level |-> Decode(f[1]), label |-> Decode(f[2]), tag |-> Unquote(Decode(f[3])),
        index |-> full[e] - 1]]

-----------------------------------------------------------------------------
(* Which texts come through.                                               *)

SplitsNoLine(text) == ~Contains(text, "vt")
EndsNoRow(text) == \A i \in 2..Len(text) : ~(text[i - 1] = "bs" /\ text[i] = "q")

\* What is fetched in one batch is what is stored, row for row, whatever
\* separators, escapes and line ends the texts contain: all but texts with one
\* of the line ends that only Python knows, an empty key among the keys, and,
\* in the log, a backslash before a q.
BatchIsFaithful(t1, t2) ==
  /\ SplitsNoLine(t1) /\ SplitsNoLine(t2) =>
       /\ FetchPairs(<< <<t1, t2>>, <<t2, t1>> >>) = << <<t1, t2>>, <<t2, t1>> >>
       /\ FetchKeys(<<t1, t2>>) = SelectSeq(<<t1, t2>>, NotEmpty)
       /\ t1 # <<>> =>
            FetchLists(<< <<t1, <<"x">>, <<"n">> >>, <<t1>> >>) =
                       << <<t1, <<"x">>, <<"n">> >>, <<t1>> >>
       /\ FetchScalars(<< <<t1, t2>> >>) = << <<t1, t2>> >>
  /\ EndsNoRow(t1) /\ EndsNoRow(t2) =>
       LET tag == <<"quote">> \o t2 \o <<"quote">> IN
       FetchLog(<< <<(<<"x">>), t1, tag>>, <<(<<"n">>), t2, t1>> >>) =
         << [level |-> <<"x">>, label |-> t1, tag |-> t2, index |-> 0],
            [level |-> <<"n">>, label |-> t2, tag |-> Unquote(t1), index |-> 1] >>
=============================================================================
