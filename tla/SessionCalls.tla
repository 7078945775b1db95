----------------------------- MODULE SessionCalls -----------------------------
(***************************************************************************)
(* Calls of a session as a whole: the observation around each of them      *)
(* (client.py _observe_operation, observability.py), many sends in one     *)
(* evaluation (bulk_perform...) and dictionaries sent to the stone         *)
(* (dict_to_gs).                                                           *)
(***************************************************************************)
EXTENDS Naturals, Sequences, SequencesExt

-----------------------------------------------------------------------------
(* Observation.  hooks: the calls of the tracer and of the metrics that    *)
(* raise.                                                                  *)

Hooks == {"start", "enter", "attribute", "record", "leave", "increment", "duration"}

\* What comes of an operation under observation: did it run, what its caller
\* gets, whether a span was left open, and the status that was counted.
Outcome(ran, result, open, counted) ==
  [ran |-> ran, result |-> result, open |-> open, counted |-> counted]

MutantGuarded == {}
Guarded == {"attribute", "record"}

\* The hooks in the order they are called; the first that raises, and is not
\* guarded, decides.
FirstRaising(hooks, steps) ==
  LET raising == SelectSeq(steps, LAMBDA h : h \in hooks \ Guarded) IN
  IF raising = <<>> THEN "none" ELSE Head(raising)

\* Every exception is counted as an error.
Status(result) == IF result = "ok" THEN "ok" ELSE "error"

ObserveOperation(observed, hooks, result) ==
  IF ~observed THEN Outcome(TRUE, result, FALSE, "nothing")
  ELSE LET before == FirstRaising(hooks, <<"start", "enter">>)
           during == FirstRaising(hooks, (IF result = "ok" THEN <<>> ELSE <<"record", "attribute">>)
                                         \o <<"attribute", "leave">>)
           after == FirstRaising(hooks, <<"increment", "duration">>) IN
       CASE before # "none" -> Outcome(FALSE, "hook", FALSE, "nothing")
         [] before = "none" /\ during # "none" -> Outcome(TRUE, "hook", during # "leave", "nothing")
         [] OTHER -> Outcome(TRUE, IF after = "none" THEN result ELSE "hook", FALSE,
                             IF after = "increment" THEN "nothing" ELSE Status(result))

\* An attribute or an exception that the tracer refuses never shows, neither in
\* the result of the operation nor in a span left open or a call not counted;
\* and an operation is counted as "ok" only when it was, whatever failed around
\* it.  (A failing span or counter hides the result of an operation that was
\* done, and a conflict is counted like any error.)
ObservationIsSilent(observed, hooks, result) ==
  LET o == ObserveOperation(observed, hooks, result) IN
  /\ o.counted \in {"nothing"} \cup (IF result = "ok" THEN {"ok"} ELSE {"error"})
  /\ o.ran \/ o.result = "hook"
  /\ hooks \subseteq {"attribute", "record"} => o.result = result /\ ~o.open
  /\ hooks \subseteq {"attribute", "record"} /\ observed =>
       o.counted = (IF result = "ok" THEN "ok" ELSE "error")

-----------------------------------------------------------------------------
(* PrometheusMetrics: metrics are made on first use, and fixed to the names *)
(* of their labels in the order given then.  A request is [kind, name,     *)
(* labels]; made maps <<kind, name>> to the labels.                        *)

MetricName(name) == [i \in DOMAIN name |-> IF name[i] = "." THEN "_" ELSE name[i]]

Metric(made, request) ==
  LET key == <<request.kind, MetricName(request.name)>> IN
  IF key \in DOMAIN made /\ made[key] # request.labels THEN made
  ELSE [k \in DOMAIN made \cup {key} |-> IF k = key THEN request.labels ELSE made[k]]

Accepted(made, request) ==
  LET key == <<request.kind, MetricName(request.name)>> IN
  key \in DOMAIN Metric(made, request) /\ Metric(made, request)[key] = request.labels

\* Of the requests for one metric those are served, and only those, whose
\* labels are the first one's: a wrong one in between does no harm.
MetricsKeepLabels(requests) ==
  LET same(i, j) == /\ requests[i].kind = requests[j].kind
                    /\ MetricName(requests[i].name) = MetricName(requests[j].name)
      before(i) == FoldLeft(Metric, <<>>, SubSeq(requests, 1, i - 1))
      first(i) == CHOOSE j \in 1..i : same(i, j) /\ \A k \in 1..(j - 1) : ~same(i, k) IN
  \A i \in DOMAIN requests :
    Accepted(before(i), requests[i]) <=> requests[i].labels = requests[first(i)].labels

-----------------------------------------------------------------------------
(* Many sends in one evaluation.  A selector is a sequence of characters;  *)
(* the server's objects are a function of receivers, and a send answers    *)
(* the oop of the receiver after it.                                       *)

\* "put:" sets the receiver to its one argument, "get" answers it; any other
\* selector or number of arguments is an error.
Send(objects, receiver, selector, args) ==
  CASE selector = <<"put:">> /\ Len(args) = 1 ->
         [objects |-> [objects EXCEPT ![receiver] = args[1]], error |-> FALSE]
    [] selector = <<"get">> /\ args = <<>> -> [objects |-> objects, error |-> FALSE]
    [] OTHER -> [objects |-> objects, error |-> TRUE]

\* _coerce_perform_call takes (receiver, selector[, args]).
CallFits(call) == Len(call) \in 2..3
CoercePerformCall(call) ==
  [receiver |-> call[1], selector |-> call[2], args |-> IF Len(call) = 2 THEN <<>> ELSE call[3]]

\* _smalltalk_string_literal, and what the compiler reads of it: an inner quote
\* that is not doubled is a syntax error.
Literal(text) ==
  FlattenSeq([i \in DOMAIN text |-> IF text[i] = "quote" THEN <<"quote", "quote">> ELSE <<text[i]>>])
ReadLiteral(literal) ==
  LET Step(st, c) ==
        IF c # "quote" THEN [st EXCEPT !.text = Append(@, c), !.valid = @ /\ ~st.open]
        ELSE IF st.open THEN [st EXCEPT !.text = Append(@, c), !.open = FALSE]
        ELSE [st EXCEPT !.open = TRUE]
      all == FoldLeft(Step, [text |-> <<>>, open |-> FALSE, valid |-> TRUE], literal)
  IN [valid |-> all.valid /\ ~all.open, text |-> all.text]

\* The source: statements [do, at, put] that fill the arrays, and whether each
\* send has a selector and arguments of its own.
Put(do, at, put) == [do |-> do, at |-> at, put |-> put]
Receivers(oops) == [i \in DOMAIN oops |-> Put("receivers", i, oops[i])]
CallArgs(args) == [k \in DOMAIN args |-> Put("callArgs", k, args[k])]

\* Arrays are references: argsList holds the one that callArgs names then.
BulkPerformCallsSource(calls) ==
  [own |-> TRUE, size |-> Len(calls), fill |->
     Receivers([i \in DOMAIN calls |-> calls[i].receiver])
     \o [i \in DOMAIN calls |-> Put("selectors", i, Literal(calls[i].selector))]
     \o FlattenSeq([i \in DOMAIN calls |->
          <<Put("new", 0, Len(calls[i].args))>> \o CallArgs(calls[i].args)
          \o <<Put("argsList", i, 0)>>])]

BulkPerformSource(receivers, selector, args) ==
  [own |-> FALSE, size |-> Len(receivers), fill |->
     Receivers(receivers) \o <<Put("new", 0, Len(args))>> \o CallArgs(args)
     \o <<Put("selectors", 1, Literal(selector)), Put("argsList", 1, 0)>>]

\* The server runs it: the arrays first, the sends then; the first that fails
\* ends it and the answer is lost.
Evaluate(objects, source) ==
  LET empty == [i \in 1..source.size |-> <<>>]
      Step(m, s) ==
        CASE s.do = "new" -> [m EXCEPT !.heap = Append(@, [k \in 1..s.put |-> 0])]
          [] s.do = "callArgs" ->
               IF s.at <= Len(Last(m.heap)) THEN [m EXCEPT !.heap[Len(m.heap)][s.at] = s.put]
               ELSE [m EXCEPT !.error = TRUE]
          [] s.do = "argsList" -> [m EXCEPT !.argsList[s.at] = Len(m.heap)]
          [] s.do = "selectors" ->
               [m EXCEPT !.selectors[s.at] = ReadLiteral(s.put).text,
                         !.error = @ \/ ~ReadLiteral(s.put).valid]
          [] s.do = "receivers" -> [m EXCEPT !.receivers[s.at] = s.put]
      filled == FoldLeft(Step, [heap |-> <<>>, argsList |-> empty, selectors |-> empty,
                                receivers |-> empty, error |-> FALSE], source.fill)
      Perform(s, i) ==
        LET of == IF source.own THEN i ELSE 1
            sent == Send(s.objects, filled.receivers[i], filled.selectors[of],
                         filled.heap[filled.argsList[of]]) IN
        IF s.error THEN s
        ELSE [objects |-> sent.objects, error |-> sent.error,
              lines |-> IF sent.error THEN <<>>
                        ELSE Append(s.lines, sent.objects[filled.receivers[i]])]
  IN FoldLeft(Perform, [objects |-> objects, error |-> filled.error, lines |-> <<>>],
              [i \in 1..source.size |-> i])

\* bulk_perform_calls_oop and bulk_perform_oop; what is no call is refused
\* before anything is sent, and nothing to send is not sent.
BulkPerformCalls(objects, calls) ==
  IF \E i \in DOMAIN calls : ~CallFits(calls[i])
  THEN [objects |-> objects, error |-> TRUE, lines |-> <<>>]
  ELSE IF calls = <<>> THEN [objects |-> objects, error |-> FALSE, lines |-> <<>>]
  ELSE Evaluate(objects, BulkPerformCallsSource([i \in DOMAIN calls |-> CoercePerformCall(calls[i])]))
BulkPerform(objects, receivers, selector, args) ==
  IF receivers = <<>> THEN [objects |-> objects, error |-> FALSE, lines |-> <<>>]
  ELSE Evaluate(objects, BulkPerformSource(receivers, selector, args))

\* One by one with perform_oop, until one fails.
Performed(objects, calls) ==
  LET After(i, before) == Send(before, calls[i].receiver, calls[i].selector, calls[i].args)
      after[i \in 0..Len(calls)] == IF i = 0 THEN objects ELSE After(i, after[i - 1]).objects
      fails == {i \in DOMAIN calls : After(i, after[i - 1]).error} IN
  IF fails = {} THEN [objects |-> after[Len(calls)], error |-> FALSE,
                      lines |-> [i \in DOMAIN calls |-> after[i][calls[i].receiver]]]
  ELSE [objects |-> after[(CHOOSE i \in fails : \A j \in fails : i <= j) - 1],
        error |-> TRUE, lines |-> <<>>]

\* Sends in bulk do what the same sends do one after the other: the same
\* results in the same order, and after an error what those before it changed;
\* no selector is taken for source, and no call gets another's arguments.
BulkIsEach(objects, calls, receivers) ==
  /\ (\A i \in DOMAIN calls : CallFits(calls[i])) =>
       BulkPerformCalls(objects, calls) =
         Performed(objects, [i \in DOMAIN calls |-> CoercePerformCall(calls[i])])
  /\ (\E i \in DOMAIN calls : ~CallFits(calls[i])) =>
       BulkPerformCalls(objects, calls).objects = objects
  /\ calls # <<>> /\ CallFits(calls[1]) =>
       LET one == CoercePerformCall(calls[1]) IN
       BulkPerform(objects, receivers, one.selector, one.args) =
         Performed(objects, [i \in DOMAIN receivers |-> [one EXCEPT !.receiver = receivers[i]]])

-----------------------------------------------------------------------------
(* Dictionaries.  items: the <<key, value>> pairs of a dict in its order, a *)
(* key [text, string]; a value is a number or, marked, such items again.   *)

Text(key) == key.text

DictToGs(items) ==
  FoldLeft(LAMBDA d, item : [k \in DOMAIN d \cup {Text(item[1])} |->
                               IF k = Text(item[1]) THEN item[2] ELSE d[k]],
           <<>>, items)

\* str_dict_get finds for each key the value of the last item with its text;
\* keys that differ as Python objects but not as texts share one entry.
DictsComeBack(items) ==
  \A i \in DOMAIN items :
    (\A j \in (i + 1)..Len(items) : Text(items[j][1]) # Text(items[i][1]))
      => DictToGs(items)[Text(items[i][1])] = items[i][2]

-----------------------------------------------------------------------------
(* Repository.list_instances(), and the report of a conflict.              *)

Distinct(names) ==
  FoldLeft(LAMBDA seen, n : IF \E i \in DOMAIN seen : seen[i] = n THEN seen ELSE Append(seen, n),
           <<>>, names)

\* At most size names in one call.
Batches(names, size) ==
  [b \in 1..((Len(names) + size - 1) \div size) |->
     SubSeq(names, (b - 1) * size + 1, IF b * size < Len(names) THEN b * size ELSE Len(names))]

\* A call answers the instances under the names that the classes have
\* themselves, which for an alias is another name than was asked for.
ListInstances(names, classOf, instances, size) ==
  LET batches == Batches(Distinct(names), size)
      Answers(batch, n) == \E i \in DOMAIN batch : classOf[batch[i]] = n
      Times(n) == {b \in DOMAIN batches : Answers(batches[b], n)}
  IN [n \in {names[i] : i \in DOMAIN names} |->
        FlattenSeq([b \in DOMAIN batches |-> IF b \in Times(n) THEN instances[n] ELSE <<>>])]

\* describe_commit_conflict: one entry per object, in their order, with what is
\* known of it; an object that cannot be inspected keeps its entry.
DescribeConflict(oops, kind, session, broken, summaries) ==
  [i \in DOMAIN oops |->
     [oop |-> oops[i], kind |-> kind,
      class |-> session /\ oops[i] \notin broken,
      summary |-> session /\ summaries /\ oops[i] \notin broken,
      error |-> session /\ oops[i] \in broken]]

\* Every class that is asked for under its own name is asked for once, in calls
\* of a limited size, and its instances come back once, in order; an alias has
\* none of its own, and the class it stands for may be listed twice, once for
\* each batch that has one of its names.
InstancesListedOnce(names, classOf, instances, size) ==
  LET batches == Batches(Distinct(names), size)
      found == ListInstances(names, classOf, instances, size)
  IN /\ FlattenSeq(batches) = Distinct(names)
     /\ \A b \in DOMAIN batches : Len(batches[b]) \in 1..size
     /\ \A n \in DOMAIN found :
          LET asked == {b \in DOMAIN batches : \E i \in DOMAIN batches[b] : classOf[batches[b][i]] = n}
          IN /\ asked = {} => found[n] = <<>>
             /\ (\A m \in DOMAIN found \ {n} : classOf[m] # n) /\ classOf[n] = n =>
                  found[n] = instances[n]
=============================================================================
