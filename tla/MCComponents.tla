---------------------------- MODULE MCComponents ----------------------------
(***************************************************************************)
(* The components that share no state with the others, in one run: each    *)
(* behaviour is about one of them.  It is that of SharedObjects or of      *)
(* AsyncSession, or it takes one input of one of the code's computations.  *)
(***************************************************************************)
EXTENDS Computations, SharedObjects, AsyncSession

CONSTANTS s1, s2, owner, guest

TheSessions == {s1, s2}
TheGuests == {guest}
TheContents == {"x", "y"}
TheNames == {"p", "q", "r", "x"}
TheSums == {0, 1}
TheKeys == {"k1", "k2"}
TheStored == {"none", "a", "b"}

Batch == INSTANCE SmalltalkBatch
Dumps == INSTANCE Inspection
Sends == INSTANCE SessionCalls
Query == INSTANCE Queries
Codec == INSTANCE RecordCodec
Gen == INSTANCE GeneratedWrappers
Bench == INSTANCE Benchmarks
Rel == INSTANCE Release WITH Version <- 1, Markers <- {{"m"}, {"w"}}
Stones == INSTANCE Schema

SeqsUpTo(S, n) == UNION {[1..k -> S] : k \in 0..n}

-----------------------------------------------------------------------------
(* Inputs.                                                                 *)

TheScalars ==
  {<<"none">>, <<"bool", TRUE>>, <<"bool", FALSE>>} \cup {<<"int", i>> : i \in {-257, -3, 2, 256}}
  \cup ({"float", "str"} \X Contents)
TheValues ==
  TheScalars \cup {<<"int", i>> : i \in -300..300}
  \cup {<<"list", items>> : items \in SeqsUpTo(TheScalars, 2)}
  \cup {<<"dict", pairs>> : pairs \in SeqsUpTo(Contents \X TheScalars, 2)}
  \cup {<<"proxy", type, Object(class, x)>> :
          type \in {"OopRef", "GsDict", "RCHash", "RCQueue", "OrderedCollection"},
          class \in {"Other", "OrderedCollection", "RcQueue", "RcCounter"}, x \in Contents}

ValueInputs ==
  \/ ConversionInputs(-600..600, TheValues,
                      ({"int", "date", "decimal", "uuid"} \X Contents) \cup Datetimes(0..2, -1..1))
  \/ \E t1 \in SeqsUpTo(Batch!Chars, 2), t2 \in SeqsUpTo(Batch!Chars, 1) :
       input' = [theme |-> "batch", t1 |-> t1, t2 |-> t2]
  \/ \E one, two \in {s \in SeqsUpTo([name : {"x", "y"}, value : {"o1", "o2"}], 2) :
                        Len(s) = 2 => s[1].name # s[2].name},
        other \in {"K", "L"},
        slots \in {{Dumps!All}, {"x"}}, classes \in {{Dumps!All}, {"K"}},
        maxSlots \in 1..2, depth \in 0..3 :
       input' = [theme |-> "dump", graph |-> [o1 |-> one, o2 |-> two],
                class |-> [o1 |-> "K", o2 |-> other],
                ask |-> [slots |-> slots, classes |-> classes, maxSlots |-> maxSlots,
                         depth |-> depth]]

CallInputs ==
  \/ \E observed \in BOOLEAN, hooks \in SUBSET Sends!Hooks,
        result \in {"ok", "conflict", "error"} :
       input' = [theme |-> "observation", observed |-> observed, hooks |-> hooks,
                result |-> result]
  \/ \E requests \in SeqsUpTo([kind : {"counter", "histogram"},
                               name : {<<"a", ".">>, <<"a", "_">>},
                               labels : {<<>>, <<"x", "y">>, <<"y", "x">>}], 3) :
       input' = [theme |-> "metrics", requests |-> requests]
  \/ \E list \in SeqsUpTo({<<1>>}
                           \cup {<<r, s>> : r \in 1..2, s \in {<<"get">>, <<"quote", "get">>}}
                           \cup {<<r, s, a>> : r \in 1..2, s \in {<<"put:">>, <<"get">>},
                                                a \in {<<>>, <<1>>, <<2>>, <<1, 2>>}}, 2),
        receivers \in SeqsUpTo(1..2, 2) :
       input' = [theme |-> "bulk", list |-> list, receivers |-> receivers]
  \/ \E items \in SeqsUpTo([text : {"1", "a"}, string : BOOLEAN] \X (1..2), 3) :
       input' = [theme |-> "dicts", items |-> items]

CollectionInputs ==
  \/ MappingInputs(Mappings(Keys), Keys, Written, SeqsUpTo(Keys \X Written, 2))
  \/ ListInputs(SeqsUpTo(Stored, 3), Stored)
  \/ LogInputs(SeqsUpTo({"a", "b"}, 3), SeqsUpTo(1..3, 3), {<<>>, <<"none">>})
  \/ \E names \in SeqsUpTo({"A", "B", "C"}, 4), size \in 1..3,
        classOf \in [{"A", "B", "C"} -> {"A", "B", "C"}] :
       /\ \A n \in {"A", "B"} : classOf[n] = n
       /\ input' = [theme |-> "instances", names |-> names, size |-> size, classOf |-> classOf]

Age == <<(<<"@", "age">>)>>
ZipPath == <<(<<"@", "address">>), <<"@", "zip">>>>
Ages == {Query!Num(1), Query!Num(2), Query!Bool(TRUE), Query!Nil}
Address(zip) == (<<(<<"@", "address">>)>> :> Query!Dict(zip))
Records ==
  {<<>>} \cup {(Age :> v) : v \in Ages}
  \cup {<<(<<"age">>)>> :> Query!Num(1), ZipPath :> Query!Num(1),
        Address(<<(<<"@", "zip">>)>> :> Query!Num(1)),
        (Age :> Query!Num(1)) @@ (<<(<<"address">>)>> :> Query!Dict(<<(<<"zip">>)>> :> Query!Num(2)))}
Predicates == [path : {Age, ZipPath}, op : Query!Ops,
               value : {Query!Num(1), Query!Num(2), Query!Bool(TRUE)}]

CodecAtoms == {Codec!Atom("null"), Codec!Atom("1"), Codec!Text(<<>>), Codec!Text(<<"x">>)}
              \cup {Codec!Text(<<a, b>>) : a, b \in {"quote", "bs", "lf", "vt"}}
CodecValues == CodecAtoms \cup {Codec!ListOf(<<>>), Codec!MapOf(<<>>)}
               \cup {Codec!ListOf(<<v, Codec!Atom("1")>>) : v \in CodecAtoms}
               \cup {Codec!MapOf(<< <<(<<"x">>), v>> >>) : v \in CodecAtoms}
CodecRecords == {Codec!MapOf(<< <<k, v>> >>) : k \in {<<"x">>, <<"bs", "quote">>}, v \in CodecValues}

QueryInputs ==
  \/ \E col \in SeqsUpTo(Records, 2), p, q \in Predicates, chunk \in 1..2 :
       /\ q.op \in {"gt", "neq"} /\ q.value = Query!Num(1)
       /\ input' = [theme |-> "query", col |-> col, p |-> p, q |-> q, chunk |-> chunk]
  \/ \E col, elements \in SeqsUpTo({(Age :> v) : v \in Ages}, 2) :
       input' = [theme |-> "upsert", col |-> col, path |-> Age, elements |-> elements]
  \/ \E r \in CodecRecords :
     \E more \in {<<>>, <<Codec!MapOf(<<>>)>>,
                  <<Codec!MapOf(<< <<(<<"x">>), Codec!Text(<<"lf", "vt">>)>> >>)>>} :
       input' = [theme |-> "records", records |-> <<r>> \o more]

-----------------------------------------------------------------------------
OldClass == [protocol |-> <<(<<"A">>), "Protocol">>, class |-> <<"A">>, async |-> FALSE,
             returns |-> {}, args |-> {}]

ToolInputs ==
  \/ \E name \in SeqsUpTo({"a", "b", "A", "1", "_"}, 3) \ {<<>>},
        args \in {<<>>, <<(<<"a">>)>>, <<(<<"a">>), <<"a", "_", "b">>>>} :
       input' = [theme |-> "names", name |-> name, args |-> args,
                others |-> {<<"A", "b">>, <<"A", "B">>, <<"A", "1">>, <<"a", "b">>}]
  \/ \E classes \in {c \in SeqsUpTo([protocol : {<<(<<"A">>), "Protocol">>},
                                     class : {<<"A">>, <<"a">>, <<"B">>}, async : BOOLEAN,
                                     returns : SUBSET {<<"A">>, <<"B">>}, args : {{}}], 2) :
                       /\ Len(c) = 2 => c[1].class # c[2].class
                       /\ \A t \in UNION {c[i].returns : i \in DOMAIN c} :
                            \E i \in DOMAIN c : c[i].class = t},
        dir \in UNION {[S -> {Gen!Own, Gen!Wrapper(OldClass)}] :
                         S \in SUBSET {<<(<<"a">>), "py">>, <<(<<"c">>), "py">>}},
        clean \in BOOLEAN :
       input' = [theme |-> "package", dir |-> dir, classes |-> classes, clean |-> clean]
  \/ \E one, two \in [name : {<<"a">>, <<"_", "a">>, <<"b">>}, kind : {"property", "class", "instance"},
                       args : {<<>>, <<[name |-> <<"a">>, plain |-> TRUE]>>},
                       selector : {Gen!NoSelector, Gen!Keywords(<<(<<"b">>)>>)},
                       returns : {"value", "self", "other"}] :
     \E members \in {<<one>>, <<two, one>>}, async, known, bound \in BOOLEAN,
        value \in {[is |-> is, oop |-> 1] : is \in {"reference", "string", "source", "list"}} :
       /\ two.name # one.name /\ two.returns = "self" /\ two.kind # "class"
       /\ two.name = <<"_", "a">> => two.args = <<>>
       /\ one.selector = Gen!NoSelector \/ one.args # <<>>
       /\ input' = [theme |-> "wrapper", async |-> async, known |-> known, bound |-> bound,
                   protocol |-> [attributes |-> <<(<<"b">>)>>, members |-> members],
                   values |-> IF one.args = <<>> THEN <<>> ELSE <<value>>]

Rows == SeqsUpTo([key : {<<"s", "a">>, <<"s", "b">>}, ops : 0..2], 2)
Spec1(key, value) == [key |-> key, value |-> value]
TheLimits ==
  [operation : {<<>>, <<Spec1(<<"s", "a">>, 50)>>}, suite : {<<>>}, global : {Bench!Nothing, 34}]
  \cup [operation : {<<Spec1(<<"s", "a">>, 10), Spec1(<<"s", "a">>, 50)>>},
        suite : {<<Spec1("s", 10)>>, <<Spec1("s", Bench!Nothing)>>}, global : {34}]
Reports == [stone : {"stone"}, suites : {<<1>>, <<2>>}, rows : SeqsUpTo([key : {<<"s", "a">>}, ops : {1}], 1)]
Paths == {<<"baselines", "a">>, <<"baselines", "b">>, <<"tmp", "a">>}

BenchmarkInputs ==
  \/ \E suite \in Bench!Suites, lost \in BOOLEAN :
     \E at \in 0..Len(Bench!Steps(suite).setup \o Bench!Steps(suite).body) :
       input' = [theme |-> "suite", suite |-> suite, failing |-> at, lost |-> lost]
  \/ \E base, cand, slower \in Rows, limits \in TheLimits :
       /\ \A i \in DOMAIN slower : slower[i].ops < 2
       /\ base # <<>> /\ base[1].key = <<"s", "a">>
       /\ input' = [theme |-> "verdict", base |-> base, cand |-> cand, slower |-> slower,
                   limits |-> limits]
  \/ \E files \in UNION {[S -> Reports] : S \in SUBSET Paths},
        entries \in SeqsUpTo({"plain", "dot"} \X Paths, 2), source \in Paths,
        copyTo \in {Bench!NoCopy, <<"baselines", "b">>} :
       input' = [theme |-> "baselines", repo |-> [files |-> files, entries |-> entries],
                source |-> source, copyTo |-> copyTo]

ReleaseFiles ==
  {Rel!Sdist, [kind |-> "other", version |-> 1, tags |-> {}]}
  \cup [kind : {"wheel"}, version : {1, 2}, tags : {{"m"}, {"w"}, {"m", "w"}, {"any"}}]
GoodFiles == {Rel!Sdist} \cup [kind : {"wheel"}, version : {1}, tags : {{"m"}, {"w"}}]
Page(is, files) == [is |-> is, files |-> files, described |-> Rel!Descriptions]
IndexPages ==
  {Page(is, {}) : is \in {"shown", "wrong", "other", "down", "garbled"}}
  \cup {Page("shown", files) :
          files \in {{Rel!Sdist}, GoodFiles, GoodFiles \ {Rel!Sdist}, Rel!PureFiles}}
Installed(is, version, native) == [is |-> is, version |-> version, native |-> native]
Working == Installed("shown", 1, TRUE)
Attempts(pages, installed) ==
  [project : pages, version : pages, simple : pages, installed : installed]
SomeAttempts ==
  Attempts(IndexPages, {Working})
  \cup Attempts({Page("shown", GoodFiles), Page("shown", Rel!PureFiles)},
                {Installed("shown", v, n) : v \in 1..2, n \in BOOLEAN}
                \cup {Installed(is, 1, TRUE) : is \in {"other", "down", "garbled"}})
FewAttempts ==
  Attempts({Page("down", {}), Page("shown", GoodFiles)}, {Working, Installed("down", 1, TRUE)})
  \cup Attempts({Page("garbled", {})}, {Working})
WaitedPages ==
  {Page("down", {}), Page("garbled", {}), Page("other", {}), Page("wrong", GoodFiles),
   Page("wrong", {}), Page("shown", {}), Page("shown", {Rel!Sdist}), Page("shown", GoodFiles),
   [is |-> "shown", files |-> GoodFiles, described |-> {"classifiers"}]}

ReleaseInputs ==
  \/ \E files \in SeqsUpTo(ReleaseFiles, 2)
                     \cup {<<Rel!Sdist>> \o more : more \in SeqsUpTo(ReleaseFiles, 3)},
        others \in SeqsUpTo(ReleaseFiles, 1) :
       input' = [theme |-> "upload", files |-> files, others |-> others]
  \/ \E changelog \in SUBSET (1..2),
        tag \in [prefix : {"none", "tags", "heads"}, vs : 0..2, version : 0..2] :
       input' = [theme |-> "tag", changelog |-> changelog, tag |-> tag]
  \/ \E package \in {"native", "pure"}, install \in BOOLEAN,
        history \in SeqsUpTo(SomeAttempts, 1) \cup [1..2 -> FewAttempts] :
       input' = [theme |-> "index", install |-> install,
                histories |-> <<[package |-> package, history |-> history]>>]
  \/ \E asked \in SUBSET {"directory", "url", "version"},
        files \in {<<>>, SetToSeq(GoodFiles), SetToSeq(GoodFiles \ {Rel!Sdist})},
        waited \in SeqsUpTo(WaitedPages, 3) :
       input' = [theme |-> "native", asked |-> asked, files |-> files, waited |-> waited]

Globals == UNION {[K -> {"app", Stones!Fresh}] :
                    K \in SUBSET (Stones!Artifacts \cup {"Mine"})}
Instvars == SeqsUpTo({"a", "b", "c"}, 2)
Manifests ==
  {<<[id |-> "p", deps |-> <<>>, down |-> TRUE, sum |-> 0],
     [id |-> "q", deps |-> <<"p">>, down |-> down, sum |-> 1]>> : down \in BOOLEAN}
\* Two steps that depend on anything, and three.
StepsNamed(names, depends) == [id : names, deps : depends, down : {TRUE}, sum : {0}]
Depends == SeqsUpTo({"p", "q", "r"}, 1) \cup {<<"r", "p">>, <<"q", "p">>, <<"q", "r">>, <<"x">>}
TheManifests ==
  SeqsUpTo(StepsNamed({"p", "q"}, SeqsUpTo({"p", "q", "x"}, 2)), 2)
  \cup {<<one, two, three>> : one \in StepsNamed({"p"}, Depends), two \in StepsNamed({"q"}, Depends),
                               three \in StepsNamed({"r"}, Depends)}
TheStones ==
  [roots : {{}, {"r"}}, classes : {<<>>, ("C" :> [instvars |-> <<"a">>, count |-> 1])},
   record : UNION {[X -> [sum : {0, 1, 2}, at : 1..2]] : X \in SUBSET {"p", "q"}}]

SchemaInputs ==
  \/ \E globals \in Globals,
        commands \in SeqsUpTo([command : {"apply", "status", "dry"}, fails : BOOLEAN], 2) :
       input' = [theme |-> "bootstrap", globals |-> globals, commands |-> commands]
  \/ \E remote, annotations, properties \in Instvars :
       /\ Len(remote) = 2 => remote[1] # remote[2]
       /\ input' = [theme |-> "classdiff", remote |-> remote, annotations |-> annotations,
                   properties |-> properties]
  \/ \E one, two \in TheStones, manifest \in Manifests :
       /\ two.roots = {} /\ one.classes = two.classes
       /\ input' = [theme |-> "fingerprint", one |-> one, two |-> two, manifest |-> manifest]
  \/ \E scripts \in SeqsUpTo(SeqsUpTo([op : {"create", "drop"}, always : BOOLEAN], 2), 2),
        found \in BOOLEAN :
       input' = [theme |-> "dryrun", scripts |-> scripts, found |-> found]
  \/ PlanInputs(TheManifests)
  \/ \E files \in SUBSET ((1..3) \X {"a", "b"}), number \in 0..4 :
       input' = [theme |-> "scaffold", files |-> files, number |-> number]

-----------------------------------------------------------------------------
(* Behaviours.                                                             *)

sharedVars == <<blocks, raising, held, changes, leaked, stuck, unsaved>>

Init ==
  /\ SharedInit /\ AsyncInit
  /\ \/ input = [theme |-> "none"] /\ policy = "MANUAL"
     \/ input = [theme |-> "shared"] /\ policy = "MANUAL"
     \/ input = [theme |-> "async"]

Computes ==
  \/ ValueInputs \/ CallInputs \/ CollectionInputs \/ QueryInputs
  \/ ToolInputs \/ BenchmarkInputs \/ ReleaseInputs \/ SchemaInputs

\* What does not take its turn stays as it is.
Next ==
  \/ input.theme = "none" /\ Computes /\ UNCHANGED <<sharedVars, asyncVars>>
  \/ input.theme = "shared" /\ SharedNext /\ UNCHANGED <<input, asyncVars>>
  \/ input.theme = "async" /\ AsyncNext /\ UNCHANGED <<input, sharedVars>>

Spec == Init /\ [][Next]_<<input, sharedVars, asyncVars>>

\* One of the sessions, and not both, may have levels left over.
LeakBound == Cardinality({s \in Sessions : leaked[s]}) <= 1

-----------------------------------------------------------------------------
(* Properties.                                                             *)

\* Texts come back from the stone as they were, fetched many at a time with
\* their separators and line ends in them (_smalltalk_batch.py), and records as
\* they were written, as JSON in a Smalltalk source (gsquery.py).
TextsAgree ==
  /\ input.theme = "batch" => Batch!BatchIsFaithful(input.t1, input.t2)
  /\ input.theme = "records" => Codec!RecordsComeBack(input.records)

\* What is done in one call for many objects, or under observation, is what
\* would be done without: sends in bulk, dictionaries sent, instances listed and
\* objects dumped in batches, calls traced and counted (client.py,
\* observability.py, concurrency.py, inspection.py).
CallsAgree ==
  /\ input.theme = "observation" =>
       Sends!ObservationIsSilent(input.observed, input.hooks, input.result)
  /\ input.theme = "metrics" => Sends!MetricsKeepLabels(input.requests)
  /\ input.theme = "bulk" => Sends!BulkIsEach(<<0, 0>>, input.list, input.receivers)
  /\ input.theme = "dicts" => Sends!DictsComeBack(input.items)
  /\ input.theme = "instances" =>
       Sends!InstancesListedOnce(input.names, input.classOf,
                                  [A |-> <<1, 2>>, B |-> <<>>, C |-> <<3>>], input.size)
  /\ input.theme = "dump" => Dumps!DumpShowsPaths(input.graph, input.class, input.ask, "o1")

\* What is found in a collection of records does not depend on the order of the
\* predicates or on the chunks it is read in, and keys stay unique (gsquery.py).
QueriesAgree ==
  /\ input.theme = "query" => Query!QueriesCommute(input.col, input.p, input.q, input.chunk)
  /\ input.theme = "upsert" => Query!KeysStayUnique(input.col, input.path, input.elements)

\* A generated package is up to date once written, whatever was in its
\* directory, keeps what is not its own and imports what it uses; and its
\* wrappers call what their class lists (codegen.py).
PackagesAgree ==
  /\ input.theme = "names" => Gen!NamesAgree(input.name, input.others, input.args)
  /\ input.theme = "package" =>
       /\ Gen!PackageStaysInStep(input.dir, input.classes, input.clean)
       /\ Gen!ImportsResolve(input.classes)
  /\ input.theme = "wrapper" =>
       Gen!WrappersSendTheirCalls(input.protocol, input.async, input.known, input.values,
                                  input.bound)

\* What is uploaded is a complete release under its own tag, and a release is
\* called verified when, and only when, an attempt showed and installed it
\* (release_metadata.py, publish_verify.py).
ReleasesAgree ==
  /\ input.theme = "upload" => Rel!UploadsAreComplete(input.files, input.others)
  /\ input.theme = "tag" => Rel!TagsNameTheirVersion({1, 2}, input.changelog, input.tag)
  /\ input.theme = "index" => Rel!VerifiedMeansShown(input.install, input.histories)
  /\ input.theme = "native" =>
       Rel!NativeCheckMeansShown(input.asked, input.files, input.waited)

\* The tools that work on a stone leave in it what they should: benchmarks clean
\* up after themselves, slower results are judged no better and baselines are
\* found again; setting a stone up keeps what is there, the suggested changes of
\* a class reconcile it, and stones with one fingerprint migrate alike
\* (benchmarks.py, benchmark_compare.py, bootstrap.py, migrations.py).
ToolsAgree ==
  /\ input.theme = "suite" => Bench!SuiteCleansUp(input.suite, input.failing, input.lost)
  /\ input.theme = "verdict" =>
       LET Report(rows) == [stone |-> "stone", suites |-> <<1>>, rows |-> rows] IN
       Bench!VerdictFollowsSpeed(Report(input.base), Report(input.cand),
                                 Report(input.slower), input.limits)
  /\ input.theme = "baselines" => Bench!BaselinesStayFound(input.repo, input.source, input.copyTo)
  /\ input.theme = "bootstrap" => Stones!BootstrapKeepsData(input.globals, input.commands)
  /\ input.theme = "classdiff" =>
       Stones!ClassDiffReconciles(input.remote, input.annotations, input.properties)
  /\ input.theme = "fingerprint" =>
       Stones!FingerprintTellsStones(input.one, input.two, {"r"}, {"C"}, input.manifest,
                                     [p |-> 1, q |-> 2])
  /\ input.theme = "dryrun" => Stones!DryRunForetells(input.scripts, input.found)
  /\ input.theme = "scaffold" => Stones!ScaffoldsAdd(input.files, "a", input.number)
=============================================================================
