------------------------------ MODULE Benchmarks ------------------------------
(***************************************************************************)
(* The benchmark tools: what a suite leaves in the stone (benchmarks.py),   *)
(* how two reports are compared (benchmark_compare.py), and how the         *)
(* manifest of committed baselines is kept and searched                     *)
(* (benchmark_baseline_register.py, benchmark_baselines.py).                *)
(***************************************************************************)
EXTENDS Integers, Sequences, FiniteSets, SequencesExt

-----------------------------------------------------------------------------
(* A suite: steps on one key of the stone.  "mine" is the session's view,  *)
(* "durable" what is committed.                                            *)

\* What each suite does before its try block and in it: the key is written (a
\* collection is also indexed, a hash filled), committed, and read again from a
\* new view after every abort.
Reads(n) == FlattenSeq([i \in 1..n |-> <<"abort", "read">>])
PersistentRootSuite == [setup |-> <<>>, body |-> <<"write", "commit">> \o Reads(1)]
GSCollectionSuite == [setup |-> <<>>, body |-> <<"write", "index", "commit">> \o Reads(4)]
GStoreSuite == [setup |-> <<>>, body |-> <<"write", "commit">> \o Reads(1)]
RCHashSuite == [setup |-> <<"write", "commit">>, body |-> <<"fill", "commit">> \o Reads(1)]

Suites == {"persistent_root", "gscollection", "gstore", "rchash"}
Steps(suite) == CASE suite = "persistent_root" -> PersistentRootSuite
                  [] suite = "gscollection" -> GSCollectionSuite
                  [] suite = "gstore" -> GStoreSuite
                  [] suite = "rchash" -> RCHashSuite

MutantCleanup(suite, s) ==
  <<"abort">> \o IF ~s.durable THEN <<>> ELSE <<"delete">>

Cleanup(suite, s) ==
  <<"abort">> \o IF suite \in {"persistent_root", "rchash"} /\ ~s.durable
                 THEN <<>> ELSE <<"delete", "commit">>

Perform(s, step) ==
  CASE step = "write" -> [s EXCEPT !.mine = TRUE]
    [] step = "delete" -> [s EXCEPT !.mine = FALSE]
    [] step = "commit" -> [s EXCEPT !.durable = s.mine]
    [] step = "abort" -> [s EXCEPT !.mine = s.durable]
    [] step \in {"read", "index", "fill"} -> s

\* The steps in order up to the failing one (0: none), which is still done
\* when only its answer was lost.
PerformAll(s, steps, failing, lost) ==
  FoldLeft(Perform, s,
           IF failing = 0 THEN steps
           ELSE SubSeq(steps, 1, failing - IF lost THEN 0 ELSE 1))

\* A suite whose step "failing" fails.  A failure of the set-up is outside the
\* try block: nothing is cleaned up.
RunSuite(suite, failing, lost) ==
  LET steps == Steps(suite).setup \o Steps(suite).body
      s == PerformAll([mine |-> FALSE, durable |-> FALSE], steps, failing, lost) IN
  IF failing \in 1..Len(Steps(suite).setup) THEN s
  ELSE PerformAll(s, Cleanup(suite, s), 0, FALSE)

\* Wherever a suite fails, before or after the failing step took effect, its
\* key is gone from the stone at the end; the one exception is rchash, whose
\* first commit is not covered by the clean-up.
SuiteCleansUp(suite, failing, lost) ==
  ~(suite = "rchash" /\ failing = 2 /\ lost)
     => ~RunSuite(suite, failing, lost).durable

-----------------------------------------------------------------------------
(* Reports: [stone, suites, rows], rows a sequence of [key, ops] with key  *)
(* <<suite, operation>>.                                                   *)

Nothing == -1

\* The last row of a key counts.
ResultIndex(report) ==
  [k \in {report.rows[i].key : i \in DOMAIN report.rows} |->
     (CHOOSE i \in DOMAIN report.rows :
        /\ report.rows[i].key = k
        /\ \A j \in DOMAIN report.rows : report.rows[j].key = k => j <= i)]

OpsOf(report, key) ==
  IF key \in DOMAIN ResultIndex(report)
  THEN report.rows[ResultIndex(report)[key]].ops ELSE Nothing

\* Suites compare without regard to their order.
Sorted(suites) ==
  LET order == SetToSortSeq(DOMAIN suites,
                 LAMBDA i, j : suites[i] < suites[j] \/ (suites[i] = suites[j] /\ i < j)) IN
  [i \in DOMAIN suites |-> suites[order[i]]]
MetadataSnapshot(report) == <<report.stone, Sorted(report.suites)>>
Comparable(base, cand) == MetadataSnapshot(base) = MetadataSnapshot(cand)

Status(base, cand) ==
  CASE base = Nothing -> "missing_in_baseline"
    [] base # Nothing /\ cand = Nothing -> "missing_in_candidate"
    [] OTHER -> IF cand > base THEN "improved"
                ELSE IF cand < base THEN "regressed" ELSE "unchanged"

\* limits: [operation, suite, global], the first two functions of what is
\* overridden by name; an operation's own limit counts before its suite's.
EffectiveThreshold(key, limits) ==
  CASE key \in DOMAIN limits.operation -> limits.operation[key]
    [] key \notin DOMAIN limits.operation /\ key[1] \in DOMAIN limits.suite
         -> limits.suite[key[1]]
    [] OTHER -> limits.global

\* No percentage of a baseline of zero, so no limit is ever exceeded.
Exceeds(base, cand, limit) ==
  /\ limit # Nothing
  /\ \/ Status(base, cand) = "missing_in_candidate"
     \/ /\ Status(base, cand) = "regressed"
        /\ base # 0
        /\ 100 * (base - cand) >= limit * base

ThresholdExceededOperations(base, cand, limits) ==
  IF ~Comparable(base, cand) THEN {}
  ELSE {k \in DOMAIN ResultIndex(base) \cup DOMAIN ResultIndex(cand) :
          Exceeds(OpsOf(base, k), OpsOf(cand, k), EffectiveThreshold(k, limits))}

\* NAME=PCT, the last of a name counts; one that is no such text, or negative,
\* ends the command.
ParseThresholdSpecs(specs) ==
  FoldLeft(LAMBDA t, spec : [k \in DOMAIN t \cup {spec.key} |->
                               IF k = spec.key THEN spec.value ELSE t[k]],
           <<>>, specs)
BadSpecs(specs) == \E i \in DOMAIN specs : specs[i].value = Nothing

\* main: the exit code.
CompareMain(base, cand, asked) ==
  LET limits == [operation |-> ParseThresholdSpecs(asked.operation),
                 suite |-> ParseThresholdSpecs(asked.suite), global |-> asked.global] IN
  IF BadSpecs(asked.suite) \/ BadSpecs(asked.operation) THEN 1
  ELSE IF ThresholdExceededOperations(base, cand, limits) # {} THEN 2 ELSE 0

\* The exit code 2 of the comparison is monotone: a candidate that is as slow
\* or slower in every operation, or lost some, is refused wherever the faster
\* one is, and a report compared with itself passes every limit.
VerdictFollowsSpeed(base, cand, slower, asked) ==
  /\ CompareMain(base, base, asked) # 2
  /\ (/\ Comparable(cand, slower)
      /\ \A k \in DOMAIN ResultIndex(base) : OpsOf(slower, k) <= OpsOf(cand, k))
     => (CompareMain(base, cand, asked) = 2 => CompareMain(base, slower, asked) = 2)

-----------------------------------------------------------------------------
(* The manifest: [files, entries].  files maps paths <<directory, name>> to *)
(* reports; an entry is <<spelling, path>>, for "x.json", "./x.json" and    *)
(* "/top/x.json" are one file.                                             *)

Plain(path) == <<"plain", path>>
Failed == <<"SystemExit">>
NoBaseline == <<"none">>

NoCopy == <<"no copy">>

\* To where it was asked for; or else beside the manifest unless it is there
\* already, over any file of that name.
Register(repo, source, copyTo) ==
  LET target == IF copyTo = NoCopy THEN <<"baselines", source[2]>> ELSE copyTo
      files == [p \in DOMAIN repo.files \cup {target} |->
                  IF p = target THEN repo.files[source] ELSE repo.files[p]] IN
  IF source \notin DOMAIN repo.files THEN Failed
  ELSE [files |-> files,
        entries |-> IF Plain(target) \in ToSet(repo.entries) THEN repo.entries
                    ELSE Append(repo.entries, Plain(target))]

\* prune_manifest: dropped, missing and repeated files go, by the file meant.
Prune(repo, drops, removeMissing) ==
  LET goes(i) == LET p == repo.entries[i][2] IN
                 \/ p \in drops
                 \/ (removeMissing /\ p \notin DOMAIN repo.files)
                 \/ \E j \in 1..(i - 1) : repo.entries[j][2] = p IN
  [repo EXCEPT !.entries =
     FoldLeft(LAMBDA kept, i : IF goes(i) THEN kept ELSE Append(kept, repo.entries[i]),
              <<>>, [i \in DOMAIN repo.entries |-> i])]

\* select_baseline: one missing file, or two matches, ends the command.
Select(repo, candidate) ==
  LET matches == {i \in DOMAIN repo.entries :
                    Comparable(repo.files[repo.entries[i][2]], candidate)} IN
  IF \E i \in DOMAIN repo.entries : repo.entries[i][2] \notin DOMAIN repo.files
  THEN Failed
  ELSE CASE matches = {} -> NoBaseline
         [] Cardinality(matches) = 1 -> repo.entries[CHOOSE i \in matches : TRUE][2]
         [] OTHER -> Failed

\* main: first the report that is given, then the pruning that is asked for; an
\* ask is [report, copyTo, drops, prune], the first a sequence of at most one path.
RegisterMain(repo, ask) ==
  LET registered == IF ask.report = <<>> THEN repo
                    ELSE Register(repo, Head(ask.report), ask.copyTo) IN
  IF ask.report # <<>> /\ Head(ask.report) \notin DOMAIN repo.files THEN Failed
  ELSE IF ask.prune \/ ask.drops # {} THEN Prune(registered, ask.drops, ask.prune)
  ELSE IF ask.report = <<>> THEN Failed ELSE registered

MayAnswer(repo) ==
  \A p, q \in {e[2] : e \in ToSet(repo.entries)} \cap DOMAIN repo.files :
    p # q => ~Comparable(repo.files[p], repo.files[q])

\* Registering with --prune-missing: however the manifest was spelled and
\* whichever files are gone, unless two baselines have the same metadata a
\* lookup of the registered report then finds it, and pruning once more
\* changes nothing.  A lookup of another report that found a baseline before
\* finds it still, unless the new file was copied over that one.
BaselinesStayFound(repo, source, copyTo) ==
  LET pruned == RegisterMain(repo, [report |-> <<source>>, copyTo |-> copyTo,
                                    drops |-> {}, prune |-> TRUE])
      target == IF copyTo = NoCopy THEN <<"baselines", source[2]>> ELSE copyTo IN
  source \in DOMAIN repo.files /\ MayAnswer(pruned) =>
    /\ Select(pruned, repo.files[source]) = target
    /\ RegisterMain(pruned, [report |-> <<>>, copyTo |-> NoCopy, drops |-> {}, prune |-> TRUE])
         = pruned
    /\ \A p \in DOMAIN repo.files :
         Select(repo, repo.files[p]) \notin {Failed, NoBaseline, target}
           => Select(pruned, repo.files[p]) = Select(repo, repo.files[p])
=============================================================================
