-------------------------------- MODULE Schema --------------------------------
(***************************************************************************)
(* What gemstone-py keeps in a stone besides data, and how it is set up    *)
(* and compared: the bootstrap script (bootstrap.py, _gemstone_side), and  *)
(* the class diff, the schema fingerprint, the recorded dry run and the    *)
(* scaffold of migrations.py.                                              *)
(***************************************************************************)
EXTENDS MigrationPlan

-----------------------------------------------------------------------------
(* Bootstrap.  UserGlobals maps keys to what is under them.                *)

Marker == "GemstonePyBootstrapVersion"
Roots == {"GStoreRoot", "GSQueryRoot"}
Artifacts == Roots \cup {Marker}
BootstrapVersion == "version 1"
Fresh == "fresh"

\* audit, of the artifacts that have a key.
Audit(globals) == Artifacts \cap DOMAIN globals

\* init.st: missing roots are created, the marker is always written.
RunScript(globals) ==
  [k \in DOMAIN globals \cup Artifacts |->
     IF k = Marker THEN BootstrapVersion
     ELSE IF k \in DOMAIN globals THEN globals[k] ELSE Fresh]

\* bootstrap.
Bootstrap(globals) ==
  LET created == Audit(RunScript(globals)) \ Audit(globals)
  IN [globals |-> RunScript(globals), created |-> created, applied |-> created # {}]

\* gemstone-bootstrap: what is committed at the end of the command.  An
\* evaluation that fails aborts the session.
BootstrapCommand(globals, command, fails) ==
  IF command # "apply" \/ fails THEN globals ELSE Bootstrap(globals).globals

\* After any commands in a row every key keeps what was under it, only the
\* marker is brought up to date; once the script has run all artifacts are
\* there, a second run creates nothing, and what the first one said it created
\* is what was missing.
BootstrapKeepsData(globals, commands) ==
  LET after == FoldLeft(LAMBDA g, c : BootstrapCommand(g, c.command, c.fails),
                        globals, commands)
      once == Bootstrap(globals)
  IN /\ \A k \in DOMAIN globals \ {Marker} : k \in DOMAIN after /\ after[k] = globals[k]
     /\ \A k \in DOMAIN after \ DOMAIN globals : k \in Artifacts
     /\ (\E i \in DOMAIN commands : commands[i].command = "apply" /\ ~commands[i].fails)
          => /\ Audit(after) = Artifacts /\ after[Marker] = BootstrapVersion
             /\ ~Bootstrap(after).applied
     /\ once.created = Artifacts \ DOMAIN globals

-----------------------------------------------------------------------------
(* Class diff.                                                             *)

DistinctOf(names) ==
  FoldLeft(LAMBDA seen, n : IF n \in ToSet(seen) THEN seen ELSE Append(seen, n), <<>>, names)

Without(names, others) == SelectSeq(names, LAMBDA n : n \notin ToSet(others))

\* _local_instvars, of annotations and properties without an underscore.
LocalInstvars(annotations, properties) == DistinctOf(annotations \o properties)

\* diff_class.  What it suggests takes one name in or out at a time.
DiffClass(remote, annotations, properties) ==
  LET local == LocalInstvars(annotations, properties)
      missing == Without(local, remote)
  IN [missing |-> missing, extra |-> Without(remote, local),
      upgrade |-> missing, downgrade |-> Reverse(missing)]

AddInstvar(names, n) == IF n \in ToSet(names) THEN names ELSE Append(names, n)
RemoveInstvar(names, n) == SelectSeq(names, LAMBDA x : x # n)

\* The suggested upgrade leaves nothing missing and what the class has
\* untouched, those included that the Python class does not know; the suggested
\* downgrade after it leads back to where it was.
ClassDiffReconciles(remote, annotations, properties) ==
  LET diff == DiffClass(remote, annotations, properties)
      upgraded == FoldLeft(AddInstvar, remote, diff.upgrade)
      again == DiffClass(upgraded, annotations, properties)
  IN /\ again.missing = <<>> /\ again.extra = diff.extra
     /\ SubSeq(upgraded, 1, Len(remote)) = remote
     /\ FoldLeft(RemoveInstvar, upgraded, diff.downgrade) = remote

-----------------------------------------------------------------------------
(* The fingerprint.  A stone is [roots, classes, record]: its root keys,   *)
(* [instvars, count] of its classes, and [sum, at] of what was applied.    *)

\* _current_version_from_applied: what was applied last, by its time, then by
\* its id.
CurrentVersion(record, rank) ==
  IF record = <<>> THEN NoStep
  ELSE CHOOSE x \in DOMAIN record : \A y \in DOMAIN record :
         \/ record[y].at < record[x].at
         \/ record[y].at = record[x].at /\ rank[y] <= rank[x]

Sums(record) == [x \in DOMAIN record |-> record[x].sum]
NoManifest == <<"none">>

\* _class_fingerprint.  A class that cannot be described is as good as missing.
ClassFingerprint(stone, c) ==
  IF c \in DOMAIN stone.classes THEN stone.classes[c] ELSE [instvars |-> <<>>, count |-> -1]

\* schema_fingerprint: what the digest is taken of; when the plan fails there
\* is none.
SchemaFingerprint(stone, keys, names, manifest, rank) ==
  [roots |-> [k \in keys |-> k \in stone.roots],
   classes |-> [c \in names |-> ClassFingerprint(stone, c)],
   current |-> CurrentVersion(stone.record, rank),
   applied |-> DOMAIN stone.record,
   pending |-> IF manifest = NoManifest THEN Success(<<>>)
               ELSE Intended("upgrade", manifest, Sums(stone.record), NoStep)]

\* assert_schema_fingerprint: whether it returns, asked for another's digest.
AssertSchemaFingerprint(stone, expected, keys, names, manifest, rank) ==
  LET fingerprint == SchemaFingerprint(stone, keys, names, manifest, rank) IN
  fingerprint.pending.error = "none" /\ fingerprint = expected

\* migration_status.
Status(record, manifest, rank) ==
  [current |-> CurrentVersion(record, rank), applied |-> DOMAIN record,
   pending |-> Intended("upgrade", manifest, Sums(record), NoStep).plan]

\* A stone that passes for another by its digest, taken with the manifest,
\* migrates as that one does: every
\* upgrade and downgrade intends the same steps on both (without the manifest a
\* changed file would not show).  Their classes differ from a Python class in
\* the same names, and what is applied and what is pending make up the manifest.
FingerprintTellsStones(one, two, keys, names, manifest, rank) ==
  LET Plans(stone) == [d \in {"upgrade", "downgrade"}, target \in {NoStep, Base} \cup IdsOf(manifest) |->
                         Intended(d, manifest, Sums(stone.record), target)]
      Diffs(stone) == [c \in names |->
                         DiffClass(ClassFingerprint(stone, c).instvars, <<"a">>, <<"b">>)]
      Splits(status) ==
        /\ status.applied \cap ToSet(status.pending) = {}
        /\ status.applied \cup ToSet(status.pending) = IdsOf(manifest)
        /\ one.record # <<>> => status.current \in status.applied
      expected == SchemaFingerprint(two, keys, names, manifest, rank)
  IN expected.pending.error = "none"
       /\ SchemaFingerprint(one, keys, names, manifest, rank).pending.error = "none" =>
     /\ AssertSchemaFingerprint(one, expected, keys, names, manifest, rank)
          => Plans(one) = Plans(two) /\ Diffs(one) = Diffs(two)
     /\ Splits(Status(one.record, manifest, rank))

-----------------------------------------------------------------------------
(* Dry runs and scaffolds.  A step's callback is a sequence of operations, *)
(* each done always or only when a query before it found something.        *)

\* RecordingMigrationSession: every query finds nothing.
Recorded(script) == SelectSeq(script, LAMBDA o : o.always)
Live(script, found) == SelectSeq(script, LAMBDA o : o.always \/ found)

\* _record_pending_steps.
RecordPending(scripts) == FlattenSeq([i \in DOMAIN scripts |-> Recorded(scripts[i])])

\* A dry run lists operations an upgrade does in that order, all of them when
\* no query of the migrations decides anything.
DryRunForetells(scripts, found) ==
  LET live == FlattenSeq([i \in DOMAIN scripts |-> Live(scripts[i], found)])
      recorded == RecordPending(scripts)
  IN /\ recorded = SelectSeq(live, LAMBDA o : o.always)
     /\ ~found => recorded = live

\* scaffold: the directory's files <<number, slug>> after it.  0 stands for no
\* number.
NextNumber(files) == 1 + (IF files = {} THEN 0
                          ELSE CHOOSE n \in {f[1] : f \in files} :
                                 \A f \in files : f[1] <= n)

Scaffold(files, slug, number) ==
  LET file == <<IF number = 0 THEN NextNumber(files) ELSE number, slug>>
  IN IF file \in files THEN Failure("exists") ELSE Success(<<file>>)

\* A file that is there is never written over, and without a number given the
\* new one comes after all of them.
ScaffoldsAdd(files, slug, number) ==
  LET made == Scaffold(files, slug, number) IN
  IF made.error = "none"
  THEN made.plan[1] \notin files /\ (number = 0 => \A f \in files : f[1] < made.plan[1][1])
  ELSE number # 0
=============================================================================
