------------------------------- MODULE Release -------------------------------
(***************************************************************************)
(* The release guards: which files a release of the native package may     *)
(* consist of (release_metadata.py), and how a release is looked for on    *)
(* the package indexes while their pages catch up (publish_verify.py).     *)
(*                                                                         *)
(* A file is [kind, version, tags]: "sdist", "wheel" or "other", and the   *)
(* platform tags in its name.  A page shows a set of files, is down, or    *)
(* answers something that is not JSON.                                     *)
(***************************************************************************)
EXTENDS Integers, Sequences, FiniteSets, SequencesExt

CONSTANTS
  Version,   \* the version that is released
  Markers    \* NATIVE_REQUIRED_WHEEL_MARKERS: a set of sets of tags

Sdist == [kind |-> "sdist", version |-> Version, tags |-> {}]
Wheels(files) == {f \in ToSet(files) : f.kind = "wheel"}
Matches(files, markers) == {f \in Wheels(files) : markers \subseteq f.tags}

\* validate_native_artifact_filenames.
ArtifactsFit(files, exact) ==
  /\ files # <<>> /\ Cardinality(ToSet(files)) = Len(files)
  /\ Sdist \in ToSet(files)
  /\ \A markers \in Markers :
       /\ Matches(files, markers) # {}
       /\ exact => Cardinality(Matches(files, markers)) = 1
  /\ exact => /\ Len(files) = 1 + Cardinality(Markers)
              /\ \A f \in Wheels(files) : f.version = Version

\* What a complete release is: the sdist, and one wheel of this version for
\* each platform.
Complete(files) ==
  /\ Sdist \in files
  /\ \A markers \in Markers :
       \E f \in files : f.kind = "wheel" /\ f.version = Version /\ markers \subseteq f.tags

\* What may be uploaded is a complete release and nothing else, provided no
\* wheel is for two platforms at once (the room of the one it stands in for
\* could then be taken by any file); what is accepted for an upload is also
\* accepted when it is found on an index later, together with anything else.
UploadsAreComplete(files, others) ==
  LET single == \A f \in Wheels(files) :
                  \A m1, m2 \in Markers : m1 \cup m2 \subseteq f.tags => m1 = m2
      more == files \o SelectSeq(others, LAMBDA f : f \notin ToSet(files))
  IN ArtifactsFit(files, TRUE) =>
       /\ Complete(ToSet(files))
       /\ single => \A f \in ToSet(files) :
                      f = Sdist \/ \E markers \in Markers : Matches(files, markers) = {f}
       /\ Cardinality(ToSet(others)) = Len(others) => ArtifactsFit(more, FALSE)

-----------------------------------------------------------------------------
(* Versions, tags and the changelog.  A tag is [prefix, vs, version]: the  *)
(* kind of ref, the number of "v" before its version, and the version.     *)

NoTag == [prefix |-> "none", vs |-> 0, version |-> 0]
Unlike == -1

\* normalize_tag takes "refs/tags/" and one "v" away.
NormalizeTag(tag) ==
  IF tag.prefix # "heads" /\ tag.vs <= 1 THEN tag.version ELSE Unlike

\* validate_release_metadata; an empty tag is as good as none.
MetadataFits(version, changelog, tag) ==
  version \in changelog /\ (tag # NoTag => NormalizeTag(tag) = version)

\* A tag releases one version at most, the project's, and only with its entry
\* in the changelog; a tag and its full ref release the same.
TagsNameTheirVersion(versions, changelog, tag) ==
  tag # NoTag =>
    \A v1, v2 \in versions :
      MetadataFits(v1, changelog, tag) /\ MetadataFits(v2, changelog \cup {v2}, tag)
        => /\ v1 = v2 /\ v1 \in changelog
           /\ MetadataFits(v1, changelog, [tag EXCEPT !.prefix = "tags"])

-----------------------------------------------------------------------------
(* Looking for a release.  A page is [is, files, described]: "shown",      *)
(* "wrong" (about another package or version), "other" (JSON, but no       *)
(* object), "down" (OSError) or "garbled" (no JSON or no UTF-8, whose      *)
(* ValueError is neither retried nor reported); the files it lists for     *)
(* this version; and which of the required entries about the package it    *)
(* has in full.  An attempt is [project, version, simple, installed]: the  *)
(* three pages, and what pip installs.                                     *)

PureFiles == {Sdist, [kind |-> "wheel", version |-> Version, tags |-> {"any"}]}

\* validate_expected_files: the files that must be on the simple page too, or
\* none when it refuses.  For the native package these are all files of the project page.
ExpectedFiles(package, files) ==
  IF package = "pure" THEN IF PureFiles \subseteq files THEN PureFiles ELSE {}
  ELSE IF ArtifactsFit(SetToSeq(files), FALSE) THEN files ELSE {}

Unreadable == {"down", "garbled"}

\* fetch_text and fetch_json, or what is raised instead of the page.
FetchText(page) == IF page.is \in Unreadable THEN page.is ELSE "ok"
FetchJson(page) == IF page.is = "other" THEN "refused" ELSE FetchText(page)

\* release_files_from_project_payload, release_files_from_version_payload and
\* filenames_from_file_entries: a page about something else is refused, and so
\* is one that lists no file, which neither package can do without.
FilesOf(page) == IF page.is = "shown" THEN page.files ELSE {}

\* install_package with its probe, whose exit status is that of run_checked.
\* found is [is, version, native]: "down" when a command fails, "other" when the
\* probe prints no object, "garbled" when it prints no JSON or the virtualenv
\* gets no pip (CalledProcessError).
InstallPackage(package, found) ==
  IF found.is # "shown" THEN found.is
  ELSE IF found.version = Version /\ (package = "native" => found.native) THEN "ok"
  ELSE "refused"

\* verify_index: project page, version page, simple page, then the install
\* unless it is skipped.
VerifyIndex(package, install, pages) ==
  LET expected == ExpectedFiles(package, FilesOf(pages.project)) IN
  IF FetchJson(pages.project) # "ok" THEN FetchJson(pages.project)
  ELSE IF expected = {} THEN "refused"
  ELSE IF FetchJson(pages.version) # "ok" THEN FetchJson(pages.version)
  ELSE IF ExpectedFiles(package, FilesOf(pages.version)) = {} THEN "refused"
  ELSE IF FetchText(pages.simple) # "ok" THEN FetchText(pages.simple)
  ELSE IF ~(expected \subseteq pages.simple.files) THEN "refused"
  ELSE IF install THEN InstallPackage(package, pages.installed) ELSE "ok"

\* Mutant: the last attempt is not made.
MutantVerifyWithRetries(package, install, history) ==
  IF \E i \in 1..(Len(history) - 1) : VerifyIndex(package, install, history[i]) = "ok"
  THEN "ok" ELSE "refused"

\* verify_index_with_retries: the result of the attempt that ends it.  Without
\* an attempt it is refused.
VerifyWithRetries(package, install, history) ==
  LET results == [i \in DOMAIN history |-> VerifyIndex(package, install, history[i])]
      final == {i \in DOMAIN history : results[i] \in {"ok", "garbled"} \/ i = Len(history)}
  IN IF history = <<>> THEN "refused"
     ELSE results[CHOOSE i \in final : \A j \in final : i <= j]

\* main: one package and index after the other, up to the first that fails;
\* the exit status, or the exception that ends the program.
VerifyAll(install, histories) ==
  LET Verdict == [i \in DOMAIN histories |->
                    VerifyWithRetries(histories[i].package, install, histories[i].history)]
      failing == {i \in DOMAIN Verdict : Verdict[i] # "ok"}
  IN IF failing = {} THEN "verified"
     ELSE IF Verdict[CHOOSE i \in failing : \A j \in failing : i <= j] = "garbled"
     THEN "crashed" ELSE "failed"

\* The required entries about the native package.
Descriptions == {"project_urls", "classifiers"}

\* validate_native_pypi_release.
PageFits(page) ==
  /\ page.is = "shown" /\ ArtifactsFit(SetToSeq(page.files), FALSE)
  /\ Descriptions \subseteq page.described

\* wait_for_native_pypi_release: the first page with files for the version is
\* the one that is judged, whatever package it is about.  A page that cannot be
\* read ends the wait, and one that is no object fails it.
WaitForRelease(history) ==
  LET final == {i \in DOMAIN history :
                  history[i].is \in Unreadable \cup {"other"} \/ history[i].files # {}}
  IN IF final = {} THEN "failed"
     ELSE LET page == history[CHOOSE i \in final : \A j \in final : i <= j] IN
          IF page.is \in Unreadable THEN "crashed"
          ELSE IF PageFits(page) THEN "verified" ELSE "failed"

\* main of release_metadata, when a native release is asked about: by the
\* directory of its files or by the address of its page, and its version.
CheckNative(asked, files, history) ==
  IF {"directory", "url"} \subseteq asked \/ "version" \notin asked THEN "failed"
  ELSE IF "directory" \in asked
  THEN IF ArtifactsFit(files, TRUE) THEN "verified" ELSE "failed"
  ELSE IF "url" \in asked THEN WaitForRelease(history) ELSE "failed"

Needs(package, files) ==
  IF package = "pure" THEN PureFiles \subseteq files
  ELSE Sdist \in files /\ \A markers \in Markers :
         \E f \in files : f.kind = "wheel" /\ markers \subseteq f.tags

\* A release is called verified only when, for each package and index, there
\* was one attempt in which the project page and the version page both showed
\* what the package needs, the simple page showed all that the project page did
\* and, unless installs are skipped, pip installed this version with its
\* backend; and it is verified whenever that comes to be so on each before the
\* attempts run out, no matter what was missing or down before, as long as
\* nothing is garbled.
VerifiedMeansShown(install, histories) ==
  LET Shown(package, pages) ==
        /\ pages.project.is = "shown" /\ Needs(package, pages.project.files)
        /\ pages.version.is = "shown" /\ Needs(package, pages.version.files)
        /\ pages.simple.is \notin Unreadable
        /\ (IF package = "pure" THEN PureFiles ELSE pages.project.files)
             \subseteq pages.simple.files
        /\ install => /\ pages.installed.is = "shown" /\ pages.installed.version = Version
                      /\ package = "native" => pages.installed.native
      SomeAttempt(h) == \E i \in DOMAIN h.history : Shown(h.package, h.history[i])
      Readable(h) == \A i \in DOMAIN h.history :
                       \A part \in DOMAIN h.history[i] : h.history[i][part].is # "garbled"
  IN /\ VerifyAll(install, histories) = "verified"
          => \A i \in DOMAIN histories : SomeAttempt(histories[i])
     /\ (\A i \in DOMAIN histories : SomeAttempt(histories[i]) /\ Readable(histories[i]))
          => VerifyAll(install, histories) = "verified"

\* The check of a native release passes only for a directory that is complete,
\* or for a page that shows what the package needs and describes it; and the
\* wait for that page outlasts the pages that have no file of this version yet.
NativeCheckMeansShown(asked, files, history) ==
  LET passed == CheckNative(asked, files, history) = "verified"
      Ready(page) == /\ page.is = "shown" /\ Needs("native", page.files)
                     /\ Descriptions \subseteq page.described
  IN /\ passed => \/ "directory" \in asked /\ Complete(ToSet(files))
                  \/ "url" \in asked /\ \E i \in DOMAIN history : Ready(history[i])
     /\ \A i \in DOMAIN history :
          /\ asked = {"url", "version"} /\ Ready(history[i])
          /\ \A j \in 1..(i - 1) : history[j].is \in {"shown", "wrong"} /\ history[j].files = {}
          => passed
=============================================================================
