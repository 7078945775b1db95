---------------------------- MODULE MCMigrations ----------------------------
(***************************************************************************)
(* Two runners over a manifest of two steps, the second of which depends   *)
(* on the first, and a class-style migration of three instances.           *)
(***************************************************************************)
EXTENDS MigrationRunner

CONSTANTS r1, r2, a, b, i1, i2, i3

TheRunners == {r1, r2}
TheIds == {a, b, i1, i2, i3}

TheManifest ==
  <<[id |-> b, deps |-> <<a>>, down |-> TRUE, sum |-> NoSum],
    [id |-> a, deps |-> <<>>, down |-> TRUE, sum |-> NoSum]>>

Setup(one, other, applied, takeover, faults) ==
  [manifest |-> TheManifest, applied |-> applied,
   does |-> r1 :> one @@ r2 :> other,
   lock |-> TRUE, takeover |-> takeover, faults |-> faults, busy |-> {},
   own |-> <<i1, i2, i3>>, retries |-> 2, commits |-> FALSE, first |-> 1]

\* Two upgrades under every fault; upgrade against downgrade; no lock; the
\* lock of a dead run taken over; of a live one; callbacks that commit for
\* themselves, half-way and when all is changed; and the two styles with an
\* application at work on the objects they change.
TheModes ==
  {Setup("upgrade", "upgrade", {}, "never",
         {"step", "abort", "interrupt", "lost_answer", "crash"}),
   Setup("upgrade", "downgrade", {a}, "stale", {"step", "crash", "lost_answer"}),
   Setup("upgrade", "upgrade", {a}, "force", {"step"}),
   [Setup("upgrade", "downgrade", {a}, "never", {"step"}) EXCEPT !.lock = FALSE],
   [Setup("upgrade", "downgrade", {a}, "stale",
          {"step", "abort", "crash", "lost_answer"})
      EXCEPT !.commits = TRUE, !.busy = {b}],
   [Setup("upgrade", "upgrade", {}, "never", {"step", "crash"})
      EXCEPT !.commits = TRUE, !.first = 2, !.busy = {a}],
   [Setup("upgrade", "downgrade", {a}, "never", {"step"})
      EXCEPT !.lock = FALSE, !.commits = TRUE],
   [Setup("class", "downgrade", {a, b}, "never", {"crash", "lost_answer"})
      EXCEPT !.busy = {a, i1, i2}],
   [Setup("class", "upgrade", {}, "never", {}) EXCEPT !.busy = {i1}, !.retries = 1]}
=============================================================================
