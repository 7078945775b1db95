----------------------- MODULE MCThreadLocalProvider -----------------------
(***************************************************************************)
(* Two threads with two sessions, and three handles of one object.         *)
(***************************************************************************)
EXTENDS ThreadLocalProvider, TLC

CONSTANTS t1, t2, s1, s2, h1, h2, h3, o1

TheThreads == {t1, t2}
TheSessions == {s1, s2}
TheHandles == {h1, h2, h3}
TheOops == {o1}

Symmetry ==
  Permutations(Threads) \cup Permutations(Sessions) \cup Permutations(Handles)

\* A removal waits for one call at most twice over.
RemovalsBound == \A s \in Sessions, o \in Oops : removals[s][o] <= 1
=============================================================================
