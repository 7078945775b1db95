------------------------- MODULE MCAsyncSessionPool -------------------------
(***************************************************************************)
(* Two tasks and the sweeper on a pool of two sessions.                    *)
(***************************************************************************)
EXTENDS AsyncSessionPool

CONSTANTS t1, t2, s1, s2

TheTasks == {t1, t2}
TheSessions == {s1, s2}

\* Everything at once with leases, cancellation in request scopes, and a pool
\* where nothing goes wrong but sessions that idle for too long.
TheModes ==
  {[happens |-> Hazards, scoped |-> FALSE],
   [happens |-> {"cancel", "recycle"}, scoped |-> TRUE],
   [happens |-> {"idle"}, scoped |-> TRUE]}
=============================================================================
