------------------------- MODULE MCRequestLifecycle -------------------------
(***************************************************************************)
(* Small instances of RequestLifecycle.                                    *)
(***************************************************************************)
EXTENDS RequestLifecycle, TLC

CONSTANTS r1, r2, s1, s2

MCRequests == {r1, r2}
MCSessions == {s1, s2}

\* Every way to set up an application, with every fault.
MCModes == {m \in Setups : m.faults = FaultKinds}

\* A pooled session_scope in which the handler may be interrupted.
MCInterruptedScope ==
  {m \in Setups : m.adapter = "session_scope" /\ m.faults = {"interrupt"}}
=============================================================================
