--------------------------- MODULE MCStoneClients ---------------------------
(* Instances of StoneClients. *)
EXTENDS StoneClients, TLC

CONSTANTS c1, c2, c3, k1, k2

MCClients == {c1, c2, c3}
MCClients2 == {c1, c2}
MCKeys == {k1, k2}
MCKey == {k1}

Mode(r, d, f) ==
  [role |-> r, deletes |-> d, faults |-> f]
Three(a, b, c) == c1 :> a @@ c2 :> b @@ c3 :> c

\* Mixes of the interfaces, without faults and with them, with blocks that
\* delete and a client that removes the dictionary, and without.
MCModes == {
  Mode(Three("gstore", "gstore", "owned"), FALSE, {}),
  Mode(Three("gstore", "existing", "owned"), FALSE, FaultKinds),
  Mode(Three("existing", "existing", "owned"), FALSE, {"commit", "lost_answer"}),
  Mode(Three("gstore", "gstore", "existing"), TRUE, {"lost_answer"}),
  Mode(Three("gstore", "gstore", "gstore"), TRUE, {})}

\* Two users of GStore alone.
MCModesBlocks == {Mode(c1 :> "gstore" @@ c2 :> "gstore", FALSE, {})}
MCModesInterrupted ==
  {Mode(c1 :> "gstore" @@ c2 :> "gstore", FALSE, {"interrupt"})}
=============================================================================
