--------------------------- MODULE MC_RDiscover ----------------------------
(* Small instances of RDiscover for TLC. *)
EXTENDS RDiscover, TLC

CONSTANTS i1, i2, i3, a1, a2, a3, none

MCInsts == {i1, i2, i3}
MCIP == (i1 :> a1) @@ (i2 :> a2) @@ (i3 :> a3)
\* Discovery lists the lowest address first; i1 has it.
MCRank == (a1 :> 1) @@ (a2 :> 2) @@ (a3 :> 3)
MCUpFirst == {i1}
MCUpNone == {}
MCUpAll == MCInsts
=============================================================================
