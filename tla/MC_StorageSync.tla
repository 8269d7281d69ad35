--------------------------- MODULE MC_StorageSync ---------------------------
(* Small instances of StorageSync for TLC. *)
EXTENDS StorageSync, TLC

CONSTANTS n1, n2, w1, w2

MCNames1 == {n1}
MCNames2 == {n1, n2}
MCWorkers == {w1, w2}
MCAppKinds == {"application"}
MCSweptKinds == {"application", "endpoint"}
MCExpKinds == {"exportservice"}
MCAllKinds == {"application", "endpoint", "exportservice"}
\* Goroutines are interchangeable: symmetry for the safety runs only.
WorkerSymmetry == Permutations(MCWorkers)
=============================================================================
