----------------------- MODULE MC_NvmeInstanceRace -----------------------
(* Two callers of the NVMe callbacks: spec section 5's multi-core use.    *)
EXTENDS NvmeInstanceRace

CONSTANTS p1, p2

MCTwoCallers == {p1, p2}
=============================================================================
