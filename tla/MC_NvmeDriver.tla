--------------------------- MODULE MC_NvmeDriver ---------------------------
(* A small instance of NvmeDriver for TLC: the caller's capability pool    *)
(* has two slots, one container and app, the READ and WRITE bits; the      *)
(* driver holds two devices, so a probe can find its table full.           *)
EXTENDS NvmeDriver

CONSTANTS c1, a1, READ, WRITE

MCContainers == {c1}
MCApps == {a1}
MCPermBits == {READ, WRITE}
=============================================================================
