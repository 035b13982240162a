----------------------- MODULE MC_CapabilityManager -----------------------
(* A small instance of CapabilityManager for TLC: a pool of three slots,  *)
(* two containers, one app and two permission bits.  Three slots let a    *)
(* token be revoked while others are created after it and the pool fill. *)
EXTENDS CapabilityManager

CONSTANTS c1, c2, a1, READ, WRITE

MCContainers == {c1, c2}
MCApps == {a1}
MCPermBits == {READ, WRITE}
=============================================================================
