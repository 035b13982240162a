----------------------- MODULE MC_CapabilityForgery -----------------------
(* CapabilityForgery on the pool of MC_CapabilityManager. *)
EXTENDS CapabilityForgery

CONSTANTS c1, c2, a1, READ, WRITE

MCContainers == {c1, c2}
MCApps == {a1}
MCPermBits == {READ, WRITE}
=============================================================================
