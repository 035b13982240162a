----------------------------- MODULE MC_HalCpu -----------------------------
EXTENDS HalCpu
=============================================================================
