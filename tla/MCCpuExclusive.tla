--------------------------- MODULE MCCpuExclusive ---------------------------
(* A finite instance of CpuExclusive *)
EXTENDS CpuExclusive, TLC
=============================================================================
