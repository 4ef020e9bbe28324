----------------------------- MODULE MCCoMutex -----------------------------
(* A finite instance of CoMutex *)
EXTENDS CoMutex, TLC
=============================================================================
