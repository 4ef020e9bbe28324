----------------------------- MODULE MCLockCnt -----------------------------
(* A finite instance of LockCnt *)
EXTENDS LockCnt, TLC

CONSTANTS first, second, third

(* One thread can use all the functions, in two visits or sections, against *)
(* two that have one each                                                   *)
MCThreads == {first, second, third}
MCCalls == [t \in MCThreads |-> IF t = first THEN 2 ELSE 1]
=============================================================================
