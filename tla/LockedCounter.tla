--------------------------- MODULE LockedCounter ---------------------------
(* What docs/devel/lockcnt.txt promises of a QemuLockCnt: a counter and a    *)
(* mutex, where no visit starts while the counter is zero and the mutex is   *)
(* taken, and the visit that brings the counter to zero may take the mutex   *)
(* in the same step.                                                        *)
EXTENDS Integers

CONSTANTS Threads, NoThread

VARIABLES count, mutex

Init == count = 0 /\ mutex = NoThread

Inc == (count > 0 \/ mutex = NoThread) /\ count' = count + 1 /\ UNCHANGED mutex
Dec == count > 0 /\ count' = count - 1 /\ UNCHANGED mutex
DecAndLock(t) == count = 1 /\ mutex = NoThread /\ count' = 0 /\ mutex' = t
Lock(t) == mutex = NoThread /\ mutex' = t /\ UNCHANGED count
Unlock == mutex # NoThread /\ mutex' = NoThread /\ UNCHANGED count
IncAndUnlock == mutex # NoThread /\ mutex' = NoThread /\ count' = count + 1

Next == \/ Inc \/ Dec \/ Unlock \/ IncAndUnlock
        \/ \E t \in Threads : DecAndLock(t) \/ Lock(t)

Spec == Init /\ [][Next]_<<count, mutex>>
=============================================================================
