------------------------------ MODULE FifoLock ------------------------------
(* What a CoMutex promises: one owner at a time, and the coroutines that had *)
(* to queue are served in the order in which they queued.                    *)
EXTENDS Sequences

CONSTANTS Coroutines, Nobody

VARIABLES owner, line

Init == owner = Nobody /\ line = <<>>

(* A coroutine takes the free lock, past nobody *)
Take(c) == owner = Nobody /\ line = <<>> /\ owner' = c /\ UNCHANGED line

Queue(c) == c # owner /\ line' = Append(line, c) /\ UNCHANGED owner

Grant == /\ owner = Nobody /\ line # <<>>
         /\ owner' = Head(line) /\ line' = Tail(line)

Release == owner # Nobody /\ owner' = Nobody /\ UNCHANGED line

Next == Grant \/ Release \/ \E c \in Coroutines : Take(c) \/ Queue(c)

Spec == Init /\ [][Next]_<<owner, line>>
=============================================================================
