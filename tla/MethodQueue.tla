---------------------------- MODULE MethodQueue ----------------------------
(***************************************************************************)
(* What PFIFO promises, without threads, locks, registers or a ring: a     *)
(* bounded first-in first-out queue of methods.  Each method queued is     *)
(* taken once, in order, one at a time, and executed before the next is    *)
(* taken.  A bad command aborts the emulator and nothing is executed any   *)
(* more.                                                                   *)
(***************************************************************************)
EXTENDS Naturals, Sequences

CONSTANT Capacity

VARIABLES queue,    \* methods queued, oldest first
          busy,     \* the method being executed, if any
          done,     \* methods executed
          up        \* the emulator has not aborted

Init == queue = <<>> /\ busy = <<>> /\ done = <<>> /\ up = TRUE

(* queue' is queue with one more method.                                   *)
Push ==
    /\ up /\ up' = up
    /\ Len(queue) < Capacity
    /\ Len(queue') = Len(queue) + 1
    /\ queue' = Append(queue, queue'[Len(queue')])
    /\ UNCHANGED <<busy, done>>

Take ==
    /\ up /\ up' = up
    /\ busy = <<>> /\ queue # <<>>
    /\ busy' = <<Head(queue)>> /\ queue' = Tail(queue)
    /\ UNCHANGED done

Execute ==
    /\ up /\ up' = up
    /\ busy # <<>>
    /\ done' = Append(done, busy[1]) /\ busy' = <<>>
    /\ UNCHANGED queue

Abort == up /\ up' = FALSE /\ UNCHANGED done

Next == Push \/ Take \/ Execute \/ Abort

Spec == Init /\ [][Next]_<<queue, busy, done, up>>
=============================================================================
