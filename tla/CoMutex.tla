------------------------------ MODULE CoMutex ------------------------------
(***************************************************************************)
(* CoMutex (util/qemu-coroutine-lock.c): the mutex of coroutines that run in *)
(* different threads.  A coroutine that finds it taken leaves a wait record  *)
(* and yields; whoever unlocks wakes one of them, or, when a lock is under   *)
(* way whose record is not there yet, hands that duty over through           *)
(* `handoff`.                                                              *)
(*                                                                         *)
(* Every access to the shared fields is a step.  `ctx`, which only tells a   *)
(* spinning coroutine to give up early, is left out: it may give up at any   *)
(* moment.                                                                 *)
(***************************************************************************)
EXTENDS Integers, Sequences

CONSTANTS
  Coroutines,
  Nobody,
  SpinMax,      \* the 1000 of qemu_co_mutex_lock
  Wrap          \* the 2^32 at which `sequence` wraps

ASSUME CoMutexAssumption ==
  /\ Nobody \notin Coroutines
  /\ SpinMax \in Nat \ {0}
  /\ Wrap \in Nat \ {0, 1}

VARIABLES
  locked,       \* the owner and the coroutines that announced themselves
  from_push,    \* wait records, the last pushed first
  to_pop,       \* wait records, the next to wake first
  handoff, sequence,
  holder,
  pc,           \* where a coroutine is
  i,            \* the spins of a call of qemu_co_mutex_lock
  seen,         \* old_handoff, or our_handoff
  record,       \* what a pop holds: the records it moves, or the one it found
  woken         \* coroutines that aio_co_wake will have entered

shared == <<locked, from_push, to_pop, handoff, sequence, holder>>
local  == <<i, seen, record, woken>>
vars   == <<shared, pc, local>>

Init ==
  /\ locked = 0
  /\ from_push = <<>> /\ to_pop = <<>>
  /\ handoff = 0 /\ sequence = 0
  /\ holder = Nobody
  /\ pc = [c \in Coroutines |-> "out"]
  /\ i = [c \in Coroutines |-> 0]
  /\ seen = [c \in Coroutines |-> 0]
  /\ record = [c \in Coroutines |-> <<>>]
  /\ woken = {}

Go(c, place) == pc' = [pc EXCEPT ![c] = place]

(* A local variable goes out of scope *)
Gone(f, c) == f' = [f EXCEPT ![c] = 0]

---------------------------------------------------------------------------
(* qemu_co_mutex_lock: the fast path, the spinning, and the announcement *)

Lock(c) ==
  /\ pc[c] = "out"
  /\ Go(c, "try")
  /\ UNCHANGED <<shared, local>>

TryFast(c) ==
  /\ pc[c] = "try"
  /\ IF locked = 0
       THEN locked' = 1 /\ Go(c, "own") /\ Gone(i, c)
       ELSE Go(c, IF locked = 1 THEN "spin" ELSE "inc") /\ UNCHANGED <<locked, i>>
  /\ UNCHANGED <<from_push, to_pop, handoff, sequence, holder, seen, record, woken>>

Spin(c) ==
  /\ pc[c] = "spin" /\ i[c] + 1 < SpinMax
  /\ i' = [i EXCEPT ![c] = @ + 1]
  /\ IF locked = 0 THEN Go(c, "try") ELSE UNCHANGED pc
  /\ UNCHANGED <<shared, seen, record, woken>>

SpinEnd(c) ==
  /\ pc[c] = "spin"
  /\ Go(c, "inc")
  /\ UNCHANGED <<shared, local>>

Announce(c) ==
  /\ pc[c] = "inc"
  /\ locked' = locked + 1
  /\ Go(c, IF locked = 0 THEN "own" ELSE "push") /\ Gone(i, c)
  /\ UNCHANGED <<from_push, to_pop, handoff, sequence, holder, seen, record, woken>>

Owned(c) ==
  /\ pc[c] = "own"
  /\ holder' = c
  /\ Go(c, "cs")
  /\ UNCHANGED <<locked, from_push, to_pop, handoff, sequence, local>>

---------------------------------------------------------------------------
(* qemu_co_mutex_lock_slowpath *)

push_waiter(c) ==
  /\ pc[c] = "push"
  /\ from_push' = <<c>> \o from_push
  /\ Go(c, "read")
  /\ UNCHANGED <<locked, to_pop, handoff, sequence, holder, local>>

ReadHandoff(c) ==
  /\ pc[c] = "read"
  /\ seen' = [seen EXCEPT ![c] = handoff]
  /\ Go(c, IF handoff = 0 THEN "yield" ELSE "hasToPop")
  /\ UNCHANGED <<shared, i, record, woken>>

(* Mutant: the hand-off is taken without looking whether it still stands.   *)
HandoffBlind(c) == TRUE

HandoffStands(c) == handoff = seen[c]

StealHandoff(c) ==
  /\ pc[c] = "steal"
  /\ IF HandoffStands(c)
       THEN handoff' = 0 /\ Go(c, "pop")
       ELSE Go(c, "yield") /\ UNCHANGED handoff
  /\ Gone(seen, c)
  /\ UNCHANGED <<locked, from_push, to_pop, sequence, holder, i, record, woken>>

(* has_waiters, whose two tests are inverted: it is false when both lists    *)
(* have records.  The place tells who asks.                                  *)
has_waiters(c) ==
  /\ \/ /\ pc[c] = "hasToPop"
        /\ Go(c, IF to_pop = <<>> THEN "steal" ELSE "hasFromPush")
     \/ /\ pc[c] = "hasFromPush"
        /\ Go(c, IF from_push = <<>> THEN "steal" ELSE "yield")
     \/ /\ pc[c] = "unlockHasToPop"
        /\ Go(c, IF to_pop = <<>> THEN "retake" ELSE "unlockHasFromPush")
     \/ /\ pc[c] = "unlockHasFromPush"
        /\ Go(c, IF from_push = <<>> THEN "retake" ELSE "out")
  /\ UNCHANGED <<shared, local>>

Yielded(c) ==
  /\ pc[c] = "yield" /\ c \in woken
  /\ woken' = woken \ {c}
  /\ Go(c, "own")
  /\ UNCHANGED <<shared, i, seen, record>>

---------------------------------------------------------------------------
(* pop_waiter, from either side: "pop" in lock, "unlockPop" in unlock *)

PopTest(c) ==
  /\ \/ pc[c] = "pop" /\ Go(c, IF to_pop = <<>> THEN "move" ELSE "take")
     \/ /\ pc[c] = "unlockPop"
        /\ Go(c, IF to_pop = <<>> THEN "unlockMove" ELSE "unlockTake")
  /\ UNCHANGED <<shared, local>>

(* move_waiters: the exchange, then the reversal *)
MoveOut(c) ==
  /\ \/ pc[c] = "move" /\ Go(c, "fill")
     \/ pc[c] = "unlockMove" /\ Go(c, "unlockFill")
  /\ record' = [record EXCEPT ![c] = from_push]
  /\ from_push' = <<>>
  /\ UNCHANGED <<locked, to_pop, handoff, sequence, holder, i, seen, woken>>

Reversed(s) == [n \in 1..Len(s) |-> s[(Len(s) - n) + 1]]

(* Mutant: the records are moved without being reversed.                    *)
Unreversed(records) == records

Moved(records) == Reversed(records)

MoveIn(c) ==
  /\ \/ pc[c] = "fill" /\ Go(c, "take")
     \/ /\ pc[c] = "unlockFill"
        /\ Go(c, IF Moved(record[c]) \o to_pop = <<>> THEN "number" ELSE "unlockTake")
  /\ to_pop' = Moved(record[c]) \o to_pop
  /\ record' = [record EXCEPT ![c] = <<>>]
  /\ UNCHANGED <<locked, from_push, handoff, sequence, holder, i, seen, woken>>

(* The record at the head; lock relies on there being one, and ends with a   *)
(* null pointer otherwise                                                    *)
PopTake(c) ==
  /\ to_pop # <<>>
  /\ \/ pc[c] = "take" /\ Go(c, IF Head(to_pop) = c THEN "own" ELSE "wake")
     \/ pc[c] = "unlockTake" /\ Go(c, "unlockWake")
  /\ record' = [record EXCEPT ![c] = IF pc[c] = "take" /\ Head(to_pop) = c
                                       THEN <<>> ELSE <<Head(to_pop)>>]
  /\ to_pop' = Tail(to_pop)
  /\ UNCHANGED <<locked, from_push, handoff, sequence, holder, i, seen, woken>>

qemu_co_mutex_wake(c) ==
  /\ \/ pc[c] = "wake" /\ Go(c, "yield")
     \/ pc[c] = "unlockWake" /\ Go(c, "out")
  /\ woken' = woken \cup {Head(record[c])}
  /\ record' = [record EXCEPT ![c] = <<>>]
  /\ UNCHANGED <<shared, i, seen>>

---------------------------------------------------------------------------
(* qemu_co_mutex_unlock *)

Unlock(c) ==
  /\ pc[c] = "cs"
  /\ holder' = Nobody
  /\ Go(c, "dec")
  /\ UNCHANGED <<locked, from_push, to_pop, handoff, sequence, local>>

Alone == locked = 1

UnlockDec(c) ==
  /\ pc[c] = "dec"
  /\ locked' = locked - 1
  /\ Go(c, IF Alone THEN "out" ELSE "unlockPop")
  /\ UNCHANGED <<from_push, to_pop, handoff, sequence, holder, local>>

(* ++sequence, which skips zero *)
Number(c) ==
  /\ pc[c] = "number"
  /\ sequence' = IF sequence + 1 = Wrap THEN 1 ELSE sequence + 1
  /\ seen' = [seen EXCEPT ![c] = sequence']
  /\ Go(c, "offer")
  /\ UNCHANGED <<locked, from_push, to_pop, handoff, holder, i, record, woken>>

Offer(c) ==
  /\ pc[c] = "offer"
  /\ handoff' = seen[c]
  /\ Go(c, "unlockHasToPop")
  /\ UNCHANGED <<locked, from_push, to_pop, sequence, holder, local>>

(* Mutant: having offered the hand-off, unlock leaves.                      *)
NeverRetake(c) == FALSE

Retakes(c) == handoff = seen[c]

RetakeHandoff(c) ==
  /\ pc[c] = "retake"
  /\ IF Retakes(c)
       THEN handoff' = 0 /\ Go(c, "unlockPop")
       ELSE Go(c, "out") /\ UNCHANGED handoff
  /\ Gone(seen, c)
  /\ UNCHANGED <<locked, from_push, to_pop, sequence, holder, i, record, woken>>

---------------------------------------------------------------------------
Step(c) ==
  \/ TryFast(c) \/ Spin(c) \/ SpinEnd(c) \/ Announce(c) \/ Owned(c)
  \/ push_waiter(c) \/ ReadHandoff(c) \/ has_waiters(c) \/ StealHandoff(c)
  \/ Yielded(c) \/ PopTest(c) \/ MoveOut(c) \/ MoveIn(c) \/ PopTake(c)
  \/ qemu_co_mutex_wake(c) \/ Unlock(c) \/ UnlockDec(c) \/ Number(c)
  \/ Offer(c) \/ RetakeHandoff(c)

Next == \E c \in Coroutines : Lock(c) \/ Step(c)

Spec == Init /\ [][Next]_vars

(* Threads are scheduled, and who has the mutex unlocks it *)
FairSpec == Spec /\ \A c \in Coroutines : WF_vars(Step(c))

---------------------------------------------------------------------------
Owning == {"own", "cs", "dec"}
Popping == {"pop", "move", "fill", "take",
            "unlockPop", "unlockMove", "unlockFill", "unlockTake"}
Places == Owning \cup Popping \cup
          {"out", "try", "spin", "inc", "push", "read", "hasToPop", "hasFromPush",
           "steal", "yield", "wake", "unlockWake", "number", "offer",
           "unlockHasToPop", "unlockHasFromPush", "retake"}

TypeOK ==
  /\ pc \in [Coroutines -> Places]
  /\ locked \in Nat /\ handoff \in 0..(Wrap - 1) /\ sequence \in 0..(Wrap - 1)
  /\ from_push \in Seq(Coroutines) /\ to_pop \in Seq(Coroutines)
  /\ holder \in Coroutines \cup {Nobody}
  /\ i \in [Coroutines -> 0..(SpinMax - 1)]
  /\ seen \in [Coroutines -> 0..(Wrap - 1)]
  /\ record \in [Coroutines -> Seq(Coroutines)]
  /\ woken \subseteq Coroutines

(* Two coroutines are never inside, nor is one inside while another has been *)
(* woken to go in; and the assertion of unlock on `holder` holds.            *)
MutualExclusion ==
  /\ \A c, d \in Coroutines :
       (pc[c] \in Owning \/ c \in woken) /\ (pc[d] \in Owning \/ d \in woken) => c = d
  /\ \A c \in Coroutines : pc[c] = "cs" => holder = c

(* "There cannot be two concurrent pop_waiter() calls because pop_waiter()  *)
(* can only be called while mutex->handoff is zero": the lists of a single   *)
(* consumer have a single consumer.                                         *)
SinglePopper ==
  \A c, d \in Coroutines :
    pc[c] \in Popping => handoff = 0 /\ (pc[d] \in Popping => c = d)

(* The pop of a coroutine that took the hand-off finds a record, which it    *)
(* uses without a test; and no coroutine is woken twice, which would abort   *)
(* in aio_co_schedule.                                                      *)
PopFinds ==
  \A c \in Coroutines :
    /\ pc[c] \in {"take", "unlockTake"} => to_pop # <<>>
    /\ pc[c] \in {"wake", "unlockWake"} => Head(record[c]) \notin woken

(* The wait records, the next to be woken first, and who owns the mutex or   *)
(* has been chosen to.                                                      *)
Moving == {c \in Coroutines : pc[c] \in {"fill", "unlockFill"}}
Line == to_pop \o (IF Moving = {} THEN <<>>
                   ELSE Reversed(record[CHOOSE c \in Moving : TRUE]))
               \o Reversed(from_push)
Chosen == {c \in Coroutines : pc[c] \in Owning} \cup woken
            \cup {Head(record[c]) : c \in {d \in Coroutines :
                                            pc[d] \in {"wake", "unlockWake"}}}
Owner == IF Chosen = {} THEN Nobody ELSE CHOOSE c \in Chosen : TRUE

F == INSTANCE FifoLock WITH owner <- Owner, line <- Line

(* A CoMutex is a lock that is granted in the order of the wait records,     *)
(* whoever pops them.                                                       *)
IsFifoLock == F!Spec

(* A coroutine that called qemu_co_mutex_lock gets the mutex, if those that  *)
(* have it unlock it: the duty to wake is never dropped.                    *)
LockReturns == \A c \in Coroutines : pc[c] = "try" ~> pc[c] = "cs"
=============================================================================
