------------------------------ MODULE LockCnt ------------------------------
(***************************************************************************)
(* QemuLockCnt on Linux (util/lockcnt.c): a counter and a futex-based mutex  *)
(* in one word.  `count` is that word, its upper bits n and its lower two    *)
(* bits s.  Every atomic operation on it, and every futex call, is a step.   *)
(*                                                                         *)
(* A thread makes at most one visit at a time; one that visits again from    *)
(* within is like a second thread, for the counter.                         *)
(***************************************************************************)
EXTENDS Integers, FiniteSets

CONSTANTS
  Threads,
  NoThread,
  Calls         \* how many calls each thread makes, other than to end what it began

ASSUME LockCntAssumption ==
  IsFiniteSet(Threads) /\ NoThread \notin Threads /\ Calls \in [Threads -> Nat]

VARIABLES
  count,
  sleeping,     \* threads in the queue of the futex
  op,           \* the function a thread is in
  pc,           \* and where in it
  val, waited,  \* its local variables
  visiting,     \* threads whose visit is counted
  holder,       \* the thread that has the mutex
  freeing,      \* it had it from dec_and_lock or dec_if_lock, with true
  calls

vars == <<count, sleeping, op, pc, val, waited, visiting, holder, freeing, calls>>

Word(n, s) == [n |-> n, s |-> s]
Zero == Word(0, "FREE")

Init ==
  /\ count = Zero
  /\ sleeping = {}
  /\ op = [t \in Threads |-> "none"]
  /\ pc = [t \in Threads |-> "out"]
  /\ val = [t \in Threads |-> Zero]
  /\ waited = [t \in Threads |-> FALSE]
  /\ visiting = {} /\ holder = NoThread /\ freeing = FALSE
  /\ calls = [t \in Threads |-> 0]

Go(t, place) == pc' = [pc EXCEPT ![t] = place]
Reads(t, w) == val' = [val EXCEPT ![t] = w]

---------------------------------------------------------------------------
(* The call: atomic_read of the word *)

(* What a thread may call: a visit is begun outside the mutex and ended by   *)
(* its visitor; only the holder unlocks                                      *)
Legal(t, f) ==
  CASE f = "inc" -> t \notin visiting /\ holder # t
    [] f \in {"dec", "dec_and_lock", "dec_if_lock"} -> t \in visiting /\ holder # t
    [] f = "lock" -> holder # t
    [] f = "unlock" -> holder = t
    [] f = "inc_and_unlock" -> holder = t /\ t \notin visiting

(* Beginning something costs a call, ending it does not *)
Begins == {"inc", "lock", "dec_if_lock", "inc_and_unlock"}

Call(t, f) ==
  /\ pc[t] = "out" /\ Legal(t, f)
  /\ IF f \in Begins THEN /\ calls[t] < Calls[t]
                          /\ calls' = [calls EXCEPT ![t] = @ + 1]
     ELSE UNCHANGED calls
  /\ op' = [op EXCEPT ![t] = f]
  /\ Reads(t, count) /\ Go(t, "loop")
  /\ UNCHANGED <<count, sleeping, waited, visiting, holder, freeing>>

Return(t) ==
  /\ op' = [op EXCEPT ![t] = "none"]
  /\ waited' = [waited EXCEPT ![t] = FALSE]
  /\ Reads(t, Zero) /\ Go(t, "out")

(* The last line of inc, dec_and_lock and dec_if_lock: a thread that was     *)
(* woken and does not keep the mutex wakes another                           *)
ReturnOrWake(t) ==
  IF waited[t] THEN Go(t, "wake") /\ UNCHANGED <<op, val, waited>> ELSE Return(t)

qemu_lockcnt_dec(t) ==
  /\ pc[t] = "loop" /\ op[t] = "dec"
  /\ count' = [count EXCEPT !.n = @ - 1]
  /\ visiting' = visiting \ {t}
  /\ Return(t)
  /\ UNCHANGED <<sleeping, holder, freeing, calls>>

---------------------------------------------------------------------------
(* atomic_cmpxchg of the word, from val: it succeeds or val is what was found *)
Found(t) == count = val[t]
Retry(t) ==
  /\ ~Found(t)
  /\ Reads(t, count)
  /\ UNCHANGED <<count, visiting, holder, freeing, op, pc, waited>>

(* Mutant: inc counts from zero as well, whoever has the mutex.             *)
CountsFromZero(t) == op[t] = "inc" \/ (op[t] = "dec_and_lock" /\ val[t].n >= 2)

(* The counter moves without the mutex: inc from one or more, dec_and_lock   *)
(* from two or more                                                         *)
Counts(t) == \/ op[t] = "inc" /\ val[t].n >= 1
             \/ op[t] = "dec_and_lock" /\ val[t].n >= 2

Add(t) == IF op[t] = "inc" THEN 1 ELSE -1

CountedFast(t) ==
  /\ pc[t] = "loop" /\ Counts(t)
  /\ \/ /\ Found(t)
        /\ count' = [count EXCEPT !.n = @ + Add(t)]
        /\ visiting' = IF op[t] = "inc" THEN visiting \cup {t} ELSE visiting \ {t}
        /\ ReturnOrWake(t)
        /\ UNCHANGED <<holder, freeing>>
     \/ Retry(t)
  /\ UNCHANGED <<sleeping, calls>>

(* dec_if_lock gives up *)
DecIfGivesUp(t) ==
  /\ pc[t] = "loop" /\ op[t] = "dec_if_lock" /\ val[t].n >= 2
  /\ ReturnOrWake(t)
  /\ UNCHANGED <<count, sleeping, visiting, holder, freeing, calls>>

(* qemu_lockcnt_cmpxchg_or_wait: the calls that need the mutex to be free    *)
NeedsMutex(t) ==
  \/ op[t] = "lock"
  \/ op[t] = "inc" /\ val[t].n = 0
  \/ op[t] \in {"dec_and_lock", "dec_if_lock"} /\ val[t].n <= 1

(* Mutant: a thread that waited takes the mutex as if nobody else waited.    *)
TakesUncontended(t) == "LOCKED"

(* The state it leaves in the word; a thread that waited assumes others do   *)
Taken(t) == IF waited[t] THEN "WAITING" ELSE "LOCKED"

(* new_if_free *)
NewIfFree(t) ==
  CASE op[t] = "inc"  -> Word(1, "FREE")
    [] op[t] = "lock" -> Word(val[t].n, Taken(t))
    [] OTHER          -> Word(0, Taken(t))

FastPath(t) ==
  /\ pc[t] = "loop" /\ NeedsMutex(t) /\ val[t].s = "FREE"
  /\ IF Found(t)
       THEN /\ count' = NewIfFree(t)
            /\ IF op[t] = "inc"
                 THEN /\ visiting' = visiting \cup {t}
                      /\ ReturnOrWake(t)
                      /\ UNCHANGED <<holder, freeing>>
                 ELSE /\ holder' = t
                      /\ freeing' = (op[t] # "lock")
                      /\ visiting' = IF op[t] = "lock" THEN visiting ELSE visiting \ {t}
                      /\ Return(t)
       ELSE /\ Reads(t, count) /\ Go(t, "slow")
            /\ UNCHANGED <<count, visiting, holder, freeing, op, waited>>
  /\ UNCHANGED <<sleeping, calls>>

SlowPath(t) ==
  /\ pc[t] = "loop" /\ NeedsMutex(t) /\ val[t].s # "FREE"
  /\ Go(t, "slow")
  /\ UNCHANGED <<count, sleeping, op, val, waited, visiting, holder, freeing, calls>>

(* Its loop: out of it when the mutex looks free ... *)
SlowEnd(t) ==
  /\ pc[t] = "slow" /\ val[t].s = "FREE"
  /\ Go(t, "loop")
  /\ UNCHANGED <<count, sleeping, op, val, waited, visiting, holder, freeing, calls>>

(* ... from locked to waiting ... *)
FutexPrepare(t) ==
  /\ pc[t] = "slow" /\ val[t].s = "LOCKED"
  /\ LET new == [val[t] EXCEPT !.s = "WAITING"]
     IN IF Found(t) THEN count' = new /\ Reads(t, new)
        ELSE Reads(t, count) /\ UNCHANGED count
  /\ UNCHANGED <<sleeping, op, pc, waited, visiting, holder, freeing, calls>>

(* ... and to sleep, unless the word has changed meanwhile *)
FutexWait(t) ==
  /\ pc[t] = "slow" /\ val[t].s = "WAITING"
  /\ waited' = [waited EXCEPT ![t] = TRUE]
  /\ IF Found(t) THEN sleeping' = sleeping \cup {t} ELSE UNCHANGED sleeping
  /\ Go(t, "futex")
  /\ UNCHANGED <<count, op, val, visiting, holder, freeing, calls>>

FutexReturn(t) ==
  /\ pc[t] = "futex" /\ t \notin sleeping
  /\ Reads(t, count) /\ Go(t, "slow")
  /\ UNCHANGED <<count, sleeping, op, waited, visiting, holder, freeing, calls>>

---------------------------------------------------------------------------
(* qemu_lockcnt_unlock and qemu_lockcnt_inc_and_unlock *)

(* Mutant: the waiters are not woken.                                       *)
WakesNobody(t) == FALSE

MustWake(t) == val[t].s = "WAITING"

Unlocked(w) == [w EXCEPT !.s = "FREE"]

Unlocks(t) ==
  /\ pc[t] = "loop" /\ op[t] \in {"unlock", "inc_and_unlock"}
  /\ \/ /\ Found(t)
        /\ count' = IF op[t] = "unlock" THEN Unlocked(count)
                    ELSE Unlocked([count EXCEPT !.n = @ + 1])
        /\ visiting' = IF op[t] = "unlock" THEN visiting ELSE visiting \cup {t}
        /\ holder' = NoThread /\ freeing' = FALSE
        /\ IF MustWake(t) THEN Go(t, "wake") /\ UNCHANGED <<op, val, waited>>
           ELSE Return(t)
     \/ Retry(t)
  /\ UNCHANGED <<sleeping, calls>>

(* lockcnt_wake: one sleeper, if there is one *)
lockcnt_wake(t) ==
  /\ pc[t] = "wake"
  /\ \/ sleeping = {} /\ UNCHANGED sleeping
     \/ \E s \in sleeping : sleeping' = sleeping \ {s}
  /\ Return(t)
  /\ UNCHANGED <<count, visiting, holder, freeing, calls>>

---------------------------------------------------------------------------
Functions == {"inc", "dec", "dec_and_lock", "dec_if_lock", "lock", "unlock",
              "inc_and_unlock"}

Step(t) ==
  \/ qemu_lockcnt_dec(t) \/ CountedFast(t) \/ DecIfGivesUp(t) \/ FastPath(t)
  \/ SlowPath(t) \/ SlowEnd(t) \/ FutexPrepare(t) \/ FutexWait(t)
  \/ FutexReturn(t) \/ Unlocks(t) \/ lockcnt_wake(t)

Next == \E t \in Threads : Step(t) \/ \E f \in Functions : Call(t, f)

Spec == Init /\ [][Next]_vars

(* Threads are scheduled, and end the visits and sections they began *)
Ends(t) == \E f \in {"unlock", "dec_and_lock"} : Call(t, f)

FairSpec == Spec /\ \A t \in Threads : WF_vars(Step(t)) /\ WF_vars(Ends(t))

---------------------------------------------------------------------------
TypeOK ==
  /\ count \in [n : Nat, s : {"FREE", "LOCKED", "WAITING"}]
  /\ sleeping \subseteq Threads
  /\ op \in [Threads -> Functions \cup {"none"}]
  /\ pc \in [Threads -> {"out", "loop", "slow", "futex", "wake"}]
  /\ val \in [Threads -> [n : Nat, s : {"FREE", "LOCKED", "WAITING"}]]
  /\ waited \in [Threads -> BOOLEAN]
  /\ visiting \subseteq Threads
  /\ holder \in Threads \cup {NoThread}
  /\ freeing \in BOOLEAN
  /\ calls \in [Threads -> Nat]

(* "If the function returns true, it is impossible for the counter to become *)
(* nonzero until the next qemu_lockcnt_unlock": what the holder frees nobody *)
(* visits; and the word says the truth about visits and mutex.               *)
NoVisitWhileFreed ==
  /\ count.n = Cardinality(visiting)
  /\ count.s # "FREE" <=> holder # NoThread
  /\ freeing => visiting = {}

(* A thread that sleeps on the futex will be woken: either the word says     *)
(* that there are waiters, or somebody who was woken has the duty to go on.  *)
SleepersKnown ==
  sleeping # {} =>
    \/ count.s = "WAITING"
    \/ \E t \in Threads \ sleeping : pc[t] = "wake" \/ waited[t]

C == INSTANCE LockedCounter WITH count <- count.n, mutex <- holder

(* The word behaves as a counter and a mutex that the rules of               *)
(* docs/devel/lockcnt.txt govern.                                           *)
IsLockedCounter == C!Spec

(* Every call returns, if those that have the mutex or a visit end it.       *)
CallsReturn == \A t \in Threads : pc[t] # "out" ~> pc[t] = "out"
=============================================================================
