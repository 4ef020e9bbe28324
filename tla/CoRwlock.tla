------------------------------ MODULE CoRwlock ------------------------------
(***************************************************************************)
(* CoRwlock and the CoQueue it waits on (util/qemu-coroutine-lock.c).        *)
(*                                                                         *)
(* Its CoMutex is the lock of FifoLock, which CoMutex implements: `owner`    *)
(* and `line`.  A writer keeps it for as long as it writes.  A step is what  *)
(* a coroutine does between taking the mutex and giving it back, or          *)
(* sleeping.  A coroutine that is woken asks for the mutex later, when its   *)
(* thread gets round to it.                                                  *)
(***************************************************************************)
EXTENDS Integers, Sequences, FiniteSets

CONSTANTS
  Coroutines,
  Nobody,
  Casts         \* who makes which calls

Calls == {"rd", "wr", "up", "down", "un"}

(* Calls come in the order in which they are legal: see Legal *)
Legal(s) ==
  \A k \in 1..Len(s) :
    /\ s[k] \in {"rd", "wr"} => k = 1 \/ s[k-1] = "un"
    /\ s[k] = "up"   => k > 1 /\ s[k-1] \in {"rd", "down"}
    /\ s[k] = "down" => k > 1 /\ s[k-1] \in {"wr", "up"}
    /\ s[k] = "un"   => k > 1 /\ s[k-1] # "un"

ASSUME RwlockAssumption ==
  /\ Nobody \notin Coroutines
  /\ Casts \subseteq [Coroutines -> Seq(Calls)]
  /\ \A cast \in Casts : \A c \in Coroutines :
       LET s == cast[c] IN Legal(s) /\ (s # <<>> => s[Len(s)] = "un")

VARIABLES
  reader, pending_writer,
  queue,          \* the CoQueue
  owner, line,    \* the CoMutex
  script,         \* the calls each coroutine has left, the current one first
  state,          \* what it is doing
  locks_held

vars == <<reader, pending_writer, queue, owner, line, script, state, locks_held>>

Init ==
  /\ reader = 0 /\ pending_writer = 0
  /\ queue = <<>>
  /\ owner = Nobody /\ line = <<>>
  /\ script \in Casts
  /\ state = [c \in Coroutines |-> "idle"]
  /\ locks_held = [c \in Coroutines |-> 0]

(* "idle", "reading" and "writing" between calls; within a call, "asks" for  *)
(* the mutex in order to begin, "tests" having it the condition of a loop,   *)
(* "queued" in the CoQueue, "woken" from it                                  *)
Call(c) == Head(script[c])
Become(c, s) == state' = [state EXCEPT ![c] = s]
Return(c) == script' = [script EXCEPT ![c] = Tail(@)]
Held(c, n) == locks_held' = [locks_held EXCEPT ![c] = @ + n]

(* qemu_co_mutex_lock and qemu_co_mutex_unlock *)
Ask(c) ==
  IF owner = Nobody THEN owner' = c /\ UNCHANGED line
  ELSE line' = Append(line, c) /\ UNCHANGED owner

Release ==
  IF line = <<>> THEN owner' = Nobody /\ UNCHANGED line
  ELSE owner' = Head(line) /\ line' = Tail(line)

---------------------------------------------------------------------------
(* A call that begins with the mutex: rdlock, wrlock, upgrade, and unlock    *)
(* by a reader                                                              *)
Begin(c) ==
  /\ script[c] # <<>>
  /\ \/ Call(c) \in {"rd", "wr"} /\ state[c] = "idle"
     \/ Call(c) \in {"up", "un"} /\ state[c] = "reading"
  /\ Ask(c) /\ Become(c, "asks")
  /\ UNCHANGED <<reader, pending_writer, queue, script, locks_held>>

(* qemu_co_queue_wait, up to the yield *)
Sleep(c) ==
  /\ queue' = Append(queue, c)
  /\ Release /\ Become(c, "queued")
  /\ UNCHANGED <<script, locks_held>>

(* ... and after it *)
Woken(c) ==
  /\ state[c] = "woken"
  /\ Ask(c) /\ Become(c, "tests")
  /\ UNCHANGED <<reader, pending_writer, queue, script, locks_held>>

(* "For fairness, wait if a writer is in line" *)
ReaderMay == pending_writer = 0

qemu_co_rwlock_rdlock(c) ==
  /\ owner = c /\ state[c] \in {"asks", "tests"} /\ Call(c) = "rd"
  /\ IF ReaderMay
       THEN /\ reader' = reader + 1
            /\ Release /\ Become(c, "reading") /\ Return(c) /\ Held(c, 1)
            /\ UNCHANGED queue
       ELSE Sleep(c) /\ UNCHANGED reader
  /\ UNCHANGED pending_writer

(* Mutant: a writer that has the lock still counts as pending.               *)
StillPending(w) == w

NoLongerPending(w) == w - 1

(* The loop of wrlock and of upgrade, entered with r readers and w writers   *)
(* pending, this one included; locks_held counts the mutex and not the read  *)
(* lock                                                                      *)
WriterTest(c, r, w) ==
  IF r = 0
    THEN /\ pending_writer' = NoLongerPending(w)
         /\ Become(c, "writing") /\ Return(c)
         /\ Held(c, IF Call(c) = "up" THEN 0 ELSE 1)
         /\ UNCHANGED <<queue, owner, line>>
    ELSE pending_writer' = w /\ Sleep(c)

qemu_co_rwlock_wrlock(c) ==
  /\ owner = c /\ state[c] = "asks" /\ Call(c) = "wr"
  /\ WriterTest(c, reader, pending_writer + 1)
  /\ UNCHANGED reader

(* Mutant: the reader that upgrades still counts as one.                    *)
ReaderStays == reader

ReaderLeaves == reader - 1

qemu_co_rwlock_upgrade(c) ==
  /\ owner = c /\ state[c] = "asks" /\ Call(c) = "up"
  /\ WriterTest(c, ReaderLeaves, pending_writer + 1)
  /\ reader' = ReaderLeaves

WriterAgain(c) ==
  /\ owner = c /\ state[c] = "tests" /\ Call(c) \in {"wr", "up"}
  /\ WriterTest(c, reader, pending_writer)
  /\ UNCHANGED reader

---------------------------------------------------------------------------
(* qemu_co_queue_do_restart: the coroutines taken from the queue are woken *)
Wake(n, s) ==
  LET taken == {queue[k] : k \in 1..n}
  IN /\ queue' = SubSeq(queue, n + 1, Len(queue))
     /\ state' = [d \in Coroutines |-> IF d \in taken THEN "woken" ELSE s[d]]

(* How many the reader that leaves wakes *)
WakesOne == IF reader = 1 /\ queue # <<>> THEN 1 ELSE 0

UnlockReader(c) ==
  /\ owner = c /\ state[c] = "asks" /\ Call(c) = "un"
  /\ reader' = reader - 1
  /\ Wake(WakesOne, [state EXCEPT ![c] = "idle"])
  /\ Release /\ Return(c) /\ Held(c, -1)
  /\ UNCHANGED pending_writer

WakesAll == Len(queue)

UnlockWriter(c) ==
  /\ state[c] = "writing" /\ Call(c) = "un"
  /\ Wake(WakesAll, [state EXCEPT ![c] = "idle"])
  /\ Release /\ Return(c) /\ Held(c, -1)
  /\ UNCHANGED <<reader, pending_writer>>

qemu_co_rwlock_downgrade(c) ==
  /\ state[c] = "writing" /\ Call(c) = "down"
  /\ reader' = reader + 1
  /\ Release /\ Become(c, "reading") /\ Return(c)
  /\ UNCHANGED <<pending_writer, queue, locks_held>>

---------------------------------------------------------------------------
Coroutine(c) ==
  \/ Begin(c) \/ Woken(c) \/ qemu_co_rwlock_rdlock(c) \/ qemu_co_rwlock_wrlock(c)
  \/ qemu_co_rwlock_upgrade(c) \/ WriterAgain(c) \/ UnlockReader(c)
  \/ UnlockWriter(c) \/ qemu_co_rwlock_downgrade(c)

Next == \E c \in Coroutines : Coroutine(c)

Spec == Init /\ [][Next]_vars

(* Coroutines run, and finish what they do under the lock *)
FairSpec == Spec /\ \A c \in Coroutines : WF_vars(Coroutine(c))

---------------------------------------------------------------------------
Readers == {c \in Coroutines : \/ state[c] = "reading"
                               \/ state[c] = "asks" /\ Call(c) \in {"up", "un"}}

(* A writer is alone, whatever mix of upgrades, downgrades and waits came    *)
(* before: it has the mutex and there is no reader; `reader` counts exactly  *)
(* the read locks that are held, which is what unlock relies on to tell a    *)
(* reader from a writer; and a coroutine that ends holds no locks, as        *)
(* qemu_aio_coroutine_enter asserts.                                        *)
WriterAlone ==
  /\ reader = Cardinality(Readers)
  /\ \A c \in Coroutines : state[c] = "idle" => locks_held[c] = 0
  /\ \A c \in Coroutines : state[c] = "writing" => owner = c /\ Readers = {}

(* qemu_co_rwlock_unlock "schedules the next coroutine that was waiting for  *)
(* this lock to be run": every coroutine that waits gets the lock, as long   *)
(* as those that have it release it.                                        *)
WaitersServed ==
  \A c \in Coroutines : state[c] = "queued" ~> state[c] \in {"reading", "writing"}

(* It does as long as nobody downgrades: a writer that leaves wakes          *)
(* everybody, and what the last reader finds at the head of the queue is a   *)
(* writer, as the comment in qemu_co_rwlock_unlock takes for granted.        *)
NobodyDowngrades == \A c \in Coroutines : \A k \in DOMAIN script[c] : script[c][k] # "down"
ServedUnlessDowngraded == NobodyDowngrades => WaitersServed
=============================================================================
