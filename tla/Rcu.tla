-------------------------------- MODULE Rcu --------------------------------
(***************************************************************************)
(* Read-copy-update (util/rcu.c, include/qemu/rcu.h): readers that enter and *)
(* leave critical sections without a lock, and updaters that wait, in        *)
(* synchronize_rcu, for the critical sections in progress, to reclaim what   *)
(* they have removed.  rcu_gp_event is the QemuEvent of                      *)
(* util/qemu-thread-posix.c, on a futex.                                     *)
(*                                                                         *)
(* The shared data is one pointer, `ptr`, to the current version of an       *)
(* object.  Every load and store of a variable that two threads use is a     *)
(* step; the barriers of the code (smp_mb_global against                     *)
(* smp_mb_placeholder) are taken to make them sequentially consistent.       *)
(***************************************************************************)
EXTENDS Integers

CONSTANTS
  Readers, Updaters, NoThread,
  LongBytes,      \* sizeof(rcu_gp_ctr): 4 or 8
  UIntRange,      \* of `unsigned`, the type of ctr in rcu_read_lock
  MaxDepth,       \* how deep critical sections are nested
  MaxVersion      \* how often the object is replaced

ASSUME RcuAssumption ==
  /\ Readers \cap Updaters = {} /\ NoThread \notin Updaters
  /\ LongBytes \in {4, 8}
  /\ UIntRange \in Nat /\ UIntRange > 3 /\ UIntRange % 2 = 0
  /\ MaxDepth \in Nat /\ MaxVersion \in Nat

VARIABLES
  rcu_gp_ctr,
  registry, qsreaders,      \* the two lists of wait_for_readers
  ctr, waiting, depth,      \* rcu_reader of each thread
  local,                    \* ctr of rcu_read_lock
  held,                     \* the versions a reader has a pointer to
  at,                       \* where a thread is
  rcu_gp_event,
  rcu_sync_lock, rcu_registry_lock,
  phase,                    \* which of the waits of synchronize_rcu it is
  todo,                     \* what is left of a QLIST_FOREACH
  ptr,
  removed,                  \* what each updater is to reclaim
  batch,                    \* and was, when it called synchronize_rcu
  freed

readerVars == <<ctr, depth, local, held>>
syncVars == <<rcu_gp_ctr, rcu_sync_lock, phase, todo>>
dataVars == <<ptr, removed, batch, freed>>
rcuVars == <<registry, qsreaders, readerVars, waiting, at, rcu_gp_event,
             rcu_registry_lock, syncVars, dataVars>>

RCU_GP_LOCKED == 1
RCU_GP_CTR == 2

RcuInit ==
  /\ rcu_gp_ctr = RCU_GP_LOCKED
  /\ registry = {} /\ qsreaders = {}
  /\ ctr = [t \in Readers |-> 0]
  /\ waiting = [t \in Readers |-> FALSE]
  /\ depth = [t \in Readers |-> 0]
  /\ local = [t \in Readers |-> 0]
  /\ held = [t \in Readers |-> {}]
  /\ at = [t \in Readers \cup Updaters |-> "out"]
  /\ rcu_gp_event = "SET"
  /\ rcu_sync_lock = NoThread /\ rcu_registry_lock = NoThread
  /\ phase = 1 /\ todo = {}
  /\ ptr = 0 /\ freed = {}
  /\ removed = [u \in Updaters |-> {}]
  /\ batch = [u \in Updaters |-> {}]

Go(t, place) == at' = [at EXCEPT ![t] = place]

---------------------------------------------------------------------------
(* The reader *)

Registered(t) == t \in registry \cup qsreaders

rcu_register_thread(t) ==
  /\ at[t] = "out" /\ ~Registered(t) /\ rcu_registry_lock = NoThread
  /\ registry' = registry \cup {t}
  /\ UNCHANGED <<qsreaders, readerVars, waiting, at, rcu_gp_event,
                 rcu_registry_lock, syncVars, dataVars>>

rcu_unregister_thread(t) ==
  /\ at[t] = "out" /\ Registered(t) /\ rcu_registry_lock = NoThread
  /\ registry' = registry \ {t} /\ qsreaders' = qsreaders \ {t}
  /\ UNCHANGED <<readerVars, waiting, at, rcu_gp_event, rcu_registry_lock,
                 syncVars, dataVars>>

rcu_read_lock(t) ==
  /\ \/ /\ at[t] = "out" /\ Registered(t)
        /\ local' = [local EXCEPT ![t] = rcu_gp_ctr % UIntRange]
        /\ Go(t, "store")
     \/ /\ at[t] = "in" /\ depth[t] < MaxDepth
        /\ UNCHANGED <<local, at>>
  /\ depth' = [depth EXCEPT ![t] = @ + 1]
  /\ UNCHANGED <<registry, qsreaders, ctr, held, waiting, rcu_gp_event,
                 rcu_registry_lock, syncVars, dataVars>>

ReadLockStore(t) ==
  /\ at[t] = "store"
  /\ ctr' = [ctr EXCEPT ![t] = local[t]]
  /\ local' = [local EXCEPT ![t] = 0]
  /\ Go(t, "in")
  /\ UNCHANGED <<registry, qsreaders, depth, held, waiting, rcu_gp_event,
                 rcu_registry_lock, syncVars, dataVars>>

(* atomic_rcu_read *)
Dereference(t) ==
  /\ at[t] = "in" /\ ptr \notin held[t]
  /\ held' = [held EXCEPT ![t] = @ \cup {ptr}]
  /\ UNCHANGED <<registry, qsreaders, ctr, depth, local, waiting, at,
                 rcu_gp_event, rcu_registry_lock, syncVars, dataVars>>

rcu_read_unlock(t) ==
  /\ at[t] = "in"
  /\ depth' = [depth EXCEPT ![t] = @ - 1]
  /\ IF depth[t] > 1 THEN UNCHANGED <<ctr, held, at>>
     ELSE /\ ctr' = [ctr EXCEPT ![t] = 0]
          /\ held' = [held EXCEPT ![t] = {}]
          /\ Go(t, "unlocked")
  /\ UNCHANGED <<registry, qsreaders, local, waiting, rcu_gp_event,
                 rcu_registry_lock, syncVars, dataVars>>

ReadUnlockWaiting(t) ==
  /\ at[t] = "unlocked"
  /\ waiting' = [waiting EXCEPT ![t] = FALSE]
  /\ Go(t, IF waiting[t] THEN "set" ELSE "out")
  /\ UNCHANGED <<registry, qsreaders, readerVars, rcu_gp_event,
                 rcu_registry_lock, syncVars, dataVars>>

(* qemu_event_set: the load, the exchange, and the wakeup *)
EventSetLoad(t) ==
  /\ at[t] = "set"
  /\ Go(t, IF rcu_gp_event = "SET" THEN "out" ELSE "exchange")
  /\ UNCHANGED <<registry, qsreaders, readerVars, waiting, rcu_gp_event,
                 rcu_registry_lock, syncVars, dataVars>>

EventExchange(t) ==
  /\ at[t] = "exchange"
  /\ rcu_gp_event' = "SET"
  /\ Go(t, IF rcu_gp_event = "BUSY" THEN "wake" ELSE "out")
  /\ UNCHANGED <<registry, qsreaders, readerVars, waiting,
                 rcu_registry_lock, syncVars, dataVars>>

EventWake(t) ==
  /\ at[t] = "wake"
  /\ at' = [x \in Readers \cup Updaters |->
              IF x = t THEN "out" ELSE IF at[x] = "asleep" THEN "relock" ELSE at[x]]
  /\ UNCHANGED <<registry, qsreaders, readerVars, waiting, rcu_gp_event,
                 rcu_registry_lock, syncVars, dataVars>>

---------------------------------------------------------------------------
(* The updater *)

(* The current version is replaced; what becomes of the old one is u's       *)
(* business                                                                  *)
Remove(u) ==
  /\ ptr < MaxVersion
  /\ ptr' = ptr + 1
  /\ removed' = [removed EXCEPT ![u] = @ \cup {ptr}]
  /\ UNCHANGED <<registry, qsreaders, readerVars, waiting, at, rcu_gp_event,
                 rcu_registry_lock, syncVars, batch, freed>>

synchronize_rcu(u) ==
  /\ at[u] = "out"
  /\ batch' = [batch EXCEPT ![u] = removed[u]]
  /\ Go(u, "sync")
  /\ UNCHANGED <<registry, qsreaders, readerVars, waiting, rcu_gp_event,
                 rcu_registry_lock, syncVars, ptr, removed, freed>>

SyncLock(u) ==
  /\ at[u] = "sync" /\ rcu_sync_lock = NoThread
  /\ rcu_sync_lock' = u
  /\ Go(u, "begin")
  /\ UNCHANGED <<registry, qsreaders, readerVars, waiting, rcu_gp_event,
                 rcu_registry_lock, rcu_gp_ctr, phase, todo, dataVars>>

(* rcu_gp_ctr ^ RCU_GP_CTR, or rcu_gp_ctr + RCU_GP_CTR *)
NextCtr ==
  IF LongBytes < 8 /\ rcu_gp_ctr > RCU_GP_CTR THEN rcu_gp_ctr - RCU_GP_CTR
  ELSE rcu_gp_ctr + RCU_GP_CTR

(* With rcu_registry_lock; nothing is done when no thread is registered.     *)
(* With 64-bit longs there is only the second of two waits.                  *)
SyncBegin(u) ==
  /\ at[u] = "begin" /\ rcu_registry_lock = NoThread
  /\ IF registry = {}
       THEN /\ rcu_sync_lock' = NoThread
            /\ Go(u, "out")
            /\ UNCHANGED <<rcu_gp_ctr, rcu_registry_lock, phase>>
       ELSE /\ rcu_registry_lock' = u
            /\ rcu_gp_ctr' = NextCtr
            /\ phase' = IF LongBytes < 8 THEN 1 ELSE 2
            /\ Go(u, "reset")
            /\ UNCHANGED rcu_sync_lock
  /\ UNCHANGED <<registry, qsreaders, readerVars, waiting, rcu_gp_event,
                 todo, dataVars>>

(* wait_for_readers: qemu_event_reset, which only this thread calls *)
EventReset(u) ==
  /\ at[u] = "reset"
  /\ rcu_gp_event' = IF rcu_gp_event = "SET" THEN "FREE" ELSE rcu_gp_event
  /\ todo' = registry
  /\ Go(u, "mark")
  /\ UNCHANGED <<registry, qsreaders, readerVars, waiting, rcu_registry_lock,
                 rcu_gp_ctr, rcu_sync_lock, phase, dataVars>>

MarkWaiting(u) ==
  /\ at[u] = "mark"
  /\ IF todo = {}
       THEN todo' = registry /\ Go(u, "check") /\ UNCHANGED waiting
       ELSE \E t \in todo : /\ waiting' = [waiting EXCEPT ![t] = TRUE]
                            /\ todo' = todo \ {t}
                            /\ UNCHANGED at
  /\ UNCHANGED <<registry, qsreaders, readerVars, rcu_gp_event,
                 rcu_registry_lock, rcu_gp_ctr, rcu_sync_lock, phase, dataVars>>

(* Mutant: only a reader of this grace period is waited for.                 *)
OngoingNew(t) == ctr[t] # 0 /\ ctr[t] = rcu_gp_ctr

rcu_gp_ongoing(t) == ctr[t] # 0 /\ ctr[t] # rcu_gp_ctr

CheckReader(u) ==
  /\ at[u] = "check"
  /\ \E t \in todo :
       IF rcu_gp_ongoing(t)
         THEN todo' = todo \ {t} /\ UNCHANGED <<registry, qsreaders, at>>
         ELSE /\ registry' = registry \ {t} /\ qsreaders' = qsreaders \cup {t}
              /\ Go(u, "clear")
              /\ UNCHANGED todo
  /\ UNCHANGED <<readerVars, waiting, rcu_gp_event, rcu_registry_lock,
                 rcu_gp_ctr, rcu_sync_lock, phase, dataVars>>

ClearWaiting(u) ==
  /\ at[u] = "clear"
  /\ waiting' = [t \in Readers |-> waiting[t] /\ t \notin todo \cap qsreaders]
  /\ todo' = todo \ qsreaders
  /\ Go(u, "check")
  /\ UNCHANGED <<registry, qsreaders, readerVars, rcu_gp_event,
                 rcu_registry_lock, rcu_gp_ctr, rcu_sync_lock, phase, dataVars>>

(* QLIST_SWAP *)
PutBack == registry' = qsreaders /\ qsreaders' = registry

(* The walk is over: the wait, or the grace period, is, or one must sleep    *)
WalkOver(u) ==
  /\ at[u] = "check" /\ todo = {}
  /\ IF registry # {}
       THEN /\ rcu_registry_lock' = NoThread
            /\ Go(u, "wait")
            /\ UNCHANGED <<registry, qsreaders, rcu_gp_ctr, rcu_sync_lock, phase>>
       ELSE /\ PutBack
            /\ phase' = 2
            /\ IF phase = 1
                 THEN /\ rcu_gp_ctr' = NextCtr
                      /\ Go(u, "reset")
                      /\ UNCHANGED <<rcu_registry_lock, rcu_sync_lock>>
                 ELSE /\ rcu_registry_lock' = NoThread
                      /\ rcu_sync_lock' = NoThread
                      /\ Go(u, "out")
                      /\ UNCHANGED rcu_gp_ctr
  /\ UNCHANGED <<readerVars, waiting, rcu_gp_event, todo, dataVars>>

(* qemu_event_wait: the load, the compare-and-swap, and the futex *)
EventWait(u) ==
  /\ \/ /\ at[u] = "wait"
        /\ Go(u, CASE rcu_gp_event = "SET"  -> "relock"
                   [] rcu_gp_event = "FREE" -> "swap"
                   [] rcu_gp_event = "BUSY" -> "futex")
        /\ UNCHANGED rcu_gp_event
     \/ /\ at[u] = "swap"
        /\ rcu_gp_event' = IF rcu_gp_event = "FREE" THEN "BUSY" ELSE rcu_gp_event
        /\ Go(u, IF rcu_gp_event = "SET" THEN "relock" ELSE "futex")
     \/ /\ at[u] = "futex"
        /\ Go(u, IF rcu_gp_event = "BUSY" THEN "asleep" ELSE "relock")
        /\ UNCHANGED rcu_gp_event
  /\ UNCHANGED <<registry, qsreaders, readerVars, waiting, rcu_registry_lock,
                 syncVars, dataVars>>

Relock(u) ==
  /\ at[u] = "relock" /\ rcu_registry_lock = NoThread
  /\ rcu_registry_lock' = u
  /\ Go(u, "reset")
  /\ UNCHANGED <<registry, qsreaders, readerVars, waiting, rcu_gp_event,
                 syncVars, dataVars>>

(* After synchronize_rcu *)
Reclaim(u) ==
  /\ at[u] = "out"
  /\ \E o \in batch[u] :
       /\ freed' = freed \cup {o}
       /\ removed' = [removed EXCEPT ![u] = @ \ {o}]
       /\ batch' = [batch EXCEPT ![u] = @ \ {o}]
  /\ UNCHANGED <<registry, qsreaders, readerVars, waiting, at, rcu_gp_event,
                 rcu_registry_lock, syncVars, ptr>>

---------------------------------------------------------------------------
ReaderLeaves(t) ==
  \/ ReadLockStore(t) \/ rcu_read_unlock(t) \/ ReadUnlockWaiting(t)
  \/ EventSetLoad(t) \/ EventExchange(t) \/ EventWake(t)

Reader(t) ==
  \/ rcu_register_thread(t) \/ rcu_unregister_thread(t) \/ rcu_read_lock(t)
  \/ Dereference(t) \/ ReaderLeaves(t)

SyncStep(u) ==
  \/ SyncLock(u) \/ SyncBegin(u) \/ EventReset(u) \/ MarkWaiting(u)
  \/ CheckReader(u) \/ ClearWaiting(u) \/ WalkOver(u) \/ EventWait(u) \/ Relock(u)

Updater(u) == Remove(u) \/ synchronize_rcu(u) \/ SyncStep(u) \/ Reclaim(u)

RcuNext == (\E t \in Readers : Reader(t)) \/ (\E u \in Updaters : Updater(u))

RcuSpec == RcuInit /\ [][RcuNext]_rcuVars

---------------------------------------------------------------------------
ReaderPlaces == {"out", "store", "in", "unlocked", "set", "exchange", "wake"}
SyncPlaces == {"out", "sync", "begin", "reset", "mark", "check", "clear",
               "wait", "swap", "futex", "asleep", "relock"}
Versions == 0 .. MaxVersion

TypeOK ==
  /\ rcu_gp_ctr \in Nat /\ rcu_gp_ctr >= RCU_GP_LOCKED
  /\ LongBytes < 8 => rcu_gp_ctr \in {1, 3}
  /\ registry \subseteq Readers /\ qsreaders \subseteq Readers
  /\ ctr \in [Readers -> Nat] /\ local \in [Readers -> Nat]
  /\ waiting \in [Readers -> BOOLEAN] /\ depth \in [Readers -> Nat]
  /\ held \in [Readers -> SUBSET Versions]
  /\ at \in [Readers \cup Updaters -> ReaderPlaces \cup SyncPlaces]
  /\ rcu_gp_event \in {"SET", "FREE", "BUSY"}
  /\ rcu_sync_lock \in Updaters \cup {NoThread}
  /\ rcu_registry_lock \in Updaters \cup {NoThread}
  /\ phase \in {1, 2} /\ todo \subseteq Readers
  /\ ptr \in Versions /\ freed \subseteq Versions
  /\ removed \in [Updaters -> SUBSET Versions]
  /\ batch \in [Updaters -> SUBSET Versions]

(* synchronize_rcu "blocks until all pre-existing RCU read-side critical     *)
(* sections on all threads have completed": nothing that has been reclaimed  *)
(* after it is pointed to from a critical section.                           *)
NoUseAfterFree == \A t \in Readers : held[t] \cap freed = {}

(* "The invariant is that the node is part of one list when                  *)
(* rcu_registry_lock is released": the lists never share a thread, and one   *)
(* that is in a critical section is on one of them.                          *)
OneList ==
  /\ registry \cap qsreaders = {}
  /\ \A t \in Readers : depth[t] > 0 => Registered(t)
=============================================================================
