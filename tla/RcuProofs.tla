----------------------------- MODULE RcuProofs -----------------------------
(***************************************************************************)
(* Proofs about Rcu, for any number of readers and updaters and for both     *)
(* widths of long.  A reader that holds what an updater is to reclaim        *)
(* entered its critical section before the removal.  With 64-bit longs its   *)
(* counter is below that of the grace period; with 32-bit longs it has one   *)
(* of two values, and there are two waits, of which the first lets it pass   *)
(* with the one and the second with the other.                               *)
(***************************************************************************)
EXTENDS RcuCall, TLAPS

(* Inside wait_for_readers, and with rcu_sync_lock *)
Walking == {"reset", "mark", "check", "clear", "wait", "swap", "futex", "asleep", "relock"}
Syncing == Walking \cup {"begin"}

(* A reader that has loaded a pointer is in a critical section, on a list,   *)
(* with a counter that is not from the future.                               *)
Section(t) ==
  /\ at[t] \in ReaderPlaces
  /\ held[t] # {} => at[t] = "in"
  /\ depth[t] > 0 <=> at[t] \in {"store", "in"}
  /\ depth[t] > 0 => Registered(t)
  /\ at[t] = "in" => ctr[t] # 0
  /\ at[t] = "store" => local[t] # 0
  /\ LongBytes = 8 => ctr[t] <= rcu_gp_ctr /\ local[t] <= rcu_gp_ctr
  /\ LongBytes = 4 => ctr[t] \in {0, 1, 3} /\ local[t] \in {0, 1, 3}

Sections == \A t \in Readers : Section(t)

(* One updater at a time walks the lists, and only then are there two.       *)
Locks ==
  /\ registry \cap qsreaders = {}
  /\ \A u \in Updaters : at[u] \in SyncPlaces /\ (at[u] \in Syncing <=> rcu_sync_lock = u)
  /\ \A u \in Updaters : at[u] \in Walking /\ phase = 1 => LongBytes = 4
  /\ qsreaders # {} => \E u \in Updaters : at[u] \in Walking

(* What was removed is not current.                                          *)
Data ==
  /\ \A u \in Updaters : \A o \in removed[u] \cup batch[u] : o < ptr
  /\ \A o \in freed : o < ptr

Holds(t, u) == held[t] \cap batch[u] # {}

(* After the wait nobody holds what the updater had removed before; during   *)
(* the last one, whoever does is yet to be waited for; and whom the first    *)
(* has let pass, the second will not.                                        *)
Waited ==
  \A u \in Updaters : \A t \in Readers : Holds(t, u) =>
    /\ at[u] # "out"
    /\ at[u] \in Walking /\ phase = 2 => ctr[t] # rcu_gp_ctr /\ t \notin qsreaders
    /\ at[u] \in Walking /\ phase = 1 /\ t \in qsreaders => ctr[t] = rcu_gp_ctr

Odd == rcu_gp_ctr % 2 = 1

IInv == TypeOK /\ Odd /\ Sections /\ Locks /\ Data /\ Waited /\ NoUseAfterFree

---------------------------------------------------------------------------
(* Leaves name the prover when it is the SMT solver *)
USE ZenonT(60)

LEMMA InitIInv == RcuInit => IInv
  <1> SUFFICES ASSUME RcuInit PROVE IInv
    OBVIOUS
  <1>1. TypeOK /\ Odd
    BY RcuAssumption, SMT DEF RcuInit, TypeOK, Odd, ReaderPlaces, SyncPlaces, Versions, RCU_GP_LOCKED
  <1>2. ASSUME NEW t \in Readers PROVE Section(t)
    <2>1. at[t] = "out" /\ held[t] = {} /\ depth[t] = 0 /\ ctr[t] = 0 /\ local[t] = 0
      BY DEF RcuInit
    <2> QED BY <2>1, SMT DEF RcuInit, Section, ReaderPlaces, RCU_GP_LOCKED
  <1>3. Locks
    BY RcuAssumption DEF RcuInit, Locks, Syncing, Walking, SyncPlaces
  <1>4. Data /\ Waited /\ NoUseAfterFree
    BY DEF RcuInit, Data, Waited, Holds, NoUseAfterFree
  <1> QED BY <1>1, <1>2, <1>3, <1>4 DEF IInv, Sections

(* Steps after which the readers and the updaters are where they were, as    *)
(* far as the invariant is concerned.                                        *)
Quiet ==
  /\ UNCHANGED <<registry, qsreaders, readerVars, rcu_gp_ctr, phase, dataVars, rcu_sync_lock>>
  /\ \A t \in Readers : \/ at'[t] = at[t]
                        \/ {at[t], at'[t]} \subseteq ReaderPlaces \ {"store", "in"}
  /\ \A u \in Updaters : at'[u] = at[u] \/ {at[u], at'[u]} \subseteq Walking

LEMMA QuietKeeps ==
  ASSUME IInv, Quiet PROVE Odd' /\ Sections' /\ Locks' /\ Data' /\ Waited' /\ NoUseAfterFree'
  <1> USE DEF IInv, Quiet, readerVars, dataVars
  <1>1. Odd' /\ Data' /\ NoUseAfterFree'
    BY DEF Odd, Data, NoUseAfterFree
  <1>2. Sections'
    BY DEF Sections, Section, Registered, ReaderPlaces
  <1>3. Locks'
    BY DEF Locks, Syncing, Walking, SyncPlaces
  <1>4. Waited'
    BY DEF Waited, Holds, Walking
  <1> QED BY <1>1, <1>2, <1>3, <1>4

(* The places of readers and updaters do not mix.                            *)
LEMMA Apart ==
  ASSUME IInv, NEW t \in Readers, NEW u \in Updaters PROVE t # u /\ at[u] \in SyncPlaces
  BY RcuAssumption DEF IInv, Locks

(* What SyncBegin and WalkOver make of rcu_gp_ctr.                           *)
LEMMA CtrStep ==
  ASSUME TypeOK, Odd
  PROVE  /\ NextCtr \in Nat /\ NextCtr >= 1 /\ NextCtr % 2 = 1 /\ NextCtr # rcu_gp_ctr
         /\ LongBytes = 8 => NextCtr > rcu_gp_ctr
         /\ LongBytes = 4 => NextCtr \in {1, 3}
  BY RcuAssumption, SMT DEF TypeOK, Odd, NextCtr, RCU_GP_CTR, RCU_GP_LOCKED

(* What rcu_read_lock makes of it: bit 0 keeps a truncated counter from      *)
(* being zero, which means that there is no critical section.                *)
LEMMA Truncated ==
  ASSUME TypeOK, Odd
  PROVE  LET c == rcu_gp_ctr % UIntRange
         IN /\ c \in Nat /\ c # 0 /\ c <= rcu_gp_ctr
            /\ LongBytes = 4 => c \in {1, 3}
  <1> DEFINE c == rcu_gp_ctr % UIntRange
             q == rcu_gp_ctr \div UIntRange
  <1>1. UIntRange \in Nat /\ UIntRange > 3 /\ UIntRange % 2 = 0 /\ LongBytes \in {4, 8}
    BY RcuAssumption
  <1>2. rcu_gp_ctr \in Nat /\ rcu_gp_ctr % 2 = 1
    BY DEF TypeOK, Odd
  <1>3. c \in Nat /\ q \in Nat /\ rcu_gp_ctr = UIntRange * q + c
    BY <1>1, <1>2, SMT
  <1>4. c <= rcu_gp_ctr
    BY <1>1, <1>2, <1>3, SMT
  <1>5. c # 0
    <2> SUFFICES ASSUME c = 0 PROVE FALSE
      OBVIOUS
    <2>1. PICK k \in Nat : UIntRange = 2 * k
      BY <1>1, SMT
    <2>2. k * q \in Nat
      BY <1>3, <2>1, SMT
    <2>3. rcu_gp_ctr = 2 * (k * q)
      BY <1>3, <2>1, SMT
    <2> HIDE DEF c, q
    <2> DEFINE z == k * q
    <2>4. z \in Nat /\ rcu_gp_ctr = 2 * z
      BY <2>2, <2>3
    <2> HIDE DEF z
    <2> QED BY <1>2, <2>4, SMT
  <1>6. LongBytes = 4 => c \in {1, 3}
    <2> SUFFICES ASSUME LongBytes = 4 PROVE c = rcu_gp_ctr /\ rcu_gp_ctr \in {1, 3}
      OBVIOUS
    <2>1. rcu_gp_ctr \in {1, 3}
      BY SMT DEF TypeOK
    <2> QED BY <1>1, <2>1, SMT
  <1> QED BY <1>3, <1>4, <1>5, <1>6

---------------------------------------------------------------------------
(* Type correctness *)

LEMMA ReaderType ==
  ASSUME IInv, NEW t \in Readers, Reader(t) PROVE TypeOK'
  <1> USE DEF TypeOK, ReaderPlaces, SyncPlaces, readerVars, syncVars, dataVars, Go
  <1>0. TypeOK /\ depth[t] \in Nat /\ at[t] \in ReaderPlaces \cup SyncPlaces
    BY DEF IInv
  <1>1. CASE rcu_register_thread(t)
    BY <1>0, <1>1 DEF rcu_register_thread
  <1>2. CASE rcu_unregister_thread(t)
    BY <1>0, <1>2 DEF rcu_unregister_thread
  <1>3. CASE rcu_read_lock(t)
    BY <1>0, <1>3, Truncated, SMT DEF rcu_read_lock, IInv
  <1>4. CASE ReadLockStore(t)
    BY <1>0, <1>4 DEF ReadLockStore
  <1>5. CASE Dereference(t)
    BY <1>0, <1>5 DEF Dereference
  <1>6. CASE ReadUnlockWaiting(t)
    BY <1>0, <1>6 DEF ReadUnlockWaiting
  <1>7. CASE EventSetLoad(t)
    BY <1>0, <1>7 DEF EventSetLoad
  <1>8. CASE EventExchange(t)
    BY <1>0, <1>8 DEF EventExchange
  <1>9. CASE EventWake(t)
    BY <1>0, <1>9 DEF EventWake
  <1>10. CASE rcu_read_unlock(t)
    <2>1. depth[t] > 0
      BY <1>10 DEF rcu_read_unlock, IInv, Sections, Section
    <2> QED BY <1>0, <1>10, <2>1, SMT DEF rcu_read_unlock
  <1> QED BY <1>1, <1>2, <1>3, <1>4, <1>5, <1>6, <1>7, <1>8, <1>9, <1>10 DEF Reader, ReaderLeaves

LEMMA UpdaterType ==
  ASSUME IInv, NEW u \in Updaters, Updater(u) PROVE TypeOK'
  <1> USE DEF TypeOK, ReaderPlaces, SyncPlaces, readerVars, syncVars, dataVars, Go, Versions
  <1>0. TypeOK /\ Odd
    BY DEF IInv
  <1>1. CASE Remove(u)
    BY <1>0, <1>1, RcuAssumption, SMT DEF Remove
  <1>2. CASE synchronize_rcu(u)
    BY <1>0, <1>2 DEF synchronize_rcu
  <1>3. CASE SyncLock(u)
    BY <1>0, <1>3 DEF SyncLock
  <1>4. CASE SyncBegin(u)
    BY <1>0, <1>4, CtrStep, RcuAssumption, SMT DEF SyncBegin, RCU_GP_LOCKED
  <1>5. CASE EventReset(u)
    BY <1>0, <1>5 DEF EventReset
  <1>6. CASE MarkWaiting(u)
    BY <1>0, <1>6 DEF MarkWaiting
  <1>7. CASE ClearWaiting(u)
    BY <1>0, <1>7 DEF ClearWaiting
  <1>8. CASE EventWait(u)
    BY <1>0, <1>8 DEF EventWait
  <1>9. CASE Relock(u)
    BY <1>0, <1>9 DEF Relock
  <1>10. CASE CheckReader(u)
    BY <1>0, <1>10, SMT DEF CheckReader
  <1>11. CASE WalkOver(u)
    BY <1>0, <1>11, CtrStep, RcuAssumption, SMT DEF WalkOver, PutBack, RCU_GP_LOCKED
  <1>12. CASE Reclaim(u)
    BY <1>0, <1>12, SMT DEF Reclaim
  <1> QED BY <1>1, <1>2, <1>3, <1>4, <1>5, <1>6, <1>7, <1>8, <1>9, <1>10, <1>11, <1>12 DEF Updater, SyncStep

---------------------------------------------------------------------------
(* The rest of the invariant, action by action *)

Rest == Odd /\ Sections /\ Locks /\ Data /\ Waited /\ NoUseAfterFree

LEMMA QuietReader ==
  ASSUME IInv, NEW t \in Readers,
         ReadUnlockWaiting(t) \/ EventSetLoad(t) \/ EventExchange(t) \/ EventWake(t)
  PROVE  Rest'
  <1>1. t \notin Updaters /\ at \in [Readers \cup Updaters -> ReaderPlaces \cup SyncPlaces]
    BY RcuAssumption DEF IInv, TypeOK
  <1>2. \A x \in Readers : at[x] \in ReaderPlaces
    BY DEF IInv, Sections, Section
  <1>3. Quiet
    BY <1>1, <1>2 DEF Quiet, ReadUnlockWaiting, EventSetLoad, EventExchange, EventWake, Go,
                      Walking, ReaderPlaces, syncVars
  <1> QED BY <1>3, QuietKeeps DEF Rest

LEMMA QuietUpdater ==
  ASSUME IInv, NEW u \in Updaters,
         EventReset(u) \/ MarkWaiting(u) \/ ClearWaiting(u) \/ EventWait(u) \/ Relock(u)
  PROVE  Rest'
  <1>1. u \notin Readers /\ at \in [Readers \cup Updaters -> ReaderPlaces \cup SyncPlaces]
        /\ rcu_gp_event \in {"SET", "FREE", "BUSY"}
    BY RcuAssumption DEF IInv, TypeOK
  <1>2. Quiet
    BY <1>1 DEF Quiet, EventReset, MarkWaiting, ClearWaiting, EventWait, Relock, Go,
                Walking, syncVars
  <1> QED BY <1>2, QuietKeeps DEF Rest

(* A thread on no list is in no critical section, so that joining and        *)
(* leaving the lists disturbs no grace period.                               *)
LEMMA RegisterKeeps ==
  ASSUME IInv, NEW t \in Readers, rcu_register_thread(t) \/ rcu_unregister_thread(t)
  PROVE  Rest'
  <1> USE DEF IInv, rcu_register_thread, rcu_unregister_thread, readerVars, syncVars, dataVars
  <1>1. held[t] = {} /\ ~(depth[t] > 0)
    BY DEF Sections, Section
  <1>2. Odd' /\ Data' /\ NoUseAfterFree'
    BY DEF Odd, Data, NoUseAfterFree
  <1>3. Sections'
    BY <1>1 DEF Sections, Section, Registered
  <1>4. Locks'
    BY DEF Locks, Registered
  <1>5. Waited'
    BY <1>1 DEF Waited, Holds
  <1> QED BY <1>2, <1>3, <1>4, <1>5 DEF Rest

LEMMA ReaderKeeps ==
  ASSUME IInv, NEW t \in Readers,
         rcu_read_lock(t) \/ ReadLockStore(t) \/ Dereference(t) \/ rcu_read_unlock(t)
  PROVE  Rest'
  <1> USE DEF IInv
  <1>0. /\ t \notin Updaters /\ at \in [Readers \cup Updaters -> ReaderPlaces \cup SyncPlaces]
        /\ depth \in [Readers -> Nat] /\ ctr \in [Readers -> Nat] /\ local \in [Readers -> Nat]
        /\ held \in [Readers -> SUBSET Versions] /\ rcu_gp_ctr \in Nat /\ rcu_gp_ctr # 0
    BY RcuAssumption, SMT DEF TypeOK, RCU_GP_LOCKED
  <1>1. /\ UNCHANGED <<registry, qsreaders, syncVars, dataVars>>
        /\ \A u \in Updaters : at'[u] = at[u]
        /\ \A x \in Readers : x # t => /\ at'[x] = at[x] /\ depth'[x] = depth[x]
                                       /\ ctr'[x] = ctr[x] /\ local'[x] = local[x]
                                       /\ held'[x] = held[x]
    BY <1>0 DEF rcu_read_lock, ReadLockStore, Dereference, rcu_read_unlock, Go
  <1>2. Odd' /\ Data' /\ Locks'
    BY <1>1 DEF Odd, Data, Locks, syncVars, dataVars
  <1>3. Section(t)'
    <2>1. Section(t)
      BY DEF Sections
    <2>2. CASE rcu_read_lock(t)
      BY <1>0, <2>1, <2>2, Truncated, SMT
      DEF Section, Registered, rcu_read_lock, Go, ReaderPlaces, syncVars
    <2>3. CASE ReadLockStore(t)
      BY <1>0, <2>1, <2>3, SMT DEF Section, Registered, ReadLockStore, Go, ReaderPlaces, syncVars
    <2>4. CASE Dereference(t)
      BY <1>0, <2>1, <2>4 DEF Section, Registered, Dereference, syncVars
    <2>5. CASE rcu_read_unlock(t)
      BY <1>0, <2>1, <2>5, SMT DEF Section, Registered, rcu_read_unlock, Go, ReaderPlaces, syncVars
    <2> QED BY <2>2, <2>3, <2>4, <2>5
  <1>4. ASSUME NEW x \in Readers, x # t PROVE Section(x)'
    BY <1>1, <1>4 DEF Sections, Section, Registered, syncVars
  <1>5. \/ held'[t] = held[t] /\ (ctr'[t] = ctr[t] \/ held[t] = {})
        \/ held'[t] = {}
        \/ held'[t] = held[t] \cup {ptr} /\ ctr'[t] = ctr[t]
    <2>1. held[t] # {} => at[t] = "in"
      BY DEF Sections, Section
    <2>2. CASE rcu_read_lock(t) \/ Dereference(t)
      BY <1>0, <2>2 DEF rcu_read_lock, Dereference
    <2>3. CASE ReadLockStore(t)
      BY <1>0, <2>1, <2>3 DEF ReadLockStore
    <2>4. CASE rcu_read_unlock(t)
      BY <1>0, <2>4 DEF rcu_read_unlock
    <2> QED BY <2>2, <2>3, <2>4
  <1>6. NoUseAfterFree'
    <2>1. ptr \notin freed
      BY SMT DEF Data, TypeOK, Versions
    <2> QED BY <1>1, <1>5, <2>1 DEF NoUseAfterFree, dataVars
  <1>7. Waited'
    <2> SUFFICES ASSUME NEW u \in Updaters, NEW x \in Readers, Holds(x, u)'
                 PROVE  Holds(x, u) /\ ctr'[x] = ctr[x]
      BY <1>1 DEF Waited, syncVars
    <2>1. CASE x # t
      BY <1>1, <2>1 DEF Holds, dataVars
    <2>2. CASE x = t
      <3>1. ptr \notin batch[u]
        BY SMT DEF Data, TypeOK, Versions
      <3> QED BY <1>1, <1>5, <2>2, <3>1 DEF Holds, dataVars
    <2> QED BY <2>1, <2>2
  <1> QED BY <1>2, <1>3, <1>4, <1>6, <1>7 DEF Rest, Sections

(* The updater's own steps leave the readers alone.                          *)
LEMMA BatchKeeps ==
  ASSUME IInv, NEW u \in Updaters,
         Remove(u) \/ synchronize_rcu(u) \/ SyncLock(u) \/ Reclaim(u)
  PROVE  Rest'
  <1> USE DEF IInv
  <1>0. /\ u \notin Readers /\ at \in [Readers \cup Updaters -> ReaderPlaces \cup SyncPlaces]
        /\ removed \in [Updaters -> SUBSET Versions] /\ batch \in [Updaters -> SUBSET Versions]
        /\ ptr \in Nat /\ u # NoThread /\ NoThread \notin Updaters
        /\ \A o \in freed : o \in Nat
        /\ \A x \in Updaters : \A o \in removed[x] \cup batch[x] : o \in Nat
    BY RcuAssumption, SMT DEF TypeOK, Versions
  <1>1. /\ UNCHANGED <<registry, qsreaders, readerVars, rcu_gp_ctr, phase>>
        /\ \A x \in Readers : at'[x] = at[x]
        /\ \A x \in Updaters : x # u => at'[x] = at[x] /\ batch'[x] = batch[x]
    BY <1>0 DEF Remove, synchronize_rcu, SyncLock, Reclaim, Go, syncVars, dataVars
  <1>2. Odd' /\ Sections'
    BY <1>1 DEF Odd, Sections, Section, Registered, readerVars
  <1>3. Locks'
    BY <1>0, <1>1, SMT DEF Locks, Remove, synchronize_rcu, SyncLock, Reclaim, Go, syncVars,
                      Syncing, Walking, SyncPlaces
  <1>4. Data'
    <2>1. CASE Remove(u)
      BY <1>0, <2>1, SMT DEF Data, Remove
    <2>2. CASE synchronize_rcu(u) \/ SyncLock(u) \/ Reclaim(u)
      BY <1>0, <2>2, SMT DEF Data, synchronize_rcu, SyncLock, Reclaim, dataVars
    <2> QED BY <2>1, <2>2
  <1>5. NoUseAfterFree'
    <2>1. CASE Reclaim(u)
      BY <1>1, <2>1 DEF NoUseAfterFree, Reclaim, Waited, Holds, readerVars
    <2>2. CASE Remove(u) \/ synchronize_rcu(u) \/ SyncLock(u)
      BY <1>1, <2>2 DEF NoUseAfterFree, Remove, synchronize_rcu, SyncLock, dataVars, readerVars
    <2> QED BY <2>1, <2>2
  <1>6. Waited'
    <2> SUFFICES ASSUME NEW x \in Updaters, NEW t \in Readers, Holds(t, x)'
                 PROVE  /\ at'[x] # "out"
                        /\ at'[x] \in Walking /\ phase' = 2 =>
                             ctr'[t] # rcu_gp_ctr' /\ t \notin qsreaders'
                        /\ at'[x] \in Walking /\ phase' = 1 /\ t \in qsreaders' =>
                             ctr'[t] = rcu_gp_ctr'
      BY DEF Waited
    <2>1. CASE x # u
      BY <1>1, <2>1 DEF Waited, Holds, readerVars
    <2>2. CASE x = u /\ (Remove(u) \/ Reclaim(u))
      BY <1>0, <1>1, <2>2 DEF Waited, Holds, readerVars, Remove, Reclaim
    <2>3. CASE x = u /\ (synchronize_rcu(u) \/ SyncLock(u))
      BY <1>0, <1>1, <2>3 DEF synchronize_rcu, SyncLock, Go, Walking
    <2> QED BY <2>1, <2>2, <2>3
  <1> QED BY <1>2, <1>3, <1>4, <1>5, <1>6 DEF Rest

(* One updater walks the lists: any other is outside synchronize_rcu, or     *)
(* waits for rcu_sync_lock.                                                  *)
LEMMA OneWalker ==
  ASSUME IInv, NEW u \in Updaters, at[u] \in Syncing, NEW x \in Updaters, x # u
  PROVE  at[x] \notin Syncing
  BY DEF IInv, Locks

(* A reader is where it was when the counter moves on.                       *)
LEMMA CtrKeepsSection ==
  ASSUME IInv, NEW t \in Readers, at'[t] = at[t], UNCHANGED readerVars,
         rcu_gp_ctr' = NextCtr, Registered(t) => Registered(t)'
  PROVE  Section(t)'
  <1>1. Section(t) /\ ctr[t] \in Nat /\ local[t] \in Nat /\ rcu_gp_ctr \in Nat
    BY DEF IInv, Sections, TypeOK
  <1>2. NextCtr \in Nat /\ (LongBytes = 8 => NextCtr > rcu_gp_ctr)
    BY CtrStep DEF IInv
  <1>3. LongBytes = 8 => ctr[t] <= NextCtr /\ local[t] <= NextCtr
    BY <1>1, <1>2, SMT DEF Section
  <1> QED BY <1>1, <1>3 DEF Section, readerVars

(* rcu_gp_ctr goes on when the walk begins: whoever holds what was removed   *)
(* before has an older counter.                                              *)
LEMMA BeginKeeps ==
  ASSUME IInv, NEW u \in Updaters, SyncBegin(u) PROVE Rest'
  <1> USE DEF IInv
  <1>0. /\ u \notin Readers /\ at \in [Readers \cup Updaters -> ReaderPlaces \cup SyncPlaces]
        /\ NoThread \notin Updaters /\ LongBytes \in {4, 8} /\ rcu_gp_ctr \in Nat
        /\ ctr \in [Readers -> Nat] /\ local \in [Readers -> Nat]
    BY RcuAssumption DEF TypeOK
  <1>1. /\ UNCHANGED <<registry, qsreaders, readerVars, dataVars>>
        /\ \A x \in Readers \cup Updaters : x # u => at'[x] = at[x]
    BY <1>0 DEF SyncBegin, Go
  <1>2. qsreaders = {}
    <2>1. \A x \in Updaters : at[x] \notin Walking
      BY OneWalker DEF SyncBegin, Syncing, Walking
    <2> QED BY <2>1 DEF Locks
  <1>3. Data' /\ NoUseAfterFree'
    BY <1>1 DEF Data, NoUseAfterFree, dataVars, readerVars
  <1>4. CASE registry = {}
    <2>1. /\ at'[u] = "out" /\ rcu_sync_lock' = NoThread /\ rcu_sync_lock = u
          /\ UNCHANGED <<rcu_gp_ctr, phase>>
      BY <1>0, <1>4 DEF SyncBegin, Go, Locks, Syncing
    <2>2. \A t \in Readers : held[t] = {}
      BY <1>2, <1>4 DEF Sections, Section, Registered
    <2>3. Odd' /\ Sections'
      BY <1>0, <1>1, <2>1 DEF Odd, Sections, Section, Registered, readerVars
    <2>4. Locks'
      BY <1>0, <1>1, <1>2, <2>1 DEF Locks, Syncing, Walking, SyncPlaces
    <2>5. Waited'
      BY <1>1, <2>2 DEF Waited, Holds, readerVars, dataVars
    <2> QED BY <1>3, <2>3, <2>4, <2>5 DEF Rest
  <1>5. CASE registry # {}
    <2>1. /\ at'[u] = "reset" /\ UNCHANGED rcu_sync_lock /\ rcu_sync_lock = u
          /\ rcu_gp_ctr' = NextCtr /\ phase' = IF LongBytes < 8 THEN 1 ELSE 2
      BY <1>0, <1>5 DEF SyncBegin, Go, Locks, Syncing
    <2>2. Odd'
      BY <2>1, CtrStep DEF Odd
    <2>3. ASSUME NEW t \in Readers PROVE Section(t)'
      BY <1>0, <1>1, <2>1, CtrKeepsSection DEF Registered
    <2>4. Locks'
      BY <1>0, <1>1, <1>2, <2>1, OneWalker, SMTT(60) DEF Locks, Syncing, Walking, SyncPlaces, SyncBegin
    <2>5. Waited'
      <3> SUFFICES ASSUME NEW x \in Updaters, NEW t \in Readers, Holds(t, x)'
                   PROVE  /\ at'[x] # "out"
                          /\ at'[x] \in Walking => x = u
                          /\ phase' = 2 => ctr'[t] # rcu_gp_ctr'
        BY <1>1, <1>2 DEF Waited
      <3>1. Holds(t, x) /\ at[x] # "out"
        BY <1>1 DEF Waited, Holds, readerVars, dataVars
      <3>2. at[x] \in Walking => x = u
        BY OneWalker DEF Syncing, SyncBegin
      <3>3. phase' = 2 => ctr[t] # NextCtr
        BY <1>0, <2>1, CtrStep, SMT DEF Sections, Section
      <3> QED BY <1>1, <2>1, <3>1, <3>2, <3>3 DEF readerVars
    <2> QED BY <1>3, <2>2, <2>3, <2>4, <2>5 DEF Rest, Sections
  <1> QED BY <1>4, <1>5

(* A reader leaves registry for qsreaders when it is in no critical section, *)
(* or in one that began after the counter moved on.                          *)
LEMMA CheckKeeps ==
  ASSUME IInv, NEW u \in Updaters, CheckReader(u) PROVE Rest'
  <1> USE DEF IInv
  <1>0. /\ u \notin Readers /\ at \in [Readers \cup Updaters -> ReaderPlaces \cup SyncPlaces]
    BY RcuAssumption DEF TypeOK
  <1>1. PICK t \in todo :
          IF rcu_gp_ongoing(t)
            THEN UNCHANGED <<registry, qsreaders, at>>
            ELSE /\ registry' = registry \ {t} /\ qsreaders' = qsreaders \cup {t}
                 /\ Go(u, "clear")
    BY DEF CheckReader
  <1>2. UNCHANGED <<readerVars, rcu_gp_ctr, rcu_sync_lock, phase, dataVars>> /\ at[u] = "check"
    BY DEF CheckReader
  <1>3. CASE rcu_gp_ongoing(t)
    <2>1. Quiet
      BY <1>1, <1>2, <1>3 DEF Quiet
    <2> QED BY <2>1, QuietKeeps DEF Rest
  <1>4. CASE ~rcu_gp_ongoing(t)
    <2>1. /\ registry' = registry \ {t} /\ qsreaders' = qsreaders \cup {t}
          /\ at'[u] = "clear" /\ \A x \in Readers \cup Updaters : x # u => at'[x] = at[x]
      BY <1>0, <1>1, <1>4 DEF Go
    <2>2. Odd' /\ Data' /\ NoUseAfterFree'
      BY <1>2 DEF Odd, Data, NoUseAfterFree, readerVars, dataVars
    <2>3. Sections'
      BY <1>0, <1>2, <2>1 DEF Sections, Section, Registered, readerVars
    <2>4. Locks'
      BY <1>0, <1>2, <2>1 DEF Locks, Syncing, Walking, SyncPlaces
    <2>5. Waited'
      <3> SUFFICES ASSUME NEW x \in Updaters, NEW r \in Readers, Holds(r, x)'
                   PROVE  /\ at'[x] # "out"
                          /\ at'[x] \in Walking /\ phase = 2 =>
                               ctr[r] # rcu_gp_ctr /\ r \notin qsreaders'
                          /\ at'[x] \in Walking /\ phase = 1 /\ r \in qsreaders' =>
                               ctr[r] = rcu_gp_ctr
        BY <1>2 DEF Waited, readerVars
      <3>1. Holds(r, x)
        BY <1>2 DEF Holds, readerVars, dataVars
      <3>2. ctr[r] # 0
        BY <3>1 DEF Holds, Sections, Section
      <3>3. r = t => ctr[r] = rcu_gp_ctr
        BY <1>4, <3>2 DEF rcu_gp_ongoing
      <3>4. at'[x] # "out" /\ (at'[x] \in Walking => at[x] \in Walking)
        BY <1>2, <2>1, <3>1 DEF Waited, Walking
      <3> QED BY <2>1, <3>1, <3>3, <3>4 DEF Waited
    <2> QED BY <2>2, <2>3, <2>4, <2>5 DEF Rest
  <1> QED BY <1>3, <1>4

(* When registry is empty the first wait has let everybody pass, and the     *)
(* counter moves on again; the last one has let pass only those that hold    *)
(* nothing.                                                                  *)
LEMMA WalkKeeps ==
  ASSUME IInv, NEW u \in Updaters, WalkOver(u) PROVE Rest'
  <1> USE DEF IInv
  <1>0. /\ u \notin Readers /\ at \in [Readers \cup Updaters -> ReaderPlaces \cup SyncPlaces]
        /\ NoThread \notin Updaters /\ LongBytes \in {4, 8} /\ rcu_gp_ctr \in Nat
        /\ ctr \in [Readers -> Nat] /\ local \in [Readers -> Nat] /\ phase \in {1, 2}
    BY RcuAssumption DEF TypeOK
  <1>1. /\ UNCHANGED <<readerVars, dataVars>> /\ at[u] = "check" /\ rcu_sync_lock = u
        /\ \A x \in Readers \cup Updaters : x # u => at'[x] = at[x]
        /\ \A x \in Updaters : x # u => at[x] \notin Syncing
    BY <1>0, OneWalker DEF WalkOver, PutBack, Go, Locks, Syncing, Walking
  <1>2. Data' /\ NoUseAfterFree'
    BY <1>1 DEF Data, NoUseAfterFree, dataVars, readerVars
  <1>3. CASE registry # {}
    <2>1. Quiet
      BY <1>0, <1>1, <1>3 DEF WalkOver, Go, Quiet, Walking
    <2> QED BY <2>1, QuietKeeps DEF Rest
  <1>4. CASE registry = {} /\ phase = 1
    <2>1. /\ registry' = qsreaders /\ qsreaders' = {} /\ phase' = 2 /\ rcu_gp_ctr' = NextCtr
          /\ at'[u] = "reset" /\ UNCHANGED rcu_sync_lock
      BY <1>0, <1>4 DEF WalkOver, PutBack, Go
    <2>2. LongBytes = 4
      BY <1>1, <1>4 DEF Locks, Walking
    <2>3. Odd'
      BY <2>1, CtrStep DEF Odd
    <2>4. ASSUME NEW t \in Readers PROVE Section(t)'
      BY <1>0, <1>1, <1>4, <2>1, CtrKeepsSection DEF Registered
    <2>5. Locks'
      BY <1>0, <1>1, <2>1, <2>2 DEF Locks, Syncing, Walking, SyncPlaces
    <2>6. Waited'
      <3> SUFFICES ASSUME NEW x \in Updaters, NEW t \in Readers, Holds(t, x)'
                   PROVE  at'[x] # "out" /\ (at'[x] \in Walking => ctr[t] # NextCtr)
        BY <1>1, <2>1 DEF Waited, readerVars
      <3>1. Holds(t, x) /\ at[x] # "out"
        BY <1>1 DEF Waited, Holds, readerVars, dataVars
      <3>2. t \in qsreaders
        BY <1>4, <3>1 DEF Holds, Sections, Section, Registered
      <3>3. x = u => ctr[t] = rcu_gp_ctr
        BY <1>1, <1>4, <3>1, <3>2 DEF Waited, Walking
      <3>4. at'[x] # "out" /\ (at'[x] \in Walking => x = u)
        BY <1>1, <2>1, <3>1 DEF Syncing
      <3> QED BY <3>3, <3>4, CtrStep
    <2> QED BY <1>2, <2>3, <2>4, <2>5, <2>6 DEF Rest, Sections
  <1>5. CASE registry = {} /\ phase = 2
    <2>1. /\ registry' = qsreaders /\ qsreaders' = {} /\ phase' = 2
          /\ at'[u] = "out" /\ rcu_sync_lock' = NoThread /\ UNCHANGED rcu_gp_ctr
      BY <1>0, <1>5, SMT DEF WalkOver, PutBack, Go
    <2>2. Odd' /\ Sections'
      BY <1>0, <1>1, <1>5, <2>1 DEF Odd, Sections, Section, Registered, readerVars
    <2>3. Locks'
      BY <1>0, <1>1, <2>1 DEF Locks, Syncing, Walking, SyncPlaces
    <2>4. Waited'
      <3> SUFFICES ASSUME NEW x \in Updaters, NEW t \in Readers, Holds(t, x)'
                   PROVE  at'[x] \notin Walking \cup {"out"}
        BY DEF Waited
      <3>1. Holds(t, x) /\ at[x] # "out"
        BY <1>1 DEF Waited, Holds, readerVars, dataVars
      <3>2. t \in qsreaders
        BY <1>5, <3>1 DEF Holds, Sections, Section, Registered
      <3>3. x # u
        BY <1>1, <1>5, <3>1, <3>2 DEF Waited, Walking
      <3> QED BY <1>1, <3>1, <3>3 DEF Syncing
    <2> QED BY <1>2, <2>2, <2>3, <2>4 DEF Rest
  <1> QED BY <1>0, <1>3, <1>4, <1>5

---------------------------------------------------------------------------
LEMMA NextIInv == IInv /\ [RcuNext]_rcuVars => IInv'
  <1> SUFFICES ASSUME IInv, [RcuNext]_rcuVars PROVE TypeOK' /\ Rest'
    BY DEF IInv, Rest
  <1>1. ASSUME NEW t \in Readers, Reader(t) PROVE TypeOK' /\ Rest'
    BY <1>1, ReaderType, QuietReader, RegisterKeeps, ReaderKeeps DEF Reader, ReaderLeaves
  <1>2. ASSUME NEW u \in Updaters, Updater(u) PROVE TypeOK' /\ Rest'
    BY <1>2, UpdaterType, QuietUpdater, BatchKeeps, BeginKeeps, CheckKeeps, WalkKeeps
    DEF Updater, SyncStep
  <1>3. CASE UNCHANGED rcuVars
    <2>1. TypeOK'
      BY <1>3 DEF IInv, TypeOK, rcuVars, readerVars, syncVars, dataVars
    <2>2. Quiet
      BY <1>3 DEF Quiet, rcuVars, readerVars, syncVars, dataVars
    <2> QED BY <2>1, <2>2, QuietKeeps DEF Rest
  <1> QED BY <1>1, <1>2, <1>3 DEF RcuNext

LEMMA RcuInvariant == RcuSpec => []IInv
  BY InitIInv, NextIInv, PTL DEF RcuSpec

(* synchronize_rcu returns only when every critical section that may hold    *)
(* what was removed before the call is over, with either width of long, and  *)
(* whatever rcu_read_lock's `unsigned` cuts off rcu_gp_ctr.                  *)
THEOREM GracePeriod == RcuSpec => []NoUseAfterFree
  <1>1. IInv => NoUseAfterFree
    BY DEF IInv
  <1> QED BY <1>1, RcuInvariant, PTL

(* A thread in a critical section is on exactly one of the lists that        *)
(* wait_for_readers walks.                                                   *)
THEOREM ReadersListed == RcuSpec => []OneList
  <1>1. IInv => OneList
    BY DEF IInv, Locks, Sections, Section, OneList
  <1> QED BY <1>1, RcuInvariant, PTL

---------------------------------------------------------------------------
(***************************************************************************)
(* Proofs about RcuCall, for any number of callers, objects and readers.     *)
(* The invariant names the nodes of the queue in their order, says where     *)
(* each object is that was passed to call_rcu1, and counts them: those that  *)
(* were queued and not run are no fewer than those that were counted.  The   *)
(* thread's dummy is one more node, so the queue is never empty when the     *)
(* thread dequeues; and the first n objects of the queue are there before    *)
(* the grace period begins.                                                  *)
(***************************************************************************)

(* The queue, from head to tail, is q[lo], ..., q[hi]: nodes that are linked,*)
(* or that a caller, or the thread with its dummy, is about to link.         *)

Nodes == Versions \cup {Dummy}
CallerPlaces == {"idle", "exchange", "link", "count", "set", "swap", "wake"}
ThreadPlaces == {"count", "recount", "test", "reset", "again", "wait", "swap",
                 "futex", "asleep", "sync", "grace", "try", "next", "requeue",
                 "relink", "lock", "unlock", "run", "aborted"}

CallType ==
  /\ caller \in [Callers -> [at : CallerPlaces, node : Nodes \cup {NULL}, old : Nodes \cup {NULL}]]
  /\ pc \in ThreadPlaces
  /\ n \in Nat /\ rcu_call_count \in Nat /\ attempt \in 0 .. 3
  /\ node \in Nodes \cup {NULL}
  /\ ready \in {"SET", "FREE", "BUSY"}
  /\ cast \in Casts

(* The thread is between the atomic_sub and the last of its n callbacks      *)
Serving == pc \in {"sync", "grace"} \/ attempt # 0

(* It has taken a node from the queue to run it                              *)
Holding == pc \in {"run", "lock"} /\ node # NULL

Thread ==
  /\ pc # "grace" => at[CallThread] = "out"
  /\ pc = "test" => n <= rcu_call_count
  /\ Serving => n > 0
  /\ pc \in {"sync", "grace", "count", "recount", "test", "again"} => attempt = 0
  /\ pc \in {"try", "next", "requeue", "relink", "lock", "run"} => attempt # 0
  /\ pc \notin {"run", "lock", "relink"} => node = NULL
  /\ pc = "run" => node # NULL
  /\ node # Dummy
  /\ ~aborted /\ pc # "aborted"

(* The callers that have not linked their objects, removed and not freed     *)
CallersOK ==
  /\ removed[CallThread] \subseteq 0 .. (ptr - 1)
  /\ \A w \in Callers : caller[w].at \in {"exchange", "link"} => caller[w].node \in removed[CallThread]
  /\ \A w, x \in Callers :
       /\ caller[w].at \in {"exchange", "link"} /\ caller[x].at \in {"exchange", "link"}
       /\ caller[w].node = caller[x].node
       => w = x

Linking(a, b) ==
  \/ \E w \in Callers : caller[w].at = "link" /\ caller[w].old = a /\ caller[w].node = b
  \/ pc = "relink" /\ node = a /\ b = Dummy

Distinct(q, lo, hi) == lo <= hi /\ \A j, k \in lo .. hi : q[j] = q[k] => j = k

Ends(q, lo, hi) ==
  /\ \A k \in lo .. hi : q[k] \in DOMAIN next
  /\ head = q[lo] /\ tail = q[hi] /\ next[q[hi]] = NULL

Links(q, lo, hi) ==
  \A k \in lo .. (hi - 1) :
    next[q[k]] = q[k + 1] \/ (next[q[k]] = NULL /\ Linking(q[k], q[k + 1]))

Linkers(q, lo, hi) ==
  /\ \A w \in Callers : caller[w].at = "link" =>
       \E k \in lo .. (hi - 1) :
         q[k] = caller[w].old /\ q[k + 1] = caller[w].node /\ next[q[k]] = NULL
  /\ pc = "relink" => \E k \in lo .. (hi - 1) : q[k] = node /\ q[k + 1] = Dummy /\ next[q[k]] = NULL

DummyIn(q, lo, hi) ==
  /\ pc = "requeue" => \A k \in lo .. hi : q[k] # Dummy
  /\ pc # "requeue" => \E k \in lo .. hi : q[k] = Dummy

Chained(q, lo, hi) ==
  Distinct(q, lo, hi) /\ Ends(q, lo, hi) /\ Links(q, lo, hi) /\ Linkers(q, lo, hi) /\ DummyIn(q, lo, hi)

(* An object is in the queue, or in the hands of its caller or the thread    *)
Owned(q, lo, hi) ==
  /\ \A k \in lo .. hi : q[k] # Dummy => q[k] \in removed[CallThread]
  /\ Holding => node \in removed[CallThread] /\ \A k \in lo .. hi : q[k] # node
  /\ \A w \in Callers : caller[w].at = "exchange" =>
       (\A k \in lo .. hi : q[k] # caller[w].node) /\ (Holding => node # caller[w].node)

(* The callbacks that were counted and are not run                           *)
Due == rcu_call_count + (IF Serving THEN n ELSE 0)

(* The callbacks that were queued and are not run, less those; f gives each  *)
(* caller that is yet to count its own one of them.                          *)
Spare(lo, hi) == hi - lo + (IF pc = "requeue" THEN 1 ELSE 0) + (IF Holding THEN 1 ELSE 0) - Due

Counters(lo, hi, f) ==
  /\ Spare(lo, hi) >= 0
  /\ \A w \in Callers : caller[w].at \in {"link", "count"} => f[w] \in 1 .. Spare(lo, hi)
  /\ \A w, x \in Callers :
       /\ caller[w].at \in {"link", "count"} /\ caller[x].at \in {"link", "count"} /\ f[w] = f[x]
       => w = x

(* The objects before q[m] were removed before the grace period, and, with   *)
(* the one in the thread's hands, they are at least n.                       *)
Ahead(q, lo, m) == IF \E k \in lo .. (m - 1) : q[k] = Dummy THEN m - lo - 1 ELSE m - lo

Front(q, lo, hi, m) ==
  pc = "grace" \/ attempt # 0 =>
    /\ lo <= m /\ m <= hi + 1
    /\ \A k \in lo .. (m - 1) : q[k] # Dummy => q[k] \in batch[CallThread]
    /\ Holding => node \in batch[CallThread]
    /\ n <= Ahead(q, lo, m) + (IF Holding THEN 1 ELSE 0)

Queue(q, lo, hi, m, f) ==
  /\ q \in [Nat -> Nodes] /\ lo \in Nat /\ hi \in Nat /\ m \in Nat /\ f \in [Callers -> Nat]
  /\ Chained(q, lo, hi) /\ Owned(q, lo, hi) /\ Counters(lo, hi, f) /\ Front(q, lo, hi, m)

CallInv ==
  /\ CallType /\ Thread /\ CallersOK
  /\ \E q, lo, hi, m, f : Queue(q, lo, hi, m, f)

(* Most steps are first-order; those that count name SMT.                    *)

LEMMA RemovedVersions == TypeOK => removed[CallThread] \subseteq Versions
  BY RcuCallAssumption DEF TypeOK

LEMMA InitCall == Init => CallInv
  <1> SUFFICES ASSUME Init PROVE CallInv
    OBVIOUS
  <1>1. CallType /\ Thread /\ CallersOK
    BY RcuCallAssumption, RcuAssumption, SMT
    DEF Init, RcuInit, CallType, Thread, CallersOK, Idle, CallerPlaces, ThreadPlaces, Nodes, Serving
  <1> DEFINE q == [k \in Nat |-> Dummy]
  <1>2. q \in [Nat -> Nodes] /\ q[0] = Dummy /\ 0 .. 0 = {0} /\ 0 .. (0 - 1) = {}
    BY SMT DEF Nodes
  <1> HIDE DEF q
  <1>3. Chained(q, 0, 0)
    BY <1>2, SMT DEF Init, Chained, Distinct, Ends, Links, Linkers, DummyIn, Idle
  <1>4. Owned(q, 0, 0)
    BY <1>2 DEF Init, Owned, Holding, Idle
  <1>5. PICK f \in [Callers -> Nat] : TRUE
    <2>1. [w \in Callers |-> 0] \in [Callers -> Nat]
      OBVIOUS
    <2> QED BY <2>1
  <1>6. Counters(0, 0, f)
    BY SMT DEF Init, Counters, Spare, Due, Serving, Holding, Idle
  <1>7. Front(q, 0, 0, 0)
    BY DEF Front, Init
  <1>8. Queue(q, 0, 0, 0, f)
    BY <1>2, <1>3, <1>4, <1>6, <1>7 DEF Queue
  <1> QED BY <1>1, <1>8 DEF CallInv

(* Steps that leave the queue, and what of it is in somebody's hands, alone  *)
Steady ==
  /\ UNCHANGED <<queueVars, ptr, removed, node, Due, Holding>>
  /\ \A w \in Callers : caller[w].at \in {"exchange", "link", "count"} \/ caller'[w].at \in {"exchange", "link", "count"}
       => caller'[w] = caller[w]
  /\ pc \in {"relink", "requeue"} \/ pc' \in {"relink", "requeue"} => pc' = pc

LEMMA Bounds ==
  ASSUME NEW lo \in Nat, NEW hi \in Nat, lo <= hi
  PROVE  /\ lo \in lo .. hi /\ hi \in lo .. hi
         /\ \A k \in lo .. (hi - 1) : k \in lo .. hi /\ k + 1 \in lo .. hi /\ k # hi
         /\ \A k \in lo .. hi : k = hi \/ k \in lo .. (hi - 1)
  BY SMT

LEMMA Succ == ASSUME NEW k \in Nat PROVE k + 1 \in Nat
  BY SMT

(* The first objects are so whatever is queued behind them.                  *)
LEMMA StillAhead ==
  ASSUME NEW lo \in Nat, NEW hi \in Nat, NEW m \in Nat, m <= hi + 1
  PROVE  m <= (hi + 1) + 1 /\ \A k \in lo .. (m - 1) : k \in lo .. hi
  BY SMT

LEMMA SpareInteger ==
  ASSUME CallType, NEW lo \in Nat, NEW hi \in Nat PROVE Spare(lo, hi) \in Int
  BY SMT DEF CallType, Spare, Due

LEMMA AheadInteger ==
  ASSUME NEW q, NEW lo \in Nat, NEW m \in Nat
  PROVE  Ahead(q, lo, m) \in Int /\ Ahead(q, lo, m) <= m - lo /\ Ahead(q, lo, m) + 0 = Ahead(q, lo, m)
  BY SMT DEF Ahead

LEMMA AheadAll ==
  ASSUME NEW q, NEW lo \in Nat, NEW hi \in Nat, NEW top \in Nat, top = hi + 1,
         \E k \in lo .. hi : q[k] = Dummy
  PROVE  Ahead(q, lo, top) = hi - lo
  BY SMT DEF Ahead

LEMMA Below ==
  ASSUME NEW lo \in Nat, NEW hi \in Nat, lo <= hi, lo # hi PROVE lo < hi /\ lo \in lo .. (hi - 1)
  BY SMT

LEMMA Places ==
  ASSUME NEW s \in Nat
  PROVE  /\ s + 1 >= 0 /\ s + 1 \in 1 .. (s + 1)
         /\ \A v \in 1 .. s : v \in 1 .. (s + 1) /\ v # s + 1 /\ s - 1 >= 0
  BY SMT

(* A node that leaves the queue is the dummy, or is in the thread's hands.   *)
LEMMA OneLess ==
  ASSUME NEW lo \in Nat, NEW hi \in Nat, NEW d \in Int
  PROVE  /\ hi - (lo + 1) + 1 + 0 - d = hi - lo + 0 + 0 - d
         /\ hi - (lo + 1) + 0 + 1 - d = hi - lo + 0 + 0 - d
  BY SMT

LEMMA StillChained ==
  ASSUME NEW q, NEW lo, NEW hi, Chained(q, lo, hi), UNCHANGED queueVars,
         \A a, b : Linking(a, b) => Linking(a, b)',
         \A x \in Callers : caller'[x].at = "link" => caller[x].at = "link" /\ caller'[x] = caller[x],
         pc' = "relink" => pc = "relink" /\ node' = node,
         pc' = "requeue" <=> pc = "requeue"
  PROVE  Chained(q, lo, hi)'
  <1>1. Distinct(q, lo, hi)'
    BY DEF Chained, Distinct
  <1>2. Ends(q, lo, hi)' /\ Links(q, lo, hi)'
    BY DEF Chained, Ends, Links, queueVars
  <1>3. Linkers(q, lo, hi)'
    BY SMT DEF Chained, Linkers, queueVars
  <1>4. DummyIn(q, lo, hi)'
    BY DEF Chained, DummyIn
  <1> QED BY <1>1, <1>2, <1>3, <1>4 DEF Chained

LEMMA SteadyQueue ==
  ASSUME Steady, NEW q, NEW lo, NEW hi, NEW f, CallersOK,
         Chained(q, lo, hi), Owned(q, lo, hi), Counters(lo, hi, f)
  PROVE  CallersOK' /\ Chained(q, lo, hi)' /\ Owned(q, lo, hi)' /\ Counters(lo, hi, f)'
  <1>1. CallersOK'
    BY DEF Steady, CallersOK
  <1>2. Chained(q, lo, hi)'
    <2>1. \A a, b : Linking(a, b) => Linking(a, b)'
      BY DEF Steady, Linking
    <2>2. /\ UNCHANGED queueVars
          /\ \A x \in Callers : caller'[x].at = "link" => caller[x].at = "link" /\ caller'[x] = caller[x]
          /\ pc' = "relink" => pc = "relink" /\ node' = node
          /\ pc' = "requeue" <=> pc = "requeue"
      BY DEF Steady
    <2> QED BY <2>1, <2>2, StillChained
  <1>3. Owned(q, lo, hi)'
    BY DEF Owned, Steady
  <1>4. Counters(lo, hi, f)'
    <2>1. Spare(lo, hi)' = Spare(lo, hi)
      BY DEF Spare, Steady
    <2> QED BY <2>1 DEF Counters, Steady
  <1> QED BY <1>1, <1>2, <1>3, <1>4

LEMMA SteadyInv ==
  ASSUME Steady, CallType', Thread',
         pc' = "grace" \/ attempt' # 0 =>
           n' = n /\ batch'[CallThread] = batch[CallThread] /\ (pc = "grace" \/ attempt # 0),
         NEW q, NEW lo, NEW hi, NEW m, NEW f, CallersOK, Queue(q, lo, hi, m, f)
  PROVE  CallInv'
  <1>1. Chained(q, lo, hi) /\ Owned(q, lo, hi) /\ Counters(lo, hi, f) /\ Front(q, lo, hi, m)
    BY DEF Queue
  <1>2. Front(q, lo, hi, m)'
    BY <1>1 DEF Front, Steady, Ahead
  <1>3. Queue(q, lo, hi, m, f)'
    BY <1>1, <1>2, SteadyQueue DEF Queue
  <1> QED BY <1>1, <1>3, SteadyQueue DEF CallInv

LEMMA ReaderStep ==
  ASSUME TypeOK, NEW t \in Readers, Reader(t), UNCHANGED callVars,
         NEW q, NEW lo, NEW hi, NEW m, NEW f, CallType, Thread, CallersOK, Queue(q, lo, hi, m, f)
  PROVE  CallInv'
  <1>a. Chained(q, lo, hi) /\ Owned(q, lo, hi) /\ Counters(lo, hi, f) /\ Front(q, lo, hi, m)
    BY DEF Queue
  <1>b. q \in [Nat -> Nodes] /\ lo \in Nat /\ hi \in Nat /\ m \in Nat /\ f \in [Callers -> Nat]
    BY DEF Queue
  <1>1. UNCHANGED dataVars /\ (at[CallThread] = "out" => at'[CallThread] = "out")
    <2>1. UNCHANGED dataVars
      BY DEF Reader, ReaderLeaves, rcu_register_thread, rcu_unregister_thread, rcu_read_lock,
             ReadLockStore, Dereference, rcu_read_unlock, ReadUnlockWaiting, EventSetLoad,
             EventExchange, EventWake
    <2>2. \/ UNCHANGED at \/ \E place : at' = [at EXCEPT ![t] = place]
          \/ at' = [x \in Readers \cup Updaters |->
                      IF x = t THEN "out" ELSE IF at[x] = "asleep" THEN "relock" ELSE at[x]]
      BY DEF Reader, ReaderLeaves, rcu_register_thread, rcu_unregister_thread, rcu_read_lock,
             ReadLockStore, Dereference, rcu_read_unlock, ReadUnlockWaiting, EventSetLoad,
             EventExchange, EventWake, Go
    <2>3. t # CallThread /\ CallThread \in Readers \cup Updaters /\ DOMAIN at = Readers \cup Updaters
      BY RcuAssumption, RcuCallAssumption DEF TypeOK
    <2> QED BY <2>1, <2>2, <2>3
  <1>2. /\ UNCHANGED <<queueVars, rcu_call_count, ready, caller, pc, n, node, attempt, aborted, cast>>
        /\ UNCHANGED <<ptr, removed, batch>>
    BY <1>1 DEF dataVars, callVars, localVars
  <1>3. Steady
    BY <1>2 DEF Steady, Due, Serving, Holding
  <1>4. CallType' /\ Thread'
    BY <1>1, <1>2 DEF CallType, Thread, Serving
  <1> QED BY <1>2, <1>3, <1>4, SteadyInv


LEMMA SetStep ==
  ASSUME TypeOK, NEW w \in Callers, CallerSet(w),
         NEW q, NEW lo, NEW hi, NEW m, NEW f, CallType, Thread, CallersOK, Queue(q, lo, hi, m, f)
  PROVE  CallInv'
  <1>a. Chained(q, lo, hi) /\ Owned(q, lo, hi) /\ Counters(lo, hi, f) /\ Front(q, lo, hi, m)
    BY DEF Queue
  <1>b. q \in [Nat -> Nodes] /\ lo \in Nat /\ hi \in Nat /\ m \in Nat /\ f \in [Callers -> Nat]
    BY DEF Queue
  <1>1. /\ UNCHANGED <<queueVars, rcu_call_count, n, node, attempt, aborted, cast>>
        /\ UNCHANGED <<ptr, removed, batch, at>>
    BY DEF CallerSet, localVars, rcuVars, dataVars
  <1>2. /\ caller[w].at \in {"set", "swap", "wake"}
        /\ caller'[w].at \notin {"exchange", "link", "count"}
        /\ \A x \in Callers : x # w => caller'[x] = caller[x]
        /\ caller' \in [Callers -> [at : CallerPlaces, node : Nodes \cup {NULL}, old : Nodes \cup {NULL}]]
    BY SMT DEF CallerSet, CallerGo, CallerReturn, Idle, CallType, CallerPlaces
  <1>3. /\ ready' \in {"SET", "FREE", "BUSY"}
        /\ pc' = pc \/ (pc = "asleep" /\ pc' = IF attempt = 0 THEN "recount" ELSE "try")
    BY DEF CallerSet, Goto, CallType
  <1>4. Steady
    BY <1>1, <1>2, <1>3 DEF Steady, Holding, Due, Serving
  <1>5. CallType' /\ Thread'
    BY <1>1, <1>2, <1>3 DEF CallType, Thread, ThreadPlaces, Serving
  <1> QED BY <1>1, <1>3, <1>4, <1>5, SteadyInv

(* The steps of the thread in which it waits for callbacks, and for the      *)
(* event                                                                     *)
LEMMA WaitStep ==
  ASSUME TypeOK, ReadCount \/ ResetReady \/ ReadAgain \/ WaitReady,
         NEW q, NEW lo, NEW hi, NEW m, NEW f, CallType, Thread, CallersOK, Queue(q, lo, hi, m, f)
  PROVE  CallInv'
  <1>a. Chained(q, lo, hi) /\ Owned(q, lo, hi) /\ Counters(lo, hi, f) /\ Front(q, lo, hi, m)
    BY DEF Queue
  <1>b. q \in [Nat -> Nodes] /\ lo \in Nat /\ hi \in Nat /\ m \in Nat /\ f \in [Callers -> Nat]
    BY DEF Queue
  <1>1. /\ UNCHANGED <<queueVars, rcu_call_count, caller, node, aborted, cast>>
        /\ UNCHANGED <<ptr, removed, batch, at>>
    BY DEF ReadCount, ResetReady, ReadAgain, WaitReady, localVars, rcuVars, dataVars
  <1>2. /\ pc \in {"count", "recount", "again", "reset", "wait", "swap", "futex"}
        /\ pc' \in {"test", "again", "try", "wait", "recount", "swap", "futex", "asleep"}
        /\ pc' \in {"test", "again"} => attempt' = 0
        /\ pc' = "recount" => attempt' = 0
        /\ pc' = "try" => attempt' # 0
        /\ attempt' = 0 <=> attempt = 0
        /\ attempt' \in 0 .. 3
        /\ ready' \in {"SET", "FREE", "BUSY"}
        /\ attempt # 0 => n' = n
        /\ n' \in Nat /\ (pc' = "test" => n' <= rcu_call_count)
    BY SMT DEF ReadCount, ResetReady, ReadAgain, WaitReady, Goto, Woken, CallType, Thread, localVars
  <1>3. Steady
    BY <1>1, <1>2 DEF Steady, Holding, Due, Serving
  <1>4. CallType' /\ Thread'
    BY <1>1, <1>2 DEF CallType, Thread, ThreadPlaces, Serving
  <1> QED BY <1>1, <1>2, <1>3, <1>4, SteadyInv

LEMMA PileStep ==
  ASSUME TypeOK, PileUp,
         NEW q, NEW lo, NEW hi, NEW m, NEW f, CallType, Thread, CallersOK, Queue(q, lo, hi, m, f)
  PROVE  CallInv'
  <1>a. Chained(q, lo, hi) /\ Owned(q, lo, hi) /\ Counters(lo, hi, f) /\ Front(q, lo, hi, m)
    BY DEF Queue
  <1>b. q \in [Nat -> Nodes] /\ lo \in Nat /\ hi \in Nat /\ m \in Nat /\ f \in [Callers -> Nat]
    BY DEF Queue
  <1>1. /\ UNCHANGED <<queueVars, ready, caller, n, node, attempt, aborted, cast>>
        /\ UNCHANGED <<ptr, removed, batch, at>>
    BY DEF PileUp, rcuVars, dataVars
  <1>2. pc = "test" /\ attempt = 0
    BY DEF PileUp, Thread
  <1>3. \/ pc' \in {"reset", "recount"} /\ rcu_call_count' = rcu_call_count
        \/ pc' = "sync" /\ rcu_call_count' = rcu_call_count - n /\ n > 0
    BY SMT DEF PileUp, Goto, CountLeft, CallType
  <1>4. Steady
    BY <1>1, <1>2, <1>3, SMT DEF Steady, Holding, Due, Serving, CallType
  <1>5. CallType' /\ Thread'
    BY <1>1, <1>2, <1>3, SMT DEF CallType, Thread, ThreadPlaces, Serving
  <1> QED BY <1>1, <1>2, <1>3, <1>4, <1>5, SteadyInv

LEMMA GraceStep ==
  ASSUME TypeOK, Grace,
         NEW q, NEW lo, NEW hi, NEW m, NEW f, CallType, Thread, CallersOK, Queue(q, lo, hi, m, f)
  PROVE  CallInv'
  <1>a. Chained(q, lo, hi) /\ Owned(q, lo, hi) /\ Counters(lo, hi, f) /\ Front(q, lo, hi, m)
    BY DEF Queue
  <1>b. q \in [Nat -> Nodes] /\ lo \in Nat /\ hi \in Nat /\ m \in Nat /\ f \in [Callers -> Nat]
    BY DEF Queue
  <1>1. UNCHANGED dataVars /\ at[CallThread] # "out"
    BY DEF Grace, SyncStep, SyncLock, SyncBegin, EventReset, MarkWaiting, CheckReader,
           ClearWaiting, WalkOver, EventWait, Relock
  <1>2. /\ UNCHANGED <<queueVars, rcu_call_count, ready, caller, pc, n, node, attempt, aborted, cast>>
        /\ UNCHANGED <<ptr, removed, batch>> /\ pc = "grace"
    BY <1>1 DEF Thread, Grace, dataVars, callVars, localVars
  <1>3. Steady
    BY <1>2 DEF Steady, Holding, Due, Serving
  <1>4. CallType' /\ Thread'
    BY <1>2 DEF CallType, Thread, Serving
  <1> QED BY <1>2, <1>3, <1>4, SteadyInv

LEMMA BqlStep ==
  ASSUME TypeOK, TakeBql \/ RetakeBql \/ ReleaseBql,
         NEW q, NEW lo, NEW hi, NEW m, NEW f, CallType, Thread, CallersOK, Queue(q, lo, hi, m, f)
  PROVE  CallInv'
  <1>a. Chained(q, lo, hi) /\ Owned(q, lo, hi) /\ Counters(lo, hi, f) /\ Front(q, lo, hi, m)
    BY DEF Queue
  <1>b. q \in [Nat -> Nodes] /\ lo \in Nat /\ hi \in Nat /\ m \in Nat /\ f \in [Callers -> Nat]
    BY DEF Queue
  <1>1. /\ UNCHANGED <<queueVars, rcu_call_count, ready, caller, n, node, aborted, cast>>
        /\ UNCHANGED <<ptr, removed, batch, at>>
    BY DEF TakeBql, RetakeBql, ReleaseBql, Counted, localVars, rcuVars, dataVars
  <1>2. \/ pc = "grace" /\ at[CallThread] = "out" /\ pc' = "try" /\ attempt' = 1
        \/ pc = "lock" /\ attempt' = attempt /\ pc' = IF node = NULL THEN "unlock" ELSE "run"
        \/ pc = "unlock" /\ attempt' = attempt /\ pc' = "reset"
    BY DEF TakeBql, RetakeBql, ReleaseBql, Goto, localVars
  <1>3. Steady
    BY <1>1, <1>2, SMT DEF Steady, Holding, Due, Serving, Thread
  <1>4. CallType' /\ Thread'
    BY <1>1, <1>2, SMT DEF CallType, Thread, ThreadPlaces, Serving
  <1> QED BY <1>1, <1>2, <1>3, <1>4, SteadyInv DEF Thread


(* All that is queued when the grace period begins was removed before it.    *)
LEMMA SynchronizeStep ==
  ASSUME TypeOK, Synchronize,
         NEW q, NEW lo, NEW hi, NEW m, NEW f, CallType, Thread, CallersOK, Queue(q, lo, hi, m, f)
  PROVE  CallInv'
  <1>a. Chained(q, lo, hi) /\ Owned(q, lo, hi) /\ Counters(lo, hi, f) /\ Front(q, lo, hi, m)
    BY DEF Queue
  <1>b. q \in [Nat -> Nodes] /\ lo \in Nat /\ hi \in Nat /\ m \in Nat /\ f \in [Callers -> Nat]
    BY DEF Queue
  <1>1. /\ UNCHANGED <<queueVars, rcu_call_count, ready, caller, n, node, attempt, aborted, cast>>
        /\ UNCHANGED <<ptr, removed>>
    BY DEF Synchronize, synchronize_rcu, localVars
  <1>2. pc = "sync" /\ pc' = "grace" /\ attempt = 0
    BY DEF Synchronize, Goto, Thread
  <1>3. batch'[CallThread] = removed[CallThread]
    BY RcuCallAssumption DEF Synchronize, synchronize_rcu, TypeOK
  <1>4. Steady
    BY <1>1, <1>2 DEF Steady, Holding, Due, Serving
  <1>5. CallType' /\ Thread'
    BY <1>1, <1>2 DEF CallType, Thread, ThreadPlaces, Serving
  <1>6. PICK top \in Nat : top = hi + 1
    BY <1>b, Succ
  <1>7. Front(q, lo, hi, top)'
    <2>1. lo <= hi /\ \E k \in lo .. hi : q[k] = Dummy
      BY <1>a, <1>2 DEF Chained, Distinct, DummyIn
    <2>2. n <= hi - lo
      BY <1>a, <1>b, <1>2, SMT DEF Counters, Spare, Due, Serving, Holding, CallType
    <2>3. Ahead(q, lo, top) = hi - lo /\ ~Holding'
      BY <1>b, <1>2, <1>6, <2>1, AheadAll DEF Holding
    <2>4. \A k \in lo .. (top - 1) : q[k] # Dummy => q[k] \in batch'[CallThread]
      BY <1>a, <1>b, <1>3, <1>6, SMTT(60) DEF Owned
    <2> QED BY <1>a, <1>b, <1>1, <1>6, <2>1, <2>2, <2>3, <2>4, SMT DEF Front
  <1>8. CallersOK' /\ Chained(q, lo, hi)' /\ Owned(q, lo, hi)' /\ Counters(lo, hi, f)'
    BY <1>a, <1>4, SteadyQueue
  <1> QED BY <1>b, <1>5, <1>7, <1>8 DEF CallInv, Queue

(* The queue is not empty as long as a counted callback is to run.           *)
LEMMA TestStep ==
  ASSUME TypeOK, TryTest,
         NEW q, NEW lo, NEW hi, NEW m, NEW f, CallType, Thread, CallersOK, Queue(q, lo, hi, m, f)
  PROVE  CallInv'
  <1>a. Chained(q, lo, hi) /\ Owned(q, lo, hi) /\ Counters(lo, hi, f) /\ Front(q, lo, hi, m)
    BY DEF Queue
  <1>b. q \in [Nat -> Nodes] /\ lo \in Nat /\ hi \in Nat /\ m \in Nat /\ f \in [Callers -> Nat]
    BY DEF Queue
  <1>1. pc = "try" /\ attempt # 0
    BY DEF TryTest, Thread
  <1>2. ~(head = Dummy /\ tail = Dummy)
    <2>1. lo <= hi /\ head = q[lo] /\ tail = q[hi] /\ \A j, k \in lo .. hi : q[j] = q[k] => j = k
      BY <1>a DEF Chained, Distinct, Ends
    <2>2. n > 0 /\ n <= hi - lo
      BY <1>a, <1>b, <1>1, SMT DEF Counters, Spare, Due, Serving, Holding, CallType, Thread
    <2>3. lo # hi
      BY <1>b, <2>2, SMT DEF CallType
    <2> QED BY <1>b, <2>1, <2>3, Bounds
  <1>3. /\ UNCHANGED <<queueVars, rcu_call_count, ready, caller, n, node, attempt, aborted, cast>>
        /\ UNCHANGED <<ptr, removed, batch, at>> /\ pc' = "next"
    BY <1>2 DEF TryTest, Goto, rcuVars, dataVars, localVars
  <1>4. Steady
    BY <1>1, <1>3 DEF Steady, Holding, Due, Serving
  <1>5. CallType' /\ Thread'
    BY <1>1, <1>3 DEF CallType, Thread, ThreadPlaces, Serving
  <1> QED BY <1>1, <1>3, <1>4, <1>5, SteadyInv

LEMMA RemoveStep ==
  ASSUME TypeOK, NEW w \in Callers, CallerRemove(w),
         NEW q, NEW lo, NEW hi, NEW m, NEW f, CallType, Thread, CallersOK, Queue(q, lo, hi, m, f)
  PROVE  CallInv'
  <1>a. Chained(q, lo, hi) /\ Owned(q, lo, hi) /\ Counters(lo, hi, f) /\ Front(q, lo, hi, m)
    BY DEF Queue
  <1>b. q \in [Nat -> Nodes] /\ lo \in Nat /\ hi \in Nat /\ m \in Nat /\ f \in [Callers -> Nat]
    BY DEF Queue
  <1>1. /\ UNCHANGED <<queueVars, rcu_call_count, ready, pc, n, node, attempt, aborted, cast>>
        /\ UNCHANGED <<at, batch>> /\ caller[w].at = "idle" /\ ptr \in Versions /\ ptr' = ptr + 1
    BY DEF CallerRemove, Remove, TypeOK, Versions, localVars
  <1>2. removed'[CallThread] = removed[CallThread] \cup {ptr}
    BY RcuCallAssumption DEF CallerRemove, Remove, TypeOK
  <1>3. /\ caller'[w].at = "exchange" /\ caller'[w].node = ptr
        /\ \A x \in Callers : x # w => caller'[x] = caller[x]
        /\ caller' \in [Callers -> [at : CallerPlaces, node : Nodes \cup {NULL}, old : Nodes \cup {NULL}]]
    BY <1>1 DEF CallerRemove, Idle, CallType, CallerPlaces, Nodes
  <1>4. ptr \notin removed[CallThread] /\ removed'[CallThread] \subseteq 0 .. (ptr' - 1)
    <2>1. ptr \in Nat /\ removed[CallThread] \subseteq 0 .. (ptr - 1)
      <3>1. ptr \in Nat BY <1>1, RcuAssumption, SMTT(60) DEF Versions
      <3> QED BY <3>1 DEF CallersOK
    <2> QED BY <1>1, <1>2, <2>1, SMTT(60)
  <1>5. CallType' /\ Thread'
    BY <1>1, <1>3 DEF CallType, Thread, Serving
  <1>6. CallersOK'
    <2>1. \A x \in Callers : caller[x].at \in {"exchange", "link"} => caller[x].node # ptr
      BY <1>4 DEF CallersOK
    <2>2. \A x \in Callers : caller'[x].at \in {"exchange", "link"} => caller'[x].node \in removed'[CallThread]
      BY <1>2, <1>3 DEF CallersOK
    <2>3. \A x, y \in Callers :
            /\ caller'[x].at \in {"exchange", "link"} /\ caller'[y].at \in {"exchange", "link"}
            /\ caller'[x].node = caller'[y].node
            => x = y
      BY <1>3, <2>1 DEF CallersOK
    <2> QED BY <1>4, <2>2, <2>3 DEF CallersOK
  <1>7. Chained(q, lo, hi)'
    <2>1. \A a, b : Linking(a, b) => Linking(a, b)'
      BY <1>1, <1>3 DEF Linking
    <2>2. \A x \in Callers : caller'[x].at = "link" => caller[x].at = "link" /\ caller'[x] = caller[x]
      BY <1>3
    <2> QED BY <1>a, <1>1, <2>1, <2>2, StillChained
  <1>8. Owned(q, lo, hi)'
    <2>1. \A k \in lo .. hi : q[k] # ptr
      BY <1>a, <1>1, <1>4, RcuCallAssumption DEF Owned
    <2> QED BY <1>a, <1>1, <1>2, <1>3, <1>4, <2>1 DEF Owned, Holding
  <1>9. Counters(lo, hi, f)'
    <2>1. Spare(lo, hi)' = Spare(lo, hi)
      BY <1>b, <1>1 DEF Spare, Due, Serving, Holding
    <2> QED BY <1>a, <1>b, <1>3, <2>1 DEF Counters
  <1>10. Front(q, lo, hi, m)'
    BY <1>a, <1>b, <1>1 DEF Front, Holding, Ahead
  <1> QED BY <1>b, <1>5, <1>6, <1>7, <1>8, <1>9, <1>10 DEF CallInv, Queue



(* enqueue, of a caller's node or of the dummy: the node becomes the last    *)
(* one, and is not linked to yet.                                            *)
Enqueue(q, lo, hi, v) ==
  /\ \A k \in lo .. hi : q[k] # v
  /\ Link(v, NULL) /\ tail' = v /\ head' = head
  /\ \A a, b : Linking(a, b) => Linking(a, b)'
  /\ Linking(q[hi], v)'
  /\ \A x \in Callers : caller'[x].at = "link" =>
       \/ caller[x].at = "link" /\ caller'[x] = caller[x]
       \/ caller'[x].old = tail /\ caller'[x].node = v
  /\ pc' = "relink" => (pc = "relink" /\ node' = node) \/ (node' = tail /\ v = Dummy)
  /\ pc' = "requeue" => pc = "requeue" /\ v # Dummy
  /\ pc' # "requeue" => pc # "requeue" \/ v = Dummy

LEMMA Appended ==
  ASSUME NEW q \in [Nat -> Nodes], NEW lo \in Nat, NEW hi \in Nat, NEW v \in Nodes,
         NEW r \in [Nat -> Nodes], NEW top \in Nat,
         r = [q EXCEPT ![hi + 1] = v], top = hi + 1, lo <= hi
  PROVE  /\ r[top] = v /\ top \in lo .. top
         /\ \A k \in lo .. hi : r[k] = q[k] /\ k \in lo .. top
         /\ \A k \in lo .. top : k \in lo .. hi \/ k = top
  BY SMT

LEMMA Enqueued ==
  ASSUME NEW q \in [Nat -> Nodes], NEW lo \in Nat, NEW hi \in Nat, NEW v \in Nodes,
         NEW r \in [Nat -> Nodes], NEW top \in Nat,
         r = [q EXCEPT ![hi + 1] = v], top = hi + 1,
         Chained(q, lo, hi), Enqueue(q, lo, hi, v)
  PROVE  Chained(r, lo, top)'
  <1>0. Distinct(q, lo, hi) /\ Ends(q, lo, hi) /\ Links(q, lo, hi) /\ Linkers(q, lo, hi) /\ DummyIn(q, lo, hi)
    BY DEF Chained
  <1>1. /\ DOMAIN next' = DOMAIN next \cup {v} /\ next'[v] = NULL
        /\ \A k \in lo .. hi : q[k] # v /\ q[k] \in DOMAIN next /\ next'[q[k]] = next[q[k]]
    BY <1>0 DEF Enqueue, Link, Ends
  <1>2. /\ r[top] = v /\ top \in lo .. top
        /\ \A k \in lo .. hi : r[k] = q[k] /\ k \in lo .. top
        /\ \A k \in lo .. top : k \in lo .. hi \/ k = top
    BY <1>0, Appended, SMT DEF Distinct
  <1>3. /\ lo \in lo .. hi /\ hi \in lo .. hi
        /\ \A k \in lo .. (hi - 1) : k \in lo .. hi /\ k + 1 \in lo .. hi
        /\ \A k \in lo .. hi : k = hi \/ k \in lo .. (hi - 1)
    BY <1>0, Bounds DEF Distinct
  <1>4. \A k : k \in lo .. (top - 1) <=> k \in lo .. hi
    BY SMT
  <1>5. Distinct(r, lo, top)
    <2>1. lo <= top
      BY <1>0, SMT DEF Distinct
    <2> QED BY <1>0, <1>1, <1>2, <2>1, SMT DEF Distinct
  <1>6. Ends(r, lo, top)'
    BY <1>0, <1>1, <1>2, <1>3 DEF Ends, Enqueue
  <1>7. r[hi] = tail /\ r[hi + 1] = v /\ next'[r[hi]] = NULL
    BY <1>0, <1>1, <1>2, <1>3 DEF Ends
  <1>8. Links(r, lo, top)'
    <2> SUFFICES ASSUME NEW k \in lo .. (top - 1)
                 PROVE  next'[r[k]] = r[k + 1] \/ (next'[r[k]] = NULL /\ Linking(r[k], r[k + 1])')
      BY DEF Links
    <2>1. CASE k = hi
      BY <1>2, <1>3, <1>7, <2>1 DEF Enqueue
    <2>2. CASE k \in lo .. (hi - 1)
      <3>1. r[k] = q[k] /\ r[k + 1] = q[k + 1] /\ next'[q[k]] = next[q[k]]
        BY <1>1, <1>2, <1>3, <2>2
      <3>2. next[q[k]] = q[k + 1] \/ (next[q[k]] = NULL /\ Linking(q[k], q[k + 1]))
        BY <1>0, <2>2 DEF Links
      <3> QED BY <3>1, <3>2 DEF Enqueue
    <2> QED BY <1>3, <1>4, <2>1, <2>2
  <1>9. Linkers(r, lo, top)'
    <2>1. ASSUME NEW x \in Callers, caller'[x].at = "link"
          PROVE  \E k \in lo .. (top - 1) :
                   r[k] = caller'[x].old /\ r[k + 1] = caller'[x].node /\ next'[r[k]] = NULL
      <3>1. CASE caller'[x].old = tail /\ caller'[x].node = v
        BY <1>3, <1>4, <1>7, <3>1
      <3>2. CASE caller[x].at = "link" /\ caller'[x] = caller[x]
        <4>1. PICK k \in lo .. (hi - 1) :
                q[k] = caller[x].old /\ q[k + 1] = caller[x].node /\ next[q[k]] = NULL
          BY <1>0, <3>2 DEF Linkers
        <4> QED BY <1>1, <1>2, <1>3, <1>4, <3>2, <4>1, SMT
      <3> QED BY <2>1, <3>1, <3>2 DEF Enqueue
    <2>2. ASSUME pc' = "relink"
          PROVE  \E k \in lo .. (top - 1) : r[k] = node' /\ r[k + 1] = Dummy /\ next'[r[k]] = NULL
      <3>1. CASE node' = tail /\ v = Dummy
        BY <1>3, <1>4, <1>7, <3>1
      <3>2. CASE pc = "relink" /\ node' = node
        <4>1. PICK k \in lo .. (hi - 1) : q[k] = node /\ q[k + 1] = Dummy /\ next[q[k]] = NULL
          BY <1>0, <3>2 DEF Linkers
        <4> QED BY <1>1, <1>2, <1>3, <1>4, <3>2, <4>1
      <3> QED BY <2>2, <3>1, <3>2 DEF Enqueue
    <2> QED BY <2>1, <2>2 DEF Linkers
  <1>10. DummyIn(r, lo, top)'
    BY <1>0, <1>2 DEF DummyIn, Enqueue
  <1>11. Distinct(r, lo, top)'
    BY <1>5 DEF Distinct
  <1> QED BY <1>6, <1>8, <1>9, <1>10, <1>11 DEF Chained

LEMMA ExchangeStep ==
  ASSUME TypeOK, NEW w \in Callers, CallerExchange(w),
         NEW q, NEW lo, NEW hi, NEW m, NEW f, CallType, Thread, CallersOK, Queue(q, lo, hi, m, f)
  PROVE  CallInv'
  <1>a. Chained(q, lo, hi) /\ Owned(q, lo, hi) /\ Counters(lo, hi, f) /\ Front(q, lo, hi, m)
    BY DEF Queue
  <1>b. q \in [Nat -> Nodes] /\ lo \in Nat /\ hi \in Nat /\ m \in Nat /\ f \in [Callers -> Nat]
    BY DEF Queue
  <1>1. PICK v \in Nodes : v = caller[w].node /\ v \in removed[CallThread] /\ v # Dummy
    <2>1. caller[w].node \in removed[CallThread]
      BY DEF CallerExchange, CallersOK
    <2> QED BY <2>1, RemovedVersions, RcuCallAssumption DEF Nodes
  <1>2. /\ UNCHANGED <<head, rcu_call_count, ready, pc, n, node, attempt, aborted, cast>>
        /\ UNCHANGED <<ptr, removed, batch, at>>
    BY DEF CallerExchange, localVars, rcuVars, dataVars
  <1>3. tail = q[hi] /\ tail \in Nodes /\ lo <= hi
    BY <1>a, <1>b DEF Chained, Ends, Distinct
  <1>4. /\ caller[w].at = "exchange" /\ caller'[w].at = "link" /\ caller'[w].node = v /\ caller'[w].old = tail
        /\ \A x \in Callers : x # w => caller'[x] = caller[x]
        /\ caller' \in [Callers -> [at : CallerPlaces, node : Nodes \cup {NULL}, old : Nodes \cup {NULL}]]
    <2>1. caller[w].at = "exchange" /\ caller' = [caller EXCEPT ![w].at = "link", ![w].old = tail]
      BY DEF CallerExchange
    <2>2. caller'[w].at = "link" /\ caller'[w].node = v /\ caller'[w].old = tail
      BY <1>1, <2>1 DEF CallType
    <2>3. \A x \in Callers : x # w => caller'[x] = caller[x]
      BY <2>1 DEF CallType
    <2>4. caller' \in [Callers -> [at : CallerPlaces, node : Nodes \cup {NULL}, old : Nodes \cup {NULL}]]
      <3>1. caller \in [Callers -> [at : CallerPlaces, node : Nodes \cup {NULL}, old : Nodes \cup {NULL}]]
        BY DEF CallType
      <3>2. "link" \in CallerPlaces /\ tail \in Nodes \cup {NULL}
        BY <1>3 DEF CallerPlaces
      <3> QED BY <2>1, <3>1, <3>2
    <2> QED BY <2>1, <2>2, <2>3, <2>4
  <1>5. (\A k \in lo .. hi : q[k] # v) /\ (Holding => node # v)
    BY <1>a, <1>1, <1>4 DEF Owned
  <1>6. CallType' /\ Thread'
    BY <1>2, <1>4 DEF CallType, Thread, Serving
  <1>7. CallersOK'
    BY <1>b, <1>1, <1>2, <1>4, SMT DEF CallersOK
  <1>8. PICK r \in [Nat -> Nodes], top \in Nat : r = [q EXCEPT ![hi + 1] = v] /\ top = hi + 1
    <2>1. [q EXCEPT ![hi + 1] = v] \in [Nat -> Nodes] /\ hi + 1 \in Nat
      BY <1>b, SMT
    <2> QED BY <2>1
  <1>9. Chained(r, lo, top)'
    <2>1. \A a, b : Linking(a, b) => Linking(a, b)'
      BY <1>2, <1>4 DEF Linking
    <2>2. Linking(q[hi], v)'
      BY <1>3, <1>4 DEF Linking
    <2>3. Link(v, NULL) /\ tail' = v
      BY <1>1 DEF CallerExchange
    <2>4. \A x \in Callers : caller'[x].at = "link" =>
            \/ caller[x].at = "link" /\ caller'[x] = caller[x]
            \/ caller'[x].old = tail /\ caller'[x].node = v
      BY <1>4
    <2>5. Enqueue(q, lo, hi, v)
      BY <1>1, <1>2, <1>5, <2>1, <2>2, <2>3, <2>4 DEF Enqueue
    <2> QED BY <1>a, <1>b, <1>8, <2>5, Enqueued
  <1>10. /\ r[top] = v /\ top \in lo .. top
         /\ \A k \in lo .. hi : r[k] = q[k] /\ k \in lo .. top
         /\ \A k \in lo .. top : k \in lo .. hi \/ k = top
    BY <1>b, <1>3, <1>8, Appended, SMT
  <1>11. Owned(r, lo, top)'
    <2>1. \A x \in Callers : caller'[x].at = "exchange" =>
            caller[x].at = "exchange" /\ caller'[x] = caller[x] /\ caller[x].node # v
      BY <1>1, <1>4 DEF CallersOK
    <2>2. Holding' = Holding
      BY <1>2 DEF Holding
    <2>3. \A k \in lo .. top : r[k] # Dummy => r[k] \in removed'[CallThread]
      BY <1>a, <1>1, <1>2, <1>10 DEF Owned
    <2>4. Holding' => node' \in removed'[CallThread] /\ \A k \in lo .. top : r[k] # node'
      BY <1>a, <1>2, <1>5, <1>10, <2>2 DEF Owned
    <2>5. \A x \in Callers : caller'[x].at = "exchange" =>
            (\A k \in lo .. top : r[k] # caller'[x].node) /\ (Holding' => node' # caller'[x].node)
      BY <1>a, <1>2, <1>10, <2>1, <2>2 DEF Owned
    <2> QED BY <1>a, <2>3, <2>4, <2>5 DEF Owned
  <1>12. PICK s \in Nat : s = Spare(lo, hi)
    BY <1>a, <1>b, SpareInteger, SMT DEF Counters
  <1>13. PICK g \in [Callers -> Nat] : g = [f EXCEPT ![w] = s + 1]
    <2>1. [f EXCEPT ![w] = s + 1] \in [Callers -> Nat]
      BY <1>b, Succ
    <2> QED BY <2>1
  <1>14. Counters(lo, top, g)'
    <2>1. Spare(lo, top)' = s + 1
      BY <1>b, <1>2, <1>8, <1>12, SMT DEF Spare, Due, Serving, Holding, CallType
    <2>2. \A x \in Callers : x # w /\ caller'[x].at \in {"link", "count"} => g[x] = f[x] /\ f[x] \in 1 .. s
      BY <1>a, <1>b, <1>4, <1>12, <1>13 DEF Counters
    <2>3. g[w] = s + 1
      BY <1>13
    <2>4. \A x, y \in Callers : x # w /\ y # w /\ caller'[x].at \in {"link", "count"}
            /\ caller'[y].at \in {"link", "count"} /\ g[x] = g[y] => x = y
      BY <1>a, <1>b, <1>4, <2>2 DEF Counters
    <2>5. \A x \in Callers : caller'[x].at \in {"link", "count"} => g[x] \in 1 .. (s + 1)
      BY <2>2, <2>3, Places
    <2>6. \A x, y \in Callers : caller'[x].at \in {"link", "count"}
            /\ caller'[y].at \in {"link", "count"} /\ g[x] = g[y] => x = y
      BY <2>2, <2>3, <2>4, Places
    <2> QED BY <2>1, <2>5, <2>6, Places DEF Counters
  <1>15. Front(r, lo, top, m)'
    <2> SUFFICES ASSUME pc = "grace" \/ attempt # 0
                 PROVE  /\ lo <= m /\ m <= top + 1
                        /\ \A k \in lo .. (m - 1) : r[k] # Dummy => r[k] \in batch[CallThread]
                        /\ Holding => node \in batch[CallThread]
                        /\ n <= Ahead(r, lo, m) + (IF Holding THEN 1 ELSE 0)
      BY <1>a, <1>b, <1>2 DEF Front, Holding, Ahead
    <2>1. lo <= m /\ m <= hi + 1 /\ (Holding => node \in batch[CallThread])
      BY <1>a DEF Front
    <2>2. \A k \in lo .. (m - 1) : r[k] = q[k]
      BY <1>b, <1>10, <2>1, StillAhead
    <2>3. Ahead(r, lo, m) = Ahead(q, lo, m)
      BY <1>b, <2>2 DEF Ahead
    <2>4. m <= top + 1
      BY <1>b, <1>8, <2>1, StillAhead
    <2> QED BY <1>a, <2>1, <2>2, <2>3, <2>4 DEF Front
  <1> QED BY <1>b, <1>6, <1>7, <1>9, <1>11, <1>14, <1>15 DEF CallInv, Queue



(* ... and is linked to, by the one that exchanged the tail.                 *)
Complete(q, lo, hi, i) ==
  /\ Link(q[i], q[i + 1]) /\ UNCHANGED <<head, tail>>
  /\ \A k \in lo .. (hi - 1) : k # i /\ Linking(q[k], q[k + 1]) => Linking(q[k], q[k + 1])'
  /\ \A x \in Callers : caller'[x].at = "link" =>
       caller[x].at = "link" /\ caller'[x] = caller[x] /\ caller[x].node # q[i + 1]
  /\ pc' = "relink" => pc = "relink" /\ node' = node /\ q[i + 1] # Dummy
  /\ pc' = "requeue" <=> pc = "requeue"

LEMMA Completed ==
  ASSUME NEW q \in [Nat -> Nodes], NEW lo \in Nat, NEW hi \in Nat, NEW i \in lo .. (hi - 1),
         Chained(q, lo, hi), Complete(q, lo, hi, i)
  PROVE  Chained(q, lo, hi)'
  <1>0. Distinct(q, lo, hi) /\ Ends(q, lo, hi) /\ Links(q, lo, hi) /\ Linkers(q, lo, hi) /\ DummyIn(q, lo, hi)
    BY DEF Chained
  <1>1. /\ hi \in lo .. hi
        /\ \A k \in lo .. (hi - 1) : k \in lo .. hi /\ k + 1 \in lo .. hi /\ k # hi
    BY <1>0, Bounds DEF Distinct
  <1>2. /\ DOMAIN next' = DOMAIN next /\ next'[q[i]] = q[i + 1]
        /\ \A k \in lo .. hi : k # i => next'[q[k]] = next[q[k]]
    <2>1. \A k \in lo .. hi : q[k] \in DOMAIN next /\ (k # i => q[k] # q[i])
      BY <1>0, <1>1 DEF Distinct, Ends
    <2>2. next' = [v \in DOMAIN next \cup {q[i]} |-> IF v = q[i] THEN q[i + 1] ELSE next[v]]
      BY DEF Complete, Link
    <2> QED BY <1>1, <2>1, <2>2
  <1>3. Linkers(q, lo, hi)'
    <2>1. ASSUME NEW x \in Callers, caller'[x].at = "link"
          PROVE  \E k \in lo .. (hi - 1) :
                   q[k] = caller'[x].old /\ q[k + 1] = caller'[x].node /\ next'[q[k]] = NULL
      <3>1. caller[x].at = "link" /\ caller'[x] = caller[x] /\ caller[x].node # q[i + 1]
        BY <2>1 DEF Complete
      <3>2. PICK k \in lo .. (hi - 1) :
              q[k] = caller[x].old /\ q[k + 1] = caller[x].node /\ next[q[k]] = NULL
        BY <1>0, <3>1 DEF Linkers
      <3> QED BY <1>1, <1>2, <3>1, <3>2
    <2>2. ASSUME pc' = "relink"
          PROVE  \E k \in lo .. (hi - 1) : q[k] = node' /\ q[k + 1] = Dummy /\ next'[q[k]] = NULL
      <3>1. pc = "relink" /\ node' = node /\ q[i + 1] # Dummy
        BY <2>2 DEF Complete
      <3>2. PICK k \in lo .. (hi - 1) : q[k] = node /\ q[k + 1] = Dummy /\ next[q[k]] = NULL
        BY <1>0, <3>1 DEF Linkers
      <3> QED BY <1>1, <1>2, <3>1, <3>2
    <2> QED BY <2>1, <2>2 DEF Linkers
  <1>4. Links(q, lo, hi)'
    BY <1>0, <1>1, <1>2 DEF Complete, Links
  <1>5. Ends(q, lo, hi)'
    BY <1>0, <1>1, <1>2 DEF Complete, Ends
  <1>6. DummyIn(q, lo, hi)'
    BY <1>0 DEF Complete, DummyIn
  <1>7. Distinct(q, lo, hi)'
    BY <1>0 DEF Distinct
  <1> QED BY <1>3, <1>4, <1>5, <1>6, <1>7 DEF Chained

LEMMA LinkStep ==
  ASSUME TypeOK, NEW w \in Callers, CallerLink(w),
         NEW q, NEW lo, NEW hi, NEW m, NEW f, CallType, Thread, CallersOK, Queue(q, lo, hi, m, f)
  PROVE  CallInv'
  <1>a. Chained(q, lo, hi) /\ Owned(q, lo, hi) /\ Counters(lo, hi, f) /\ Front(q, lo, hi, m)
    BY DEF Queue
  <1>b. q \in [Nat -> Nodes] /\ lo \in Nat /\ hi \in Nat /\ m \in Nat /\ f \in [Callers -> Nat]
    BY DEF Queue
  <1>1. /\ UNCHANGED <<head, tail, rcu_call_count, ready, pc, n, node, attempt, aborted, cast>>
        /\ UNCHANGED <<ptr, removed, batch, at>> /\ caller[w].at = "link"
    BY DEF CallerLink, localVars, rcuVars, dataVars
  <1>2. /\ caller'[w].at = "count" /\ \A x \in Callers : x # w => caller'[x] = caller[x]
        /\ caller' \in [Callers -> [at : CallerPlaces, node : Nodes \cup {NULL}, old : Nodes \cup {NULL}]]
    BY DEF CallerLink, CallerGo, CallType, CallerPlaces
  <1>3. /\ Distinct(q, lo, hi)
        /\ \A k \in lo .. (hi - 1) : k \in lo .. hi /\ k + 1 \in lo .. hi /\ k # hi
    BY <1>a, <1>b, Bounds DEF Chained, Distinct
  <1>4. PICK i \in lo .. (hi - 1) :
          q[i] = caller[w].old /\ q[i + 1] = caller[w].node /\ next[q[i]] = NULL
    BY <1>a, <1>1 DEF Chained, Linkers
  <1>5. \A x \in Callers : caller'[x].at \in {"exchange", "link"} =>
          x # w /\ caller[x].at \in {"exchange", "link"} /\ caller'[x] = caller[x]
    BY <1>2
  <1>6. CallType' /\ Thread'
    BY <1>1, <1>2 DEF CallType, Thread, Serving
  <1>7. CallersOK'
    BY <1>1, <1>5 DEF CallersOK
  <1>8. caller[w].node # Dummy
    <2>1. caller[w].node \in removed[CallThread]
      BY <1>1 DEF CallersOK
    <2> QED BY <2>1, RemovedVersions, RcuCallAssumption
  <1>9. Complete(q, lo, hi, i)
    <2>1. Link(q[i], q[i + 1])
      BY <1>4 DEF CallerLink
    <2>2. \A x \in Callers : caller'[x].at = "link" =>
            caller[x].at = "link" /\ caller'[x] = caller[x] /\ caller[x].node # q[i + 1]
      BY <1>1, <1>2, <1>4 DEF CallersOK
    <2>3. \A k \in lo .. (hi - 1) : k # i /\ Linking(q[k], q[k + 1]) => Linking(q[k], q[k + 1])'
      <3> SUFFICES ASSUME NEW k \in lo .. (hi - 1), k # i, Linking(q[k], q[k + 1])
                   PROVE  Linking(q[k], q[k + 1])'
        OBVIOUS
      <3>1. q[k] # q[i]
        BY <1>3 DEF Distinct
      <3> QED BY <1>1, <1>2, <1>4, <3>1 DEF Linking
    <2> QED BY <1>1, <1>4, <1>8, <2>1, <2>2, <2>3 DEF Complete
  <1>10. Chained(q, lo, hi)'
    BY <1>a, <1>b, <1>9, Completed
  <1>11. Owned(q, lo, hi)'
    BY <1>a, <1>1, <1>2 DEF Owned, Holding
  <1>12. Counters(lo, hi, f)'
    <2>1. Spare(lo, hi)' = Spare(lo, hi)
      BY <1>b, <1>1 DEF Spare, Due, Serving, Holding
    <2>2. \A x \in Callers : caller'[x].at \in {"link", "count"} => caller[x].at \in {"link", "count"}
      BY <1>1, <1>2
    <2> QED BY <1>a, <1>b, <2>1, <2>2 DEF Counters
  <1>13. Front(q, lo, hi, m)'
    BY <1>a, <1>b, <1>1 DEF Front, Holding, Ahead
  <1> QED BY <1>b, <1>6, <1>7, <1>10, <1>11, <1>12, <1>13 DEF CallInv, Queue

LEMMA CountStep ==
  ASSUME TypeOK, NEW w \in Callers, CallerCount(w),
         NEW q, NEW lo, NEW hi, NEW m, NEW f, CallType, Thread, CallersOK, Queue(q, lo, hi, m, f)
  PROVE  CallInv'
  <1>a. Chained(q, lo, hi) /\ Owned(q, lo, hi) /\ Counters(lo, hi, f) /\ Front(q, lo, hi, m)
    BY DEF Queue
  <1>b. q \in [Nat -> Nodes] /\ lo \in Nat /\ hi \in Nat /\ m \in Nat /\ f \in [Callers -> Nat]
    BY DEF Queue
  <1>1. /\ UNCHANGED <<queueVars, ready, pc, n, node, attempt, aborted, cast, at>>
        /\ UNCHANGED <<ptr, removed, batch>> /\ caller[w].at = "count"
        /\ rcu_call_count' = rcu_call_count + 1
    BY DEF CallerCount, localVars, rcuVars, dataVars
  <1>2. /\ caller'[w].at = "set" /\ \A x \in Callers : x # w => caller'[x] = caller[x]
        /\ caller' \in [Callers -> [at : CallerPlaces, node : Nodes \cup {NULL}, old : Nodes \cup {NULL}]]
    BY DEF CallerCount, CallerGo, CallType, CallerPlaces
  <1>3. CallType' /\ Thread'
    BY <1>1, <1>2, SMT DEF CallType, Thread, Serving
  <1>4. CallersOK'
    BY <1>1, <1>2 DEF CallersOK
  <1>5. Chained(q, lo, hi)'
    <2>1. \A a, b : Linking(a, b) => Linking(a, b)'
      BY <1>1, <1>2 DEF Linking
    <2>2. \A x \in Callers : caller'[x].at = "link" => caller[x].at = "link" /\ caller'[x] = caller[x]
      BY <1>2
    <2> QED BY <1>a, <1>1, <2>1, <2>2, StillChained
  <1>6. Owned(q, lo, hi)'
    BY <1>a, <1>1, <1>2 DEF Owned, Holding
  <1>7. PICK s \in Nat : s = Spare(lo, hi)
    BY <1>a, <1>b, SpareInteger, SMT DEF Counters
  <1>8. PICK g \in [Callers -> Nat] : g = [x \in Callers |-> IF f[x] = s THEN f[w] ELSE f[x]]
    BY <1>b
  <1>9. Counters(lo, hi, g)'
    <2>1. Spare(lo, hi)' = s - 1
      BY <1>b, <1>1, <1>7, SMT DEF Spare, Due, Serving, Holding, CallType
    <2>2. \A x \in Callers : caller'[x].at \in {"link", "count"} =>
            caller[x].at \in {"link", "count"} /\ x # w /\ f[x] \in 1 .. s /\ f[x] # f[w]
      BY <1>a, <1>b, <1>1, <1>2, <1>7 DEF Counters
    <2>3. f[w] \in 1 .. s
      BY <1>a, <1>b, <1>1, <1>7 DEF Counters
    <2>4. \A x \in Callers : caller'[x].at \in {"link", "count"} => g[x] \in 1 .. (s - 1)
      <3> SUFFICES ASSUME NEW x \in Callers, caller'[x].at \in {"link", "count"}
                   PROVE  g[x] \in 1 .. (s - 1)
        OBVIOUS
      <3>1. g[x] \in 1 .. s /\ g[x] # s
        BY <1>8, <2>2, <2>3
      <3> QED BY <1>b, <3>1, SMT
    <2>5. \A x, y \in Callers : caller'[x].at \in {"link", "count"} /\ caller'[y].at \in {"link", "count"}
            /\ g[x] = g[y] => f[x] = f[y]
      BY <1>8, <2>2
    <2>6. s - 1 >= 0
      BY <2>3, Places
    <2> QED BY <1>a, <2>1, <2>2, <2>4, <2>5, <2>6 DEF Counters
  <1>10. Front(q, lo, hi, m)'
    BY <1>a, <1>b, <1>1 DEF Front, Holding, Ahead
  <1> QED BY <1>b, <1>3, <1>4, <1>5, <1>6, <1>9, <1>10 DEF CallInv, Queue


(* try_dequeue takes the first node, one that was removed before the grace   *)
(* period unless it is the dummy.                                            *)
LEMMA NextStep ==
  ASSUME TypeOK, TryNext,
         NEW q, NEW lo, NEW hi, NEW m, NEW f, CallType, Thread, CallersOK, Queue(q, lo, hi, m, f)
  PROVE  CallInv'
  <1>a. Chained(q, lo, hi) /\ Owned(q, lo, hi) /\ Counters(lo, hi, f) /\ Front(q, lo, hi, m)
    BY DEF Queue
  <1>b. q \in [Nat -> Nodes] /\ lo \in Nat /\ hi \in Nat /\ m \in Nat /\ f \in [Callers -> Nat]
    BY DEF Queue
  <1>1. /\ UNCHANGED <<next, tail, rcu_call_count, ready, caller, n, aborted, cast, at>>
        /\ UNCHANGED <<ptr, removed, batch>>
        /\ pc = "next" /\ attempt # 0 /\ node = NULL /\ n > 0
    BY DEF TryNext, Thread, rcuVars, dataVars, Serving
  <1>2. /\ Distinct(q, lo, hi) /\ Ends(q, lo, hi) /\ Links(q, lo, hi) /\ Linkers(q, lo, hi)
        /\ DummyIn(q, lo, hi)
    BY <1>a DEF Chained
  <1>3. CASE next[head] = NULL
    <2>1. /\ UNCHANGED <<head, node>> /\ attempt' = 3
          /\ pc' \in {"unlock", "wait", "lock"}
      BY <1>1, <1>3, SMT DEF TryNext, NotYet, Goto, CallType
    <2>2. Steady
      <3>1. 3 # 0 BY SMT
      <3>2. Serving /\ Serving' BY <1>1, <2>1, <3>1 DEF Serving
      <3>3. Due' = Due BY <1>1, <3>2 DEF Due
      <3>4. ~Holding /\ ~Holding' BY <1>1, <2>1 DEF Holding
      <3>5. Holding' = Holding BY <3>4 DEF Holding
      <3>6. UNCHANGED <<queueVars, ptr, removed, node>> BY <1>1, <2>1 DEF queueVars
      <3> HIDE DEF Due, Holding, queueVars
      <3> QED BY <1>1, <2>1, <3>3, <3>5, <3>6 DEF Steady
    <2>3. CallType' /\ Thread'
      BY <1>1, <2>1, SMT DEF CallType, Thread, ThreadPlaces, Serving
    <2> QED BY <1>1, <2>1, <2>2, <2>3, SteadyInv
  <1>4. CASE next[head] # NULL
    <2>1. head' = next[head] /\ attempt' = attempt
      BY <1>4 DEF TryNext
    <2>2. PICK h \in Nodes : h = head /\ h = q[lo] /\ h # NULL
      BY <1>b, <1>2, RcuCallAssumption DEF Ends, Nodes
    <2>3. PICK l \in Nat : l = lo + 1
      BY <1>b, Succ
    <2>4. lo < hi /\ next[h] = q[l]
      <3>1. lo <= hi
        BY <1>2 DEF Distinct
      <3>2. lo # hi
        BY <1>2, <1>4, <2>2 DEF Ends
      <3>3. lo < hi /\ lo \in lo .. (hi - 1)
        BY <1>b, <3>1, <3>2, Below
      <3> QED BY <1>2, <1>4, <2>2, <2>3, <3>3 DEF Links
    <2>5. /\ \A k \in l .. hi : k \in lo .. hi /\ k # lo
          /\ \A k \in lo .. hi : k = lo \/ k \in l .. hi
          /\ \A k \in l .. (hi - 1) : k \in lo .. (hi - 1) /\ k \in l .. hi
          /\ \A k \in lo .. (hi - 1) : k = lo \/ k \in l .. (hi - 1)
          /\ lo \in lo .. hi
      BY <1>b, <2>3, <2>4, SMT
    <2>6. \A k \in l .. hi : q[k] # h
      BY <1>2, <2>2, <2>5 DEF Distinct
    <2>7. IF h = Dummy THEN pc' = "requeue" /\ node' = node
          ELSE pc' \in {"run", "lock"} /\ node' = h
      BY <1>4, <2>2 DEF TryNext, Goto
    <2>8. Chained(q, l, hi)'
      <3>1. \A a, b : Linking(a, b) => Linking(a, b)'
        BY <1>1 DEF Linking
      <3>2. ASSUME NEW x \in Callers, caller'[x].at = "link"
            PROVE  \E k \in l .. (hi - 1) :
                     q[k] = caller'[x].old /\ q[k + 1] = caller'[x].node /\ next'[q[k]] = NULL
        <4>1. PICK k \in lo .. (hi - 1) :
                q[k] = caller[x].old /\ q[k + 1] = caller[x].node /\ next[q[k]] = NULL
          BY <1>1, <1>2, <3>2 DEF Linkers
        <4> QED BY <1>1, <1>4, <2>2, <2>5, <4>1
      <3>3. pc' # "relink"
        BY <2>7
      <3>4. Linkers(q, l, hi)'
        BY <3>2, <3>3 DEF Linkers
      <3>5. Distinct(q, l, hi)'
        BY <1>b, <1>2, <2>3, <2>4, <2>5, SMT DEF Distinct
      <3>6. Ends(q, l, hi)'
        BY <1>1, <1>2, <2>1, <2>2, <2>4, <2>5 DEF Ends
      <3>7. Links(q, l, hi)'
        BY <1>1, <1>2, <2>5, <3>1 DEF Links
      <3>8. DummyIn(q, l, hi)'
        <4>1. \E k \in lo .. hi : q[k] = Dummy
          BY <1>1, <1>2 DEF DummyIn
        <4> QED BY <2>2, <2>5, <2>6, <2>7, <4>1 DEF DummyIn
      <3> QED BY <1>a, <3>4, <3>5, <3>6, <3>7, <3>8 DEF Chained
    <2>9. ~Holding /\ (Holding' <=> h # Dummy) /\ (Holding' => node' = h)
      BY <1>1, <2>2, <2>7 DEF Holding
    <2>10. Owned(q, l, hi)'
      <3>1. h # Dummy => h \in removed[CallThread]
        BY <1>a, <2>2, <2>5 DEF Owned
      <3>2. \A x \in Callers : caller[x].at = "exchange" => caller[x].node # h
        BY <1>a, <2>2, <2>5 DEF Owned
      <3> QED BY <1>a, <1>1, <2>5, <2>6, <2>9, <3>1, <3>2 DEF Owned
    <2>11. Counters(l, hi, f)'
      <3>1. Due' = Due
        BY <1>1, <2>1 DEF Due, Serving
      <3>2. Due \in Int
        BY SMT DEF Due, CallType
      <3>3. Spare(l, hi)' = Spare(lo, hi)
        BY <1>b, <1>1, <2>3, <2>7, <2>9, <3>1, <3>2, OneLess DEF Spare
      <3> QED BY <1>a, <1>b, <1>1, <3>3 DEF Counters
    <2>12. lo <= m /\ m <= hi + 1 /\ n <= Ahead(q, lo, m) /\ n \in Nat
           /\ \A k \in lo .. (m - 1) : q[k] # Dummy => q[k] \in batch[CallThread]
      <3>1. /\ lo <= m /\ m <= hi + 1 /\ n <= Ahead(q, lo, m) + 0
            /\ \A k \in lo .. (m - 1) : q[k] # Dummy => q[k] \in batch[CallThread]
        BY <1>a, <1>1, <2>9 DEF Front
      <3>2. n \in Nat
        BY DEF CallType
      <3> QED BY <1>b, <3>1, <3>2, AheadInteger
    <2>13. lo < m
      <3>1. Ahead(q, lo, m) \in Int /\ Ahead(q, lo, m) <= m - lo
        BY <1>b, AheadInteger
      <3> QED BY <1>b, <1>1, <2>12, <3>1, SMT
    <2>14. /\ l <= m /\ lo \in lo .. (m - 1)
           /\ \A k \in l .. (m - 1) : k \in lo .. (m - 1) /\ k \in l .. hi
           /\ \A k \in lo .. (m - 1) : k = lo \/ k \in l .. (m - 1)
      BY <1>b, <2>3, <2>12, <2>13, SMT
    <2>15. Ahead(q, lo, m) = Ahead(q, l, m) + (IF h = Dummy THEN 0 ELSE 1)
      <3>1. CASE h = Dummy
        <4>1. \A k \in l .. (m - 1) : q[k] # Dummy
          BY <2>6, <2>14, <3>1
        <4>2. \E k \in lo .. (m - 1) : q[k] = Dummy
          BY <2>2, <2>14, <3>1
        <4>3. Ahead(q, lo, m) = m - lo - 1 /\ Ahead(q, l, m) = m - l
          BY <1>b, <4>1, <4>2 DEF Ahead
        <4> QED BY <1>b, <2>3, <3>1, <4>3, SMT
      <3>2. CASE h # Dummy
        <4>1. (\E k \in lo .. (m - 1) : q[k] = Dummy) <=> (\E k \in l .. (m - 1) : q[k] = Dummy)
          BY <2>2, <2>14, <3>2
        <4> QED BY <1>b, <2>3, <3>2, <4>1, SMT DEF Ahead
      <3> QED BY <3>1, <3>2
    <2>16. Front(q, l, hi, m)'
      <3>1. h # Dummy => h \in batch[CallThread]
        BY <2>2, <2>12, <2>14
      <3>2. Ahead(q, l, m)' = Ahead(q, l, m)
        BY <1>b DEF Ahead
      <3>3. n' <= Ahead(q, l, m)' + (IF Holding' THEN 1 ELSE 0)
        BY <1>1, <2>9, <2>12, <2>15, <3>2
      <3> QED BY <1>1, <2>9, <2>12, <2>14, <3>1, <3>3 DEF Front
    <2>17. CallType' /\ Thread'
      BY <1>1, <2>1, <2>2, <2>7 DEF CallType, Thread, ThreadPlaces, Serving
    <2>18. CallersOK'
      BY <1>1 DEF CallersOK
    <2> QED BY <1>b, <2>8, <2>10, <2>11, <2>16, <2>17, <2>18 DEF CallInv, Queue
  <1> QED BY <1>3, <1>4


LEMMA RequeueStep ==
  ASSUME TypeOK, Requeue,
         NEW q, NEW lo, NEW hi, NEW m, NEW f, CallType, Thread, CallersOK, Queue(q, lo, hi, m, f)
  PROVE  CallInv'
  <1>a. Chained(q, lo, hi) /\ Owned(q, lo, hi) /\ Counters(lo, hi, f) /\ Front(q, lo, hi, m)
    BY DEF Queue
  <1>b. q \in [Nat -> Nodes] /\ lo \in Nat /\ hi \in Nat /\ m \in Nat /\ f \in [Callers -> Nat]
    BY DEF Queue
  <1>1. /\ UNCHANGED <<head, rcu_call_count, ready, caller, n, attempt, aborted, cast, at>>
        /\ UNCHANGED <<ptr, removed, batch>>
        /\ pc \in {"requeue", "relink"} /\ attempt # 0
    BY DEF Requeue, Thread, rcuVars, dataVars
  <1>2. pc' \in {"relink", "try"} /\ ~Holding /\ ~Holding' /\ Due' = Due
    BY <1>1 DEF Requeue, Goto, Holding, Due, Serving
  <1>3. /\ Distinct(q, lo, hi) /\ Ends(q, lo, hi) /\ Links(q, lo, hi) /\ Linkers(q, lo, hi)
        /\ DummyIn(q, lo, hi) /\ lo <= hi
    BY <1>a DEF Chained, Distinct
  <1>4. CallersOK'
    BY <1>1 DEF CallersOK
  <1>5. /\ lo <= m /\ m <= hi + 1 /\ n <= Ahead(q, lo, m)
        /\ \A k \in lo .. (m - 1) : q[k] # Dummy => q[k] \in batch[CallThread]
    <2>1. /\ lo <= m /\ m <= hi + 1 /\ n <= Ahead(q, lo, m) + 0
          /\ \A k \in lo .. (m - 1) : q[k] # Dummy => q[k] \in batch[CallThread]
      BY <1>a, <1>1, <1>2 DEF Front
    <2>2. Ahead(q, lo, m) + 0 = Ahead(q, lo, m) BY <1>b, AheadInteger
    <2> QED BY <2>1, <2>2
  <1>6. CASE pc = "requeue"
    <2>1. Link(Dummy, NULL) /\ tail' = Dummy /\ node' = tail /\ pc' = "relink"
      BY <1>6 DEF Requeue, Goto
    <2>2. tail = q[hi] /\ tail # Dummy /\ tail \in Nodes /\ \A k \in lo .. hi : q[k] # Dummy
      BY <1>b, <1>3, <1>6, Bounds DEF Ends, DummyIn
    <2>3. CallType' /\ Thread'
      BY <1>1, <2>1, <2>2 DEF CallType, Thread, ThreadPlaces, Serving
    <2>4. Enqueue(q, lo, hi, Dummy)
      <3>1. \A a, b : Linking(a, b) => Linking(a, b)'
        BY <1>1, <1>6 DEF Linking
      <3>2. Linking(q[hi], Dummy)'
        BY <2>1, <2>2 DEF Linking
      <3> QED BY <1>1, <2>1, <2>2, <3>1, <3>2 DEF Enqueue
    <2>5. PICK r \in [Nat -> Nodes], top \in Nat : r = [q EXCEPT ![hi + 1] = Dummy] /\ top = hi + 1
      <3>1. [q EXCEPT ![hi + 1] = Dummy] \in [Nat -> Nodes] /\ hi + 1 \in Nat
        BY <1>b, SMT DEF Nodes
      <3> QED BY <3>1
    <2>6. Dummy \in Nodes /\ lo <= hi
      BY <1>3 DEF Nodes
    <2>7. Chained(r, lo, top)'
      BY <1>a, <1>b, <2>4, <2>5, <2>6, Enqueued
    <2>8. /\ r[top] = Dummy /\ top \in lo .. top
          /\ \A k \in lo .. hi : r[k] = q[k] /\ k \in lo .. top
          /\ \A k \in lo .. top : k \in lo .. hi \/ k = top
      BY <1>b, <2>5, <2>6, Appended, SMT
    <2>9. Owned(r, lo, top)'
      <3>1. \A x \in Callers : caller[x].at = "exchange" => caller[x].node # Dummy
        BY RemovedVersions, RcuCallAssumption DEF CallersOK
      <3> QED BY <1>a, <1>1, <1>2, <2>8, <3>1 DEF Owned
    <2>10. Counters(lo, top, f)'
      <3>1. Due \in Int
        BY SMT DEF Due, CallType
      <3>2. Spare(lo, top)' = Spare(lo, hi)
        BY <1>b, <1>2, <1>6, <2>1, <2>5, <3>1, SMT DEF Spare
      <3> QED BY <1>a, <1>b, <1>1, <3>2 DEF Counters
    <2>11. Front(r, lo, top, m)'
      <3>1. \A k \in lo .. (m - 1) : r[k] = q[k]
        BY <1>b, <1>5, <2>8, SMT
      <3>2. Ahead(r, lo, m)' = Ahead(q, lo, m)
        BY <1>b, <3>1 DEF Ahead
      <3>3. Ahead(q, lo, m) \in Int
        BY <1>b, AheadInteger
      <3>4. m <= top + 1 /\ n' <= Ahead(r, lo, m)' + 0
        BY <1>b, <1>1, <1>5, <2>5, <3>2, <3>3, SMT
      <3> QED BY <1>1, <1>2, <1>5, <3>1, <3>4 DEF Front
    <2> QED BY <1>b, <1>4, <2>3, <2>5, <2>7, <2>9, <2>10, <2>11 DEF CallInv, Queue
  <1>7. CASE pc = "relink"
    <2>1. Link(node, Dummy) /\ node' = NULL /\ pc' = "try" /\ tail' = tail
      BY <1>7 DEF Requeue, Goto
    <2>2. PICK i \in lo .. (hi - 1) : q[i] = node /\ q[i + 1] = Dummy /\ next[q[i]] = NULL
      BY <1>3, <1>7 DEF Linkers
    <2>3. CallType' /\ Thread'
      BY <1>1, <2>1, RcuCallAssumption DEF CallType, Thread, ThreadPlaces, Serving
    <2>4. Complete(q, lo, hi, i)
      <3>1. \A x \in Callers : caller[x].at = "link" => caller[x].node # Dummy
        BY RemovedVersions, RcuCallAssumption DEF CallersOK
      <3>2. \A k \in lo .. (hi - 1) : k # i /\ Linking(q[k], q[k + 1]) => Linking(q[k], q[k + 1])'
        <4> SUFFICES ASSUME NEW k \in lo .. (hi - 1), k # i, Linking(q[k], q[k + 1])
                     PROVE  Linking(q[k], q[k + 1])'
          OBVIOUS
        <4>1. q[k] # q[i]
          <5>1. k \in lo .. hi /\ i \in lo .. hi
            BY <1>b, <1>3, Bounds
          <5> QED BY <1>3, <5>1 DEF Distinct
        <4> QED BY <1>1, <2>2, <4>1 DEF Linking
      <3> QED BY <1>1, <1>7, <2>1, <2>2, <3>1, <3>2 DEF Complete
    <2>5. Chained(q, lo, hi)'
      BY <1>a, <1>b, <2>4, Completed
    <2>6. Owned(q, lo, hi)'
      BY <1>a, <1>1, <1>2 DEF Owned
    <2>7. Counters(lo, hi, f)'
      <3>1. Spare(lo, hi)' = Spare(lo, hi)
        BY <1>b, <1>2, <1>7, <2>1 DEF Spare
      <3> QED BY <1>a, <1>b, <1>1, <3>1 DEF Counters
    <2>8. Front(q, lo, hi, m)'
      BY <1>a, <1>b, <1>1, <1>2, <1>5 DEF Front, Ahead
    <2> QED BY <1>b, <1>4, <2>3, <2>5, <2>6, <2>7, <2>8 DEF CallInv, Queue
  <1> QED BY <1>1, <1>6, <1>7

LEMMA RunStep ==
  ASSUME TypeOK, RunCallback,
         NEW q, NEW lo, NEW hi, NEW m, NEW f, CallType, Thread, CallersOK, Queue(q, lo, hi, m, f)
  PROVE  CallInv'
  <1>a. Chained(q, lo, hi) /\ Owned(q, lo, hi) /\ Counters(lo, hi, f) /\ Front(q, lo, hi, m)
    BY DEF Queue
  <1>b. q \in [Nat -> Nodes] /\ lo \in Nat /\ hi \in Nat /\ m \in Nat /\ f \in [Callers -> Nat]
    BY DEF Queue
  <1>1. /\ UNCHANGED <<head, tail, rcu_call_count, ready, caller, aborted, cast, at, ptr>>
        /\ pc = "run" /\ attempt # 0 /\ n > 0 /\ n \in Nat /\ n' = n - 1 /\ node' = NULL
    BY DEF RunCallback, Thread, Serving, CallType
  <1>2. PICK v : v = node /\ Holding
    BY <1>1 DEF Thread, Holding
  <1>3. /\ IF n > 1 THEN pc' = "try" /\ attempt' = 1 ELSE pc' = "count" /\ attempt' = 0
        /\ ~Holding'
    BY <1>1 DEF RunCallback, Goto, Holding
  <1>4. /\ removed'[CallThread] = removed[CallThread] \ {v}
        /\ batch'[CallThread] = batch[CallThread] \ {v}
    BY <1>2, RcuCallAssumption DEF RunCallback, TypeOK
  <1>5. DOMAIN next' = DOMAIN next \ {v} /\ \A x \in DOMAIN next \ {v} : next'[x] = next[x]
    BY <1>2 DEF RunCallback
  <1>6. /\ Distinct(q, lo, hi) /\ Ends(q, lo, hi) /\ Links(q, lo, hi) /\ Linkers(q, lo, hi)
        /\ DummyIn(q, lo, hi)
    BY <1>a DEF Chained
  <1>7. \A k \in lo .. hi : q[k] # v
    BY <1>a, <1>2 DEF Owned
  <1>8. hi \in lo .. hi /\ \A k \in lo .. (hi - 1) : k \in lo .. hi /\ k + 1 \in lo .. hi
    BY <1>b, <1>6, Bounds DEF Distinct
  <1>9. CallType' /\ Thread'
    BY <1>1, <1>3, RcuCallAssumption, SMT DEF CallType, Thread, ThreadPlaces, Serving
  <1>10. CallersOK'
    <2>1. \A x \in Callers : caller[x].at \in {"exchange", "link"} => caller[x].node # v
      <3>1. \A x \in Callers : caller[x].at = "exchange" => caller[x].node # v
        BY <1>a, <1>2 DEF Owned
      <3>2. \A x \in Callers : caller[x].at = "link" => caller[x].node # v
        BY <1>6, <1>7, <1>8 DEF Linkers
      <3> QED BY <3>1, <3>2
    <2> QED BY <1>1, <1>4, <2>1 DEF CallersOK
  <1>11. Chained(q, lo, hi)'
    <2>1. \A a, b : Linking(a, b) => Linking(a, b)'
      BY <1>1 DEF Linking
    <2>2. \A k \in lo .. hi : q[k] \in DOMAIN next' /\ next'[q[k]] = next[q[k]]
      BY <1>5, <1>6, <1>7 DEF Ends
    <2>3. pc' # "relink" /\ pc' # "requeue" /\ pc # "requeue"
      BY <1>1, <1>3
    <2>4. Linkers(q, lo, hi)'
      BY <1>1, <1>6, <1>8, <2>2, <2>3 DEF Linkers
    <2>5. Links(q, lo, hi)'
      BY <1>6, <1>8, <2>1, <2>2 DEF Links
    <2>6. Ends(q, lo, hi)'
      BY <1>1, <1>6, <1>8, <2>2 DEF Ends
    <2>7. Distinct(q, lo, hi)' /\ DummyIn(q, lo, hi)'
      BY <1>6, <2>3 DEF Distinct, DummyIn
    <2> QED BY <1>a, <2>4, <2>5, <2>6, <2>7 DEF Chained
  <1>12. Owned(q, lo, hi)'
    BY <1>a, <1>1, <1>3, <1>4, <1>7 DEF Owned
  <1>13. Counters(lo, hi, f)'
    <2>1. Due' = Due - 1 /\ Due \in Int
      BY <1>1, <1>3, SMT DEF Due, Serving, CallType
    <2>2. Spare(lo, hi)' = Spare(lo, hi)
      BY <1>b, <1>1, <1>2, <1>3, <2>1, SMT DEF Spare
    <2> QED BY <1>a, <1>b, <1>1, <2>2 DEF Counters
  <1>14. Front(q, lo, hi, m)'
    <2>1. Ahead(q, lo, m) \in Int
      BY <1>b, AheadInteger
    <2>2. /\ lo <= m /\ m <= hi + 1 /\ n <= Ahead(q, lo, m) + 1
          /\ \A k \in lo .. (m - 1) : q[k] # Dummy => q[k] \in batch[CallThread]
      BY <1>a, <1>1, <1>2 DEF Front
    <2>3. \A k \in lo .. (m - 1) : k \in lo .. hi
      BY <1>b, <2>2, SMT
    <2>4. \A k \in lo .. (m - 1) : q[k] # Dummy => q[k] \in batch'[CallThread]
      BY <1>4, <1>7, <2>2, <2>3
    <2>5. Ahead(q, lo, m)' = Ahead(q, lo, m)
      BY <1>b DEF Ahead
    <2>6. n' <= Ahead(q, lo, m)' + 0
      BY <1>b, <1>1, <2>1, <2>2, <2>5, SMT
    <2> QED BY <1>a, <1>3, <2>2, <2>4, <2>6 DEF Front
  <1> QED BY <1>b, <1>9, <1>10, <1>11, <1>12, <1>13, <1>14 DEF CallInv, Queue


LEMMA RunsAfterGrace == CallInv => AfterGrace
  <1> SUFFICES ASSUME CallInv, pc = "run" PROVE at[CallThread] = "out" /\ node \in batch[CallThread]
    BY DEF AfterGrace
  <1>1. attempt # 0 /\ at[CallThread] = "out" /\ Holding
    BY DEF CallInv, Thread, Holding
  <1> QED BY <1>1 DEF CallInv, Queue, Front

LEMMA CallStep == CallInv /\ TypeOK /\ [Next]_vars => CallInv'
  <1> SUFFICES ASSUME CallInv, TypeOK, [Next]_vars PROVE CallInv'
    OBVIOUS
  <1>1. CallType /\ Thread /\ CallersOK
    BY DEF CallInv
  <1>2. PICK q, lo, hi, m, f : Queue(q, lo, hi, m, f)
    BY DEF CallInv
  <1> HIDE DEF CallInv
  <1>3. CASE UNCHANGED vars
    <2>1. UNCHANGED callVars /\ UNCHANGED dataVars /\ UNCHANGED at
      BY <1>3 DEF vars, rcuVars
    <2>2. /\ UNCHANGED <<queueVars, rcu_call_count, ready, caller, pc, n, node, attempt, aborted, cast>>
          /\ UNCHANGED <<ptr, removed, batch, at>>
      BY <2>1 DEF dataVars, callVars, localVars
    <2>3. Steady
      BY <2>2 DEF Steady, Holding, Due, Serving
    <2>4. CallType' /\ Thread'
      BY <1>1, <2>2 DEF CallType, Thread, Serving
    <2> QED BY <1>1, <1>2, <2>2, <2>3, <2>4, SteadyInv
  <1>4. ASSUME NEW t \in cast.readers, Reader(t), UNCHANGED callVars PROVE CallInv'
    <2>1. t \in Readers
      BY <1>1, RcuCallAssumption DEF CallType
    <2> QED BY <1>1, <1>2, <1>4, <2>1, ReaderStep
  <1>5. ASSUME NEW w \in Callers, CallerRemove(w) \/ Caller(w) PROVE CallInv'
    BY <1>1, <1>2, <1>5, RemoveStep, ExchangeStep, LinkStep, CountStep, SetStep DEF Caller
  <1>6. CASE call_rcu_thread
    <2>1. CASE ReadCount \/ PileUp \/ ResetReady \/ ReadAgain \/ WaitReady
      BY <1>1, <1>2, <2>1, WaitStep, PileStep
    <2>2. CASE Synchronize \/ Grace \/ TakeBql \/ RetakeBql \/ ReleaseBql \/ TryTest
      BY <1>1, <1>2, <2>2, SynchronizeStep, GraceStep, BqlStep, TestStep
    <2>3. CASE TryNext \/ Requeue \/ RunCallback
      BY <1>1, <1>2, <2>3, NextStep, RequeueStep, RunStep
    <2> QED BY <1>6, <2>1, <2>2, <2>3 DEF call_rcu_thread
  <1> QED BY <1>3, <1>4, <1>5, <1>6 DEF Next

---------------------------------------------------------------------------
(* The thread and the callers are clients of Rcu: it reclaims only what      *)
(* Reclaim may.                                                              *)
LEMMA CallRefines == CallInv /\ TypeOK /\ [Next]_vars => [RcuNext]_rcuVars
  <1> SUFFICES ASSUME CallInv, TypeOK, Next PROVE [RcuNext]_rcuVars
    BY DEF vars
  <1>1. ASSUME NEW t \in cast.readers, Reader(t) PROVE RcuNext
    <2>1. t \in Readers
      BY RcuCallAssumption DEF CallInv, CallType
    <2> QED BY <1>1, <2>1 DEF RcuNext
  <1>2. ASSUME NEW w \in Callers, CallerRemove(w) PROVE RcuNext
    BY <1>2, RcuCallAssumption DEF CallerRemove, RcuNext, Updater
  <1>3. ASSUME NEW w \in Callers, Caller(w) PROVE UNCHANGED rcuVars
    BY <1>3 DEF Caller, CallerExchange, CallerLink, CallerCount, CallerSet
  <1>4. ASSUME Synchronize \/ Grace PROVE RcuNext
    BY <1>4, RcuCallAssumption DEF Synchronize, Grace, RcuNext, Updater
  <1>5. ASSUME RunCallback PROVE Reclaim(CallThread)
    <2>1. at[CallThread] = "out" /\ node \in batch[CallThread]
      BY <1>5, RunsAfterGrace DEF RunCallback, AfterGrace
    <2> QED BY <1>5, <2>1 DEF RunCallback, Reclaim
  <1>6. ASSUME call_rcu_thread PROVE [RcuNext]_rcuVars
    BY <1>4, <1>5, <1>6, RcuCallAssumption
    DEF call_rcu_thread, ReadCount, PileUp, ResetReady, ReadAgain, WaitReady, TakeBql,
        TryTest, TryNext, Requeue, RetakeBql, ReleaseBql, RcuNext, Updater
  <1> QED BY <1>1, <1>2, <1>3, <1>6 DEF Next

-----------------------------------------------------------------------------

LEMMA CallInvariant == Spec => [](IInv /\ CallInv)
  <1>1. Init => IInv /\ CallInv
    BY InitIInv, InitCall DEF Init
  <1>2. IInv => TypeOK
    BY DEF IInv
  <1>3. IInv /\ CallInv /\ [Next]_vars => (IInv /\ CallInv)'
    BY <1>2, NextIInv, CallStep, CallRefines
  <1> QED BY <1>1, <1>3, PTL DEF Spec

(* The abort() of try_dequeue's caller is never reached: of the callbacks    *)
(* that were counted, and not run, one is in the queue.                      *)
THEOREM QueueNeverEmpty == Spec => []NoAbort
  <1>1. CallInv => NoAbort
    BY DEF CallInv, Thread, NoAbort
  <1> QED BY <1>1, CallInvariant, PTL

(* A callback runs after a grace period that began when its object had been  *)
(* removed, however many objects were removed, queued and counted meanwhile. *)
THEOREM CallbacksAfterGrace == Spec => []AfterGrace
  BY RunsAfterGrace, CallInvariant, PTL

(* call_rcu, with any callers, uses RCU as an updater may: every behaviour   *)
(* of it is one of Rcu.                                                      *)
THEOREM CallRcuIsUpdater == Spec => RcuSpec
  <1>1. Init => RcuInit
    BY DEF Init
  <1>2. IInv /\ CallInv /\ [Next]_vars => [RcuNext]_rcuVars
    BY CallRefines DEF IInv
  <1> QED BY <1>1, <1>2, CallInvariant, PTL DEF Spec, RcuSpec

(* Hence no critical section has a pointer to what call_rcu has freed.       *)
THEOREM CallGracePeriod == Spec => []NoUseAfterFree
  BY CallRcuIsUpdater, GracePeriod, PTL

============================================================================
