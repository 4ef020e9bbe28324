---------------------------- MODULE VcpusProofs ----------------------------
(***************************************************************************)
(* Proofs about CpuExclusive and Vcpus, for every finite set of vCPUs and    *)
(* every workload.                                                           *)
(*                                                                         *)
(* The invariant EInv of the exclusive sections is one of CpuExclusive and   *)
(* one of Vcpus, since a step of Vcpus is one of CpuExclusive or leaves its  *)
(* variables alone but for exit_request.  The                                *)
(* rest of VInv relates the place of a thread in its loop to its place in    *)
(* CpuExclusive, to the BQL, and to the work that is queued.  Every step is  *)
(* one of a single thread: Others says what it may do to the other threads,  *)
(* Itself and Duty what it owes.                                             *)
(***************************************************************************)
EXTENDS Vcpus, FiniteSetTheorems, TLAPS

(* The exclusive sections *)

Owning == Starting \cup {"exclusive"}

(* pending_cpus is positive exactly while one thread is between the first  *)
(* store of start_exclusive and end_exclusive, and the lock is held across *)
(* steps exactly during the loop over the CPUs.                            *)
Sections ==
  /\ \A c \in CPUs : pc[c] \in Owning => pending_cpus > 0
  /\ pending_cpus > 0 => \E c \in CPUs : pc[c] \in Owning
  /\ \A c, d \in CPUs : pc[c] \in Owning /\ pc[d] \in Owning => c = d
  /\ \A c \in CPUs : pc[c] = "exclScan" => listLock
  /\ listLock => \E c \in CPUs : pc[c] = "exclScan"
  /\ ~listLock => toScan = {}

(* pending_cpus counts the section and the CPUs with has_waiter; during the *)
(* loop running_cpus is what it will become.                               *)
Counts ==
  /\ listLock => /\ pending_cpus = 1
                 /\ running_cpus = Cardinality(Waiters)
                 /\ \A c \in toScan : ~has_waiter[c]
  /\ ~listLock /\ pending_cpus > 0 => pending_cpus = 1 + Cardinality(Waiters)
  /\ pending_cpus = 0 => Cardinality(Waiters) = 0
  /\ \A c \in CPUs : pc[c] = "exclusive" => pending_cpus = 1
  /\ \A c \in CPUs : pc[c] = "exclWait" => pending_cpus > 1

(* What a CPU's place says of its flags.  The fourth conjunct is the heart: *)
(* a CPU in guest code that the loop has passed has been counted.          *)
Flags ==
  \A c \in CPUs :
    /\ has_waiter[c] =>
         pc[c] \in {"startRead", "startLock", "exec", "endRead", "endLock"}
    /\ running[c] <=> pc[c] \in {"startRead", "startLock", "exec"}
    /\ pc[c] = "new" <=> c \notin cpus
    /\ pc[c] = "exec" /\ pending_cpus > 0 /\ c \notin toScan => has_waiter[c]
    /\ pc[c] \in {"startIdle", "exclIdle"} => pending_cpus > 0

EInv == TypeOK /\ Sections /\ Counts /\ Flags

LEMMA WaitersFinite ==
  IsFiniteSet(Waiters) /\ Cardinality(Waiters) \in Nat
  BY CPUsAssumption, FS_Subset, FS_CardinalityType DEF Waiters

(* EndLock takes a CPU out of the waiters. *)
LEMMA WaitersRemove ==
  ASSUME TypeOK, NEW c \in CPUs, has_waiter' = [has_waiter EXCEPT ![c] = FALSE]
  PROVE Cardinality(Waiters') =
          IF has_waiter[c] THEN Cardinality(Waiters) - 1 ELSE Cardinality(Waiters)
  <1>1. Waiters' = Waiters \ {c}
    BY DEF TypeOK, Waiters
  <1> QED BY <1>1, WaitersFinite, FS_RemoveElement DEF Waiters

(* ExclScan adds one. *)
LEMMA WaitersAdd ==
  ASSUME TypeOK, NEW c \in CPUs, has_waiter' = [has_waiter EXCEPT ![c] = TRUE]
  PROVE Cardinality(Waiters') =
          IF has_waiter[c] THEN Cardinality(Waiters) ELSE Cardinality(Waiters) + 1
  <1>1. Waiters' = Waiters \cup {c}
    BY DEF TypeOK, Waiters
  <1> QED BY <1>1, WaitersFinite, FS_AddElement, SMTT(60) DEF Waiters

(* No section is pending: nobody is counted. *)
LEMMA NoWaiters ==
  ASSUME EInv, pending_cpus = 0
  PROVE \A d \in CPUs : ~has_waiter[d]
  <1>1. Waiters = {}
    BY WaitersFinite, FS_EmptySet DEF EInv, Counts
  <1> QED BY <1>1 DEF Waiters

LEMMA InitEInv == ExclInit => EInv
  <1> SUFFICES ASSUME ExclInit PROVE EInv
    OBVIOUS
  <1>1. TypeOK
    BY ZenonT(60) DEF ExclInit, TypeOK, Places
  <1>2. Waiters = {}
    BY DEF ExclInit, Waiters
  <1>3. Sections /\ Flags
    BY DEF ExclInit, Sections, Flags, Owning, Starting
  <1>4. Counts
    BY <1>2, FS_EmptySet DEF ExclInit, Counts
  <1> QED BY <1>1, <1>3, <1>4 DEF EInv

LEMMA ExecStartStep ==
  ASSUME EInv, NEW c \in CPUs, ExecStart(c)
  PROVE EInv'
  <1>1. TypeOK'
    BY DEF EInv, TypeOK, Places, ExecStart, GotoPc
  <1>2. Cardinality(Waiters') = Cardinality(Waiters)
    BY DEF Waiters, ExecStart, GotoPc
  <1>4. Sections'
    BY DEF EInv, TypeOK, Sections, Counts, Owning, Starting, ExecStart, GotoPc
  <1>5. Counts'
    BY <1>2, WaitersFinite, SMTT(60) DEF EInv, TypeOK, Sections, Counts, Flags, Owning,
       Starting, ExecStart, GotoPc
  <1>6. Flags'
    BY DEF EInv, TypeOK, Sections, Counts, Flags, Owning, Starting, ExecStart,
       GotoPc
  <1> QED BY <1>1, <1>4, <1>5, <1>6 DEF EInv

LEMMA StartReadStep ==
  ASSUME EInv, NEW c \in CPUs, StartRead(c)
  PROVE EInv'
  <1>1. TypeOK'
    BY DEF EInv, TypeOK, Places, StartRead, GotoPc
  <1>2. Cardinality(Waiters') = Cardinality(Waiters)
    BY DEF Waiters, StartRead, GotoPc
  <1>4. Sections'
    BY DEF EInv, TypeOK, Sections, Counts, Owning, Starting, StartRead, GotoPc
  <1>5. Counts'
    BY <1>2, WaitersFinite, SMTT(60) DEF EInv, TypeOK, Sections, Counts, Flags, Owning,
       Starting, StartRead, GotoPc
  <1>6. Flags'
    BY DEF EInv, TypeOK, Sections, Counts, Flags, Owning, Starting, StartRead,
       GotoPc
  <1> QED BY <1>1, <1>4, <1>5, <1>6 DEF EInv

LEMMA StartLockStep ==
  ASSUME EInv, NEW c \in CPUs, StartLock(c)
  PROVE EInv'
  <1>1. TypeOK'
    BY ZenonT(60) DEF EInv, TypeOK, Places, StartLock, GotoPc, StartIdle, Counted
  <1>2. Cardinality(Waiters') = Cardinality(Waiters)
    BY DEF Waiters, StartLock, GotoPc, StartIdle, Counted
  <1>4. Sections'
    BY DEF EInv, TypeOK, Sections, Counts, Owning, Starting, StartLock, GotoPc,
       StartIdle, Counted
  <1>5. Counts'
    BY <1>2, WaitersFinite, SMTT(60) DEF EInv, TypeOK, Sections, Counts, Flags, Owning,
       Starting, StartLock, GotoPc, StartIdle, Counted
  <1>6. Flags'
    BY DEF EInv, TypeOK, Sections, Counts, Flags, Owning, Starting, StartLock,
       GotoPc, StartIdle, Counted
  <1> QED BY <1>1, <1>4, <1>5, <1>6 DEF EInv

LEMMA StartWokenStep ==
  ASSUME EInv, NEW c \in CPUs, StartWoken(c)
  PROVE EInv'
  <1>1. TypeOK'
    BY DEF EInv, TypeOK, Places, StartWoken, GotoPc, StartIdle
  <1>2. Cardinality(Waiters') = Cardinality(Waiters)
    BY DEF Waiters, StartWoken, GotoPc, StartIdle
  <1>4. Sections'
    BY DEF EInv, TypeOK, Sections, Counts, Owning, Starting, StartWoken, GotoPc,
       StartIdle
  <1>5. Counts'
    BY <1>2, WaitersFinite, SMTT(60) DEF EInv, TypeOK, Sections, Counts, Flags, Owning,
       Starting, StartWoken, GotoPc, StartIdle
  <1>6. Flags'
    <2> SUFFICES ASSUME NEW d \in CPUs PROVE Flags!(d)'
      BY DEF Flags
    <2>1. CASE d = c
      <3>1. CASE pending_cpus = 0
        <4>1. running'[c] /\ pc'[c] = "exec" /\ pending_cpus' = 0
          BY ZenonT(60), <3>1 DEF EInv, TypeOK, StartWoken, GotoPc, StartIdle
        <4>2. ~has_waiter'[c] /\ c \in cpus'
          BY DEF EInv, TypeOK, Flags, StartWoken
        <4> QED BY <2>1, <4>1, <4>2
      <3>2. CASE pending_cpus # 0
        BY <2>1, <3>2 DEF EInv, TypeOK, Flags, StartWoken, GotoPc, StartIdle
      <3> QED BY <3>1, <3>2
    <2>2. CASE d # c
      BY <2>2 DEF EInv, TypeOK, Flags, StartWoken, GotoPc, StartIdle
    <2> QED BY <2>1, <2>2
  <1> QED BY <1>1, <1>4, <1>5, <1>6 DEF EInv

LEMMA ExecEndStep ==
  ASSUME EInv, NEW c \in CPUs, ExecEnd(c)
  PROVE EInv'
  <1>1. TypeOK'
    BY DEF EInv, TypeOK, Places, ExecEnd, GotoPc
  <1>2. Cardinality(Waiters') = Cardinality(Waiters)
    BY DEF Waiters, ExecEnd, GotoPc
  <1>4. Sections'
    BY DEF EInv, TypeOK, Sections, Counts, Owning, Starting, ExecEnd, GotoPc
  <1>5. Counts'
    BY <1>2, WaitersFinite, SMTT(60) DEF EInv, TypeOK, Sections, Counts, Flags, Owning,
       Starting, ExecEnd, GotoPc
  <1>6. Flags'
    BY DEF EInv, TypeOK, Sections, Counts, Flags, Owning, Starting, ExecEnd,
       GotoPc
  <1> QED BY <1>1, <1>4, <1>5, <1>6 DEF EInv

LEMMA EndReadStep ==
  ASSUME EInv, NEW c \in CPUs, EndRead(c)
  PROVE EInv'
  <1>1. TypeOK'
    BY DEF EInv, TypeOK, Places, EndRead, GotoPc
  <1>2. Cardinality(Waiters') = Cardinality(Waiters)
    BY DEF Waiters, EndRead, GotoPc
  <1>4. Sections'
    BY DEF EInv, TypeOK, Sections, Counts, Owning, Starting, EndRead, GotoPc
  <1>5. Counts'
    BY <1>2, WaitersFinite, SMTT(60) DEF EInv, TypeOK, Sections, Counts, Flags, Owning,
       Starting, EndRead, GotoPc
  <1>6. Flags'
    BY NoWaiters DEF EInv, TypeOK, Sections, Counts, Flags, Owning, Starting,
       EndRead, GotoPc
  <1> QED BY <1>1, <1>4, <1>5, <1>6 DEF EInv

LEMMA EndLockStep ==
  ASSUME EInv, NEW c \in CPUs, EndLock(c)
  PROVE EInv'
  <1>2. Cardinality(Waiters') =
          IF has_waiter[c] THEN Cardinality(Waiters) - 1 ELSE Cardinality(Waiters)
    BY ZenonT(60), WaitersRemove DEF EInv, EndLock
  <1>3. has_waiter[c] => pending_cpus > 1 /\ pending_cpus = 1 + Cardinality(Waiters)
    <2>1. has_waiter[c] => Cardinality(Waiters) # 0
      BY WaitersFinite, FS_EmptySet DEF Waiters
    <2> QED BY <2>1, WaitersFinite DEF EInv, TypeOK, Counts, EndLock
  <1>1. TypeOK'
    <2>1. pending_cpus' \in Nat
      BY <1>3 DEF EInv, TypeOK, EndLock, Counted
    <2>2. pc' \in [CPUs -> Places] /\ has_waiter' \in [CPUs -> BOOLEAN]
      BY DEF EInv, TypeOK, Places, EndLock, Counted
    <2> QED BY <2>1, <2>2 DEF EInv, TypeOK, EndLock, Counted
  <1>4. Sections'
    BY <1>3 DEF EInv, TypeOK, Sections, Counts, Owning, Starting, EndLock,
       Counted, LastReport
  <1>5. Counts'
    BY <1>2, <1>3, WaitersFinite DEF EInv, TypeOK, Sections, Counts, Flags,
       Owning, Starting, EndLock, Counted, LastReport
  <1>6. Flags'
    BY <1>3 DEF EInv, TypeOK, Sections, Counts, Flags, Owning, Starting,
       EndLock, Counted, LastReport
  <1> QED BY <1>1, <1>4, <1>5, <1>6 DEF EInv

LEMMA ExclCallStep ==
  ASSUME EInv, NEW c \in CPUs, ExclCall(c)
  PROVE EInv'
  <1>1. TypeOK'
    BY DEF EInv, TypeOK, Places, ExclCall, GotoPc
  <1>2. Cardinality(Waiters') = Cardinality(Waiters)
    BY DEF Waiters, ExclCall, GotoPc
  <1>4. Sections'
    BY DEF EInv, TypeOK, Sections, Counts, Owning, Starting, ExclCall, GotoPc
  <1>5. Counts'
    BY <1>2, WaitersFinite, SMTT(60) DEF EInv, TypeOK, Sections, Counts, Flags, Owning,
       Starting, ExclCall, GotoPc
  <1>6. Flags'
    BY DEF EInv, TypeOK, Sections, Counts, Flags, Owning, Starting, ExclCall,
       GotoPc
  <1> QED BY <1>1, <1>4, <1>5, <1>6 DEF EInv

LEMMA ExclLockStep ==
  ASSUME EInv, NEW c \in CPUs, ExclLock(c)
  PROVE EInv'
  <1>1. TypeOK'
    <2>1. pc' \in [CPUs -> Places]
      BY DEF EInv, TypeOK, Places, ExclLock, GotoPc
    <2>2. pending_cpus' \in Nat /\ toScan' \in SUBSET cpus' /\ running_cpus' \in Nat
      BY DEF EInv, TypeOK, ExclLock
    <2>3. listLock' \in BOOLEAN
      BY ZenonT(60) DEF EInv, TypeOK, ExclLock
    <2>4. UNCHANGED <<running, has_waiter, exit_request, cpus>>
      BY DEF ExclLock
    <2> QED BY <2>1, <2>2, <2>3, <2>4 DEF EInv, TypeOK
  <1>2. Cardinality(Waiters') = Cardinality(Waiters)
    BY DEF Waiters, ExclLock, GotoPc
  <1>4. Sections'
    BY DEF EInv, TypeOK, Sections, Counts, Owning, Starting, ExclLock, GotoPc
  <1>5. Counts'
    BY <1>2, WaitersFinite, NoWaiters DEF EInv, TypeOK, Sections, Counts,
       Flags, Owning, Starting, ExclLock, GotoPc
  <1>6. Flags'
    BY DEF EInv, TypeOK, Sections, Counts, Flags, Owning, Starting, ExclLock,
       GotoPc
  <1> QED BY <1>1, <1>4, <1>5, <1>6 DEF EInv

LEMMA ExclScanStep ==
  ASSUME EInv, NEW c \in CPUs, NEW other \in CPUs, ExclScan(c, other)
  PROVE EInv'
  <1>1. TypeOK'
    <2>1. has_waiter' \in [CPUs -> BOOLEAN] /\ exit_request' \in [CPUs -> BOOLEAN]
      BY ZenonT(60) DEF EInv, TypeOK, ExclScan, Kick
    <2>2. running_cpus' \in Nat /\ toScan' \in SUBSET cpus'
      BY DEF EInv, TypeOK, ExclScan, Kick
    <2> QED BY <2>1, <2>2 DEF EInv, TypeOK, ExclScan, Kick
  <1>2. Cardinality(Waiters') =
          IF running[other] THEN Cardinality(Waiters) + 1 ELSE Cardinality(Waiters)
    <2>1. CASE running[other]
      <3>1. ~has_waiter[other]
        BY DEF EInv, TypeOK, Sections, Counts, ExclScan
      <3> QED BY <2>1, <3>1, WaitersAdd DEF EInv, ExclScan
    <2>2. CASE ~running[other]
      BY <2>2 DEF Waiters, ExclScan
    <2> QED BY <2>1, <2>2
  <1>4. Sections'
    BY DEF EInv, TypeOK, Sections, Counts, Owning, Starting, ExclScan, Kick
  <1>5. Counts'
    BY <1>2, WaitersFinite, SMTT(60) DEF EInv, TypeOK, Sections, Counts, Flags, Owning,
       Starting, ExclScan, Kick
  <1>6. Flags'
    BY DEF EInv, TypeOK, Sections, Counts, Flags, Owning, Starting, ExclScan,
       Kick
  <1> QED BY <1>1, <1>4, <1>5, <1>6 DEF EInv

LEMMA ExclCountStep ==
  ASSUME EInv, NEW c \in CPUs, ExclCount(c)
  PROVE EInv'
  <1>1. TypeOK'
    <2>1. pc' \in [CPUs -> Places]
      BY DEF EInv, TypeOK, Places, ExclCount, GotoPc
    <2>2. pending_cpus' \in Nat /\ listLock' = FALSE
      BY DEF EInv, TypeOK, ExclCount
    <2>3. UNCHANGED <<running, has_waiter, exit_request, cpus, toScan, running_cpus>>
      BY DEF ExclCount
    <2> QED BY ZenonT(60), <2>1, <2>2, <2>3 DEF EInv, TypeOK
  <1>2. Cardinality(Waiters') = Cardinality(Waiters)
    BY DEF Waiters, ExclCount, GotoPc
  <1>4. Sections'
    BY DEF EInv, TypeOK, Sections, Counts, Owning, Starting, ExclCount, GotoPc
  <1>5. Counts'
    BY <1>2, WaitersFinite, SMTT(60) DEF EInv, TypeOK, Sections, Counts, Flags, Owning,
       Starting, ExclCount, GotoPc
  <1>6. Flags'
    BY DEF EInv, TypeOK, Sections, Counts, Flags, Owning, Starting, ExclCount,
       GotoPc
  <1> QED BY <1>1, <1>4, <1>5, <1>6 DEF EInv

LEMMA ExclWokenStep ==
  ASSUME EInv, NEW c \in CPUs, ExclWoken(c)
  PROVE EInv'
  <1>1. TypeOK'
    BY DEF EInv, TypeOK, Places, ExclWoken, GotoPc
  <1>2. Cardinality(Waiters') = Cardinality(Waiters)
    BY DEF Waiters, ExclWoken, GotoPc
  <1>4. Sections'
    BY DEF EInv, TypeOK, Sections, Counts, Owning, Starting, ExclWoken, GotoPc
  <1>5. Counts'
    BY <1>2, WaitersFinite, SMTT(60) DEF EInv, TypeOK, Sections, Counts, Flags, Owning,
       Starting, ExclWoken, GotoPc
  <1>6. Flags'
    BY DEF EInv, TypeOK, Sections, Counts, Flags, Owning, Starting, ExclWoken,
       GotoPc
  <1> QED BY <1>1, <1>4, <1>5, <1>6 DEF EInv

LEMMA ExclEndStep ==
  ASSUME EInv, NEW c \in CPUs, ExclEnd(c)
  PROVE EInv'
  <1>1. TypeOK'
    BY DEF EInv, TypeOK, Places, ExclEnd, Resumed
  <1>2. Cardinality(Waiters') = Cardinality(Waiters)
    BY DEF Waiters, ExclEnd, Resumed
  <1>4. Sections'
    BY DEF EInv, TypeOK, Sections, Counts, Owning, Starting, ExclEnd, Resumed
  <1>5. Counts'
    BY <1>2, WaitersFinite, SMTT(60) DEF EInv, TypeOK, Sections, Counts, Flags, Owning,
       Starting, ExclEnd, Resumed
  <1>6. Flags'
    BY DEF EInv, TypeOK, Sections, Counts, Flags, Owning, Starting, ExclEnd,
       Resumed
  <1> QED BY <1>1, <1>4, <1>5, <1>6 DEF EInv

LEMMA ListAddStep ==
  ASSUME EInv, NEW c \in CPUs, ListAdd(c)
  PROVE EInv'
  <1>1. TypeOK'
    BY DEF EInv, TypeOK, Places, ListAdd, GotoPc
  <1>2. Cardinality(Waiters') = Cardinality(Waiters)
    BY DEF Waiters, ListAdd, GotoPc
  <1>4. Sections'
    BY DEF EInv, TypeOK, Sections, Counts, Owning, Starting, ListAdd, GotoPc
  <1>5. Counts'
    BY <1>2, WaitersFinite, SMTT(60) DEF EInv, TypeOK, Sections, Counts, Flags, Owning,
       Starting, ListAdd, GotoPc
  <1>6. Flags'
    BY DEF EInv, TypeOK, Sections, Counts, Flags, Owning, Starting, ListAdd,
       GotoPc
  <1> QED BY <1>1, <1>4, <1>5, <1>6 DEF EInv

LEMMA ListRemoveStep ==
  ASSUME EInv, NEW c \in CPUs, ListRemove(c)
  PROVE EInv'
  <1>1. TypeOK'
    <2>1. toScan = {}
      BY DEF EInv, Sections, ListRemove
    <2> QED BY <2>1 DEF EInv, TypeOK, Places, ListRemove, GotoPc
  <1>2. Cardinality(Waiters') = Cardinality(Waiters)
    BY DEF Waiters, ListRemove, GotoPc
  <1>4. Sections'
    BY DEF EInv, TypeOK, Sections, Counts, Owning, Starting, ListRemove, GotoPc
  <1>5. Counts'
    BY <1>2, WaitersFinite, SMTT(60) DEF EInv, TypeOK, Sections, Counts, Flags, Owning,
       Starting, ListRemove, GotoPc
  <1>6. Flags'
    BY DEF EInv, TypeOK, Sections, Counts, Flags, Owning, Starting,
       ListRemove, GotoPc
  <1> QED BY <1>1, <1>4, <1>5, <1>6 DEF EInv

LEMMA SpuriousWakeupStep ==
  ASSUME EInv, NEW c \in CPUs, SpuriousWakeup(c)
  PROVE EInv'
  <1>1. TypeOK'
    BY DEF EInv, TypeOK, Places, SpuriousWakeup, GotoPc, Resumed
  <1>2. Cardinality(Waiters') = Cardinality(Waiters)
    BY DEF Waiters, SpuriousWakeup, GotoPc, Resumed
  <1>4. Sections'
    BY DEF EInv, TypeOK, Sections, Counts, Owning, Starting, SpuriousWakeup,
       GotoPc, Resumed
  <1>5. Counts'
    BY <1>2, WaitersFinite, SMTT(60) DEF EInv, TypeOK, Sections, Counts, Flags, Owning,
       Starting, SpuriousWakeup, GotoPc, Resumed
  <1>6. Flags'
    BY DEF EInv, TypeOK, Sections, Counts, Flags, Owning, Starting,
       SpuriousWakeup, GotoPc, Resumed
  <1> QED BY <1>1, <1>4, <1>5, <1>6 DEF EInv

LEMMA NextEInv == EInv /\ [ExclNext]_cpuVars => EInv'
  <1> SUFFICES ASSUME EInv, [ExclNext]_cpuVars PROVE EInv'
    OBVIOUS
  <1>1. CASE UNCHANGED cpuVars
    BY <1>1 DEF EInv, TypeOK, Sections, Counts, Flags, Waiters, cpuVars
  <1>2. CASE ExclNext
    BY <1>2, ExecStartStep, StartReadStep, StartLockStep, StartWokenStep,
       ExecEndStep, EndReadStep, EndLockStep, ExclCallStep, ExclLockStep,
       ExclScanStep, ExclCountStep, ExclWokenStep, ExclEndStep, ListAddStep,
       ListRemoveStep, SpuriousWakeupStep, SMTT(60) DEF ExclNext
  <1> QED BY <1>1, <1>2

LEMMA SectionsInvariance == ExclSpec => []EInv
  BY InitEInv, NextEInv, PTL DEF ExclSpec

(* Type correctness of the exclusive sections. *)
THEOREM TypeCorrect == ExclSpec => []TypeOK
  BY SectionsInvariance, PTL DEF EInv

LEMMA InvExclusion == EInv => Exclusion
  <1> SUFFICES ASSUME EInv, NEW c \in CPUs, NEW d \in CPUs, c # d,
                      pc[c] = "exclusive"
               PROVE pc[d] \notin {"exec", "exclusive"}
    BY DEF Exclusion
  <1>1. ~listLock /\ toScan = {}
    BY DEF EInv, TypeOK, Sections, Owning, Starting
  <1>2. pending_cpus = 1 /\ Cardinality(Waiters) = 0
    BY <1>1, WaitersFinite DEF EInv, Counts
  <1>3. ~has_waiter[d]
    BY <1>2, WaitersFinite, FS_EmptySet DEF Waiters
  <1> QED BY <1>1, <1>2, <1>3 DEF EInv, Sections, Flags, Owning

(* However many CPUs there are, no guest code runs beside the section that *)
(* start_exclusive opened, and there is only one such section.             *)
THEOREM ExclusionCorrect == ExclSpec => []Exclusion
  BY InvExclusion, SectionsInvariance, PTL

(* No thread sleeps in start_exclusive or exclusive_idle without a thread  *)
(* that is bound to wake it.                                               *)
THEOREM SleepCorrect == ExclSpec => []SleepHasReason
  <1>1. EInv => SleepHasReason
    BY DEF EInv, TypeOK, Sections, Counts, Flags, SleepHasReason, Owning, Starting
  <1> QED BY <1>1, SectionsInvariance, PTL

---------------------------------------------------------------------------
(* The threads *)

InStart == {"startRead", "startLock", "startIdle", "startWoken", "exec"}
Ending == {"endRead", "endLock"}
Exclusive == {"exclLock", "exclIdle", "exclIdleWoken", "exclScan", "exclWait", "exclWoken", "exclusive"}

Outside == {"start", "loop", "enter", "relock", "relockAtomic", "wait", "sleepy", "halt",
            "haltWoken", "work", "safeRelock"}
Posting == {"kick", "workWait", "workWoken"}
Device == {"atomicMmio", "atomicDevice"}
MainPlaces == Posting \cup {"idle", "pauseWait", "pauseWoken", "paused"}

WorkType ==
  /\ workload \in Workloads /\ posted \subseteq workload.requests
  /\ DOMAIN at = Threads /\ DOMAIN cur = Threads /\ DOMAIN queue = CPUs

(* Where a vCPU thread is in its loop says where it is in CpuExclusive.      *)
PlaceOK(c) ==
  \/ at[c] \in Outside /\ pc[c] = "out"
  \/ at[c] = "guest" /\ pc[c] \in InStart \cup Ending
  \/ at[c] \in Posting \cup {"mmio"} /\ pc[c] = "exec"
  \/ at[c] \in {"atomic", "safe"} /\ pc[c] \in Exclusive \cup {"out"}
  \/ at[c] \in Device /\ pc[c] = "exclusive"

ThreadPlaces == at[Main] \in MainPlaces /\ \A c \in CPUs : PlaceOK(c)

(* The threads that hold the BQL from one step to the next                   *)
Keeping == {"loop", "wait", "sleepy", "work", "atomicDevice"}
Holds(t) == at[t] \in Keeping \/ (at[t] = "kick" /\ cur[t].kind = "sync")

BqlHeld == \A t \in Threads : bql = t <=> Holds(t)

(* RunnerKnowsOfWork, from when the vCPU last saw its queue empty            *)
Bound(c) == at[c] \in {"loop", "enter"} \/ pc[c] \in InStart

Told(c) == exit_request[c] \/ \E t \in Threads : at[t] = "kick" /\ cur[t].to = c

Known == \A c \in CPUs : Bound(c) /\ queue[c] # <<>> => Told(c)

VInv == EInv /\ WorkType /\ ThreadPlaces /\ BqlHeld /\ Known /\ StackItemAlive

(* Most steps are first-order; the few that are not name SMT.                *)
USE ZenonT(60)

---------------------------------------------------------------------------
(* A step of one thread t, and what it may do to the others: wake them, in   *)
(* this module and in CpuExclusive, ask them to leave guest code, and queue  *)
(* work for one that it is about to kick.                                    *)

Woke(old, new) ==
  \/ new = old
  \/ old = "halt" /\ new = "haltWoken"
  \/ old = "workWait" /\ new = "workWoken"
  \/ old = "pauseWait" /\ new = "pauseWoken"

Bumped(old, new) ==
  \/ new = old
  \/ old = "startIdle" /\ new = "startWoken"
  \/ old = "exclIdle" /\ new = "exclIdleWoken"
  \/ old = "exclWait" /\ new = "exclWoken"

Others(t) ==
  /\ \A u \in Threads \ {t} : Woke(at[u], at'[u]) /\ cur'[u] = cur[u] /\ (bql' = u <=> bql = u)
  /\ \A c \in CPUs \ {t} :
       /\ Bumped(pc[c], pc'[c])
       /\ exit_request[c] => exit_request'[c]
       /\ queue'[c] # <<>> => queue[c] # <<>> \/ (at'[t] = "kick" /\ cur'[t].to = c)

Itself(t) ==
  /\ t = Main => at'[Main] \in MainPlaces
  /\ t \in CPUs => PlaceOK(t)' /\ (Bound(t)' /\ queue'[t] # <<>> => Told(t)')
  /\ bql' = t <=> Holds(t)'

Duty(t) ==
  /\ \A c \in CPUs : at[t] = "kick" /\ cur[t].to = c =>
       exit_request'[c] \/ (at'[t] = "kick" /\ cur'[t] = cur[t])
  /\ at[t] \in Posting => \/ at'[t] \in Posting /\ cur'[t] = cur[t]
                          \/ cur[t].kind # "sync"
                          \/ cur[t] \in done'
  /\ \A r \in posted' \ posted : at'[t] = "kick" /\ cur'[t] = r /\ r.by = t
  /\ done \subseteq done'

LEMMA StepPlaces ==
  ASSUME NEW t \in Threads, Others(t), Itself(t), ThreadPlaces
  PROVE  ThreadPlaces'
  <1>1. at'[Main] \in MainPlaces
    BY DEF Others, Itself, ThreadPlaces, Woke, MainPlaces, Posting, Threads
  <1>2. ASSUME NEW c \in CPUs, c # t PROVE PlaceOK(c)'
    <2>1. PlaceOK(c) /\ Woke(at[c], at'[c]) /\ Bumped(pc[c], pc'[c])
      BY <1>2 DEF Others, ThreadPlaces, Threads
    <2>2. CASE at[c] \in Outside /\ pc[c] = "out"
      BY <2>1, <2>2 DEF Woke, Bumped, PlaceOK, Outside
    <2>3. CASE at[c] = "guest" /\ pc[c] \in InStart \cup Ending
      BY <2>1, <2>3 DEF Woke, Bumped, PlaceOK, InStart, Ending
    <2>4. CASE at[c] \in Posting \cup {"mmio"} /\ pc[c] = "exec"
      BY <2>1, <2>4 DEF Woke, Bumped, PlaceOK, Posting
    <2>5. CASE at[c] \in {"atomic", "safe"} /\ pc[c] \in Exclusive \cup {"out"}
      BY <2>1, <2>5 DEF Woke, Bumped, PlaceOK, Exclusive
    <2>6. CASE at[c] \in Device /\ pc[c] = "exclusive"
      BY <2>1, <2>6 DEF Woke, Bumped, PlaceOK, Device
    <2> QED BY <2>1, <2>2, <2>3, <2>4, <2>5, <2>6 DEF PlaceOK
  <1> QED BY <1>1, <1>2 DEF ThreadPlaces, Itself

LEMMA StepBql ==
  ASSUME NEW t \in Threads, Others(t), Itself(t), BqlHeld
  PROVE  BqlHeld'
  <1>1. ASSUME NEW u \in Threads, u # t PROVE bql' = u <=> Holds(u)'
    <2>1. Woke(at[u], at'[u]) /\ cur'[u] = cur[u] /\ (bql' = u <=> bql = u)
      BY <1>1 DEF Others
    <2>2. Holds(u)' <=> Holds(u)
      BY <2>1 DEF Holds, Keeping, Woke
    <2> QED BY <2>1, <2>2 DEF BqlHeld
  <1> QED BY <1>1 DEF BqlHeld, Itself

LEMMA StepKnown ==
  ASSUME NEW t \in Threads, Others(t), Itself(t), Duty(t), Known
  PROVE  Known'
  <1> SUFFICES ASSUME NEW c \in CPUs, Bound(c)', queue'[c] # <<>> PROVE Told(c)'
    BY DEF Known
  <1>1. CASE c = t
    BY <1>1 DEF Itself
  <1>2. CASE c # t
    <2>1. /\ Woke(at[c], at'[c]) /\ Bumped(pc[c], pc'[c]) /\ (exit_request[c] => exit_request'[c])
          /\ queue[c] # <<>> \/ (at'[t] = "kick" /\ cur'[t].to = c)
      BY <1>2 DEF Others, Threads
    <2>2. Bound(c)
      BY <2>1 DEF Bound, Woke, Bumped, InStart
    <2>3. CASE queue[c] # <<>> /\ ~exit_request[c]
      <3>1. PICK u \in Threads : at[u] = "kick" /\ cur[u].to = c
        BY <2>2, <2>3 DEF Known, Told
      <3>2. CASE u = t
        BY <3>1, <3>2 DEF Duty, Told
      <3>3. CASE u # t
        BY <3>1, <3>3 DEF Others, Told, Woke
      <3> QED BY <3>2, <3>3
    <2> QED BY <2>1, <2>3 DEF Told
  <1> QED BY <1>1, <1>2

LEMMA StepStack ==
  ASSUME WorkType, NEW t \in Threads, Others(t), Duty(t), StackItemAlive
  PROVE  StackItemAlive'
  <1> SUFFICES ASSUME NEW r \in posted' \ done', r.kind = "sync"
               PROVE  at'[r.by] \in Posting /\ cur'[r.by] = r
    BY DEF StackItemAlive, Posting
  <1>1. CASE r \notin posted
    BY <1>1 DEF Duty, Posting
  <1>2. CASE r \in posted
    <2>1. r \in workload.requests /\ workload \in Workloads
      BY <1>2 DEF WorkType
    <2>2. r.by \in Threads
      BY <2>1, WorkloadsAssumption, SMT DEF Request
    <2>3. at[r.by] \in Posting /\ cur[r.by] = r
      BY <1>2 DEF StackItemAlive, Posting, Duty
    <2>4. CASE r.by = t
      BY <2>3, <2>4 DEF Duty
    <2>5. CASE r.by # t
      BY <2>2, <2>3, <2>5 DEF Others, Woke, Posting
    <2> QED BY <2>4, <2>5
  <1> QED BY <1>1, <1>2

LEMMA StepInv ==
  ASSUME VInv, NEW t \in Threads, Others(t), Itself(t), Duty(t), EInv', WorkType'
  PROVE  VInv'
  BY StepPlaces, StepBql, StepKnown, StepStack DEF VInv

---------------------------------------------------------------------------
(* Steps outside CpuExclusive                                                *)
LEMMA ExclIdle ==
  ASSUME EInv, UNCHANGED exclVars, exit_request' \in [CPUs -> BOOLEAN]
  PROVE  EInv'
  <1>1. UNCHANGED <<pc, running, has_waiter, pending_cpus, listLock, cpus, toScan, running_cpus>>
    BY DEF exclVars
  <1>2. TypeOK'
    BY <1>1 DEF EInv, TypeOK
  <1>3. Sections' /\ Counts' /\ Flags'
    BY <1>1 DEF EInv, Sections, Counts, Flags, Waiters
  <1> QED BY <1>2, <1>3 DEF EInv

(* A step of a vCPU that moves nobody else, and leaves the queues alone      *)
Turn(c, place) ==
  /\ Goto(c, place)
  /\ UNCHANGED <<exclVars, workVars, workload>>
  /\ exit_request' \in [CPUs -> BOOLEAN]
  /\ \A d \in CPUs \ {c} : exit_request[d] => exit_request'[d]
  /\ bql' = bql \/ (bql \in {NoOne, c} /\ bql' \in {NoOne, c})

(* and ends at a place that fits                                             *)
Lands(c, place) ==
  /\ at[c] \notin Posting /\ place \notin Posting
  /\ \/ place \in Outside \cup {"atomic"} /\ pc[c] = "out"
     \/ place \in {"guest", "mmio"} /\ pc[c] = "exec"
     \/ place \in Device \cup {"atomic"} /\ pc[c] = "exclusive"
  /\ bql' = c <=> place \in Keeping
  /\ place \in {"loop", "enter"} \/ pc[c] = "exec" => Told(c)' \/ queue[c] = <<>>

LEMMA TurnStep ==
  ASSUME VInv, NEW c \in CPUs, NEW place, Turn(c, place), Lands(c, place)
  PROVE  VInv'
  <1>1. /\ at'[c] = place /\ \A u \in Threads \ {c} : at'[u] = at[u]
        /\ UNCHANGED <<pc, queue, cur, posted, done, workload>>
        /\ DOMAIN at' = Threads
    BY DEF VInv, WorkType, Turn, Goto, exclVars, workVars, Threads
  <1>2. Others(c)
    BY <1>1, ThreadsAssumption DEF Others, Turn, Woke, Bumped, Threads
  <1>3. Itself(c)
    <2>1. PlaceOK(c)'
      BY <1>1 DEF PlaceOK, InStart, Exclusive, Lands
    <2>2. Bound(c)' /\ queue'[c] # <<>> => Told(c)'
      BY <1>1 DEF Bound, InStart, Device, Lands
    <2>3. bql' = c <=> Holds(c)'
      BY <1>1 DEF Holds, Posting, Lands
    <2> QED BY <2>1, <2>2, <2>3, ThreadsAssumption DEF Itself
  <1>4. Duty(c)
    BY <1>1 DEF Duty, Lands, Posting
  <1>5. EInv' /\ WorkType'
    BY <1>1, ExclIdle DEF VInv, Turn, WorkType
  <1>6. c \in Threads
    BY DEF Threads
  <1> QED BY <1>2, <1>3, <1>4, <1>5, <1>6, StepInv

(* What the place of a vCPU says of the BQL and of CpuExclusive              *)
LEMMA AtPlace ==
  ASSUME VInv, NEW c \in CPUs
  PROVE  /\ at[c] \in Outside => pc[c] = "out"
         /\ at[c] \in Posting \cup {"mmio"} => pc[c] = "exec"
         /\ at[c] \in Device => pc[c] = "exclusive"
         /\ at[c] \in Keeping => bql = c
         /\ at[c] \notin Keeping \cup {"kick"} => bql # c
         /\ exit_request \in [CPUs -> BOOLEAN]
         /\ NoOne # c /\ c \in Threads
  <1>1. /\ at[c] \in Outside => pc[c] = "out"
        /\ at[c] \in Posting \cup {"mmio"} => pc[c] = "exec"
        /\ at[c] \in Device => pc[c] = "exclusive"
    BY DEF VInv, ThreadPlaces, PlaceOK, Outside, Posting, Device
  <1>3. c \in Threads /\ NoOne # c
    BY ThreadsAssumption DEF Threads
  <1>4. bql = c <=> Holds(c)
    BY <1>3 DEF VInv, BqlHeld
  <1> QED BY <1>1, <1>3, <1>4 DEF Holds, VInv, EInv, TypeOK

LEMMA StillTold ==
  ASSUME VInv, NEW c \in CPUs, NEW place, Turn(c, place), at[c] # "kick", UNCHANGED exit_request, Told(c)
  PROVE  Told(c)'
  <1>1. (\A u \in Threads \ {c} : at'[u] = at[u]) /\ cur' = cur
    BY DEF VInv, WorkType, Turn, Goto, workVars, Threads
  <1>2. CASE \E t \in Threads : at[t] = "kick" /\ cur[t].to = c
    <2>1. PICK t \in Threads : at[t] = "kick" /\ cur[t].to = c
      BY <1>2
    <2>2. at'[t] = "kick" /\ cur'[t].to = c
      BY <1>1, <2>1
    <2> QED BY <2>2 DEF Told
  <1> QED BY <1>2 DEF Told

LEMMA ThreadStartStep == ASSUME VInv, UNCHANGED workload, NEW c \in CPUs, ThreadStart(c) PROVE VInv'
  <1>1. Turn(c, "loop") /\ Told(c)' /\ at[c] = "start" /\ bql' = c
    BY AtPlace DEF ThreadStart, Free, Keep, Turn, Told
  <1>2. Lands(c, "loop")
    BY <1>1, AtPlace DEF Lands, Outside, Posting, Keeping
  <1> QED BY <1>1, <1>2, TurnStep

LEMMA LoopRunStep == ASSUME VInv, UNCHANGED workload, NEW c \in CPUs, LoopRun(c) PROVE VInv'
  <1>1. Turn(c, "enter") /\ at[c] = "loop" /\ bql' = NoOne
    BY AtPlace DEF LoopRun, Drop, Turn, Keeping
  <1>2. Told(c) \/ queue[c] = <<>>
    BY <1>1 DEF VInv, Known, Bound
  <1>3. Told(c) => Told(c)'
    BY <1>1, StillTold DEF LoopRun
  <1>4. Lands(c, "enter")
    BY <1>1, <1>2, <1>3, AtPlace DEF Lands, Outside, Posting, Keeping
  <1> QED BY <1>1, <1>4, TurnStep

LEMMA LoopSkipStep == ASSUME VInv, UNCHANGED workload, NEW c \in CPUs, LoopSkip(c) PROVE VInv'
  <1>1. Turn(c, "wait") /\ at[c] = "loop" /\ bql' = c
    BY AtPlace DEF LoopSkip, Turn, Keeping
  <1>2. Lands(c, "wait")
    BY <1>1, AtPlace DEF Lands, Outside, Posting, Keeping
  <1> QED BY <1>1, <1>2, TurnStep

LEMMA MmioCallStep == ASSUME VInv, UNCHANGED workload, NEW c \in CPUs, MmioCall(c) PROVE VInv'
  <1>1. Turn(c, "mmio") /\ at[c] = "guest" /\ pc[c] = "exec" /\ bql' # c
    BY AtPlace DEF MmioCall, Turn, Keeping
  <1>2. Told(c) \/ queue[c] = <<>>
    BY <1>1 DEF VInv, Known, Bound, InStart
  <1>3. Told(c) => Told(c)'
    BY <1>1, StillTold DEF MmioCall
  <1>4. Lands(c, "mmio")
    BY <1>1, <1>2, <1>3, AtPlace DEF Lands, Posting, Keeping
  <1> QED BY <1>1, <1>4, TurnStep

LEMMA MmioStep == ASSUME VInv, UNCHANGED workload, NEW c \in CPUs, Mmio(c) PROVE VInv'
  <1>1. Turn(c, "guest") /\ at[c] = "mmio" /\ pc[c] = "exec" /\ bql' # c
    BY AtPlace DEF Mmio, Turn, Keeping
  <1>2. Told(c) \/ queue[c] = <<>>
    BY <1>1 DEF VInv, Known, Bound, InStart
  <1>3. Told(c) => Told(c)'
    BY <1>1, StillTold DEF Mmio
  <1>4. Lands(c, "guest")
    BY <1>1, <1>2, <1>3, AtPlace DEF Lands, Posting, Keeping
  <1> QED BY <1>1, <1>4, TurnStep

LEMMA RelockStep == ASSUME VInv, UNCHANGED workload, NEW c \in CPUs, Relock(c) PROVE VInv'
  <1>1. Turn(c, "wait") /\ at[c] \in {"relock", "relockAtomic"} /\ bql' = c
    BY AtPlace DEF Relock, Turn, Free, Keep, Keeping
  <1>2. Lands(c, "wait")
    BY <1>1, AtPlace DEF Lands, Outside, Posting, Keeping
  <1> QED BY <1>1, <1>2, TurnStep

LEMMA DebugStopStep == ASSUME VInv, UNCHANGED workload, NEW c \in CPUs, DebugStop(c) PROVE VInv'
  <1>1. Turn(c, "wait") /\ at[c] = "relock" /\ bql' = c
    BY AtPlace DEF DebugStop, Turn, Free, Keep, Keeping
  <1>2. Lands(c, "wait")
    BY <1>1, AtPlace DEF Lands, Outside, Posting, Keeping
  <1> QED BY <1>1, <1>2, TurnStep

LEMMA AtomicFaultStep == ASSUME VInv, UNCHANGED workload, NEW c \in CPUs, AtomicFault(c) PROVE VInv'
  <1>1. Turn(c, "relockAtomic") /\ at[c] = "atomic" /\ pc[c] = "out" /\ bql' # c
    BY AtPlace DEF AtomicFault, Turn, Keeping
  <1>2. Lands(c, "relockAtomic")
    BY <1>1 DEF Lands, Outside, Posting, Keeping
  <1> QED BY <1>1, <1>2, TurnStep

LEMMA AtomicMmioCallStep ==
  ASSUME VInv, UNCHANGED workload, NEW c \in CPUs, AtomicMmioCall(c) PROVE VInv'
  <1>1. Turn(c, "atomicMmio") /\ at[c] = "atomic" /\ pc[c] = "exclusive" /\ bql' # c
    BY AtPlace DEF AtomicMmioCall, Turn, Keeping
  <1>2. Lands(c, "atomicMmio")
    BY <1>1 DEF Lands, Device, Posting, Keeping
  <1> QED BY <1>1, <1>2, TurnStep

LEMMA AtomicMmioStep == ASSUME VInv, UNCHANGED workload, NEW c \in CPUs, AtomicMmio(c) PROVE VInv'
  <1>1. Turn(c, "atomicDevice") /\ at[c] = "atomicMmio" /\ bql' = c
    BY AtPlace DEF AtomicMmio, Turn, Free, Keep, Keeping
  <1>2. Lands(c, "atomicDevice")
    BY <1>1, AtPlace DEF Lands, Device, Posting, Keeping
  <1> QED BY <1>1, <1>2, TurnStep

LEMMA AtomicMmioOverStep ==
  ASSUME VInv, UNCHANGED workload, NEW c \in CPUs, AtomicMmioOver(c) PROVE VInv'
  <1>1. Turn(c, "atomic") /\ at[c] = "atomicDevice" /\ bql' = NoOne
    BY AtPlace DEF AtomicMmioOver, Turn, Drop, Keeping
  <1>2. Lands(c, "atomic")
    BY <1>1, AtPlace DEF Lands, Device, Posting, Keeping
  <1> QED BY <1>1, <1>2, TurnStep

LEMMA StepAtomicStep == ASSUME VInv, UNCHANGED workload, NEW c \in CPUs, StepAtomic(c) PROVE VInv'
  <1>1. Turn(c, "atomic") /\ at[c] = "relock" /\ bql' # c
    BY AtPlace DEF StepAtomic, Turn, Keeping
  <1>2. Lands(c, "atomic")
    BY <1>1, AtPlace DEF Lands, Outside, Posting, Keeping
  <1> QED BY <1>1, <1>2, TurnStep

LEMMA WaitIdleStep == ASSUME VInv, UNCHANGED workload, NEW c \in CPUs, WaitIdle(c) PROVE VInv'
  <1>1. Turn(c, "sleepy") /\ at[c] = "wait" /\ bql' = c
    BY AtPlace DEF WaitIdle, Turn, Keeping
  <1>2. Lands(c, "sleepy")
    BY <1>1, AtPlace DEF Lands, Outside, Posting, Keeping
  <1> QED BY <1>1, <1>2, TurnStep

LEMMA HaltStep == ASSUME VInv, UNCHANGED workload, NEW c \in CPUs, Halt(c) PROVE VInv'
  <1>1. Turn(c, "halt") /\ at[c] = "sleepy" /\ bql' = NoOne
    BY AtPlace DEF Halt, Turn, Drop, Keeping
  <1>2. Lands(c, "halt")
    BY <1>1, AtPlace DEF Lands, Outside, Posting, Keeping
  <1> QED BY <1>1, <1>2, TurnStep

LEMMA HaltWokenStep == ASSUME VInv, UNCHANGED workload, NEW c \in CPUs, HaltWoken(c) PROVE VInv'
  <1>1. Turn(c, "wait") /\ at[c] = "haltWoken" /\ bql' = c
    BY AtPlace DEF HaltWoken, Turn, Free, Keep, Keeping
  <1>2. Lands(c, "wait")
    BY <1>1, AtPlace DEF Lands, Outside, Posting, Keeping
  <1> QED BY <1>1, <1>2, TurnStep

---------------------------------------------------------------------------
(* Steps of CpuExclusive                                                     *)
ExecStep(c) ==
  \/ ExecStart(c) \/ StartRead(c) \/ StartLock(c) \/ StartWoken(c)
  \/ ExecEnd(c) \/ EndRead(c) \/ EndLock(c)

ExclStep(c) ==
  \/ ExclCall(c) \/ ExclLock(c) \/ (\E other \in CPUs : ExclScan(c, other))
  \/ ExclCount(c) \/ ExclWoken(c) \/ ExclEnd(c)

LEMMA SectionNext ==
  ASSUME EInv, NEW c \in CPUs, ExecStep(c) \/ ExclStep(c)
  PROVE  EInv'
  BY ExecStartStep, StartReadStep, StartLockStep, StartWokenStep, ExecEndStep, EndReadStep,
     EndLockStep, ExclCallStep, ExclLockStep, ExclScanStep, ExclCountStep, ExclWokenStep,
     ExclEndStep DEF ExecStep, ExclStep

(* To the other vCPUs these steps do no more than wake them and kick them.   *)
LEMMA SectionMoves ==
  ASSUME EInv, NEW c \in CPUs, ExecStep(c) \/ ExclStep(c), NEW d \in CPUs, d # c
  PROVE  Bumped(pc[d], pc'[d]) /\ (exit_request[d] => exit_request'[d])
  <1>1. DOMAIN pc = CPUs /\ DOMAIN exit_request = CPUs
    BY DEF EInv, TypeOK
  <1>2. CASE ExecStep(c) /\ ~EndLock(c) /\ ~ExecEnd(c)
    <2>1. UNCHANGED exit_request /\ \E place : pc' = [pc EXCEPT ![c] = place]
      BY <1>2 DEF ExecStep, ExecStart, StartRead, StartLock, StartWoken, StartIdle, EndRead, GotoPc
    <2> QED BY <1>1, <2>1 DEF Bumped
  <1>3. CASE ExecEnd(c)
    BY <1>1, <1>3 DEF Bumped, ExecEnd, GotoPc
  <1>4. CASE EndLock(c)
    BY <1>4 DEF Bumped, EndLock
  <1>5. CASE ExclCall(c) \/ ExclLock(c) \/ ExclCount(c) \/ ExclWoken(c)
    <2>1. UNCHANGED exit_request /\ \E place : pc' = [pc EXCEPT ![c] = place]
      BY <1>5 DEF ExclCall, ExclLock, ExclCount, ExclWoken, GotoPc
    <2> QED BY <1>1, <2>1 DEF Bumped
  <1>6. CASE \E other \in CPUs : ExclScan(c, other)
    BY <1>1, <1>6 DEF Bumped, ExclScan, Kick
  <1>7. CASE ExclEnd(c)
    BY <1>7 DEF Bumped, ExclEnd, Resumed
  <1> QED BY <1>2, <1>3, <1>4, <1>5, <1>6, <1>7 DEF ExecStep, ExclStep

(* The vCPU thread takes such a step, and is then at a place that fits.      *)
Within(c) ==
  /\ ExecStep(c) \/ ExclStep(c)
  /\ UNCHANGED <<bql, workVars, workload>>
  /\ DOMAIN at' = Threads /\ \A u \in Threads \ {c} : at'[u] = at[u]

Fits(c) ==
  /\ at[c] \in {"enter", "guest", "atomic", "safe"}
  /\ at'[c] \in {"guest", "relock", "atomic", "safe", "relockAtomic", "safeRelock"}
  /\ PlaceOK(c)'
  /\ pc'[c] \in InStart => (at[c] = "enter" \/ pc[c] \in InStart) /\ (exit_request[c] => exit_request'[c])

LEMMA WithinStep ==
  ASSUME VInv, NEW c \in CPUs, Within(c), Fits(c)
  PROVE  VInv'
  <1>1. c \in Threads /\ c # Main /\ bql # c /\ UNCHANGED <<queue, cur, posted, done, workload, bql>>
    BY AtPlace, ThreadsAssumption DEF Within, Fits, workVars, Keeping
  <1>2. \A u \in Threads \ {c} : at'[u] = at[u]
    BY DEF Within
  <1>3. Others(c)
    BY <1>1, <1>2, SectionMoves DEF Others, Woke, VInv, Within
  <1>4. Itself(c)
    <2>1. ASSUME Bound(c)', queue'[c] # <<>> PROVE Told(c)'
      <3>1. Bound(c) /\ (exit_request[c] => exit_request'[c])
        BY <2>1 DEF Fits, Bound
      <3>2. Told(c)
        BY <1>1, <2>1, <3>1 DEF VInv, Known
      <3>3. CASE \E t \in Threads : at[t] = "kick" /\ cur[t].to = c
        <4>1. PICK t \in Threads : at[t] = "kick" /\ cur[t].to = c
          BY <3>3
        <4>2. at'[t] = "kick" /\ cur'[t].to = c
          BY <1>1, <1>2, <4>1 DEF Fits
        <4> QED BY <4>2 DEF Told
      <3> QED BY <3>1, <3>2, <3>3 DEF Told
    <2>2. ~Holds(c)'
      BY DEF Fits, Holds, Keeping
    <2> QED BY <1>1, <2>1, <2>2 DEF Itself, Fits
  <1>5. Duty(c)
    BY <1>1 DEF Duty, Fits, Posting
  <1>6. EInv' /\ WorkType'
    BY <1>1, SectionNext DEF VInv, Within, WorkType
  <1> QED BY <1>1, <1>3, <1>4, <1>5, <1>6, StepInv

LEMMA CpuExecStartStep == ASSUME VInv, UNCHANGED workload, NEW c \in CPUs, CpuExecStart(c) PROVE VInv'
  <1>1. DOMAIN at = Threads /\ DOMAIN pc = CPUs /\ c \in Threads
    BY DEF VInv, WorkType, EInv, TypeOK, Threads
  <1>2. CASE at[c] = "enter" /\ ExecStart(c) /\ Goto(c, "guest")
    <2>1. /\ at'[c] = "guest" /\ pc'[c] = "startRead" /\ UNCHANGED exit_request
          /\ DOMAIN at' = Threads /\ \A u \in Threads \ {c} : at'[u] = at[u]
      BY <1>1, <1>2 DEF Goto, ExecStart, GotoPc
    <2>2. Within(c)
      BY <1>2, <2>1 DEF Within, ExecStep, CpuExecStart
    <2>3. Fits(c)
      BY <1>2, <2>1 DEF Fits, PlaceOK, InStart
    <2> QED BY <2>2, <2>3, WithinStep
  <1>3. CASE (StartRead(c) \/ StartLock(c) \/ StartWoken(c)) /\ UNCHANGED at
    <2>1. /\ pc[c] \in {"startRead", "startLock", "startWoken"} /\ UNCHANGED exit_request
          /\ pc'[c] \in {"startLock", "startIdle", "exec"}
      BY <1>1, <1>3 DEF StartRead, StartLock, StartWoken, StartIdle, GotoPc
    <2>2. at[c] = "guest" /\ at'[c] = "guest"
      BY <1>3, <2>1 DEF VInv, ThreadPlaces, PlaceOK, Exclusive, Device
    <2>3. Within(c)
      BY <1>1, <1>3 DEF Within, ExecStep, CpuExecStart
    <2>4. Fits(c)
      BY <2>1, <2>2 DEF Fits, PlaceOK, InStart
    <2> QED BY <2>3, <2>4, WithinStep
  <1> QED BY <1>2, <1>3 DEF CpuExecStart

LEMMA CpuExecReturnStep == ASSUME VInv, UNCHANGED workload, NEW c \in CPUs, CpuExecReturn(c) PROVE VInv'
  <1>1. DOMAIN at = Threads /\ DOMAIN pc = CPUs /\ c \in Threads
    BY DEF VInv, WorkType, EInv, TypeOK, Threads
  <1>2. at[c] = "guest" /\ UNCHANGED at /\ pc'[c] = "endRead" /\ ExecEnd(c)
    BY <1>1 DEF CpuExecReturn, ExecEnd, GotoPc
  <1>3. Within(c)
    BY <1>1, <1>2 DEF Within, ExecStep, CpuExecReturn
  <1>4. Fits(c)
    BY <1>2 DEF Fits, PlaceOK, InStart, Ending
  <1> QED BY <1>3, <1>4, WithinStep

LEMMA CpuExecEndStep == ASSUME VInv, UNCHANGED workload, NEW c \in CPUs, CpuExecEnd(c) PROVE VInv'
  <1>1. DOMAIN at = Threads /\ DOMAIN pc = CPUs /\ c \in Threads
    BY DEF VInv, WorkType, EInv, TypeOK, Threads
  <1>2. pc[c] \in {"endRead", "endLock"} /\ pc'[c] \in {"out", "endLock"}
    BY <1>1 DEF CpuExecEnd, EndRead, EndLock, GotoPc
  <1>3. at[c] = "guest"
    BY <1>2 DEF VInv, ThreadPlaces, PlaceOK, Exclusive
  <1>4. IF pc'[c] = "out" THEN Goto(c, "relock") ELSE UNCHANGED at
    BY DEF CpuExecEnd
  <1>5. /\ at'[c] = IF pc'[c] = "out" THEN "relock" ELSE "guest"
        /\ DOMAIN at' = Threads /\ \A u \in Threads \ {c} : at'[u] = at[u]
    BY <1>1, <1>3, <1>4 DEF Goto
  <1>6. Within(c)
    BY <1>5 DEF Within, ExecStep, CpuExecEnd
  <1>7. Fits(c)
    BY <1>2, <1>3, <1>5 DEF Fits, PlaceOK, Outside, InStart, Ending
  <1> QED BY <1>6, <1>7, WithinStep

LEMMA ExclusivelyStep == ASSUME VInv, UNCHANGED workload, NEW c \in CPUs, Exclusively(c) PROVE VInv'
  <1>1. DOMAIN at = Threads /\ DOMAIN pc = CPUs /\ c \in Threads /\ UNCHANGED at
    BY DEF VInv, WorkType, EInv, TypeOK, Threads, Exclusively
  <1>2. pc[c] \in Exclusive \ {"exclusive"} \/ at[c] \in {"atomic", "safe"}
    BY DEF Exclusively, ExclLock, ExclScan, ExclCount, ExclWoken, Exclusive
  <1>3. pc'[c] \in Exclusive
    BY <1>1 DEF Exclusively, ExclCall, ExclLock, ExclScan, ExclCount, ExclWoken, GotoPc, Exclusive
  <1>4. at[c] \in {"atomic", "safe"}
    BY <1>2 DEF VInv, ThreadPlaces, PlaceOK, Exclusive, InStart, Ending
  <1>5. Within(c)
    BY <1>1 DEF Within, ExclStep, Exclusively
  <1>6. Fits(c)
    BY <1>1, <1>3, <1>4 DEF Fits, PlaceOK, Exclusive, InStart
  <1> QED BY <1>5, <1>6, WithinStep

LEMMA ExclusiveEndStep == ASSUME VInv, UNCHANGED workload, NEW c \in CPUs, ExclusiveEnd(c) PROVE VInv'
  <1>1. DOMAIN at = Threads /\ c \in Threads
    BY DEF VInv, WorkType, Threads
  <1>2. ExclEnd(c) /\ pc[c] = "exclusive" /\ pc'[c] = "out"
    BY DEF ExclusiveEnd, ExclEnd
  <1>3. at[c] \in {"atomic", "safe"}
    BY DEF ExclusiveEnd
  <1>4. /\ at'[c] \in {"safeRelock", "relockAtomic"}
        /\ DOMAIN at' = Threads /\ \A u \in Threads \ {c} : at'[u] = at[u]
    BY <1>1 DEF ExclusiveEnd, Goto
  <1>5. Within(c)
    BY <1>2, <1>4 DEF Within, ExclStep, ExclusiveEnd
  <1>6. Fits(c)
    BY <1>2, <1>3, <1>4 DEF Fits, PlaceOK, Outside, InStart
  <1> QED BY <1>5, <1>6, WithinStep

---------------------------------------------------------------------------
(* Steps that wake other threads or touch the queues                         *)
LEMMA KickedWoke ==
  ASSUME DOMAIN at = Threads, NEW t \in Threads, NEW place, NEW S,
         at' = Kicked([at EXCEPT ![t] = place], S), place # "halt"
  PROVE  /\ DOMAIN at' = Threads /\ at'[t] = place
         /\ \A u \in Threads \ {t} : Woke(at[u], at'[u])
  <1>1. ASSUME NEW u \in Threads
        PROVE  at'[u] = IF u \in S /\ [at EXCEPT ![t] = place][u] = "halt" THEN "haltWoken"
                        ELSE [at EXCEPT ![t] = place][u]
    BY DEF Kicked
  <1>2. DOMAIN at' = Threads
    BY DEF Kicked
  <1>3. at'[t] = place
    BY <1>1
  <1>4. ASSUME NEW u \in Threads, u # t PROVE Woke(at[u], at'[u])
    <2>1. [at EXCEPT ![t] = place][u] = at[u]
      BY <1>4
    <2> QED BY <1>1, <2>1 DEF Woke
  <1> QED BY <1>2, <1>3, <1>4

LEMMA Asked ==
  ASSUME EInv, NEW S, AskExit(S)
  PROVE  /\ exit_request' \in [CPUs -> BOOLEAN]
         /\ \A c \in CPUs : exit_request[c] \/ c \in S => exit_request'[c]
  <1>1. exit_request \in [CPUs -> BOOLEAN]
    BY DEF EInv, TypeOK
  <1>2. \A c \in CPUs : exit_request'[c] = (exit_request[c] \/ c \in S)
    BY DEF AskExit
  <1>3. exit_request' \in [CPUs -> BOOLEAN]
    BY <1>1 DEF AskExit
  <1> QED BY <1>2, <1>3

LEMMA WaitOverStep == ASSUME VInv, UNCHANGED workload, NEW c \in CPUs, WaitOver(c) PROVE VInv'
  <1> DEFINE p == IF queue[c] = <<>> THEN "loop" ELSE "work"
  <1>1. DOMAIN at = Threads /\ Main # c /\ Main \in Threads /\ c \in Threads
    BY ThreadsAssumption DEF VInv, WorkType, Threads
  <1>2. at[c] = "wait" /\ bql = c /\ pc[c] = "out" /\ UNCHANGED <<pc, exit_request, bql, queue, cur, posted, done>>
    BY AtPlace DEF WaitOver, exclVars, workVars, Outside, Keeping
  <1>3. DOMAIN at' = Threads /\ at'[c] = p /\ \A u \in Threads \ {c} : Woke(at[u], at'[u])
    BY <1>1 DEF WaitOver, PauseWake, Woke
  <1>4. (p = "loop" /\ queue[c] = <<>>) \/ p = "work"
    OBVIOUS
  <1> HIDE DEF p
  <1>5. Others(c)
    BY <1>2, <1>3 DEF Others, Bumped
  <1>6. Itself(c)
    BY <1>1, <1>2, <1>3, <1>4 DEF Itself, PlaceOK, Outside, Bound, InStart, Holds, Keeping
  <1>7. Duty(c)
    BY <1>2 DEF Duty, Posting
  <1>8. EInv' /\ WorkType'
    BY <1>2, <1>3, ExclIdle, AtPlace DEF WaitOver, VInv, WorkType
  <1> QED BY <1>1, <1>5, <1>6, <1>7, <1>8, StepInv

LEMMA WorkItemStep == ASSUME VInv, UNCHANGED workload, NEW c \in CPUs, WorkItem(c) PROVE VInv'
  <1>1. /\ DOMAIN at = Threads /\ DOMAIN cur = Threads /\ DOMAIN queue = CPUs
        /\ Main # c /\ c \in Threads /\ NoOne # c
    BY ThreadsAssumption DEF VInv, WorkType, Threads
  <1>2. at[c] = "work" /\ bql = c /\ pc[c] = "out" /\ UNCHANGED <<pc, exit_request, posted>>
    BY AtPlace DEF WorkItem, exclVars, workVars, Outside, Keeping
  <1>3. DOMAIN queue' = CPUs /\ \A d \in CPUs \ {c} : queue'[d] = queue[d]
    BY <1>1 DEF WorkItem
  <1>4. /\ DOMAIN at' = Threads /\ DOMAIN cur' = Threads /\ done \subseteq done'
        /\ \A u \in Threads \ {c} : at'[u] = at[u] /\ cur'[u] = cur[u]
        /\ (at'[c] = "safe" /\ bql' = NoOne) \/ (at'[c] = "work" /\ bql' = c)
    <2>1. CASE Head(queue[c]).kind = "safe"
      <3>1. cur' = [cur EXCEPT ![c] = Head(queue[c])] /\ bql' = NoOne /\ Goto(c, "safe") /\ UNCHANGED done
        BY <2>1 DEF WorkItem, SafeBql, Drop
      <3> QED BY <1>1, <3>1 DEF Goto
    <2>2. CASE Head(queue[c]).kind # "safe"
      <3>1. done \subseteq done' /\ UNCHANGED <<cur, bql, at>>
        BY <2>2 DEF WorkItem
      <3> QED BY <1>1, <1>2, <3>1
    <2> QED BY <2>1, <2>2
  <1>5. Others(c)
    BY <1>1, <1>2, <1>3, <1>4, ThreadsAssumption DEF Others, Bumped, Woke
  <1>6. Itself(c)
    BY <1>1, <1>2, <1>4 DEF Itself, PlaceOK, Outside, Bound, InStart, Holds, Keeping
  <1>7. Duty(c)
    BY <1>2, <1>4 DEF Duty, Posting
  <1>8. EInv' /\ WorkType'
    BY <1>2, <1>3, <1>4, ExclIdle, AtPlace DEF WorkItem, VInv, WorkType
  <1> QED BY <1>1, <1>5, <1>6, <1>7, <1>8, StepInv

LEMMA SafeDoneStep == ASSUME VInv, UNCHANGED workload, NEW c \in CPUs, SafeDone(c) PROVE VInv'
  <1>1. DOMAIN at = Threads /\ DOMAIN cur = Threads /\ Main # c /\ c \in Threads /\ NoOne # c
    BY ThreadsAssumption DEF VInv, WorkType, Threads
  <1>2. at[c] = "safeRelock" /\ bql = NoOne /\ bql' = c /\ pc[c] = "out" /\ UNCHANGED <<pc, exit_request, posted, queue>>
    BY AtPlace DEF SafeDone, exclVars, Outside, Free, Keep, Keeping
  <1>3. /\ DOMAIN at' = Threads /\ DOMAIN cur' = Threads /\ done \subseteq done' /\ at'[c] = "work"
        /\ \A u \in Threads \ {c} : at'[u] = at[u] /\ cur'[u] = cur[u]
    BY <1>1 DEF SafeDone, Goto
  <1>4. Others(c)
    BY <1>1, <1>2, <1>3, ThreadsAssumption DEF Others, Bumped, Woke
  <1>5. Itself(c)
    BY <1>1, <1>2, <1>3 DEF Itself, PlaceOK, Outside, Bound, InStart, Holds, Keeping
  <1>6. Duty(c)
    BY <1>2, <1>3 DEF Duty, Posting
  <1>7. EInv' /\ WorkType'
    BY <1>2, <1>3, ExclIdle, AtPlace DEF SafeDone, VInv, WorkType
  <1> QED BY <1>1, <1>4, <1>5, <1>6, <1>7, StepInv

LEMMA WorkOverStep == ASSUME VInv, UNCHANGED workload, NEW c \in CPUs, WorkOver(c) PROVE VInv'
  <1>1. DOMAIN at = Threads /\ Main # c /\ c \in Threads
    BY ThreadsAssumption DEF VInv, WorkType, Threads
  <1>2. /\ at[c] = "work" /\ queue[c] = <<>> /\ bql = c /\ pc[c] = "out"
        /\ UNCHANGED <<pc, exit_request, bql, queue, cur, posted, done>>
    BY AtPlace DEF WorkOver, exclVars, workVars, Outside, Keeping
  <1>3. DOMAIN at' = Threads /\ at'[c] = "loop" /\ \A u \in Threads \ {c} : Woke(at[u], at'[u])
    BY <1>1 DEF WorkOver, WorkWake, Woke
  <1>4. Others(c)
    BY <1>2, <1>3 DEF Others, Bumped
  <1>5. Itself(c)
    BY <1>1, <1>2, <1>3 DEF Itself, PlaceOK, Outside, Bound, InStart, Holds, Keeping
  <1>6. Duty(c)
    BY <1>2 DEF Duty, Posting
  <1>7. EInv' /\ WorkType'
    BY <1>2, <1>3, ExclIdle, AtPlace DEF WorkOver, VInv, WorkType
  <1> QED BY <1>1, <1>4, <1>5, <1>6, <1>7, StepInv

LEMMA QueueWorkStep ==
  ASSUME VInv, UNCHANGED workload, NEW t \in Threads, NEW r \in workload.requests, queue_work_on_cpu(t, r)
  PROVE  VInv'
  <1>1. /\ DOMAIN at = Threads /\ DOMAIN cur = Threads /\ DOMAIN queue = CPUs
        /\ NoOne # t /\ exit_request \in [CPUs -> BOOLEAN] /\ posted \subseteq workload.requests
    BY ThreadsAssumption DEF VInv, WorkType, EInv, TypeOK
  <1>2. /\ UNCHANGED <<pc, exit_request, done>> /\ posted' = posted \cup {r} /\ r.by = t
        /\ t \in CPUs => pc[t] = "exec"
        /\ at[t] \in {"idle", "mmio", "guest"}
    BY ThreadsAssumption DEF queue_work_on_cpu, MayPost, exclVars, Threads
  <1>3. /\ DOMAIN at' = Threads /\ DOMAIN cur' = Threads /\ DOMAIN queue' = CPUs
        /\ \A c \in CPUs : c # r.to => queue'[c] = queue[c]
        /\ at'[t] = "kick" /\ cur'[t] = r
        /\ \A u \in Threads \ {t} : at'[u] = at[u] /\ cur'[u] = cur[u]
    BY <1>1 DEF queue_work_on_cpu, Goto
  <1>4. bql # t
    BY <1>2 DEF VInv, BqlHeld, Holds, Keeping
  <1>5. IF r.kind = "sync" THEN bql = NoOne /\ bql' = t ELSE bql' = bql
    BY DEF queue_work_on_cpu, Free, Keep
  <1>6. Others(t)
    BY <1>2, <1>3, <1>5, ThreadsAssumption DEF Others, Bumped, Woke
  <1>7. Itself(t)
    <2>1. t \in CPUs => PlaceOK(t)'
      BY <1>2, <1>3 DEF PlaceOK, Posting
    <2>2. t \in CPUs /\ Bound(t)' /\ queue'[t] # <<>> => Told(t)'
      <3> SUFFICES ASSUME t \in CPUs, queue'[t] # <<>> PROVE Told(t)'
        OBVIOUS
      <3>1. CASE r.to = t
        BY <1>3, <3>1 DEF Told
      <3>2. CASE r.to # t
        <4>1. Told(t)
          BY <1>2, <1>3, <3>2 DEF VInv, Known, Bound, InStart
        <4>2. CASE \E u \in Threads : at[u] = "kick" /\ cur[u].to = t
          <5>1. PICK u \in Threads : at[u] = "kick" /\ cur[u].to = t
            BY <4>2
          <5>2. at'[u] = "kick" /\ cur'[u].to = t
            BY <1>2, <1>3, <5>1
          <5> QED BY <5>2 DEF Told
        <4> QED BY <1>2, <4>1, <4>2 DEF Told
      <3> QED BY <3>1, <3>2
    <2>3. bql' = t <=> Holds(t)'
      BY <1>3, <1>4, <1>5 DEF Holds, Keeping
    <2>4. t = Main => at'[Main] \in MainPlaces
      BY <1>3 DEF MainPlaces, Posting
    <2> QED BY <2>1, <2>2, <2>3, <2>4 DEF Itself
  <1>8. Duty(t)
    BY <1>2, <1>3 DEF Duty, Posting
  <1>9. EInv' /\ WorkType'
    BY <1>1, <1>2, <1>3, ExclIdle DEF queue_work_on_cpu, VInv, WorkType
  <1> QED BY <1>6, <1>7, <1>8, <1>9, StepInv

LEMMA PostKickStep ==
  ASSUME VInv, UNCHANGED workload, NEW t \in Threads, PostKick(t)
  PROVE  VInv'
  <1>1. /\ DOMAIN at = Threads /\ DOMAIN cur = Threads /\ NoOne # t /\ EInv
        /\ t \in CPUs => pc[t] = "exec" /\ t # Main
    BY AtPlace, ThreadsAssumption DEF VInv, WorkType, PostKick, Posting
  <1>2. at[t] = "kick" /\ UNCHANGED <<pc, queue, posted, done>> /\ AskExit({cur[t].to})
    BY DEF PostKick, exclVars
  <1>3. PICK place : /\ at' = Kicked([at EXCEPT ![t] = place], {cur[t].to}) /\ place # "halt"
                     /\ IF cur[t].kind = "sync"
                          THEN place = "workWait" /\ bql' = NoOne /\ UNCHANGED cur
                          ELSE place = Home(t) /\ bql' = bql /\ cur' = [cur EXCEPT ![t] = NoOne]
    BY DEF PostKick, Drop, Home
  <1>4. DOMAIN at' = Threads /\ at'[t] = place /\ \A u \in Threads \ {t} : Woke(at[u], at'[u])
    BY <1>1, <1>3, KickedWoke
  <1>5. /\ exit_request' \in [CPUs -> BOOLEAN]
        /\ \A c \in CPUs : exit_request[c] \/ c = cur[t].to => exit_request'[c]
    BY <1>1, <1>2, Asked
  <1>6. DOMAIN cur' = Threads /\ \A u \in Threads \ {t} : cur'[u] = cur[u]
    BY <1>1, <1>3
  <1>7. bql = t <=> cur[t].kind = "sync"
    BY <1>2 DEF VInv, BqlHeld, Holds, Keeping
  <1>8. place \in {"workWait", "idle", "guest"} /\ (t = Main => place # "guest") /\ (t # Main => place # "idle")
    BY <1>3 DEF Home
  <1>9. Others(t)
    BY <1>2, <1>3, <1>4, <1>5, <1>6, <1>7, ThreadsAssumption DEF Others, Bumped
  <1>10. Itself(t)
    <2>1. t \in CPUs => PlaceOK(t)'
      BY <1>1, <1>2, <1>4, <1>8 DEF PlaceOK, Posting, InStart
    <2>2. t \in CPUs /\ Bound(t)' /\ queue'[t] # <<>> => Told(t)'
      <3> SUFFICES ASSUME t \in CPUs, queue'[t] # <<>>, ~exit_request'[t] PROVE Told(t)'
        BY DEF Told
      <3>1. Told(t)
        BY <1>1, <1>2 DEF VInv, Known, Bound, InStart
      <3>2. PICK u \in Threads : at[u] = "kick" /\ cur[u].to = t
        BY <1>5, <3>1 DEF Told
      <3>3. u # t
        BY <1>5, <3>2
      <3>4. at'[u] = "kick" /\ cur'[u].to = t
        BY <1>4, <1>6, <3>2, <3>3 DEF Woke
      <3> QED BY <3>4 DEF Told
    <2>3. bql' # t /\ ~Holds(t)'
      BY <1>1, <1>3, <1>4, <1>7, <1>8 DEF Holds, Keeping
    <2>4. t = Main => at'[Main] \in MainPlaces
      BY <1>4, <1>8 DEF MainPlaces, Posting
    <2> QED BY <2>1, <2>2, <2>3, <2>4 DEF Itself
  <1>11. Duty(t)
    BY <1>2, <1>3, <1>4, <1>5 DEF Duty, Posting
  <1>12. EInv' /\ WorkType'
    BY <1>1, <1>2, <1>4, <1>5, <1>6, ExclIdle DEF PostKick, VInv, WorkType
  <1> QED BY <1>9, <1>10, <1>11, <1>12, StepInv

LEMMA PostWokenStep ==
  ASSUME VInv, UNCHANGED workload, NEW t \in Threads, PostWoken(t)
  PROVE  VInv'
  <1>1. /\ DOMAIN at = Threads /\ DOMAIN cur = Threads /\ NoOne # t
        /\ t \in CPUs => pc[t] = "exec" /\ t # Main
    BY AtPlace, ThreadsAssumption DEF VInv, WorkType, PostWoken, Posting
  <1>2. /\ at[t] = "workWoken" /\ bql = NoOne
        /\ UNCHANGED <<pc, exit_request, bql, queue, posted, done>>
    BY DEF PostWoken, exclVars, Free
  <1>3. /\ DOMAIN at' = Threads /\ DOMAIN cur' = Threads
        /\ \A u \in Threads \ {t} : at'[u] = at[u] /\ cur'[u] = cur[u]
        /\ \/ at'[t] = Home(t) /\ cur[t] \in done
           \/ at'[t] = "workWait" /\ cur' = cur
    BY <1>1 DEF PostWoken, IsDone, Goto
  <1>4. at'[t] \in {"workWait", "idle", "guest"} /\ (t = Main => at'[t] # "guest") /\ (t # Main => at'[t] # "idle")
    BY <1>3 DEF Home
  <1>5. Others(t)
    BY <1>2, <1>3 DEF Others, Bumped, Woke
  <1>6. Itself(t)
    <2>1. t \in CPUs => PlaceOK(t)'
      BY <1>1, <1>2, <1>4 DEF PlaceOK, Posting, InStart
    <2>2. t \in CPUs /\ Bound(t)' /\ queue'[t] # <<>> => Told(t)'
      <3> SUFFICES ASSUME t \in CPUs, queue'[t] # <<>>, ~exit_request'[t] PROVE Told(t)'
        BY DEF Told
      <3>1. Told(t)
        BY <1>1, <1>2 DEF VInv, Known, Bound, InStart
      <3>2. PICK u \in Threads : at[u] = "kick" /\ cur[u].to = t
        BY <1>2, <3>1 DEF Told
      <3>3. at'[u] = "kick" /\ cur'[u].to = t
        BY <1>2, <1>3, <3>2
      <3> QED BY <3>3 DEF Told
    <2>3. bql' # t /\ ~Holds(t)'
      BY <1>1, <1>2, <1>4 DEF Holds, Keeping
    <2>4. t = Main => at'[Main] \in MainPlaces
      BY <1>4 DEF MainPlaces, Posting
    <2> QED BY <2>1, <2>2, <2>3, <2>4 DEF Itself
  <1>7. Duty(t)
    BY <1>2, <1>3 DEF Duty, Posting
  <1>8. EInv' /\ WorkType'
    <2>1. exit_request' \in [CPUs -> BOOLEAN]
      BY <1>2 DEF VInv, EInv, TypeOK
    <2> QED BY <1>2, <1>3, <2>1, ExclIdle DEF PostWoken, VInv, WorkType
  <1> QED BY <1>5, <1>6, <1>7, <1>8, StepInv

(* Kicks by the main thread, and by whoever raises an interrupt              *)
LEMMA MainStep ==
  ASSUME VInv, UNCHANGED <<exclVars, bql, workVars, workload>>, NEW S, AskExit(S), DOMAIN at' = Threads,
         \A u \in Threads \ {Main} : Woke(at[u], at'[u]),
         at'[Main] = at[Main] \/ (at[Main] \notin Posting /\ at'[Main] \in MainPlaces \ Posting)
  PROVE  VInv'
  <1>1. Main \in Threads /\ Main \notin CPUs /\ UNCHANGED <<pc, bql, queue, cur, posted, done>> /\ EInv
    BY ThreadsAssumption DEF Threads, exclVars, workVars, VInv
  <1>2. exit_request' \in [CPUs -> BOOLEAN] /\ \A c \in CPUs : exit_request[c] => exit_request'[c]
    BY <1>1, Asked
  <1>3. Others(Main)
    BY <1>1, <1>2 DEF Others, Bumped
  <1>4. Itself(Main)
    <2>1. at[Main] \in MainPlaces /\ (bql = Main <=> Holds(Main))
      BY <1>1 DEF VInv, ThreadPlaces, BqlHeld
    <2>2. Holds(Main)' <=> Holds(Main)
      BY <1>1, <2>1 DEF Holds, Posting, MainPlaces, Keeping
    <2> QED BY <1>1, <2>1, <2>2 DEF Itself
  <1>5. Duty(Main)
    BY <1>1 DEF Duty, Posting
  <1>6. EInv' /\ WorkType'
    BY <1>1, <1>2, ExclIdle DEF VInv, WorkType
  <1> QED BY <1>1, <1>3, <1>4, <1>5, <1>6, StepInv

LEMMA InterruptStep == ASSUME VInv, UNCHANGED workload, NEW c \in CPUs, Interrupt(c) PROVE VInv'
  <1>1. /\ DOMAIN at' = Threads /\ \A u \in Threads : Woke(at[u], at'[u])
        /\ at[Main] # "halt" => at'[Main] = at[Main]
    BY DEF Interrupt, Kicked, Woke, Threads
  <1>2. at[Main] # "halt"
    BY DEF VInv, ThreadPlaces, MainPlaces, Posting
  <1> QED BY <1>1, <1>2, MainStep DEF Interrupt

LEMMA PauseStep == ASSUME VInv, UNCHANGED workload, Pause \/ PauseWoken \/ Resume PROVE VInv'
  <1>1. DOMAIN at = Threads /\ Main \in Threads
    BY DEF VInv, WorkType, Threads
  <1>2. /\ AskExit(CPUs) /\ UNCHANGED <<exclVars, bql, workVars>> /\ at[Main] \in {"idle", "pauseWoken", "paused"}
        /\ \E place \in {"pauseWait", "paused", "idle"} : at' = Kicked([at EXCEPT ![Main] = place], CPUs)
    BY DEF Pause, PauseWoken, Resume, Paused
  <1>3. PICK place \in {"pauseWait", "paused", "idle"} : at' = Kicked([at EXCEPT ![Main] = place], CPUs)
    BY <1>2
  <1>4. DOMAIN at' = Threads /\ at'[Main] = place /\ \A u \in Threads \ {Main} : Woke(at[u], at'[u])
    BY <1>1, <1>3, KickedWoke
  <1>5. at[Main] \notin Posting /\ at'[Main] \in MainPlaces \ Posting
    BY <1>2, <1>4 DEF Posting, MainPlaces
  <1> QED BY <1>2, <1>4, <1>5, MainStep

LEMMA InitVInv == Init => VInv
  <1> SUFFICES ASSUME Init PROVE VInv
    OBVIOUS
  <1>1. EInv
    BY InitEInv DEF Init
  <1>2. WorkType
    BY DEF Init, WorkType
  <1>3. /\ at[Main] = "paused" /\ NoOne \notin Threads /\ bql = NoOne /\ posted = {}
        /\ \A c \in CPUs : at[c] = "start" /\ pc[c] = "out" /\ queue[c] = <<>>
    BY ThreadsAssumption DEF Init, ExclInit, Threads
  <1>4. ThreadPlaces
    BY <1>3 DEF ThreadPlaces, PlaceOK, MainPlaces, Outside
  <1>5. BqlHeld
    BY <1>3 DEF BqlHeld, Holds, Threads, Keeping
  <1>6. Known /\ StackItemAlive
    BY <1>3 DEF Known, StackItemAlive
  <1> QED BY <1>1, <1>2, <1>4, <1>5, <1>6 DEF VInv

LEMMA NextVInv == VInv /\ [Next]_<<workload, vars>> => VInv'
  <1> SUFFICES ASSUME VInv, [Next]_<<workload, vars>> PROVE VInv'
    OBVIOUS
  <1>1. CASE UNCHANGED <<workload, vars>>
    <2>1. /\ UNCHANGED <<exclVars, pc, exit_request, at, bql, queue, cur, posted, done, workload>>
          /\ exit_request \in [CPUs -> BOOLEAN]
      BY <1>1 DEF vars, exclVars, workVars, VInv, EInv, TypeOK
    <2>2. EInv'
      BY <2>1, ExclIdle DEF VInv
    <2>3. WorkType' /\ StackItemAlive' /\ BqlHeld'
      BY <2>1 DEF VInv, WorkType, StackItemAlive, BqlHeld, Holds
    <2>4. ThreadPlaces' /\ Known'
      BY <2>1 DEF VInv, ThreadPlaces, PlaceOK, Known, Bound, Told
    <2> QED BY <2>2, <2>3, <2>4 DEF VInv
  <1>2. CASE Next
    <2>1. UNCHANGED workload
      BY <1>2 DEF Next
    <2>2. ASSUME NEW c \in CPUs, Vcpu(c) PROVE VInv'
      BY <2>1, <2>2, ThreadStartStep, LoopRunStep, LoopSkipStep, CpuExecStartStep, CpuExecReturnStep,
         MmioCallStep, MmioStep, CpuExecEndStep, RelockStep, DebugStopStep, StepAtomicStep, AtomicFaultStep,
         AtomicMmioCallStep, AtomicMmioStep, AtomicMmioOverStep, ExclusivelyStep,
         ExclusiveEndStep, WaitIdleStep, HaltStep, HaltWokenStep, WaitOverStep, WorkItemStep,
         SafeDoneStep, WorkOverStep DEF Vcpu
    <2>3. ASSUME NEW c \in CPUs, Interrupt(c) PROVE VInv'
      BY <2>1, <2>3, InterruptStep
    <2>4. ASSUME NEW t \in Threads, Post(t) PROVE VInv'
      BY <2>1, <2>4, QueueWorkStep, PostKickStep, PostWokenStep DEF Post
    <2>5. CASE Pause \/ PauseWoken \/ Resume
      BY <2>1, <2>5, PauseStep
    <2> QED BY <1>2, <2>2, <2>3, <2>4, <2>5 DEF Next
  <1> QED BY <1>1, <1>2

LEMMA VcpusInvariant == Spec => []VInv
  BY InitVInv, NextVInv, PTL DEF Spec

(* In an exclusive section no other vCPU is in guest code.  An item of       *)
(* async_safe_run_on_cpu runs in one without the BQL; and no vCPU that waits *)
(* for a section to begin or to end holds the BQL, which the section of an   *)
(* atomic step may take.                                                     *)
THEOREM SafeWorkCorrect == Spec => []SafeWorkAlone
  <1>1. VInv => SafeWorkAlone
    <2> SUFFICES ASSUME VInv, NEW c \in CPUs
                 PROVE  /\ pc[c] = "exclusive" => \A d \in CPUs \ {c} : pc[d] # "exec"
                        /\ at[c] = "safe" \/ pc[c] \in AwaitsSection => bql # c
      BY DEF SafeWorkAlone
    <2>1. pc[c] = "exclusive" => \A d \in CPUs \ {c} : pc[d] # "exec"
      BY InvExclusion DEF VInv, Exclusion
    <2>2. pc[c] \in AwaitsSection => at[c] \in {"guest", "atomic", "safe"}
      BY DEF VInv, ThreadPlaces, PlaceOK, AwaitsSection
    <2>3. at[c] \in {"guest", "atomic", "safe"} => bql # c
      BY AtPlace DEF Keeping
    <2> QED BY <2>1, <2>2, <2>3
  <1> QED BY <1>1, VcpusInvariant, PTL

(* run_on_cpu does not return, and its item on the stack is not gone, before *)
(* the function has run, whatever else is queued, woken or paused meanwhile. *)
THEOREM StackItemCorrect == Spec => []StackItemAlive
  <1>1. VInv => StackItemAlive
    BY DEF VInv
  <1> QED BY <1>1, VcpusInvariant, PTL

(* No vCPU enters or stays in guest code without being told of the work      *)
(* that is queued for it.                                                    *)
THEOREM WorkNotLeftBehind == Spec => []RunnerKnowsOfWork
  <1>1. VInv => RunnerKnowsOfWork
    BY DEF VInv, Known, Bound, Told, InStart, RunnerKnowsOfWork
  <1> QED BY <1>1, VcpusInvariant, PTL

(* The BQL is held exactly where the code relies on it: at the loop's head,  *)
(* in qemu_wait_io_event and process_queued_cpu_work, by run_on_cpu up to    *)
(* its wait, and during a device access of an atomic step.                   *)
THEOREM BqlWhereNeeded == Spec => []BqlHeld
  <1>1. VInv => BqlHeld
    BY DEF VInv
  <1> QED BY <1>1, VcpusInvariant, PTL

=============================================================================
