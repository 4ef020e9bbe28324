---------------------------- MODULE PgraphProofs ----------------------------
(* Proofs about Pgraph, for every set of channels, methods and register     *)
(* writes.                                                                 *)
EXTENDS Pgraph, TLAPS

(* TrapsMatch is not inductive: the trap registers are written before the  *)
(* interrupt is pending, while the puller still has pgraph.lock, and must  *)
(* survive the time it holds no lock.  MethodAt says which method the      *)
(* puller is in, and that its channel is in the trap register from then.   *)
Switching == {"switch_bql", "switch_relock", "switch_wait"}
MethodAt ==
    /\ pc # "idle" => method \in Method
    /\ pc \in {"switch"} \cup Switching => method.op = "SET_OBJECT"
    /\ pc \in {"nop_bql", "nop_relock", "nop_wait"} => method.op = "NO_OPERATION"
    /\ pc \in Switching => trapped.chid = method.channel

IInv == TypeOK /\ MethodAt /\ LocksHeld /\ TrapsMatch /\ AwaitedNotHappened /\ FlipsCountable

USE SMTT(60) DEF PCs, Waits, Unlocked, Flip, Switching

LEMMA MethodTypes ==
  ASSUME NEW m \in Method
  PROVE /\ m.op \in {"SET_OBJECT", "NO_OPERATION", "SET_FLIP_READ", "SET_FLIP_WRITE",
                     "SEMAPHORE_RELEASE", "SET_FLIP_MODULO", "FLIP_INCREMENT_WRITE", "FLIP_STALL"}
        /\ m.op = "SET_OBJECT" => m.channel \in Channels
        /\ m.op \in {"NO_OPERATION", "SET_FLIP_READ", "SET_FLIP_WRITE", "SEMAPHORE_RELEASE"}
             => m.parameter \in Nat
        /\ m.op = "SET_FLIP_MODULO" => m.parameter \in Nat /\ m.parameter % 8 # 0
  BY DEF Method

LEMMA WriteTypes ==
  ASSUME NEW w \in Write
  PROVE /\ w.reg # "NONE"
        /\ w.reg \in {"PGRAPH_INTR", "PGRAPH_INTR_EN"} => w.val \subseteq PgraphIntr
        /\ w.reg \in {"PGRAPH_FIFO", "PMC_INTR_EN", "PCRTC_INTR_EN", "CTX_CONTROL"} => w.val \in BOOLEAN
        /\ w.reg \in {"CTX_USER", "CTX_TRIGGER"} => w.val \in Channels
  BY DEF Write

LEMMA FlipRange ==
  ASSUME NEW n \in 0 .. 7, NEW m \in 1 .. 7
  PROVE (n + 1) % m \in 0 .. 7
  <1>1. m = 1 \/ m = 2 \/ m = 3 \/ m = 4 \/ m = 5 \/ m = 6 \/ m = 7
    OBVIOUS
  <1>2. CASE m = 1 BY <1>2
  <1>3. CASE m = 2 BY <1>3
  <1>4. CASE m = 3 BY <1>4
  <1>5. CASE m = 4 BY <1>5
  <1>6. CASE m = 5 BY <1>6
  <1>7. CASE m = 6 BY <1>7
  <1>8. CASE m = 7 BY <1>8
  <1> QED BY ZenonT(60), <1>1, <1>2, <1>3, <1>4, <1>5, <1>6, <1>7, <1>8

LEMMA UpdateIrqType ==
  ASSUME NEW p, NEW c, NEW e \in BOOLEAN, UpdateIrq(p, c, e)
  PROVE pmc' \in [pending : SUBSET Units, enabled : BOOLEAN, irq : BOOLEAN]
  BY DEF UpdateIrq

LEMMA InitIInv == Init => IInv
  <1> SUFFICES ASSUME Init PROVE IInv
    OBVIOUS
  <1>1. TypeOK
    <2>1. ctx \in [valid : BOOLEAN, user : Channels] /\ trapped \in [chid : Channels, data : Nat]
      BY ChannelsAssumption DEF Init
    <2>2. surface \in [read : Flip, write : Flip, modulo : Flip]
      BY DEF Init
    <2>3. /\ crtc \in [pending : BOOLEAN, enabled : BOOLEAN]
          /\ pmc \in [pending : SUBSET Units, enabled : BOOLEAN, irq : BOOLEAN]
      BY DEF Init
    <2> QED BY ZenonT(60), <2>1, <2>2, <2>3 DEF Init, TypeOK, Idle, NoMethod
  <1>2. MethodAt /\ LocksHeld /\ TrapsMatch /\ AwaitedNotHappened /\ FlipsCountable
    BY ZenonT(60) DEF Init, MethodAt, LocksHeld, TrapsMatch, AwaitedNotHappened, FlipsCountable, Idle, NoMethod
  <1> QED BY <1>1, <1>2 DEF IInv

-----------------------------------------------------------------------------
LEMMA MethodBeginStep ==
  ASSUME IInv, NEW m \in Methods, Countable(m.op), MethodBegin(m) PROVE IInv'
  <1>1. m \in Method
    BY MethodsAssumption
  <1> USE DEF IInv, MethodBegin
  <1>2. TypeOK'
    BY <1>1 DEF TypeOK, irqVars
  <1>3. LocksHeld' /\ AwaitedNotHappened'
    BY ZenonT(60) DEF LocksHeld, AwaitedNotHappened
  <1>4. TrapsMatch'
    BY ZenonT(60) DEF TrapsMatch
  <1>5. FlipsCountable'
    BY DEF FlipsCountable, Countable
  <1>6. MethodAt'
    BY <1>1 DEF MethodAt
  <1> QED BY ZenonT(60), <1>2, <1>3, <1>4, <1>5, <1>6

LEMMA ContextSwitchStep == ASSUME IInv, ContextSwitch PROVE IInv'
  <1> USE DEF IInv, ContextSwitch
  <1>1. TypeOK'
    <2>1. method.channel \in Channels
      BY MethodTypes DEF MethodAt
    <2> QED BY <2>1 DEF TypeOK, irqVars
  <1>2. LocksHeld' /\ AwaitedNotHappened' /\ MethodAt'
    BY DEF LocksHeld, AwaitedNotHappened, MethodAt, TypeOK
  <1>3. TrapsMatch'
    BY DEF TrapsMatch
  <1>4. FlipsCountable'
    BY DEF FlipsCountable
  <1> QED BY ZenonT(60), <1>1, <1>2, <1>3, <1>4

LEMMA RaiseIrqStep == ASSUME IInv, RaiseIrq PROVE IInv'
  <1> USE DEF IInv, RaiseIrq
  <1>1. TypeOK'
    <2>1. pmc' \in [pending : SUBSET Units, enabled : BOOLEAN, irq : BOOLEAN]
      BY UpdateIrqType DEF TypeOK
    <2> QED BY <2>1 DEF TypeOK, PgraphIntr
  <1>2. LocksHeld' /\ MethodAt'
    BY DEF LocksHeld, MethodAt
  <1>3. TrapsMatch'
    BY DEF TrapsMatch, LocksHeld, MethodAt
  <1>4. FlipsCountable' /\ AwaitedNotHappened'
    BY DEF FlipsCountable, AwaitedNotHappened, LocksHeld
  <1> QED BY ZenonT(60), <1>1, <1>2, <1>3, <1>4

LEMMA RelockStep == ASSUME IInv, Relock PROVE IInv'
  <1> USE DEF IInv, Relock
  <1>1. TypeOK'
    BY DEF TypeOK, irqVars
  <1>2. LocksHeld' /\ MethodAt'
    BY DEF LocksHeld, MethodAt
  <1>3. TrapsMatch'
    BY DEF TrapsMatch
  <1>4. FlipsCountable' /\ AwaitedNotHappened'
    BY DEF FlipsCountable, AwaitedNotHappened, LocksHeld
  <1> QED BY ZenonT(60), <1>1, <1>2, <1>3, <1>4

LEMMA WaitTestStep == ASSUME IInv, WaitTest PROVE IInv'
  <1> USE DEF IInv, WaitTest
  <1>1. TypeOK'
    BY DEF TypeOK, irqVars, AfterWait
  <1>2. LocksHeld' /\ MethodAt'
    BY DEF LocksHeld, MethodAt, AfterWait
  <1>3. TrapsMatch'
    BY DEF TrapsMatch, MayProceed, AfterWait
  <1>4. FlipsCountable' /\ AwaitedNotHappened'
    BY DEF FlipsCountable, AwaitedNotHappened, MayProceed
  <1> QED BY ZenonT(60), <1>1, <1>2, <1>3, <1>4

LEMMA WaitReturnStep == ASSUME IInv, WaitReturn \/ SpuriousWakeup PROVE IInv'
  <1> USE DEF IInv, WaitReturn, SpuriousWakeup
  <1>1. TypeOK'
    BY DEF TypeOK, irqVars
  <1>2. LocksHeld' /\ MethodAt'
    BY DEF LocksHeld, MethodAt
  <1>3. TrapsMatch' /\ FlipsCountable' /\ AwaitedNotHappened'
    BY ZenonT(60) DEF TrapsMatch, FlipsCountable, AwaitedNotHappened
  <1> QED BY ZenonT(60), <1>1, <1>2, <1>3

-----------------------------------------------------------------------------
LEMMA ExecNoOperationStep == ASSUME IInv, ExecNoOperation PROVE IInv'
  <1> USE DEF IInv, ExecNoOperation
  <1>1. TypeOK'
    <2>1. method.parameter \in Nat
      BY ZenonT(60), MethodTypes DEF MethodAt
    <2>2. trapped' \in [chid : Channels, data : Nat]
      BY <2>1 DEF TypeOK
    <2>3. pending' \subseteq PgraphIntr
      BY ZenonT(60) DEF TypeOK, PgraphIntr
    <2> QED BY <2>2, <2>3 DEF TypeOK, irqVars
  <1>2. LocksHeld' /\ MethodAt' /\ AwaitedNotHappened'
    BY ZenonT(60) DEF LocksHeld, MethodAt, AwaitedNotHappened
  <1>3. pc = "exec" /\ UNCHANGED <<method, mmio, surface>>
    BY ZenonT(60)
  <1>4. FlipsCountable'
    BY ZenonT(60), <1>3 DEF FlipsCountable
  <1>5. TrapsMatch'
    <2>1. pending \cap {"ERROR", "CONTEXT_SWITCH"} = {}
      BY ZenonT(60), <1>3 DEF TrapsMatch
    <2>2. \/ pending' = pending
          \/ pending' = pending \cup {"ERROR"} /\ pc' = "nop_bql" /\ trapped'.data = method.parameter
      OBVIOUS
    <2> HIDE DEF ExecNoOperation, IInv
    <2> QED BY <1>3, <2>1, <2>2 DEF TrapsMatch
  <1> QED BY ZenonT(60), <1>1, <1>2, <1>4, <1>5

LEMMA ExecFlipStep == ASSUME IInv, ExecFlip PROVE IInv'
  <1> USE DEF IInv, ExecFlip
  <1>1. method \in Method
    BY DEF MethodAt
  <1>2. surface' \in [read : Flip, write : Flip, modulo : Flip] /\ (surface.modulo # 0 => surface'.modulo # 0)
    <2>1. CASE method.op \in {"SET_FLIP_READ", "SET_FLIP_WRITE"}
      <3>1. method.parameter % 8 \in 0 .. 7
        BY <1>1, <2>1, MethodTypes
      <3> QED BY <2>1, <3>1 DEF TypeOK
    <2>2. CASE method.op = "SET_FLIP_MODULO"
      <3>1. method.parameter % 8 \in 0 .. 7 /\ method.parameter % 8 # 0
        BY <1>1, <2>2, MethodTypes
      <3> QED BY <2>2, <3>1 DEF TypeOK
    <2>3. CASE method.op = "FLIP_INCREMENT_WRITE"
      <3>1. surface.modulo \in 1 .. 7 /\ surface.write \in 0 .. 7
        BY <2>3 DEF FlipsCountable, TypeOK
      <3>2. NextFlip(surface.write) \in 0 .. 7
        BY <3>1, FlipRange DEF NextFlip
      <3> QED BY <2>3, <3>2 DEF TypeOK
    <2> QED BY <2>1, <2>2, <2>3
  <1>3. TypeOK'
    BY <1>2 DEF TypeOK, irqVars
  <1>4. LocksHeld' /\ MethodAt'
    BY DEF LocksHeld, MethodAt
  <1>5. AwaitedNotHappened' /\ TrapsMatch'
    BY DEF AwaitedNotHappened, TrapsMatch, LocksHeld
  <1>6. FlipsCountable'
    BY <1>2 DEF FlipsCountable
  <1> QED BY ZenonT(60), <1>3, <1>4, <1>5, <1>6

LEMMA ExecOtherStep == ASSUME IInv, ExecFlipStall \/ ExecOther \/ ExecAbort PROVE IInv'
  <1> USE DEF IInv, ExecFlipStall, ExecOther, ExecAbort
  <1>1. TypeOK'
    <2>1. method.op = "SEMAPHORE_RELEASE" => method.parameter \in Nat
      BY ZenonT(60), MethodTypes DEF MethodAt
    <2> QED BY <2>1 DEF TypeOK, irqVars
  <1>2. LocksHeld' /\ MethodAt' /\ AwaitedNotHappened'
    BY ZenonT(60) DEF LocksHeld, MethodAt, AwaitedNotHappened
  <1>3. pc = "exec" /\ UNCHANGED <<method, mmio, surface, pending>>
    BY ZenonT(60)
  <1>4. pending \cap {"ERROR", "CONTEXT_SWITCH"} = {}
    BY ZenonT(60), <1>3 DEF TrapsMatch
  <1>5. TrapsMatch' /\ FlipsCountable'
    BY ZenonT(60), <1>3, <1>4 DEF TrapsMatch, FlipsCountable
  <1> QED BY ZenonT(60), <1>1, <1>2, <1>5

LEMMA PfifoWriteStep == ASSUME IInv, PfifoWrite PROVE IInv'
  <1> USE DEF IInv, PfifoWrite
  <1>1. TypeOK'
    BY DEF TypeOK, irqVars, pullerVars
  <1>2. LocksHeld' /\ MethodAt' /\ AwaitedNotHappened'
    <2>1. UNCHANGED <<pgLock, pc, asleep, method, pending, fifo, surface, trapped>>
      BY ZenonT(60) DEF pullerVars
    <2>2. bql' = "none" /\ mmio' = Idle /\ mmio.reg = "PFIFO"
      BY ZenonT(60)
    <2>3. bql = "vcpu"
      BY <2>2 DEF LocksHeld, Idle
    <2> HIDE DEF PfifoWrite
    <2>4. LocksHeld'
      BY <2>1, <2>2, <2>3 DEF LocksHeld
    <2>5. MethodAt' /\ AwaitedNotHappened'
      BY ZenonT(60), <2>1 DEF MethodAt, AwaitedNotHappened, MayProceed
    <2> QED BY ZenonT(60), <2>4, <2>5
  <1>3. TrapsMatch' /\ FlipsCountable'
    BY DEF TrapsMatch, FlipsCountable, Idle, pullerVars
  <1> QED BY ZenonT(60), <1>1, <1>2, <1>3

LEMMA MethodEndStep == ASSUME IInv, MethodEnd PROVE IInv'
  <1> USE DEF IInv, MethodEnd
  <1>1. TypeOK'
    BY DEF TypeOK, irqVars
  <1>2. LocksHeld' /\ MethodAt' /\ AwaitedNotHappened'
    BY ZenonT(60) DEF LocksHeld, MethodAt, AwaitedNotHappened
  <1>3. TrapsMatch' /\ FlipsCountable'
    BY ZenonT(60) DEF TrapsMatch, FlipsCountable, NoMethod
  <1> QED BY ZenonT(60), <1>1, <1>2, <1>3

-----------------------------------------------------------------------------
LEMMA MmioBeginStep ==
  ASSUME IInv, NEW w \in Writes, Countable(w.reg), MmioBegin(w) PROVE IInv'
  <1>1. w \in Write /\ w # Idle
    BY WritesAssumption, WriteTypes DEF Idle
  <1> USE DEF IInv, MmioBegin
  <1>2. TypeOK'
    BY <1>1 DEF TypeOK, irqVars, pullerVars
  <1>3. LocksHeld' /\ MethodAt' /\ AwaitedNotHappened'
    BY ZenonT(60), <1>1 DEF LocksHeld, MethodAt, AwaitedNotHappened, MayProceed, pullerVars
  <1>4. TrapsMatch' /\ FlipsCountable'
    BY ZenonT(60) DEF TrapsMatch, FlipsCountable, Countable, pullerVars
  <1> QED BY ZenonT(60), <1>2, <1>3, <1>4

LEMMA PgraphWriteStep == ASSUME IInv, PgraphWrite PROVE IInv'
  <1> USE DEF IInv, PgraphWrite, PgraphRegs
  <1>1. mmio \in Write /\ mmio # Idle
    BY DEF TypeOK, Idle
  <1>2. /\ pending' \subseteq PgraphIntr /\ enabled' \subseteq PgraphIntr /\ fifo' \in BOOLEAN
        /\ ctx' \in [valid : BOOLEAN, user : Channels]
    BY <1>1, WriteTypes DEF TypeOK
  <1>3. /\ surface' \in [read : Flip, write : Flip, modulo : Flip]
        /\ surface'.modulo = surface.modulo
    <2>1. CASE mmio.reg = "PGRAPH_INCREMENT"
      <3>1. surface.modulo \in 1 .. 7 /\ surface.read \in 0 .. 7
        BY <2>1 DEF FlipsCountable, TypeOK
      <3>2. NextFlip(surface.read) \in 0 .. 7
        BY <3>1, FlipRange DEF NextFlip
      <3> QED BY <2>1, <3>2 DEF TypeOK
    <2>2. CASE mmio.reg # "PGRAPH_INCREMENT"
      BY <2>2 DEF TypeOK
    <2> QED BY <2>1, <2>2
  <1>4. asleep' \in {"no", "sleep", "woken"} /\ (asleep' = "no" <=> asleep = "no")
    BY DEF TypeOK, Broadcast
  <1>5. TypeOK'
    BY <1>2, <1>3, <1>4 DEF TypeOK
  <1>6. LocksHeld' /\ MethodAt'
    BY <1>1, <1>4 DEF LocksHeld, MethodAt
  <1>7. AwaitedNotHappened'
    BY <1>1, <1>2 DEF AwaitedNotHappened, MayProceed, Broadcast, CondOf, LocksHeld
  <1>8. TrapsMatch' /\ FlipsCountable'
    BY <1>3 DEF TrapsMatch, FlipsCountable, Idle
  <1> QED BY ZenonT(60), <1>5, <1>6, <1>7, <1>8

LEMMA IrqStep == ASSUME IInv, IrqWrite \/ VBlank PROVE IInv'
  <1> USE DEF IInv, IrqWrite, VBlank
  <1>1. crtc' \in [pending : BOOLEAN, enabled : BOOLEAN]
    <2>1. CASE VBlank
      BY ZenonT(60), <2>1 DEF TypeOK
    <2>2. CASE IrqWrite
      <3>1. mmio.reg = "PCRTC_INTR_EN" => mmio.val \in BOOLEAN
        BY WriteTypes DEF TypeOK, Idle
      <3> QED BY ZenonT(60), <2>2, <3>1 DEF TypeOK
    <2> QED BY <2>1, <2>2
  <1>2. pmc' \in [pending : SUBSET Units, enabled : BOOLEAN, irq : BOOLEAN]
    <2>1. mmio.reg = "PMC_INTR_EN" => mmio.val \in BOOLEAN
      BY WriteTypes DEF TypeOK, Idle
    <2> QED BY <2>1, UpdateIrqType DEF TypeOK
  <1>3. TypeOK'
    BY <1>1, <1>2 DEF TypeOK, pullerVars
  <1>4. LocksHeld' /\ MethodAt'
    BY DEF LocksHeld, MethodAt, pullerVars, Idle
  <1>5. AwaitedNotHappened' /\ TrapsMatch' /\ FlipsCountable'
    BY DEF AwaitedNotHappened, MayProceed, TrapsMatch, FlipsCountable, Idle, pullerVars
  <1> QED BY ZenonT(60), <1>3, <1>4, <1>5

-----------------------------------------------------------------------------
(* Every step of the puller and of the vCPUs keeps the invariant.          *)
THEOREM Invariance == Spec => []IInv
  <1>1. IInv /\ [Next]_vars => IInv'
    <2> SUFFICES ASSUME IInv, [Next]_vars PROVE IInv'
      OBVIOUS
    <2>1. CASE UNCHANGED vars
      <3>1. UNCHANGED <<bql, pgLock, pc, asleep, method, pending, enabled, crtc, pmc, fifo, ctx,
                        trapped, surface, semaphore, mmio>>
        BY ZenonT(60), <2>1 DEF vars, pullerVars, irqVars
      <3> HIDE DEF PCs, Waits, Unlocked, Flip, Switching
      <3>2. MethodAt'
        BY ZenonT(60), <3>1 DEF IInv, MethodAt
      <3>3. TypeOK'
        BY <3>1 DEF IInv, TypeOK
      <3>4. LocksHeld' /\ TrapsMatch' /\ AwaitedNotHappened' /\ FlipsCountable'
        BY ZenonT(60), <3>1 DEF IInv, LocksHeld, TrapsMatch, AwaitedNotHappened, MayProceed,
                           FlipsCountable
      <3> QED BY ZenonT(60), <3>2, <3>3, <3>4 DEF IInv
    <2>2. CASE Next
      BY ZenonT(60), <2>2, MethodBeginStep, ContextSwitchStep, RaiseIrqStep, RelockStep, WaitTestStep,
         WaitReturnStep, ExecNoOperationStep, ExecFlipStep, ExecOtherStep, MethodEndStep,
         MmioBeginStep, PgraphWriteStep, PfifoWriteStep, IrqStep, <2>1
         DEF Next, MethodStep, Aborted
    <2> QED BY <2>1, <2>2
  <1> QED BY InitIInv, <1>1, PTL DEF Spec

(* The state of the locks, the puller and the registers is always well     *)
(* formed.                                                                 *)
THEOREM TypeCorrect == Spec => []TypeOK
  <1>1. IInv => TypeOK
    BY DEF IInv
  <1> QED BY Invariance, <1>1, PTL

(* A pending interrupt of PGRAPH belongs to the method the puller waits    *)
(* in, and the trap registers are that method's, whatever the vCPUs write  *)
(* meanwhile: the assertion of pgraph_method's NO_OPERATION never fails.   *)
THEOREM TrapsCorrect == Spec => []TrapsMatch
  <1>1. IInv => TrapsMatch
    BY DEF IInv
  <1> QED BY Invariance, <1>1, PTL

(* The puller never sleeps in PGRAPH on a condition that already holds: no *)
(* broadcast of interrupt_cond, fifo_access_cond or flip_3d is lost.       *)
THEOREM AwaitedCorrect == Spec => []AwaitedNotHappened
  <1>1. IInv => AwaitedNotHappened
    BY DEF IInv
  <1> QED BY Invariance, <1>1, PTL
=============================================================================
