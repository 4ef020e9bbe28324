------------------------------- MODULE Pgraph -------------------------------
(***************************************************************************)
(* PGRAPH as the puller thread and the vCPUs share it, with the interrupt  *)
(* tree it reports through: nv2a_pgraph.c, nv2a_pmc.c, nv2a_pcrtc.c and    *)
(* update_irq of nv2a.c.                                                   *)
(*                                                                         *)
(* A vCPU or the main loop enters the device with the big QEMU lock (BQL)  *)
(* held and may then take pgraph.lock.  The puller executes a method under *)
(* pgraph.lock; to raise an interrupt it drops that lock, takes the BQL,   *)
(* retakes pgraph.lock and releases the BQL, then sleeps on a condition    *)
(* until a vCPU has serviced it.  PFIFO never sets an interrupt of its own *)
(* and has no bit here; drawing is outside this module.  The guest is      *)
(* assumed to leave HW_CONTEXT_SWITCH of DEBUG_3 clear, to set MODULO_3D   *)
(* before it counts a flip, and not to store to SURFACE directly.          *)
(***************************************************************************)
EXTENDS Integers

CONSTANTS
    Channels,   \* channel identifiers
    Methods,    \* the methods the puller may hand over, records with field op
    Writes      \* the register writes a vCPU may make, records with field reg

Conditions == {"interrupt_cond", "fifo_access_cond", "flip_3d"}
PgraphIntr == {"ERROR", "CONTEXT_SWITCH"}
Units == {"PCRTC", "PGRAPH"}

(* The fields of SURFACE are three bits wide.                              *)
Flip == 0 .. 7

Method ==
    [op : {"SET_OBJECT"}, channel : Channels]
      \cup [op : {"NO_OPERATION"}, parameter : Nat]
      \cup [op : {"SET_FLIP_READ", "SET_FLIP_WRITE", "SEMAPHORE_RELEASE"}, parameter : Nat]
      \cup [op : {"SET_FLIP_MODULO"}, parameter : {n \in Nat : n % 8 # 0}]
      \cup [op : {"FLIP_INCREMENT_WRITE", "FLIP_STALL"}]

Write ==
    [reg : {"PGRAPH_INTR", "PGRAPH_INTR_EN"}, val : SUBSET PgraphIntr]
      \cup [reg : {"PGRAPH_FIFO", "PMC_INTR_EN", "PCRTC_INTR_EN"}, val : BOOLEAN]
      \cup [reg : {"PGRAPH_INCREMENT", "PMC_INTR", "PCRTC_INTR"}]
      \cup [reg : {"CTX_USER", "CTX_TRIGGER"}, val : Channels]
      \cup [reg : {"CTX_CONTROL"}, val : BOOLEAN]
      \cup [reg : {"PFIFO"}]

ASSUME ChannelsAssumption == 0 \in Channels
ASSUME MethodsAssumption == Methods \subseteq Method
ASSUME WritesAssumption  == Writes \subseteq Write

VARIABLES
    bql, pgLock,            \* holders of the BQL and of pgraph.lock
    pc, asleep, method,     \* the puller inside PGRAPH
    pending, enabled,       \* PGRAPH INTR and INTR_EN
    crtc,                   \* PCRTC: vertical blank pending, enabled
    pmc,                    \* PMC: units pending, enabled, and the IRQ line
    fifo,                   \* FIFO_ACCESS of NV_PGRAPH_FIFO
    ctx,                    \* CTX_CONTROL_CHID and the channel of CTX_USER
    trapped,                \* TRAPPED_ADDR and TRAPPED_DATA_LOW
    surface,                \* READ_3D, WRITE_3D and MODULO_3D of SURFACE
    semaphore,              \* the word in memory the guest polls
    mmio                    \* the register write a vCPU is making

pullerVars == <<pc, asleep, method>>
irqVars == <<enabled, crtc, pmc>>
vars == <<bql, pgLock, pullerVars, pending, irqVars, fifo, ctx, trapped,
          surface, semaphore, mmio>>

Idle == [reg |-> "NONE"]
NoMethod == [op |-> "NONE"]

Waits == {"switch_wait", "fifo_wait", "nop_wait", "flip_wait"}
PCs == {"idle", "switch", "switch_bql", "switch_relock", "exec",
        "nop_bql", "nop_relock", "finish", "aborted"} \cup Waits

TypeOK ==
    /\ bql \in {"none", "vcpu", "puller"} /\ pgLock \in {"none", "puller"}
    /\ pc \in PCs /\ asleep \in {"no", "sleep", "woken"}
    /\ method \in Method \cup {NoMethod}
    /\ pending \subseteq PgraphIntr /\ enabled \subseteq PgraphIntr
    /\ crtc \in [pending : BOOLEAN, enabled : BOOLEAN]
    /\ pmc \in [pending : SUBSET Units, enabled : BOOLEAN, irq : BOOLEAN]
    /\ fifo \in BOOLEAN
    /\ ctx \in [valid : BOOLEAN, user : Channels]
    /\ trapped \in [chid : Channels, data : Nat]
    /\ surface \in [read : Flip, write : Flip, modulo : Flip]
    /\ semaphore \in Nat
    /\ mmio \in Write \cup {Idle}

Init ==
    /\ bql = "none" /\ pgLock = "none"
    /\ pc = "idle" /\ asleep = "no" /\ method = NoMethod
    /\ pending = {} /\ enabled = {}
    /\ crtc = [pending |-> FALSE, enabled |-> FALSE]
    /\ pmc = [pending |-> {}, enabled |-> FALSE, irq |-> FALSE]
    /\ fifo = FALSE
    /\ ctx = [valid |-> FALSE, user |-> 0] /\ trapped = [chid |-> 0, data |-> 0]
    /\ surface = [read |-> 0, write |-> 0, modulo |-> 0]
    /\ semaphore = 0 /\ mmio = Idle

----------------------------------------------------------------------------
(* Mutant: the line is raised but never lowered.                           *)
UpdateIrqSticky(pgPending, c, pmcEnabled) ==
    LET units == {u \in Units :
                    \/ u = "PGRAPH" /\ pgPending \cap enabled # {}
                    \/ u = "PCRTC" /\ c.pending /\ c.enabled}
    IN pmc' = [pending |-> units, enabled |-> pmcEnabled,
               irq |-> pmc.irq \/ (units # {} /\ pmcEnabled)]

(* update_irq, given the new state of the units and of PMC_INTR_EN: the    *)
(* pending bits of PMC are recomputed, and the line follows them.          *)
UpdateIrq(pgPending, c, pmcEnabled) ==
    LET units == {u \in Units :
                    \/ u = "PGRAPH" /\ pgPending \cap enabled # {}
                    \/ u = "PCRTC" /\ c.pending /\ c.enabled}
    IN pmc' = [pending |-> units, enabled |-> pmcEnabled,
               irq |-> units # {} /\ pmcEnabled]

Running == pc # "aborted"

(* What the while loops of the puller test, and the condition they use.    *)
MayProceed(p) ==
    CASE p = "switch_wait" -> "CONTEXT_SWITCH" \notin pending
      [] p = "fifo_wait"   -> fifo
      [] p = "nop_wait"    -> "ERROR" \notin pending
      [] p = "flip_wait"   -> surface.read # surface.write
      [] OTHER             -> TRUE

CondOf(p) == CASE p \in {"switch_wait", "nop_wait"} -> "interrupt_cond"
               [] p = "fifo_wait" -> "fifo_access_cond"
               [] p = "flip_wait" -> "flip_3d"
               [] OTHER -> "none"

AfterWait(p) == CASE p = "switch_wait" -> "fifo_wait"
                  [] p = "fifo_wait"   -> "exec"
                  [] OTHER             -> "finish"

(* Mutant: the event is stored but nobody is told.                         *)
BroadcastSilent(cond) == UNCHANGED asleep

Broadcast(cond) ==
    asleep' = IF asleep = "sleep" /\ CondOf(pc) = cond THEN "woken" ELSE asleep

----------------------------------------------------------------------------
(* The puller takes pgraph.lock for a method.                              *)
MethodBegin(m) ==
    /\ pc = "idle" /\ pgLock = "none"
    /\ pgLock' = "puller" /\ method' = m
    /\ pc' = IF m.op = "SET_OBJECT" THEN "switch" ELSE "fifo_wait"
    /\ UNCHANGED <<bql, asleep, pending, irqVars, fifo, ctx, trapped, surface, semaphore, mmio>>

(* pgraph_context_switch: nothing to do, or trap and drop the lock.        *)
ContextSwitch ==
    /\ pc = "switch"
    /\ IF ctx.valid /\ ctx.user = method.channel
       THEN /\ pc' = "fifo_wait"
            /\ UNCHANGED <<pgLock, trapped>>
       ELSE /\ trapped' = [trapped EXCEPT !.chid = method.channel]
            /\ pc' = "switch_bql" /\ pgLock' = "none"
    /\ UNCHANGED <<bql, asleep, method, pending, irqVars, fifo, ctx, surface, semaphore, mmio>>

(* qemu_mutex_lock_iothread and update_irq; the context switch only now    *)
(* becomes pending.                                                        *)
RaiseIrq ==
    /\ pc \in {"switch_bql", "nop_bql"} /\ bql = "none"
    /\ bql' = "puller"
    /\ pending' = IF pc = "switch_bql" THEN pending \cup {"CONTEXT_SWITCH"} ELSE pending
    /\ UpdateIrq(pending', crtc, pmc.enabled)
    /\ pc' = IF pc = "switch_bql" THEN "switch_relock" ELSE "nop_relock"
    /\ UNCHANGED <<pgLock, asleep, method, enabled, crtc, fifo, ctx, trapped, surface, semaphore, mmio>>

Relock ==
    /\ pc \in {"switch_relock", "nop_relock"} /\ pgLock = "none"
    /\ pgLock' = "puller" /\ bql' = "none"
    /\ pc' = IF pc = "switch_relock" THEN "switch_wait" ELSE "nop_wait"
    /\ UNCHANGED <<asleep, method, pending, irqVars, fifo, ctx, trapped, surface, semaphore, mmio>>

(* One turn of a while loop around qemu_cond_wait.                         *)
WaitTest ==
    /\ pc \in Waits /\ asleep = "no"
    /\ IF MayProceed(pc)
       THEN pc' = AfterWait(pc) /\ UNCHANGED <<asleep, pgLock>>
       ELSE asleep' = "sleep" /\ pgLock' = "none" /\ UNCHANGED pc
    /\ UNCHANGED <<bql, method, pending, irqVars, fifo, ctx, trapped, surface, semaphore, mmio>>

(* Mutant: "if" in place of "while" around qemu_cond_wait.                 *)
WaitReturnUntested ==
    /\ asleep = "woken" /\ pgLock = "none"
    /\ asleep' = "no" /\ pgLock' = "puller" /\ pc' = AfterWait(pc)
    /\ UNCHANGED <<bql, method, pending, irqVars, fifo, ctx, trapped, surface, semaphore, mmio>>

WaitReturn ==
    /\ asleep = "woken" /\ pgLock = "none"
    /\ asleep' = "no" /\ pgLock' = "puller"
    /\ UNCHANGED <<bql, pc, method, pending, irqVars, fifo, ctx, trapped, surface, semaphore, mmio>>

SpuriousWakeup ==
    /\ asleep = "sleep" /\ asleep' = "woken"
    /\ UNCHANGED <<bql, pgLock, pc, method, pending, irqVars, fifo, ctx, trapped, surface,
                   semaphore, mmio>>

----------------------------------------------------------------------------
(* pgraph_method: its assertions, then one action per kind of method.      *)
NoTrapPending ==
    method.op = "NO_OPERATION" /\ method.parameter # 0 => "ERROR" \notin pending

ExecAsserts == ctx.valid /\ NoTrapPending

ExecAbort ==
    /\ pc = "exec" /\ ~ExecAsserts /\ pc' = "aborted"
    /\ UNCHANGED <<bql, pgLock, asleep, method, pending, irqVars, fifo, ctx, trapped, surface,
                   semaphore, mmio>>

ExecNoOperation ==
    /\ pc = "exec" /\ ExecAsserts /\ method.op = "NO_OPERATION"
    /\ IF method.parameter = 0
       THEN pc' = "finish" /\ UNCHANGED <<pgLock, trapped, pending>>
       ELSE /\ trapped' = [chid |-> ctx.user, data |-> method.parameter]
            /\ pending' = pending \cup {"ERROR"}
            /\ pc' = "nop_bql" /\ pgLock' = "none"
    /\ UNCHANGED <<bql, asleep, method, irqVars, fifo, ctx, surface, semaphore, mmio>>

NextFlip(n) == (n + 1) % surface.modulo

ExecFlip ==
    /\ pc = "exec" /\ ExecAsserts
    /\ CASE method.op = "SET_FLIP_READ"   -> surface' = [surface EXCEPT !.read = method.parameter % 8]
         [] method.op = "SET_FLIP_WRITE"  -> surface' = [surface EXCEPT !.write = method.parameter % 8]
         [] method.op = "SET_FLIP_MODULO" -> surface' = [surface EXCEPT !.modulo = method.parameter % 8]
         [] method.op = "FLIP_INCREMENT_WRITE" -> surface' = [surface EXCEPT !.write = NextFlip(@)]
         [] OTHER -> FALSE
    /\ pc' = "finish"
    /\ UNCHANGED <<bql, pgLock, asleep, method, pending, irqVars, fifo, ctx, trapped, semaphore, mmio>>

ExecFlipStall ==
    /\ pc = "exec" /\ ExecAsserts /\ method.op = "FLIP_STALL"
    /\ pc' = "flip_wait"
    /\ UNCHANGED <<bql, pgLock, asleep, method, pending, irqVars, fifo, ctx, trapped, surface,
                   semaphore, mmio>>

ExecOther ==
    /\ pc = "exec" /\ ExecAsserts /\ method.op \in {"SET_OBJECT", "SEMAPHORE_RELEASE"}
    /\ semaphore' = IF method.op = "SET_OBJECT" THEN semaphore ELSE method.parameter
    /\ pc' = "finish"
    /\ UNCHANGED <<bql, pgLock, asleep, method, pending, irqVars, fifo, ctx, trapped, surface, mmio>>

MethodEnd ==
    /\ pc = "finish"
    /\ pc' = "idle" /\ pgLock' = "none" /\ method' = NoMethod
    /\ UNCHANGED <<bql, asleep, pending, irqVars, fifo, ctx, trapped, surface, semaphore, mmio>>

(* Everything between MethodBegin and MethodEnd.                           *)
MethodStep ==
    \/ ContextSwitch \/ RaiseIrq \/ Relock \/ WaitTest \/ WaitReturn
    \/ ExecAbort \/ ExecNoOperation \/ ExecFlip \/ ExecFlipStall \/ ExecOther

----------------------------------------------------------------------------
(* A vCPU enters the device: the BQL is taken, the register is written,    *)
(* under pgraph.lock if it is one of PGRAPH's, and the BQL is released.    *)
MmioBegin(w) ==
    /\ Running /\ mmio = Idle /\ bql = "none"
    /\ mmio' = w /\ bql' = "vcpu"
    /\ UNCHANGED <<pgLock, pullerVars, pending, irqVars, fifo, ctx, trapped, surface, semaphore>>

PgraphRegs == {"PGRAPH_INTR", "PGRAPH_INTR_EN", "PGRAPH_FIFO", "PGRAPH_INCREMENT",
               "CTX_USER", "CTX_TRIGGER", "CTX_CONTROL"}

(* pgraph_write.  INTR and INTR_EN do not reach update_irq.  CTX_TRIGGER   *)
(* loads CTX_USER from the context the guest left in instance memory.      *)
PgraphWrite ==
    /\ Running /\ mmio.reg \in PgraphRegs /\ pgLock = "none"
    /\ pending' = IF mmio.reg = "PGRAPH_INTR" THEN pending \ mmio.val ELSE pending
    /\ enabled' = IF mmio.reg = "PGRAPH_INTR_EN" THEN mmio.val ELSE enabled
    /\ fifo' = IF mmio.reg = "PGRAPH_FIFO" THEN mmio.val ELSE fifo
    /\ surface' = IF mmio.reg = "PGRAPH_INCREMENT"
                  THEN [surface EXCEPT !.read = NextFlip(@)] ELSE surface
    /\ ctx' = IF mmio.reg \in {"CTX_USER", "CTX_TRIGGER"} THEN [ctx EXCEPT !.user = mmio.val]
              ELSE IF mmio.reg = "CTX_CONTROL" THEN [ctx EXCEPT !.valid = mmio.val] ELSE ctx
    /\ CASE mmio.reg = "PGRAPH_INTR"      -> Broadcast("interrupt_cond")
         [] mmio.reg = "PGRAPH_FIFO"      -> Broadcast("fifo_access_cond")
         [] mmio.reg = "PGRAPH_INCREMENT" -> Broadcast("flip_3d")
         [] OTHER                         -> UNCHANGED asleep
    /\ bql' = "none" /\ mmio' = Idle
    /\ UNCHANGED <<pgLock, pc, method, crtc, pmc, trapped, semaphore>>

(* pmc_write and pcrtc_write; a bit of PMC_INTR a unit still reports comes *)
(* straight back.                                                          *)
IrqWrite ==
    /\ Running /\ mmio.reg \in {"PMC_INTR", "PMC_INTR_EN", "PCRTC_INTR", "PCRTC_INTR_EN"}
    /\ crtc' = CASE mmio.reg = "PCRTC_INTR"    -> [crtc EXCEPT !.pending = FALSE]
                 [] mmio.reg = "PCRTC_INTR_EN" -> [crtc EXCEPT !.enabled = mmio.val]
                 [] OTHER                      -> crtc
    /\ UpdateIrq(pending, crtc', IF mmio.reg = "PMC_INTR_EN" THEN mmio.val ELSE pmc.enabled)
    /\ bql' = "none" /\ mmio' = Idle
    /\ UNCHANGED <<pgLock, pullerVars, pending, enabled, fifo, ctx, trapped, surface, semaphore>>

(* pfifo_write and user_write, of which PGRAPH sees only the BQL.          *)
PfifoWrite ==
    /\ Running /\ mmio.reg = "PFIFO"
    /\ bql' = "none" /\ mmio' = Idle
    /\ UNCHANGED <<pgLock, pullerVars, pending, irqVars, fifo, ctx, trapped, surface, semaphore>>

(* nv2a_vga_gfx_update, from the main loop with the BQL.                   *)
VBlank ==
    /\ Running /\ bql = "none"
    /\ crtc' = [crtc EXCEPT !.pending = TRUE]
    /\ UpdateIrq(pending, crtc', pmc.enabled)
    /\ UNCHANGED <<bql, pgLock, pullerVars, pending, enabled, fifo, ctx, trapped, surface,
                   semaphore, mmio>>

----------------------------------------------------------------------------
(* MODULO_3D must be set before a flip is counted: the code divides by it. *)
Countable(x) == x \in {"PGRAPH_INCREMENT", "FLIP_INCREMENT_WRITE"} => surface.modulo # 0

(* A failed assertion has ended the emulator.                              *)
Aborted == ~Running /\ UNCHANGED vars

Next ==
    \/ \E m \in Methods : Countable(m.op) /\ MethodBegin(m)
    \/ MethodStep \/ MethodEnd \/ SpuriousWakeup
    \/ \E w \in Writes : Countable(w.reg) /\ MmioBegin(w)
    \/ PgraphWrite \/ IrqWrite \/ PfifoWrite \/ VBlank
    \/ Aborted

Spec == Init /\ [][Next]_vars

----------------------------------------------------------------------------
(* pgraph.lock is held by the puller exactly where the code has it, and    *)
(* the puller holds the BQL only while it is not waiting for a vCPU.       *)
Unlocked == {"idle", "switch_bql", "switch_relock", "nop_bql", "nop_relock"}
LocksHeld ==
    /\ pgLock = "puller" <=> pc \notin Unlocked /\ asleep = "no"
    /\ bql = "puller" <=> pc \in {"switch_relock", "nop_relock"}
    /\ bql = "vcpu" <=> mmio # Idle
    /\ asleep # "no" => pc \in Waits

(* An interrupt is pending only for a method that still waits for it, so   *)
(* the trap registers the guest's handler reads are those of the method    *)
(* that raised it, and a NO_OPERATION that traps never finds the previous  *)
(* one unserviced, as the assertion in pgraph_method demands.              *)
TrapsMatch ==
    /\ "ERROR" \in pending =>
         /\ pc \in {"nop_bql", "nop_relock", "nop_wait"}
         /\ trapped.data = method.parameter
    /\ "CONTEXT_SWITCH" \in pending =>
         /\ pc \in {"switch_relock", "switch_wait"}
         /\ trapped.chid = method.channel

(* A puller asleep in PGRAPH waits for something that has not happened:    *)
(* each of the three events broadcasts the condition it is awaited with.   *)
AwaitedNotHappened == asleep = "sleep" => ~MayProceed(pc)

(* A flip is never counted modulo zero.                                    *)
FlipsCountable ==
    /\ mmio.reg = "PGRAPH_INCREMENT" => surface.modulo # 0
    /\ method.op = "FLIP_INCREMENT_WRITE" => surface.modulo # 0
=============================================================================
