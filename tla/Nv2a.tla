-------------------------------- MODULE Nv2a --------------------------------
(***************************************************************************)
(* The NV2A as a whole: PFIFO and PGRAPH with the puller that runs through *)
(* both, one vCPU and the three locks, taken in the order BQL, pfifo.lock, *)
(* pgraph.lock.                                                            *)
(*                                                                         *)
(* The vCPU runs a driver that sets the device up and rings doorbells, and *)
(* serves its interrupts.  The driver is the guest's, not the emulator's:  *)
(* it does what pgraph_context_switch, NO_OPERATION and FLIP_STALL wait    *)
(* for, with the device's interrupts masked in PMC meanwhile.              *)
(***************************************************************************)
EXTENDS Integers, Sequences

CONSTANTS CacheSize, DmaLen, Ramht, Programs, Channels,
          ChannelOf,    \* instance |-> channel, from the entries of RAMHT
          Scripts       \* sequences of register writes: what the driver may do

VARIABLES
    lock, pusher, puller, access, dmaGet, dmaPut, dmaState, subroutine, error,
    slot, get, put, low, high, engine, cur, done, exiting, guest,
    bql, pgLock, pc, asleep, method, pending, enabled, crtc, pmc, fifo, ctx,
    trapped, surface, semaphore, mmio,
    cpu         \* the writes the driver and its interrupt handler have left

F == INSTANCE Pfifo WITH FreeRegs <- {}, MayExit <- FALSE
G == INSTANCE Pgraph WITH Methods <- {}, Writes <- {}

fifoVars == <<lock, pusher, puller, access, dmaGet, dmaPut, dmaState, subroutine, error,
              slot, get, put, low, high, engine, cur, done, exiting, guest>>
graphVars == <<bql, pgLock, pc, asleep, method, pending, enabled, crtc, pmc, fifo, ctx,
               trapped, surface, semaphore, mmio>>
vars == <<fifoVars, graphVars, cpu>>

Init == F!Init /\ G!Init /\ cpu \in [main : Scripts, isr : {<<>>}]

(* A failed assertion of either unit ends both.                            *)
Running == F!Running /\ G!Running

----------------------------------------------------------------------------
(* The switch of pgraph_method, and the channel ramht_lookup found.        *)
Decode(e) ==
    CASE e.method = 0    -> [op |-> "SET_OBJECT", channel |-> ChannelOf[e.parameter]]
      [] e.method = 256  -> [op |-> "NO_OPERATION", parameter |-> e.parameter]
      [] e.method = 288  -> [op |-> "SET_FLIP_READ", parameter |-> e.parameter]
      [] e.method = 292  -> [op |-> "SET_FLIP_WRITE", parameter |-> e.parameter]
      [] e.method = 296  -> [op |-> "SET_FLIP_MODULO", parameter |-> e.parameter]
      [] e.method = 300  -> [op |-> "FLIP_INCREMENT_WRITE"]
      [] e.method = 304  -> [op |-> "FLIP_STALL"]
      [] e.method = 7536 -> [op |-> "SEMAPHORE_RELEASE", parameter |-> e.parameter]

(* The puller: in PFIFO, then in PGRAPH for the time of a method.          *)
PusherStep == Running /\ F!Pusher /\ UNCHANGED <<graphVars, cpu>>

PullerLoop ==
    /\ Running /\ (F!PullerAcquire \/ F!PullerWait \/ F!PullerPull)
    /\ UNCHANGED <<graphVars, cpu>>

PullerHandoff == Running /\ F!PullerHandoff /\ G!MethodBegin(Decode(cur)) /\ UNCHANGED cpu
PullerMethod  == Running /\ G!MethodStep /\ UNCHANGED <<fifoVars, cpu>>
MethodDone    == Running /\ G!MethodEnd /\ F!MethodDone /\ UNCHANGED cpu

SpuriousWakeup ==
    /\ Running
    /\ \/ F!SpuriousWakeup /\ UNCHANGED <<graphVars, cpu>>
       \/ G!SpuriousWakeup /\ UNCHANGED <<fifoVars, cpu>>

VBlank == Running /\ G!VBlank /\ UNCHANGED <<fifoVars, cpu>>

----------------------------------------------------------------------------
(* The handler: what it read when the interrupt was taken decides what it  *)
(* writes.  A flip is shown at a vertical blank if one is waiting.         *)
On(reg, val) == [reg |-> reg, val |-> val]
If(c, q) == IF c THEN q ELSE <<>>

Handler ==
    <<On("PMC_INTR_EN", FALSE)>>
      \o If("CONTEXT_SWITCH" \in pending,
            <<On("PGRAPH_FIFO", FALSE), On("CTX_CONTROL", TRUE), On("CTX_USER", trapped.chid),
              On("PGRAPH_INTR", {"CONTEXT_SWITCH"}), On("PGRAPH_FIFO", TRUE)>>)
      \o If("ERROR" \in pending, <<On("PGRAPH_INTR", {"ERROR"})>>)
      \o If(crtc.pending, <<[reg |-> "PCRTC_INTR"]>>)
      \o If(crtc.pending /\ surface.modulo # 0 /\ G!NextFlip(surface.read) # surface.write,
            <<[reg |-> "PGRAPH_INCREMENT"]>>)
      \o <<On("PMC_INTR_EN", TRUE)>>

TakeInterrupt ==
    /\ Running /\ pmc.irq /\ mmio = G!Idle /\ cpu.isr = <<>>
    /\ cpu' = [cpu EXCEPT !.isr = Handler]
    /\ UNCHANGED <<fifoVars, graphVars>>

(* The next write of the handler and, outside it, of the driver.           *)
HandlerBegin ==
    /\ Running /\ cpu.isr # <<>> /\ G!MmioBegin(Head(cpu.isr))
    /\ cpu' = [cpu EXCEPT !.isr = Tail(@)]
    /\ UNCHANGED fifoVars

DriverBegin ==
    /\ Running /\ cpu.isr = <<>> /\ cpu.main # <<>> /\ G!MmioBegin(Head(cpu.main))
    /\ cpu' = [cpu EXCEPT !.main = Tail(@)]
    /\ UNCHANGED fifoVars

CpuWrite ==
    /\ Running
    /\ \/ (G!PgraphWrite \/ G!IrqWrite) /\ UNCHANGED fifoVars
       \/ G!PfifoWrite /\ F!GuestScript
    /\ UNCHANGED cpu

Next ==
    \/ PusherStep \/ PullerLoop \/ PullerHandoff \/ PullerMethod \/ MethodDone
    \/ SpuriousWakeup \/ VBlank \/ TakeInterrupt \/ HandlerBegin \/ DriverBegin
    \/ CpuWrite

Spec == Init /\ [][Next]_vars

(* Every thread is scheduled, and gets a mutex that is released again and  *)
(* again; the display refreshes again and again, but not so fast that the  *)
(* vCPU does nothing but serve it.                                         *)
FairSpec ==
    /\ Spec
    /\ WF_vars(PusherStep) /\ SF_vars(F!PusherAcquire /\ UNCHANGED <<graphVars, cpu>>)
    /\ WF_vars(PullerLoop) /\ SF_vars(F!PullerAcquire /\ UNCHANGED <<graphVars, cpu>>)
    /\ SF_vars(PullerHandoff) /\ SF_vars(PullerMethod) /\ WF_vars(MethodDone)
    /\ SF_vars(VBlank) /\ SF_vars(TakeInterrupt) /\ SF_vars(CpuWrite)
    /\ SF_vars(HandlerBegin) /\ SF_vars(DriverBegin)

----------------------------------------------------------------------------
(* pgraph_method runs in the channel of the last object bound, valid: the  *)
(* locks that pgraph_context_switch drops and retakes never let a method   *)
(* start in the context that was being left.                               *)
Bound == LET bound == SelectSeq(done, LAMBDA e : e.method = 0)
         IN IF cur.method = 0 THEN ChannelOf[cur.parameter]
            ELSE ChannelOf[bound[Len(bound)].parameter]
MethodsInContext == pc = "exec" => ctx.valid /\ ctx.user = Bound

(* The vCPU is interrupted only for something it has to serve, although    *)
(* pgraph_write acknowledges interrupts without a call of update_irq.      *)
NoStaleInterrupt ==
    pmc.irq /\ mmio = G!Idle /\ cpu.isr = <<>> =>
      pending \cap enabled # {} \/ (crtc.pending /\ crtc.enabled)

(* Every method the guest queued is executed: no thread waits for ever for *)
(* another, even if the guest enables an interrupt after it was raised     *)
(* (pgraph_write does not call update_irq then; the next refresh does).    *)
AllExecuted == <>(done = F!Prog.expect)
=============================================================================
