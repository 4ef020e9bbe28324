------------------------------- MODULE Pfifo -------------------------------
(***************************************************************************)
(* The PFIFO unit of the NV2A: hw/xbox/nv2a/nv2a_pfifo.c and the USER      *)
(* doorbells of nv2a_user.c.                                               *)
(*                                                                         *)
(* The pusher thread fetches the words of the guest's push buffer, decodes *)
(* the commands and writes one CACHE1 entry per data word.  The puller     *)
(* thread takes the entries out and hands each to PGRAPH as a method.  A   *)
(* vCPU rings the doorbell and opens and closes the two ends of the cache. *)
(* The three share pfifo.lock; the threads sleep on pusher_cond and        *)
(* puller_cond.  Addresses count 32-bit words; PGRAPH is the time that     *)
(* passes between PullerHandoff and MethodDone.                            *)
(*                                                                         *)
(* The shadow registers, DMA_DCOUNT, PULL1 and the method type bit of an   *)
(* entry are written but never read by the emulator and are left out.  The *)
(* one channel is in DMA mode, as the assertions on MODE and PUSH1 demand; *)
(* the suspended bit of DMA_PUSH counts as its ACCESS bit being clear.     *)
(***************************************************************************)
EXTENDS Integers, Sequences

CONSTANTS
    CacheSize,      \* entries of CACHE1: 128
    DmaLen,         \* words of the push buffer's DMA object
    Ramht,          \* handle |-> instance, for the handles RAMHT holds
    Programs,       \* name |-> what the guest may run: see Program
    FreeRegs,       \* the access bits the guest toggles at any time
    MayExit         \* whether the device may be unplugged

Access == {"PUSH0", "DMA_PUSH", "PULL0"}
Slots  == 0 .. CacheSize - 1
Words  == 0 .. DmaLen - 1
NoneError == "NONE"
Errors == {NoneError, "CALL", "RETURN", "RESERVED_CMD", "PROTECTION", "PULLER"}

Entries == [method : Nat, subchannel : Nat, parameter : Nat]

(* A word of the push buffer: the command it decodes to, and its 32 bits   *)
(* as they are when it is taken for data.  "data" is a word no command     *)
(* form matches; the two forms of a jump differ in encoding only.          *)
Word == [op : {"jump", "call"}, to : Nat, value : Nat]
          \cup [op : {"inc", "non_inc"}, method : Nat, subchannel : Nat,
                count : Nat, value : Nat]
          \cup [op : {"return", "data"}, value : Nat]

(* A guest program: the push buffer, the register writes of its driver in  *)
(* order, how many of them set the channel up, the methods it means PGRAPH *)
(* to execute, and the error its first bad command leads to.               *)
GuestWrites == [reg : {"DMA_GET", "DMA_PUT"}, val : Nat]
                 \cup [reg : Access, val : BOOLEAN]
                 \cup [reg : {"REF"}, val : Nat]
Program == [words : [Words -> Word], writes : Seq(GuestWrites),
            setup : Nat, expect : Seq(Entries), ends : Errors]

ASSUME CacheSizeAssumption == CacheSize \in Nat \ {0, 1}
ASSUME DmaLenAssumption    == DmaLen \in Nat
ASSUME RamhtAssumption     == Ramht \in [DOMAIN Ramht -> Nat]
ASSUME FreeRegsAssumption  == FreeRegs \subseteq Access
ASSUME MayExitAssumption   == MayExit \in BOOLEAN
ASSUME ProgramsAssumption  == Programs \in [DOMAIN Programs -> Program]

VARIABLES
    lock,           \* holder of pfifo.lock; a vCPU holds it for one step
    pusher, puller, \* program counters of the two threads
    access,         \* the ACCESS bits of PUSH0, DMA_PUSH and PULL0
    dmaGet, dmaPut, \* DMA_GET and DMA_PUT
    dmaState,       \* DMA_STATE: the command being expanded
    subroutine,     \* DMA_SUBROUTINE
    error,          \* the failed assertion: the emulator has aborted
    slot, get, put, \* CACHE1
    low, high,      \* LOW_MARK and HIGH_MARK of CACHE1_STATUS
    engine,         \* subchannels bound to the graphics engine
    cur,            \* the method the puller has taken out
    done,           \* the methods PGRAPH has executed (history)
    exiting,        \* d->exiting, and whether nv2a_exitfn has broadcast
    guest           \* the program, and how many of its writes were made

regVars   == <<access, dmaGet, dmaPut>>
dmaVars   == <<dmaState, subroutine>>
cacheVars == <<slot, get, put, low, high>>
pullVars  == <<engine, cur, done>>
vars == <<lock, pusher, puller, regVars, dmaVars, error, cacheVars, pullVars,
          exiting, guest>>

TypeOK ==
    /\ lock \in {"none", "pusher", "puller"}
    /\ pusher \in {"start", "run", "wait", "woken", "exited"}
    /\ puller \in {"start", "run", "submit", "method", "return",
                   "wait", "woken", "exited"}
    /\ access \in [Access -> BOOLEAN]
    /\ dmaGet \in Nat /\ dmaPut \in Nat
    /\ dmaState \in [inc : BOOLEAN, method : Nat, subchannel : Nat, count : Nat]
    /\ subroutine \in [active : BOOLEAN, ret : Nat]
    /\ error \in Errors
    /\ slot \in [Slots -> Entries]
    /\ get \in Slots /\ put \in Slots
    /\ low \in BOOLEAN /\ high \in BOOLEAN
    /\ engine \subseteq Nat
    /\ cur \in Entries
    /\ done \in Seq(Entries)
    /\ exiting \in {"no", "flagged", "broadcast"}
    /\ guest \in [program : DOMAIN Programs, made : Nat]

Prog == Programs[guest.program]
NoEntry == [method |-> 0, subchannel |-> 0, parameter |-> 0]

(* nv2a_realize leaves every register zero but LOW_MARK.                   *)
Init ==
    /\ lock = "none" /\ pusher = "start" /\ puller = "start"
    /\ access = [r \in Access |-> FALSE]
    /\ dmaGet = 0 /\ dmaPut = 0
    /\ dmaState = [inc |-> TRUE, method |-> 0, subchannel |-> 0, count |-> 0]
    /\ subroutine = [active |-> FALSE, ret |-> 0]
    /\ error = NoneError
    /\ slot = [s \in Slots |-> NoEntry]
    /\ get = 0 /\ put = 0 /\ low = TRUE /\ high = FALSE
    /\ engine = {} /\ cur = NoEntry /\ done = <<>>
    /\ exiting = "no"
    /\ guest \in [program : DOMAIN Programs, made : {0}]

----------------------------------------------------------------------------
(* A failed assertion aborts the emulator.                                 *)
Running == error = NoneError

(* Condition variables.  A signal, a broadcast or a spurious wakeup makes  *)
(* the one thread that may wait on the condition contend for the lock.     *)
Woken(pc) == IF pc = "wait" THEN "woken" ELSE pc

(* Mutants: the signal is forgotten; the doorbell wakes nobody.            *)
NoSignal(full) == UNCHANGED pusher
NoBroadcast == UNCHANGED <<pusher, puller>>

SignalPusher(full) == pusher' = IF full THEN Woken(pusher) ELSE pusher
SignalPuller(empty) == puller' = IF empty THEN Woken(puller) ELSE puller
Broadcast == pusher' = Woken(pusher) /\ puller' = Woken(puller)

(* (x+4) & 0x1fc on byte offsets                                           *)
NextSlot(s) == IF s + 1 = CacheSize THEN 0 ELSE s + 1

----------------------------------------------------------------------------
(* pfifo_pusher_thread: take pfifo.lock, first or after qemu_cond_wait,    *)
(* and enter pfifo_run_pusher, whose early returns go back to waiting.     *)
PusherExit == pusher = "woken" /\ exiting # "no"
MayPush    == access["PUSH0"] /\ access["DMA_PUSH"]

PusherAcquire ==
    /\ Running /\ pusher \in {"start", "woken"} /\ lock = "none"
    /\ IF PusherExit THEN pusher' = "exited" /\ lock' = "none"
       ELSE IF MayPush THEN pusher' = "run" /\ lock' = "pusher"
       ELSE pusher' = "wait" /\ lock' = "none"
    /\ UNCHANGED <<puller, regVars, dmaVars, error, cacheVars, pullVars, exiting, guest>>

(* Mutant: data words are pushed without a look at the high mark.          *)
NeverFull == FALSE

(* The loop ends: everything fetched, or CACHE1 full in mid-method with    *)
(* DMA_GET still at the word that found it full.                           *)
Full == dmaState.count > 0 /\ high

PusherWait ==
    /\ Running /\ pusher = "run"
    /\ dmaGet = dmaPut \/ (dmaGet < DmaLen /\ Full)
    /\ pusher' = "wait" /\ lock' = "none"
    /\ UNCHANGED <<puller, regVars, dmaVars, error, cacheVars, pullVars, exiting, guest>>

Fetch(w) ==
    /\ Running /\ pusher = "run" /\ dmaGet # dmaPut /\ dmaGet < DmaLen
    /\ w = Prog.words[dmaGet]

Fills(newPut) == newPut = get

(* A data word of the current method goes into CACHE1.                     *)
PushEntry(w) ==
    LET newPut == NextSlot(put) IN
    /\ slot' = [slot EXCEPT ![put] =
                  [method |-> dmaState.method, subchannel |-> dmaState.subchannel,
                   parameter |-> w.value]]
    /\ put' = newPut
    /\ high' = (high \/ Fills(newPut))
    /\ low' = FALSE
    /\ SignalPuller(low)
    /\ UNCHANGED get

PusherData(w) ==
    /\ Fetch(w) /\ dmaState.count > 0 /\ ~Full
    /\ PushEntry(w)
    /\ dmaState' = [dmaState EXCEPT
                      !.method = IF dmaState.inc THEN (@ + 4) % 8192 ELSE @,
                      !.count  = @ - 1]
    /\ dmaGet' = dmaGet + 1
    /\ UNCHANGED <<lock, pusher, access, dmaPut, subroutine, error, pullVars, exiting, guest>>

(* The first word of a command.                                            *)
Decoding(w) == Fetch(w) /\ dmaState.count = 0

PusherMethods(w) ==
    /\ Decoding(w) /\ w.op \in {"inc", "non_inc"}
    /\ dmaState' = [inc |-> w.op = "inc", method |-> w.method,
                    subchannel |-> w.subchannel, count |-> w.count]
    /\ dmaGet' = dmaGet + 1
    /\ UNCHANGED <<lock, pusher, puller, access, dmaPut, subroutine, error,
                   cacheVars, pullVars, exiting, guest>>

PusherJump(w) ==
    /\ Decoding(w) /\ w.op = "jump"
    /\ dmaGet' = w.to
    /\ UNCHANGED <<lock, pusher, puller, access, dmaPut, dmaVars, error,
                   cacheVars, pullVars, exiting, guest>>

PusherCall(w) ==
    /\ Decoding(w) /\ w.op = "call" /\ ~subroutine.active
    /\ subroutine' = [active |-> TRUE, ret |-> dmaGet + 1]
    /\ dmaGet' = w.to
    /\ UNCHANGED <<lock, pusher, puller, access, dmaPut, dmaState, error,
                   cacheVars, pullVars, exiting, guest>>

PusherReturn(w) ==
    /\ Decoding(w) /\ w.op = "return" /\ subroutine.active
    /\ dmaGet' = subroutine.ret
    /\ subroutine' = [subroutine EXCEPT !.active = FALSE]
    /\ UNCHANGED <<lock, pusher, puller, access, dmaPut, dmaState, error,
                   cacheVars, pullVars, exiting, guest>>

(* The errors of the push buffer; each ends in assert(false).              *)
CommandError(w) ==
    CASE w.op = "call"   /\ subroutine.active  -> "CALL"
      [] w.op = "return" /\ ~subroutine.active -> "RETURN"
      [] w.op = "data"                         -> "RESERVED_CMD"
      [] OTHER                                 -> NoneError

PusherError ==
    /\ Running /\ pusher = "run" /\ dmaGet # dmaPut
    /\ \/ dmaGet >= DmaLen /\ error' = "PROTECTION"
       \/ \E w \in {Prog.words[a] : a \in Words} :
            Decoding(w) /\ error' = CommandError(w) /\ error' # NoneError
    /\ UNCHANGED <<lock, pusher, puller, regVars, dmaVars, cacheVars, pullVars, exiting, guest>>

Pusher ==
    \/ PusherAcquire \/ PusherWait \/ PusherError
    \/ \E w \in {Prog.words[a] : a \in Words} :
         \/ PusherData(w) \/ PusherMethods(w) \/ PusherJump(w)
         \/ PusherCall(w) \/ PusherReturn(w)

----------------------------------------------------------------------------
(* pfifo_puller_thread                                                     *)
PullerExit == puller = "woken" /\ exiting # "no"

PullerAcquire ==
    /\ Running /\ puller \in {"start", "woken", "return"} /\ lock = "none"
    /\ IF PullerExit THEN puller' = "exited" /\ lock' = "none"
                     ELSE puller' = "run" /\ lock' = "puller"
    /\ UNCHANGED <<pusher, regVars, dmaVars, error, cacheVars, pullVars, exiting, guest>>

PullerWait ==
    /\ Running /\ puller = "run"
    /\ ~access["PULL0"] \/ low
    /\ puller' = "wait" /\ lock' = "none"
    /\ UNCHANGED <<pusher, regVars, dmaVars, error, cacheVars, pullVars, exiting, guest>>

(* Method 0 binds an object to the subchannel; 0x180..0x1ff take an object *)
(* handle.  Both replace the handle by the instance RAMHT gives it.        *)
TakesObject(e) == e.method = 0 \/ e.method \in 384 .. 511
MethodOf(e) ==
    IF TakesObject(e) /\ e.parameter \in DOMAIN Ramht
    THEN [e EXCEPT !.parameter = Ramht[@]] ELSE e

(* The assertions between the removal of an entry and its hand-off.        *)
PullAsserts(e) ==
    /\ TakesObject(e) => e.parameter \in DOMAIN Ramht
    /\ e.method = 0 \/ (e.method >= 256 /\ e.subchannel \in engine)

PullEntry ==
    LET newGet == NextSlot(get) IN
    /\ get' = newGet
    /\ low' = (low \/ newGet = put)
    /\ high' = FALSE
    /\ SignalPusher(high)
    /\ UNCHANGED <<slot, put>>

PullerPull ==
    /\ Running /\ puller = "run" /\ access["PULL0"] /\ ~low
    /\ PullEntry
    /\ LET e == slot[get] IN
       IF PullAsserts(e)
       THEN /\ cur' = MethodOf(e)
            /\ engine' = IF e.method = 0 THEN engine \cup {e.subchannel} ELSE engine
            /\ puller' = "submit"
            /\ UNCHANGED error
       ELSE /\ error' = "PULLER"
            /\ UNCHANGED <<cur, engine, puller>>
    /\ UNCHANGED <<lock, regVars, dmaVars, done, exiting, guest>>

(* pgraph.lock is taken, then pfifo.lock released, for the time PGRAPH     *)
(* executes the method.                                                    *)
PullerHandoff ==
    /\ Running /\ puller = "submit"
    /\ puller' = "method" /\ lock' = "none"
    /\ UNCHANGED <<pusher, regVars, dmaVars, error, cacheVars, pullVars, exiting, guest>>

MethodDone ==
    /\ Running /\ puller = "method"
    /\ puller' = "return" /\ done' = Append(done, cur)
    /\ UNCHANGED <<lock, pusher, regVars, dmaVars, error, cacheVars, engine, cur, exiting, guest>>

Puller == PullerAcquire \/ PullerWait \/ PullerPull \/ PullerHandoff \/ MethodDone

----------------------------------------------------------------------------
(* pfifo_write and user_write: a vCPU stores a register under the lock and *)
(* broadcasts both conditions.  REF stands for the registers no thread     *)
(* reads.                                                                  *)
GuestWrite(reg, val) ==
    /\ Running /\ lock = "none" /\ exiting = "no"
    /\ access' = IF reg \in Access THEN [access EXCEPT ![reg] = val] ELSE access
    /\ dmaGet' = IF reg = "DMA_GET" THEN val ELSE dmaGet
    /\ dmaPut' = IF reg = "DMA_PUT" THEN val ELSE dmaPut
    /\ Broadcast
    /\ UNCHANGED <<lock, dmaVars, error, cacheVars, pullVars, exiting>>

GuestScript ==
    /\ guest.made < Len(Prog.writes)
    /\ guest' = [guest EXCEPT !.made = @ + 1]
    /\ LET w == Prog.writes[guest.made + 1] IN GuestWrite(w.reg, w.val)

GuestToggle ==
    /\ guest.made >= Prog.setup
    /\ \E r \in FreeRegs : GuestWrite(r, ~access[r]) /\ UNCHANGED guest

(* nv2a_exitfn sets exiting and broadcasts without pfifo.lock, then joins. *)
ExitFlag ==
    /\ Running /\ MayExit /\ exiting = "no" /\ exiting' = "flagged"
    /\ UNCHANGED <<lock, pusher, puller, regVars, dmaVars, error, cacheVars, pullVars, guest>>

ExitBroadcast ==
    /\ Running /\ exiting = "flagged" /\ exiting' = "broadcast"
    /\ Broadcast
    /\ UNCHANGED <<lock, regVars, dmaVars, error, cacheVars, pullVars, guest>>

(* qemu_cond_wait may return without a signal.                             *)
SpuriousWakeup ==
    /\ Running
    /\ \/ pusher = "wait" /\ pusher' = "woken" /\ UNCHANGED puller
       \/ puller = "wait" /\ puller' = "woken" /\ UNCHANGED pusher
    /\ UNCHANGED <<lock, regVars, dmaVars, error, cacheVars, pullVars, exiting, guest>>

Next ==
    \/ Pusher \/ Puller \/ GuestScript \/ GuestToggle
    \/ ExitFlag \/ ExitBroadcast \/ SpuriousWakeup

(* The host schedules the threads and the vCPU, and one that contends for  *)
(* a mutex that is released again and again gets it.  PGRAPH finishes its  *)
(* methods.                                                                *)
Fairness ==
    /\ WF_vars(Pusher) /\ SF_vars(PusherAcquire)
    /\ WF_vars(Puller) /\ SF_vars(PullerAcquire)
    /\ SF_vars(GuestScript)
    /\ WF_vars(ExitBroadcast)

Spec == Init /\ [][Next]_vars
FairSpec == Spec /\ Fairness

----------------------------------------------------------------------------
(* CACHE1 with the pointers g and p holds Held entries, the i-th at At.    *)
Held(g, p, empty) == IF empty THEN 0 ELSE IF g < p THEN p - g ELSE CacheSize - g + p
At(g, i) == IF g + i - 1 < CacheSize THEN g + i - 1 ELSE g + i - 1 - CacheSize

(* GET = PUT is ambiguous: the marks must tell an empty CACHE1 from a full *)
(* one, never claim both, and be up to date at every step of either thread.*)
MarksTell ==
    /\ ~(low /\ high)
    /\ get = put <=> (low \/ high)

(* No lost wakeup.  A thread asleep on its condition has nothing it could  *)
(* do: whatever gives it work - a doorbell, an access bit, a word pushed   *)
(* into the empty cache, an entry pulled from the full one - has signalled.*)
NoLostWakeup ==
    /\ pusher = "wait" => ~MayPush \/ dmaGet = dmaPut \/ Full
    /\ puller = "wait" => ~access["PULL0"] \/ low

(* The lock discipline: a thread inside its run loop holds pfifo.lock, so  *)
(* the two loops never touch CACHE1 together.                              *)
LockHeld ==
    /\ pusher = "run" <=> lock = "pusher"
    /\ puller \in {"run", "submit"} <=> lock = "puller"

(* Every method the guest wrote reaches PGRAPH once, in order, with its    *)
(* own parameter: what was executed, what the puller holds and what CACHE1 *)
(* holds are a prefix of what the program means, however the pusher was    *)
(* suspended in mid-method.                                                *)
InFlight == IF puller \in {"submit", "method"} THEN <<cur>> ELSE <<>>
Unpulled == [i \in 1 .. Held(get, put, low) |-> MethodOf(slot[At(get, i)])]
Stream == done \o InFlight \o Unpulled
StreamInOrder ==
    LET e == Prog.expect IN
    Running => /\ Len(Stream) <= Len(e)
               /\ Stream = SubSeq(e, 1, Len(Stream))

(* PFIFO is a bounded first-in first-out queue of methods: CACHE1 with its *)
(* marks, the two threads and their lock implement MethodQueue, whatever   *)
(* the interleaving.                                                       *)
Q == INSTANCE MethodQueue WITH Capacity <- CacheSize, queue <- Unpulled,
                               busy <- InFlight, up <- Running
IsMethodQueue == Q!Spec

(* If the guest leaves the three access bits set from some time on, and    *)
(* the device is not unplugged, all the methods it queued are executed; a  *)
(* bad command ends the emulator with the error the code names for it, and *)
(* a good program never does, however the pusher was suspended.            *)
Open == exiting = "no" /\ \A r \in Access : access[r]
AllExecuted == <>[]Open => <>[](error = Prog.ends /\ (Running => done = Prog.expect))

(* A thread asleep when nv2a_exitfn raises its flag is woken and ends, so  *)
(* that it can be joined, unless the other's error ends the emulator.      *)
SleepersExit ==
    /\ (exiting = "flagged" /\ pusher = "wait") ~> (~Running \/ pusher = "exited")
    /\ (exiting = "flagged" /\ puller = "wait") ~> (~Running \/ puller = "exited")
=============================================================================
