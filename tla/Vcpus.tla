------------------------------- MODULE Vcpus -------------------------------
(***************************************************************************)
(* The vCPU threads of multi-threaded TCG (cpus.c), the work that is queued *)
(* for them (cpus-common.c), and the main thread that runs functions on     *)
(* them, pauses and resumes them.                                          *)
(*                                                                         *)
(* The exclusive sections are those of CpuExclusive, whose steps are taken  *)
(* here from the loop of qemu_tcg_cpu_thread_fn.  What is added is the big  *)
(* QEMU lock, the queues, and the three conditions on which the threads     *)
(* sleep with that lock: halt_cond, qemu_work_cond and qemu_pause_cond.     *)
(***************************************************************************)
EXTENDS CpuExclusive, Sequences

CONSTANTS
  Main,         \* the main loop
  Workloads     \* what may be queued, each request at most once, and whether
                \* the main thread also pauses and resumes the vCPUs

NoOne == "no one"
Threads == CPUs \cup {Main}

(* run_on_cpu ("sync", made with the BQL), async_run_on_cpu ("async") and    *)
(* async_safe_run_on_cpu ("safe"), both also made from guest code without it *)
Request == [id : Nat, by : Threads, to : CPUs, kind : {"sync", "async", "safe"}]

ASSUME ThreadsAssumption == Main \notin CPUs /\ NoOne \notin Threads

ASSUME WorkloadsAssumption ==
  /\ \A w \in Workloads : w.requests \subseteq Request /\ w.pauses \in BOOLEAN
  /\ \A r \in UNION {w.requests : w \in Workloads} :
       /\ r.kind = "sync" => r.by # r.to
       /\ r.kind # "sync" => r.by \in CPUs

VARIABLES
  workload,       \* the one of Workloads this is; it does not change
  at,             \* where a thread is, outside CpuExclusive
  bql,            \* who holds the big QEMU lock
  queue,          \* queued_work_first .. queued_work_last of each CPU
  cur,            \* the request a thread is posting, waiting for or running
  posted, done,   \* requests that were queued, and that have been run
  halted, stop, stopped

exclVars == <<pc, running, has_waiter, pending_cpus, listLock, cpus, toScan,
              running_cpus>>
workVars == <<queue, cur, posted, done>>
runVars  == <<halted, stop, stopped>>
vars == <<exclVars, exit_request, at, bql, workVars, runVars>>

(* The places of a vCPU thread: "loop" the head of its loop; "enter" to      *)
(* "guest" around cpu_exec, "mmio" at a device access; "relock" after it;    *)
(* "atomic" cpu_exec_step_atomic, "atomicMmio" and "atomicDevice" at a       *)
(* device access of it, before and after the BQL is taken, "relockAtomic"    *)
(* after it; "wait" qemu_wait_io_event, "sleepy" after its test, "halt"      *)
(* asleep, "haltWoken" woken; "work" in process_queued_cpu_work, "safe" and  *)
(* "safeRelock" around an exclusive item.  "start" is before the loop.       *)
(* Those of whoever posts: "kick" before qemu_cpu_kick, "workWait" asleep on *)
(* qemu_work_cond, "workWoken" woken.  Those of the main thread: "idle",     *)
(* "pauseWait", "pauseWoken", "paused".                                      *)
(* qemu_init_vcpu leaves every vCPU stopped, until vm_start resumes them.    *)
Init ==
  /\ workload \in Workloads
  /\ ExclInit
  /\ cpus = CPUs
  /\ at = [t \in Threads |-> IF t = Main THEN "paused" ELSE "start"]
  /\ bql = NoOne
  /\ queue = [c \in CPUs |-> <<>>]
  /\ cur = [t \in Threads |-> NoOne]
  /\ posted = {} /\ done = {}
  /\ halted = [c \in CPUs |-> FALSE]
  /\ stop = [c \in CPUs |-> FALSE]
  /\ stopped = [c \in CPUs |-> TRUE]

Goto(t, place) == at' = [at EXCEPT ![t] = place]

(* Taking the BQL, for an instant or to keep it *)
Free == bql = NoOne
Keep(t) == bql' = t
Drop == bql' = NoOne

---------------------------------------------------------------------------
(* qemu_cpu_kick: the halted CPU is woken, the running one asked to leave    *)

Kicked(places, S) ==
  [t \in Threads |-> IF t \in S /\ places[t] = "halt" THEN "haltWoken"
                     ELSE places[t]]

(* Mutant: the vCPU is woken but not asked to leave guest code.              *)
KickHaltedOnly(S) == UNCHANGED exit_request

AskExit(S) == exit_request' = [c \in CPUs |-> exit_request[c] \/ c \in S]

---------------------------------------------------------------------------
(* qemu_tcg_cpu_thread_fn: one turn of the loop *)

(* the thread starts, takes the BQL and enters the loop *)
ThreadStart(c) ==
  /\ at[c] = "start" /\ Free
  /\ Keep(c) /\ Goto(c, "loop")
  /\ exit_request' = [exit_request EXCEPT ![c] = TRUE]
  /\ UNCHANGED <<exclVars, workVars, runVars>>

cpu_can_run(c) == ~stop[c] /\ ~stopped[c]

LoopRun(c) ==
  /\ at[c] = "loop" /\ cpu_can_run(c)
  /\ Drop /\ Goto(c, "enter")
  /\ UNCHANGED <<exclVars, exit_request, workVars, runVars>>

LoopSkip(c) ==
  /\ at[c] = "loop" /\ ~cpu_can_run(c)
  /\ exit_request' = [exit_request EXCEPT ![c] = FALSE]
  /\ Goto(c, "wait")
  /\ UNCHANGED <<exclVars, bql, workVars, runVars>>

CpuExecStart(c) ==
  /\ \/ at[c] = "enter" /\ ExecStart(c) /\ Goto(c, "guest")
     \/ (StartRead(c) \/ StartLock(c) \/ StartWoken(c)) /\ UNCHANGED at
  /\ UNCHANGED <<bql, workVars, runVars>>

(* cpu_exec returns: at once when halted, after a HLT, or for another reason *)
CpuExecReturn(c) ==
  /\ at[c] = "guest"
  /\ ExecEnd(c)
  /\ \E h \in BOOLEAN : halted' = [halted EXCEPT ![c] = halted[c] \/ h]
  /\ UNCHANGED <<at, bql, workVars, stop, stopped>>

(* A device access of guest code: io_readx and io_writex take the BQL, and   *)
(* a vCPU that waits for it does not leave guest code                        *)
MmioCall(c) ==
  /\ at[c] = "guest" /\ pc[c] = "exec" /\ ~halted[c]
  /\ Goto(c, "mmio")
  /\ UNCHANGED <<exclVars, exit_request, bql, workVars, runVars>>

Mmio(c) ==
  /\ at[c] = "mmio" /\ Free
  /\ Goto(c, "guest")
  /\ UNCHANGED <<exclVars, exit_request, bql, workVars, runVars>>

CpuExecEnd(c) ==
  /\ EndRead(c) \/ EndLock(c)
  /\ IF pc'[c] = "out" THEN Goto(c, "relock") ELSE UNCHANGED at
  /\ UNCHANGED <<bql, workVars, runVars>>

Relock(c) ==
  /\ at[c] \in {"relock", "relockAtomic"} /\ Free
  /\ Keep(c) /\ Goto(c, "wait")
  /\ exit_request' = [exit_request EXCEPT ![c] = FALSE]
  /\ UNCHANGED <<exclVars, workVars, runVars>>

(* cpu_exec returned EXCP_DEBUG: cpu_handle_guest_debug stops this vCPU, and *)
(* asks the main loop to pause the others                                    *)
DebugStop(c) ==
  /\ workload.pauses
  /\ at[c] = "relock" /\ Free /\ ~halted[c]
  /\ Keep(c) /\ Goto(c, "wait")
  /\ exit_request' = [exit_request EXCEPT ![c] = FALSE]
  /\ stopped' = [stopped EXCEPT ![c] = TRUE]
  /\ UNCHANGED <<exclVars, workVars, halted, stop>>

(* cpu_exec returned EXCP_ATOMIC: the BQL is taken and released again *)
StepAtomic(c) ==
  /\ at[c] = "relock" /\ Free /\ ~halted[c]
  /\ Goto(c, "atomic")
  /\ UNCHANGED <<exclVars, exit_request, bql, workVars, runVars>>

(* start_exclusive .. end_exclusive, for cpu_exec_step_atomic and for work *)
Exclusively(c) ==
  /\ \/ at[c] \in {"atomic", "safe"} /\ ExclCall(c)
     \/ ExclLock(c)
     \/ \E other \in CPUs : ExclScan(c, other)
     \/ ExclCount(c)
     \/ ExclWoken(c)
  /\ UNCHANGED <<at, bql, workVars, runVars>>

(* A fault while the block is looked up or translated: the siglongjmp ends   *)
(* cpu_exec_step_atomic before it called start_exclusive                     *)
AtomicFault(c) ==
  /\ at[c] = "atomic" /\ pc[c] = "out"
  /\ Goto(c, "relockAtomic")
  /\ UNCHANGED <<exclVars, exit_request, bql, workVars, runVars>>

(* A device access of the atomic step takes the BQL inside the section, and  *)
(* releases it when the access is over, or when a siglongjmp left it         *)
AtomicMmioCall(c) ==
  /\ at[c] = "atomic" /\ pc[c] = "exclusive"
  /\ Goto(c, "atomicMmio")
  /\ UNCHANGED <<exclVars, exit_request, bql, workVars, runVars>>

AtomicMmio(c) ==
  /\ at[c] = "atomicMmio" /\ Free
  /\ Keep(c) /\ Goto(c, "atomicDevice")
  /\ UNCHANGED <<exclVars, exit_request, workVars, runVars>>

AtomicMmioOver(c) ==
  /\ at[c] = "atomicDevice"
  /\ Drop /\ Goto(c, "atomic")
  /\ UNCHANGED <<exclVars, exit_request, workVars, runVars>>

ExclusiveEnd(c) ==
  /\ at[c] \in {"atomic", "safe"} /\ ExclEnd(c)
  /\ Goto(c, IF at[c] = "safe" THEN "safeRelock" ELSE "relockAtomic")
  /\ UNCHANGED <<bql, workVars, runVars>>

(* cpu_thread_is_idle, with cpu_has_work as the end of `halted` *)
Idle(c) ==
  /\ ~stop[c] /\ queue[c] = <<>>
  /\ stopped[c] \/ halted[c]

(* qemu_cond_wait on halt_cond comes after the test, and a kick made without *)
(* the BQL may fall between the two                                          *)
WaitIdle(c) ==
  /\ at[c] = "wait" /\ Idle(c)
  /\ Goto(c, "sleepy")
  /\ UNCHANGED <<exclVars, exit_request, bql, workVars, runVars>>

Halt(c) ==
  /\ at[c] = "sleepy"
  /\ Drop /\ Goto(c, "halt")
  /\ UNCHANGED <<exclVars, exit_request, workVars, runVars>>

HaltWoken(c) ==
  /\ at[c] = "haltWoken" /\ Free
  /\ Keep(c) /\ Goto(c, "wait")
  /\ UNCHANGED <<exclVars, exit_request, workVars, runVars>>

(* the broadcast of qemu_pause_cond *)
PauseWake(places) ==
  [places EXCEPT ![Main] = IF @ = "pauseWait" THEN "pauseWoken" ELSE @]

(* qemu_wait_io_event_common: qemu_cpu_stop, and the early return of         *)
(* process_queued_cpu_work when nothing is queued                            *)
WaitOver(c) ==
  LET next == [at EXCEPT ![c] = IF queue[c] = <<>> THEN "loop" ELSE "work"]
  IN /\ at[c] = "wait" /\ ~Idle(c)
     /\ stop' = [stop EXCEPT ![c] = FALSE]
     /\ stopped' = [stopped EXCEPT ![c] = @ \/ stop[c]]
     /\ at' = IF stop[c] THEN PauseWake(next) ELSE next
     /\ UNCHANGED <<exclVars, exit_request, bql, workVars, halted>>

---------------------------------------------------------------------------
(* process_queued_cpu_work *)

(* Mutant: the BQL is kept around the exclusive item.                       *)
SafeBqlKept(c) == UNCHANGED bql

SafeBql(c) == Drop

WorkItem(c) ==
  LET r == Head(queue[c])
  IN /\ at[c] = "work" /\ queue[c] # <<>>
     /\ queue' = [queue EXCEPT ![c] = Tail(@)]
     /\ IF r.kind = "safe"
          THEN /\ cur' = [cur EXCEPT ![c] = r]
               /\ SafeBql(c) /\ Goto(c, "safe")
               /\ UNCHANGED done
          ELSE /\ done' = done \cup {r}
               /\ UNCHANGED <<cur, bql, at>>
     /\ UNCHANGED <<exclVars, exit_request, posted, runVars>>

SafeDone(c) ==
  /\ at[c] = "safeRelock" /\ (Free \/ bql = c)
  /\ Keep(c) /\ Goto(c, "work")
  /\ done' = done \cup {cur[c]}
  /\ cur' = [cur EXCEPT ![c] = NoOne]
  /\ UNCHANGED <<exclVars, exit_request, queue, posted, runVars>>

(* Mutant: the waiters are not told.                                        *)
WorkSilent(places) == places

(* the broadcast of qemu_work_cond *)
WorkWake(places) ==
  [t \in Threads |-> IF places[t] = "workWait" THEN "workWoken" ELSE places[t]]

WorkOver(c) ==
  /\ at[c] = "work" /\ queue[c] = <<>>
  /\ at' = WorkWake([at EXCEPT ![c] = "loop"])
  /\ UNCHANGED <<exclVars, exit_request, bql, workVars, runVars>>

---------------------------------------------------------------------------
(* Posting work.  A vCPU posts from guest code: run_on_cpu from a device     *)
(* access or a helper that takes the BQL, the other two without it.          *)

MayPost(t, kind) ==
  IF t = Main THEN at[t] = "idle"
  ELSE /\ at[t] = IF kind = "sync" THEN "mmio" ELSE "guest"
       /\ pc[t] = "exec" /\ ~halted[t]

queue_work_on_cpu(t, r) ==
  /\ r \in workload.requests \ posted /\ r.by = t
  /\ MayPost(t, r.kind)
  /\ IF r.kind = "sync" THEN Free /\ Keep(t) ELSE UNCHANGED bql
  /\ posted' = posted \cup {r}
  /\ queue' = [queue EXCEPT ![r.to] = Append(@, r)]
  /\ cur' = [cur EXCEPT ![t] = r]
  /\ Goto(t, "kick")
  /\ UNCHANGED <<exclVars, exit_request, done, runVars>>

Home(t) == IF t = Main THEN "idle" ELSE "guest"

(* qemu_cpu_kick, and for run_on_cpu the first test and sleep on             *)
(* qemu_work_cond: the BQL is held since before the item was queued          *)
PostKick(t) ==
  LET r == cur[t]
  IN /\ at[t] = "kick"
     /\ AskExit({r.to})
     /\ IF r.kind = "sync"
          THEN /\ at' = Kicked([at EXCEPT ![t] = "workWait"], {r.to})
               /\ Drop /\ UNCHANGED cur
          ELSE /\ at' = Kicked([at EXCEPT ![t] = Home(t)], {r.to})
               /\ cur' = [cur EXCEPT ![t] = NoOne]
               /\ UNCHANGED bql
     /\ UNCHANGED <<exclVars, queue, posted, done, runVars>>

(* Mutant: run_on_cpu returns on any wakeup.                                *)
WakeIsDone(r) == TRUE

IsDone(r) == r \in done

PostWoken(t) ==
  /\ at[t] = "workWoken" /\ Free
  /\ IF IsDone(cur[t])
       THEN Goto(t, Home(t)) /\ cur' = [cur EXCEPT ![t] = NoOne]
       ELSE Goto(t, "workWait") /\ UNCHANGED cur
  /\ UNCHANGED <<exclVars, exit_request, bql, queue, posted, done, runVars>>

---------------------------------------------------------------------------
(* tcg_handle_interrupt, called with the BQL: the halted vCPU has work again *)
Interrupt(c) ==
  /\ halted[c] /\ Free
  /\ halted' = [halted EXCEPT ![c] = FALSE]
  /\ AskExit({c})
  /\ at' = Kicked(at, {c})
  /\ UNCHANGED <<exclVars, bql, workVars, stop, stopped>>

---------------------------------------------------------------------------
(* pause_all_vcpus and resume_all_vcpus, from the main thread *)

(* all_vcpus_paused, the test of the loop on qemu_pause_cond *)
Paused == IF \A c \in CPUs : stopped[c] THEN "paused" ELSE "pauseWait"

Pause ==
  /\ workload.pauses /\ at[Main] = "idle" /\ Free
  /\ stop' = [c \in CPUs |-> TRUE]
  /\ AskExit(CPUs)
  /\ at' = Kicked([at EXCEPT ![Main] = Paused], CPUs)
  /\ UNCHANGED <<exclVars, bql, workVars, halted, stopped>>

PauseWoken ==
  /\ at[Main] = "pauseWoken" /\ Free
  /\ AskExit(CPUs)
  /\ at' = Kicked([at EXCEPT ![Main] = Paused], CPUs)
  /\ UNCHANGED <<exclVars, bql, workVars, runVars>>

(* also of vm_start, which comes after qemu_init_vcpu saw every thread run *)
Resume ==
  /\ at[Main] = "paused" /\ Free
  /\ \A c \in CPUs : at[c] # "start"
  /\ stop' = [c \in CPUs |-> FALSE]
  /\ stopped' = [c \in CPUs |-> FALSE]
  /\ AskExit(CPUs)
  /\ at' = Kicked([at EXCEPT ![Main] = "idle"], CPUs)
  /\ UNCHANGED <<exclVars, bql, workVars, halted>>

---------------------------------------------------------------------------
Vcpu(c) ==
  \/ ThreadStart(c) \/ LoopRun(c) \/ LoopSkip(c) \/ CpuExecStart(c)
  \/ CpuExecReturn(c) \/ MmioCall(c) \/ Mmio(c) \/ CpuExecEnd(c) \/ Relock(c)
  \/ DebugStop(c) \/ StepAtomic(c) \/ AtomicFault(c)
  \/ AtomicMmioCall(c) \/ AtomicMmio(c) \/ AtomicMmioOver(c)
  \/ Exclusively(c) \/ ExclusiveEnd(c) \/ WaitIdle(c) \/ Halt(c) \/ HaltWoken(c)
  \/ WaitOver(c) \/ WorkItem(c) \/ SafeDone(c) \/ WorkOver(c)

Post(t) ==
  \/ \E r \in workload.requests : queue_work_on_cpu(t, r)
  \/ PostKick(t) \/ PostWoken(t)

Next ==
  /\ \/ \E c \in CPUs : Vcpu(c) \/ Interrupt(c)
     \/ \E t \in Threads : Post(t)
     \/ Pause \/ PauseWoken \/ Resume
  /\ UNCHANGED workload

(* A thread that holds a lock goes on; a lock that is released again and     *)
(* again is obtained; a vCPU leaves guest code when it is asked to, whatever *)
(* accesses it makes (every translation block begins with the test), or when *)
(* it is halted.  Nobody has to post or to pause, and a pause may last.      *)
Takes(c) ==
  \/ ThreadStart(c) \/ Relock(c) \/ HaltWoken(c) \/ SafeDone(c) \/ PostWoken(c)
  \/ Mmio(c) \/ AtomicMmio(c)
  \/ at[c] # "guest" /\ Exclusively(c)
  \/ ExclusiveEnd(c) \/ CpuExecStart(c) \/ CpuExecEnd(c)

Goes(c) ==
  \/ LoopRun(c) \/ LoopSkip(c) \/ WaitIdle(c) \/ Halt(c) \/ WaitOver(c)
  \/ WorkItem(c) \/ WorkOver(c) \/ PostKick(c) \/ AtomicMmioOver(c)

Leaves(c) == (exit_request[c] \/ halted[c]) /\ CpuExecReturn(c)

Fairness ==
  /\ \A c \in CPUs : WF_vars(Goes(c)) /\ SF_vars(Takes(c)) /\ SF_vars(Leaves(c))
  /\ WF_vars(PostKick(Main))
  /\ SF_vars(PostWoken(Main) \/ PauseWoken)

Spec == Init /\ [][Next]_<<workload, vars>>

FairSpec == Spec /\ Fairness

---------------------------------------------------------------------------
(* Asleep on, or about to retake, the lock of the exclusive sections *)
AwaitsSection == {"startIdle", "startWoken", "exclLock", "exclIdle", "exclIdleWoken",
                  "exclWait", "exclWoken"}

(* Work that runs "while all other vCPUs are sleeping" does: in an exclusive *)
(* section no other vCPU is in guest code.  Such an item runs outside the    *)
(* BQL, and so does everyone who waits for a section to begin or to end: an  *)
(* atomic step may need the BQL inside its own.                              *)
SafeWorkAlone ==
  \A c \in CPUs :
    /\ pc[c] = "exclusive" => \A d \in CPUs \ {c} : pc[d] # "exec"
    /\ at[c] = "safe" \/ pc[c] \in AwaitsSection => bql # c

(* The item of run_on_cpu lives on the stack of the caller: while it is in a *)
(* queue, and until its function has run, the caller has not returned.       *)
StackItemAlive ==
  \A r \in posted \ done : r.kind = "sync" =>
    at[r.by] \in {"kick", "workWait", "workWoken"} /\ cur[r.by] = r

(* A vCPU that executes guest code while work is queued for it has been, or  *)
(* is about to be, asked to leave: no order of queueing, kicking, clearing   *)
(* exit_request and processing leaves work behind a vCPU that keeps running. *)
RunnerKnowsOfWork ==
  \A c \in CPUs : pc[c] = "exec" /\ queue[c] # <<>> =>
    \/ exit_request[c]
    \/ \E t \in Threads : at[t] = "kick" /\ cur[t].to = c

(* exclusive_idle gives no order to the threads it wakes: a guest that       *)
(* executes atomic instructions for ever on one vCPU can keep another out.   *)
AtomicsCease == <>[](\A c \in CPUs : at[c] # "atomic")

(* A function passed to run_on_cpu runs, and the caller returns, unless      *)
(* atomic instructions go on for ever.                                       *)
Callers == {r.by : r \in {q \in UNION {w.requests : w \in Workloads} : q.kind = "sync"}}
SyncReturns ==
  AtomicsCease => \A t \in Callers : at[t] = "workWait" ~> at[t] = Home(t)

(* pause_all_vcpus returns, unless atomic instructions go on for ever.       *)
PauseCompletes == AtomicsCease => at[Main] = "pauseWait" ~> at[Main] = "paused"
=============================================================================
