---------------------------- MODULE CpuExclusive ----------------------------
(***************************************************************************)
(* Exclusive sections of the vCPU threads (cpus-common.c).                 *)
(*                                                                         *)
(* A vCPU executes guest code between cpu_exec_start and cpu_exec_end.     *)
(* These take no lock on their fast path: they store `running` and then    *)
(* read `pending_cpus`, while start_exclusive stores `pending_cpus` and    *)
(* then reads every `running`.  Each access to one of the two outside the  *)
(* lock is a step of its own here, and so is each turn of the loop over    *)
(* the CPUs; what a thread does between taking and releasing               *)
(* qemu_cpu_list_lock without such an access is one step.  The barriers    *)
(* of the code (smp_mb) make the interleaving of these steps the right     *)
(* model of memory.                                                        *)
(***************************************************************************)
EXTENDS Integers, FiniteSets

CONSTANT CPUs            \* the vCPUs, one thread each

ASSUME CPUsAssumption == IsFiniteSet(CPUs)

VARIABLES
  pc,             \* where the thread of a CPU is
  running,        \* CPUState.running
  has_waiter,     \* CPUState.has_waiter
  exit_request,   \* CPUState.exit_request, set by a kick
  pending_cpus,
  listLock,       \* qemu_cpu_list_lock is held across steps
  cpus,           \* the list of CPUs
  toScan,         \* the CPUs that the loop of start_exclusive has yet to visit
  running_cpus    \* the local of start_exclusive that counts in this loop

cpuVars == <<pc, running, has_waiter, exit_request, pending_cpus, listLock, cpus,
             toScan, running_cpus>>

(* The places of a thread: "new" before cpu_list_add; "added" in its         *)
(* finish_safe_work; "out" outside both kinds of section; "start..." inside  *)
(* cpu_exec_start; "exec" executing guest code; "end..." inside              *)
(* cpu_exec_end; "excl..." inside start_exclusive; "exclusive" after it      *)
(* returned.  "...Idle" and "exclWait" are sleeps in qemu_cond_wait,         *)
(* "...Woken" is after the wakeup, before the lock is retaken.               *)
Places == {"new", "added", "out",
           "startRead", "startLock", "startIdle", "startWoken",
           "exec", "endRead", "endLock",
           "exclLock", "exclIdle", "exclIdleWoken", "exclScan", "exclWait",
           "exclWoken", "exclusive"}

ExclInit ==
  /\ cpus \in SUBSET CPUs
  /\ pc = [c \in CPUs |-> IF c \in cpus THEN "out" ELSE "new"]
  /\ running = [c \in CPUs |-> FALSE]
  /\ has_waiter = [c \in CPUs |-> FALSE]
  /\ exit_request = [c \in CPUs |-> FALSE]
  /\ pending_cpus = 0
  /\ listLock = FALSE
  /\ toScan = {}
  /\ running_cpus = 0

GotoPc(c, place) == pc' = [pc EXCEPT ![c] = place]

---------------------------------------------------------------------------
(* cpu_exec_start *)

ExecStart(c) ==
  /\ pc[c] \in {"out", "added"}
  /\ running' = [running EXCEPT ![c] = TRUE]
  /\ GotoPc(c, "startRead")
  /\ UNCHANGED <<has_waiter, exit_request, pending_cpus, listLock, cpus, toScan,
                 running_cpus>>

StartRead(c) ==
  /\ pc[c] = "startRead"
  /\ GotoPc(c, IF pending_cpus = 0 THEN "exec" ELSE "startLock")
  /\ UNCHANGED <<running, has_waiter, exit_request, pending_cpus, listLock, cpus,
                 toScan, running_cpus>>

(* Mutant: a CPU that nobody counted runs beside the section.               *)
CountedWrongly(c) == TRUE

(* has_waiter, as both slow paths test it: start_exclusive saw this CPU     *)
(* running and counts on its report                                         *)
Counted(c) == has_waiter[c]

(* exclusive_idle as seen from cpu_exec_start: sleep while an exclusive      *)
(* section is pending, otherwise set running with the lock held              *)
StartIdle(c) ==
  /\ running' = [running EXCEPT ![c] = (pending_cpus = 0)]
  /\ GotoPc(c, IF pending_cpus = 0 THEN "exec" ELSE "startIdle")

StartLock(c) ==
  /\ pc[c] = "startLock"
  /\ ~listLock
  /\ IF Counted(c) THEN GotoPc(c, "exec") /\ UNCHANGED running
                      ELSE StartIdle(c)
  /\ UNCHANGED <<has_waiter, exit_request, pending_cpus, listLock, cpus, toScan,
                 running_cpus>>

StartWoken(c) ==
  /\ pc[c] = "startWoken"
  /\ ~listLock
  /\ StartIdle(c)
  /\ UNCHANGED <<has_waiter, exit_request, pending_cpus, listLock, cpus, toScan,
                 running_cpus>>

---------------------------------------------------------------------------
(* The end of cpu_exec and cpu_exec_end.  cpu_exec consumes the exit request *)
(* when that is why it returns; it stays when there was another reason, and  *)
(* so does one that is made between the two.                                 *)

ExecEnd(c) ==
  /\ pc[c] = "exec"
  /\ running' = [running EXCEPT ![c] = FALSE]
  /\ exit_request' \in {exit_request, [exit_request EXCEPT ![c] = FALSE]}
  /\ GotoPc(c, "endRead")
  /\ UNCHANGED <<has_waiter, pending_cpus, listLock, cpus, toScan, running_cpus>>

EndRead(c) ==
  /\ pc[c] = "endRead"
  /\ GotoPc(c, IF pending_cpus = 0 THEN "out" ELSE "endLock")
  /\ UNCHANGED <<running, has_waiter, exit_request, pending_cpus, listLock, cpus,
                 toScan, running_cpus>>

(* Mutant: the waiter is signalled one report too late.                     *)
LastReportLate == pending_cpus - 1 = 0

LastReport == pending_cpus - 1 = 1

(* At most one thread sleeps on exclusive_cond: qemu_cond_signal wakes it.   *)
EndLock(c) ==
  LET last == Counted(c) /\ LastReport
  IN /\ pc[c] = "endLock"
     /\ ~listLock
     /\ has_waiter' = [has_waiter EXCEPT ![c] = FALSE]
     /\ pending_cpus' = IF Counted(c) THEN pending_cpus - 1 ELSE pending_cpus
     /\ pc' = [d \in CPUs |->
                 IF d = c THEN "out"
                 ELSE IF last /\ pc[d] = "exclWait" THEN "exclWoken" ELSE pc[d]]
     /\ UNCHANGED <<running, exit_request, listLock, cpus, toScan, running_cpus>>

---------------------------------------------------------------------------
(* start_exclusive and end_exclusive *)

ExclCall(c) ==
  /\ pc[c] = "out"
  /\ GotoPc(c, "exclLock")
  /\ UNCHANGED <<running, has_waiter, exit_request, pending_cpus, listLock, cpus,
                 toScan, running_cpus>>

(* exclusive_idle, then the first store to pending_cpus, keeping the lock *)
ExclLock(c) ==
  /\ pc[c] \in {"exclLock", "exclIdleWoken"}
  /\ ~listLock
  /\ IF pending_cpus = 0
       THEN /\ pending_cpus' = 1
            /\ listLock' = TRUE
            /\ toScan' = cpus
            /\ running_cpus' = 0
            /\ GotoPc(c, "exclScan")
       ELSE /\ GotoPc(c, "exclIdle")
            /\ UNCHANGED <<pending_cpus, listLock, toScan, running_cpus>>
  /\ UNCHANGED <<running, has_waiter, exit_request, cpus>>

(* Mutant: the running CPU is not kicked.                                   *)
NoKick(other) == UNCHANGED exit_request

(* qemu_cpu_kick, of which cpu_exit is the part that a running CPU notices  *)
Kick(other) == exit_request' = [exit_request EXCEPT ![other] = TRUE]

(* One turn of CPU_FOREACH.  The order of the list is left open. *)
ExclScan(c, other) ==
  /\ pc[c] = "exclScan"
  /\ other \in toScan
  /\ toScan' = toScan \ {other}
  /\ IF running[other]
       THEN /\ has_waiter' = [has_waiter EXCEPT ![other] = TRUE]
            /\ running_cpus' = running_cpus + 1
            /\ Kick(other)
       ELSE UNCHANGED <<has_waiter, exit_request, running_cpus>>
  /\ UNCHANGED <<pc, running, pending_cpus, listLock, cpus>>

(* The end of the loop and the first test of the wait *)
ExclCount(c) ==
  /\ pc[c] = "exclScan"
  /\ toScan = {}
  /\ pending_cpus' = running_cpus + 1
  /\ listLock' = FALSE
  /\ GotoPc(c, IF pending_cpus' > 1 THEN "exclWait" ELSE "exclusive")
  /\ UNCHANGED <<running, has_waiter, exit_request, cpus, toScan, running_cpus>>

ExclWoken(c) ==
  /\ pc[c] = "exclWoken"
  /\ ~listLock
  /\ GotoPc(c, IF pending_cpus > 1 THEN "exclWait" ELSE "exclusive")
  /\ UNCHANGED <<running, has_waiter, exit_request, pending_cpus, listLock, cpus,
                 toScan, running_cpus>>

(* What the broadcast of exclusive_resume does to a thread *)
Resumed(place) ==
  CASE place = "startIdle" -> "startWoken"
    [] place = "exclIdle"  -> "exclIdleWoken"
    [] OTHER               -> place

(* end_exclusive *)
ExclEnd(c) ==
  /\ pc[c] = "exclusive"
  /\ ~listLock
  /\ pending_cpus' = 0
  /\ pc' = [d \in CPUs |->
              IF d = c THEN "out" ELSE Resumed(pc[d])]
  /\ UNCHANGED <<running, has_waiter, exit_request, listLock, cpus, toScan,
                 running_cpus>>

---------------------------------------------------------------------------
(* cpu_list_add, which goes on to finish_safe_work, a cpu_exec_start and a   *)
(* cpu_exec_end made by the thread that plugs the CPU in; and                *)
(* cpu_list_remove of a CPU whose thread has ended.                          *)

ListAdd(c) ==
  /\ pc[c] = "new"
  /\ ~listLock
  /\ cpus' = cpus \cup {c}
  /\ GotoPc(c, "added")
  /\ UNCHANGED <<running, has_waiter, exit_request, pending_cpus, listLock, toScan,
                 running_cpus>>

ListRemove(c) ==
  /\ pc[c] = "out"
  /\ ~listLock
  /\ cpus' = cpus \ {c}
  /\ GotoPc(c, "new")
  /\ UNCHANGED <<running, has_waiter, exit_request, pending_cpus, listLock, toScan,
                 running_cpus>>

(* qemu_cond_wait may return without a signal *)
SpuriousWakeup(c) ==
  /\ pc[c] \in {"startIdle", "exclIdle", "exclWait"}
  /\ GotoPc(c, IF pc[c] = "exclWait" THEN "exclWoken" ELSE Resumed(pc[c]))
  /\ UNCHANGED <<running, has_waiter, exit_request, pending_cpus, listLock, cpus,
                 toScan, running_cpus>>

ExclNext ==
  \E c \in CPUs :
    \/ ExecStart(c) \/ StartRead(c) \/ StartLock(c) \/ StartWoken(c)
    \/ ExecEnd(c) \/ EndRead(c) \/ EndLock(c)
    \/ ExclCall(c) \/ ExclLock(c) \/ (\E other \in CPUs : ExclScan(c, other))
    \/ ExclCount(c) \/ ExclWoken(c) \/ ExclEnd(c)
    \/ ListAdd(c) \/ ListRemove(c) \/ SpuriousWakeup(c)

(* A CPU must leave guest code only when it was kicked.  Whoever is inside a *)
(* call goes on, an exclusive section ends, and a lock that is released      *)
(* again and again is obtained.                                              *)
ExclFairness ==
  \A c \in CPUs :
    /\ WF_cpuVars(\/ StartRead(c) \/ EndRead(c)
                  \/ exit_request[c] /\ ExecEnd(c)
                  \/ ExclCount(c) \/ \E other \in CPUs : ExclScan(c, other))
    /\ SF_cpuVars(\/ StartLock(c) \/ StartWoken(c) \/ EndLock(c)
                  \/ ExclLock(c) \/ ExclWoken(c) \/ ExclEnd(c))

ExclSpec == ExclInit /\ [][ExclNext]_cpuVars

ExclFairSpec == ExclSpec /\ ExclFairness

---------------------------------------------------------------------------
(* Every variable has a value of its type. *)
TypeOK ==
  /\ pc \in [CPUs -> Places]
  /\ running \in [CPUs -> BOOLEAN]
  /\ has_waiter \in [CPUs -> BOOLEAN]
  /\ exit_request \in [CPUs -> BOOLEAN]
  /\ pending_cpus \in Nat
  /\ listLock \in BOOLEAN
  /\ cpus \in SUBSET CPUs
  /\ toScan \in SUBSET cpus
  /\ running_cpus \in Nat

(* While a thread is between start_exclusive and end_exclusive, no other CPU *)
(* executes guest code, and no other thread is in such a section.            *)
Exclusion ==
  \A c, d \in CPUs :
    c # d /\ pc[c] = "exclusive" => pc[d] \notin {"exec", "exclusive"}

Waiters == {c \in CPUs : has_waiter[c]}

Starting == {"exclScan", "exclWait", "exclWoken"}

(* A thread sleeps in start_exclusive only while CPUs it counted are still   *)
(* to report, and in exclusive_idle only while a section is pending: the     *)
(* wakeup that ends the sleep is yet to come.                                *)
SleepHasReason ==
  \A c \in CPUs :
    /\ pc[c] = "exclWait" =>
         /\ pending_cpus > 1
         /\ pending_cpus = 1 + Cardinality(Waiters)
    /\ pc[c] \in {"startIdle", "exclIdle"} =>
         \E d \in CPUs : pc[d] \in Starting \cup {"exclusive"}

(* The CPUs counted by start_exclusive leave guest code and report, so the   *)
(* section it announced begins.                                              *)
SectionBegins == \A c \in CPUs : pc[c] \in Starting ~> pc[c] = "exclusive"
=============================================================================
