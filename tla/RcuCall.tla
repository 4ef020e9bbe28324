------------------------------ MODULE RcuCall ------------------------------
(***************************************************************************)
(* call_rcu (util/rcu.c): callers put the objects they have removed into a   *)
(* queue that many fill and one thread, call_rcu_thread, empties; it waits   *)
(* for a grace period with the synchronize_rcu of Rcu and then runs the      *)
(* callbacks, under the big QEMU lock.                                       *)
(*                                                                         *)
(* The node of an object is named by its version.  The thread registers as   *)
(* a reader of RCU but is in no critical section, so that its record, always *)
(* quiescent, is left out.                                                   *)
(***************************************************************************)
EXTENDS Rcu

CONSTANTS
  Callers,
  Locked,         \* the callers that call with the BQL
  CallThread,     \* an updater of Rcu
  Dummy, NULL,
  Tries,          \* how often the thread waits for more callbacks (5)
  RCU_CALL_MIN_SIZE,   \* how many it does not wait for (30)
  Casts           \* who takes part, and how many objects are removed

ASSUME RcuCallAssumption ==
  /\ CallThread \in Updaters /\ Locked \subseteq Callers
  /\ CallThread \notin Callers /\ NoThread \notin Callers
  /\ Dummy \notin Versions /\ NULL \notin Versions /\ Dummy # NULL
  /\ Tries \in Nat /\ RCU_CALL_MIN_SIZE \in Nat
  /\ Casts \subseteq [readers : SUBSET Readers, callers : SUBSET Callers, objects : 0 .. MaxVersion]

VARIABLES
  next, head, tail,         \* the queue; `tail` names the node that has it
  rcu_call_count,
  ready,                    \* rcu_call_ready_event
  caller,                   \* where a caller is, its node, and old_tail
  pc,                       \* where the thread is
  n, tries, node,           \* its local variables
  attempt,                  \* which of its three calls of try_dequeue it is in,
                            \* 0 while it waits for callbacks
  bql,
  aborted,
  cast                      \* constant in a behaviour

queueVars == <<next, head, tail>>
localVars == <<n, tries, node, attempt>>
callVars == <<queueVars, rcu_call_count, ready, caller, pc, localVars, bql, aborted, cast>>
vars == <<rcuVars, callVars>>

Idle == [at |-> "idle", node |-> NULL, old |-> NULL]

Init ==
  /\ RcuInit
  /\ next = [v \in {Dummy} |-> NULL]
  /\ head = Dummy /\ tail = Dummy
  /\ rcu_call_count = 0 /\ ready = "FREE"
  /\ caller = [w \in Callers |-> Idle]
  /\ pc = "count" /\ n = 0 /\ tries = 0 /\ node = NULL /\ attempt = 0
  /\ bql = NoThread /\ aborted = FALSE /\ cast \in Casts

Goto(place) == pc' = place
CallerGo(w, place) == caller' = [caller EXCEPT ![w].at = place]
Link(from, to) == next' = [v \in DOMAIN next \cup {from} |-> IF v = from THEN to ELSE next[v]]

---------------------------------------------------------------------------
(* The caller removes an object and calls call_rcu1 *)

CallerRemove(w) ==
  /\ caller[w].at = "idle" /\ w \in cast.callers /\ ptr < cast.objects
  /\ IF w \in Locked THEN bql = NoThread /\ bql' = w ELSE UNCHANGED bql
  /\ Remove(CallThread)
  /\ caller' = [caller EXCEPT ![w] = [Idle EXCEPT !.at = "exchange", !.node = ptr]]
  /\ UNCHANGED <<queueVars, rcu_call_count, ready, pc, localVars, aborted, cast>>

(* enqueue: node->next, and the exchange of tail *)
CallerExchange(w) ==
  LET v == caller[w].node
  IN /\ caller[w].at = "exchange"
     /\ Link(v, NULL)
     /\ tail' = v
     /\ caller' = [caller EXCEPT ![w].at = "link", ![w].old = tail]
     /\ UNCHANGED <<rcuVars, head, rcu_call_count, ready, pc, localVars, bql, aborted, cast>>

CallerLink(w) ==
  /\ caller[w].at = "link"
  /\ Link(caller[w].old, caller[w].node)
  /\ CallerGo(w, "count")
  /\ UNCHANGED <<rcuVars, head, tail, rcu_call_count, ready, pc, localVars, bql, aborted, cast>>

CallerCount(w) ==
  /\ caller[w].at = "count"
  /\ rcu_call_count' = rcu_call_count + 1
  /\ CallerGo(w, "set")
  /\ UNCHANGED <<rcuVars, queueVars, ready, pc, localVars, bql, aborted, cast>>

CallerReturn(w) ==
  /\ caller' = [caller EXCEPT ![w] = Idle]
  /\ bql' = IF bql = w THEN NoThread ELSE bql

(* Mutant: there is nobody to wake as long as the event is not busy.         *)
SetOnlyBusy == ready = "BUSY"

(* qemu_event_set does something *)
MustSet == ready # "SET"

(* qemu_event_set of rcu_call_ready_event *)
CallerSet(w) ==
  /\ \/ /\ caller[w].at = "set" /\ UNCHANGED ready
        /\ IF MustSet THEN CallerGo(w, "swap") /\ UNCHANGED bql ELSE CallerReturn(w)
        /\ UNCHANGED pc
     \/ /\ caller[w].at = "swap" /\ ready' = "SET"
        /\ IF ready = "BUSY" THEN CallerGo(w, "wake") /\ UNCHANGED bql ELSE CallerReturn(w)
        /\ UNCHANGED pc
     \/ /\ caller[w].at = "wake" /\ UNCHANGED ready
        /\ CallerReturn(w)
        /\ Goto(IF pc = "asleep" THEN IF attempt = 0 THEN "recount" ELSE "try" ELSE pc)
  /\ UNCHANGED <<rcuVars, queueVars, rcu_call_count, localVars, aborted, cast>>

Caller(w) ==
  CallerExchange(w) \/ CallerLink(w) \/ CallerCount(w) \/ CallerSet(w)

---------------------------------------------------------------------------
(* call_rcu_thread *)

(* n is fetched, at first and again in the loop *)
ReadCount ==
  /\ pc \in {"count", "recount"}
  /\ n' = rcu_call_count
  /\ tries' = IF pc = "count" THEN 0 ELSE tries
  /\ Goto("test")
  /\ UNCHANGED <<rcuVars, queueVars, rcu_call_count, ready, caller, node, attempt, bql, aborted, cast>>

(* Mutant: what is about to be run stays counted.                            *)
StillCounted == rcu_call_count

(* atomic_sub *)
CountLeft == rcu_call_count - n

Pile == n > 0 /\ n < RCU_CALL_MIN_SIZE /\ tries < Tries

(* The loop that waits for callbacks *)
PileUp ==
  /\ pc = "test"
  /\ IF n = 0 THEN Goto("reset") /\ UNCHANGED <<tries, rcu_call_count>>
     ELSE IF Pile THEN Goto("recount") /\ tries' = tries + 1 /\ UNCHANGED rcu_call_count
     ELSE /\ Goto("sync")
          /\ rcu_call_count' = CountLeft
          /\ UNCHANGED tries
  /\ UNCHANGED <<rcuVars, queueVars, ready, caller, n, node, attempt, bql, aborted, cast>>

(* The BQL is released for as long as a node is not linked *)
ReleaseBql ==
  /\ pc = "unlock"
  /\ bql' = NoThread
  /\ Goto("reset")
  /\ UNCHANGED <<rcuVars, queueVars, rcu_call_count, ready, caller, localVars, aborted, cast>>

(* qemu_event_reset: before a sleep, and before try_dequeue is tried again   *)
(* without the BQL                                                           *)
ResetReady ==
  /\ pc = "reset"
  /\ ready' = IF ready = "SET" THEN "FREE" ELSE ready
  /\ IF attempt = 0 THEN Goto("again") /\ UNCHANGED attempt
     ELSE Goto("try") /\ attempt' = 2
  /\ UNCHANGED <<rcuVars, queueVars, rcu_call_count, caller, n, tries, node, bql, aborted, cast>>

(* n is fetched again between the reset and the wait *)
ReadAgain ==
  /\ pc = "again"
  /\ n' = rcu_call_count
  /\ Goto(IF n' = 0 THEN "wait" ELSE "recount")
  /\ UNCHANGED <<rcuVars, queueVars, rcu_call_count, ready, caller, tries, node,
                 attempt, bql, aborted, cast>>

(* what comes after the wait *)
Woken == IF attempt = 0 THEN "recount" ELSE "try"

(* qemu_event_wait of rcu_call_ready_event *)
WaitReady ==
  /\ \/ /\ pc = "wait" /\ UNCHANGED ready
        /\ Goto(CASE ready = "SET"  -> Woken
                  [] ready = "FREE" -> "swap"
                  [] ready = "BUSY" -> "futex")
     \/ /\ pc = "swap"
        /\ ready' = IF ready = "FREE" THEN "BUSY" ELSE ready
        /\ Goto(IF ready = "SET" THEN Woken ELSE "futex")
     \/ /\ pc = "futex" /\ UNCHANGED ready
        /\ Goto(IF ready = "BUSY" THEN "asleep" ELSE Woken)
  /\ UNCHANGED <<rcuVars, queueVars, rcu_call_count, caller, localVars, bql, aborted, cast>>

(* synchronize_rcu, then the BQL *)
Synchronize ==
  /\ pc = "sync" /\ synchronize_rcu(CallThread)
  /\ Goto("grace")
  /\ UNCHANGED <<queueVars, rcu_call_count, ready, caller, localVars, bql, aborted, cast>>

Grace == SyncStep(CallThread) /\ UNCHANGED callVars

(* Mutant: the callbacks that came during the grace period are run too.      *)
CountAll == n' = n + rcu_call_count /\ rcu_call_count' = 0

(* only what was fetched before synchronize_rcu is run *)
Counted == UNCHANGED <<n, rcu_call_count>>

TakeBql ==
  /\ pc = "grace" /\ at[CallThread] = "out" /\ bql = NoThread
  /\ bql' = CallThread
  /\ Counted
  /\ Goto("try") /\ attempt' = 1
  /\ UNCHANGED <<rcuVars, queueVars, ready, caller, tries, node, aborted, cast>>

(* try_dequeue: the test for an empty queue *)
TryTest ==
  /\ pc = "try"
  /\ IF head = Dummy /\ tail = Dummy
       THEN aborted' = TRUE /\ Goto("aborted")
       ELSE UNCHANGED aborted /\ Goto("next")
  /\ UNCHANGED <<rcuVars, queueVars, rcu_call_count, ready, caller, localVars, bql, cast>>

(* What it is tried again after: the BQL is released after the first call,   *)
(* the event awaited after the second, the BQL taken and released after the  *)
(* third                                                                     *)
NotYet == CASE attempt = 1 -> "unlock" [] attempt = 2 -> "wait" [] attempt = 3 -> "lock"

(* the node is linked already, or not; the dummy goes back to the end *)
TryNext ==
  /\ pc = "next"
  /\ IF next[head] = NULL
       THEN /\ Goto(NotYet)
            /\ attempt' = 3
            /\ UNCHANGED <<head, node>>
       ELSE /\ head' = next[head]
            /\ IF head = Dummy THEN Goto("requeue") /\ UNCHANGED node
               ELSE Goto(IF attempt = 1 THEN "run" ELSE "lock") /\ node' = head
            /\ UNCHANGED attempt
  /\ UNCHANGED <<rcuVars, next, tail, rcu_call_count, ready, caller, n, tries, bql, aborted, cast>>

Requeue ==
  /\ \/ /\ pc = "requeue"
        /\ Link(Dummy, NULL) /\ tail' = Dummy /\ node' = tail
        /\ Goto("relink")
     \/ /\ pc = "relink"
        /\ Link(node, Dummy) /\ node' = NULL
        /\ Goto("try")
        /\ UNCHANGED tail
  /\ UNCHANGED <<rcuVars, head, rcu_call_count, ready, caller, n, tries, attempt, bql, aborted, cast>>

RetakeBql ==
  /\ pc = "lock" /\ bql = NoThread
  /\ bql' = CallThread
  /\ Goto(IF node = NULL THEN "unlock" ELSE "run")
  /\ UNCHANGED <<rcuVars, queueVars, rcu_call_count, ready, caller, localVars, aborted, cast>>

(* node->func(node), which frees the object, and the end of the loop *)
RunCallback ==
  /\ pc = "run"
  /\ n' = n - 1
  /\ freed' = freed \cup {node}
  /\ removed' = [removed EXCEPT ![CallThread] = @ \ {node}]
  /\ batch' = [batch EXCEPT ![CallThread] = @ \ {node}]
  /\ next' = [v \in DOMAIN next \ {node} |-> next[v]]
  /\ node' = NULL
  /\ IF n > 1 THEN Goto("try") /\ attempt' = 1 /\ UNCHANGED bql
     ELSE Goto("count") /\ attempt' = 0 /\ bql' = NoThread
  /\ UNCHANGED <<registry, qsreaders, readerVars, waiting, at, rcu_gp_event,
                 rcu_registry_lock, syncVars, ptr, head, tail, rcu_call_count,
                 ready, caller, tries, aborted, cast>>

call_rcu_thread ==
  \/ ReadCount \/ PileUp \/ ReleaseBql \/ ResetReady \/ ReadAgain \/ WaitReady
  \/ Synchronize \/ Grace \/ TakeBql
  \/ TryTest \/ TryNext \/ Requeue \/ RetakeBql \/ RunCallback

Next ==
  \/ \E t \in cast.readers : Reader(t) /\ UNCHANGED callVars
  \/ \E w \in Callers : CallerRemove(w) \/ Caller(w)
  \/ call_rcu_thread

Spec == Init /\ [][Next]_vars

(* The threads are scheduled, and readers leave their critical sections,     *)
(* however often they enter nested ones                                      *)
FairSpec ==
  /\ Spec
  /\ \A t \in Readers :
       /\ WF_vars(ReaderLeaves(t) /\ UNCHANGED callVars)
       /\ SF_vars(depth[t] < 2 /\ ReaderLeaves(t) /\ UNCHANGED callVars)
  /\ \A w \in Callers : WF_vars(Caller(w))
  /\ WF_vars(call_rcu_thread)

---------------------------------------------------------------------------
(* The thread never finds the queue empty, "which we do not expect": the     *)
(* callbacks that were counted are in the queue, whatever is half done.      *)
NoAbort == ~aborted

(* Every callback runs after a grace period that began when its object had   *)
(* been removed, although the nodes at the head of the queue need not be the *)
(* ones that were counted.  This makes the thread a client of Rcu: what it   *)
(* reclaims, Reclaim may.                                                    *)
AfterGrace == pc = "run" => at[CallThread] = "out" /\ node \in batch[CallThread]

(* Every object that was passed to call_rcu1 is reclaimed: there is an end   *)
(* to the removals, and nothing is left.                                     *)
CallbacksRun == []<>(removed[CallThread] = {})
=============================================================================
