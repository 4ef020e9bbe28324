------------------------------ MODULE MCVcpus ------------------------------
(* Two vCPUs and the main thread *)
EXTENDS Vcpus, TLC

CONSTANTS a, b

Pair == {a, b}

Item(id, by, to, kind) == [id |-> id, by |-> by, to |-> to, kind |-> kind]

(* The main thread runs a function on one vCPU, which has the other flush    *)
(* its translations; a vCPU flushes its own while the main thread pauses     *)
(* both; a vCPU flushes the TLB of the other.                                *)
MCWorkloads ==
  {[requests |-> {Item(1, Main, a, "sync"), Item(2, a, b, "safe")}, pauses |-> FALSE],
   [requests |-> {Item(1, a, a, "safe")}, pauses |-> TRUE],
   [requests |-> {Item(1, a, b, "async")}, pauses |-> FALSE]}
=============================================================================
