----------------------------- MODULE MCRcuCall -----------------------------
(* An instance of RcuCall: callers that compete for the queue, a reader that *)
(* outlives grace periods, two readers that a grace period waits for        *)
EXTENDS RcuCall, TLC

CONSTANTS reader1, reader2, caller1, caller2

MCCasts == {[readers |-> {}, callers |-> {caller1, caller2}, objects |-> 3],
            [readers |-> {reader1}, callers |-> {caller2}, objects |-> 2],
            [readers |-> {reader1, reader2}, callers |-> {caller2}, objects |-> 1]}
=============================================================================
