----------------------------- MODULE MCCoRwlock -----------------------------
(* Instances of CoRwlock *)
EXTENDS CoRwlock, TLC

(* rename_lock of 9pfs, flush_rwlock of backup, the writes of vdi, and two   *)
(* with downgrade                                                            *)
Scripts == <<<<"rd", "un">>, <<"wr", "un">>, <<"wr", "down", "un">>, <<"rd", "up", "un">>,
             <<"rd", "un", "wr", "un">>, <<"rd", "up", "down", "un">>>>

(* Who has which script is of no consequence: they are dealt out in order.   *)
Dealt(n) ==
  {[c \in Coroutines |-> Scripts[k[c]]] :
     k \in {f \in [Coroutines -> 1..n] : \A c, d \in Coroutines : c < d => f[c] <= f[d]}}

All == Dealt(6)

(* the least that shows what downgrade does to the waiters *)
Few == Dealt(3)
=============================================================================
