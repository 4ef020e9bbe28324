------------------------------ MODULE MCPfifo ------------------------------
(* Guest programs and small bounds for Pfifo.                              *)
EXTENDS Pfifo

MCRamht == [h \in {1, 2} |-> 10 * h]

Inc(m, n)    == [op |-> "inc", method |-> m, subchannel |-> 0, count |-> n, value |-> 0]
NonInc(m, n) == [op |-> "non_inc", method |-> m, subchannel |-> 0, count |-> n, value |-> 0]
Jump(a)      == [op |-> "jump", to |-> a, value |-> 0]
Call(a)      == [op |-> "call", to |-> a, value |-> 0]
Ret          == [op |-> "return", value |-> 7]
Data(v)      == [op |-> "data", value |-> v]
M(m, v)      == [method |-> m, subchannel |-> 0, parameter |-> v]

Load(q) == [a \in Words |-> IF a < Len(q) THEN q[a + 1] ELSE Data(99)]
Put(a)  == [reg |-> "DMA_PUT", val |-> a]
Bit(r, b) == [reg |-> r, val |-> b]
Enable == <<Bit("PUSH0", TRUE), Bit("DMA_PUSH", TRUE), Bit("PULL0", TRUE)>>

(* One method command longer than the cache, kicked in mid-method; an      *)
(* increasing method that wraps its address.                               *)
Straight ==
    [words  |-> Load(<<Inc(0, 1), Data(1), NonInc(256, 3), Data(5), Data(6), Data(7),
                       Inc(8188, 2), Data(2), Data(1)>>),
     writes |-> Enable \o <<Put(4), Put(6), Put(9)>>,
     setup  |-> 3,
     expect |-> <<M(0, 10), M(256, 5), M(256, 6), M(256, 7), M(8188, 2), M(0, 10)>>,
     ends   |-> NoneError]

(* A subroutine called twice, a jump back to reused space, and a set-up    *)
(* that starts the stream away from zero with the pusher off.              *)
Subroutines ==
    [words  |-> Load(<<Inc(384, 1), Data(2), Ret, Inc(0, 1), Data(1), Call(0),
                       Call(0), Jump(9), Data(99), Inc(256, 0)>>),
     writes |-> <<[reg |-> "DMA_GET", val |-> 3], Put(3), [reg |-> "REF", val |-> 1]>>
                  \o Enable \o <<Put(6), Put(10)>>,
     setup  |-> 6,
     expect |-> <<M(0, 10), M(384, 20), M(384, 20)>>,
     ends   |-> NoneError]

Bad(q, e, err) == [words |-> Load(q), writes |-> Enable \o <<Put(6)>>, setup |-> 3, expect |-> e,
                   ends |-> err]
NestedCall  == Bad(<<Inc(0, 1), Data(1), Call(3), Call(3), Inc(256, 1), Data(5)>>,
                   <<M(0, 10)>>, "CALL")
StrayReturn == Bad(<<Inc(0, 1), Data(1), Ret, Inc(256, 1), Data(5), Ret>>,
                   <<M(0, 10)>>, "RETURN")
Reserved    == Bad(<<Inc(0, 1), Data(1), Data(3), Inc(256, 1), Data(5), Ret>>,
                   <<M(0, 10)>>, "RESERVED_CMD")
Protection  == Bad(<<Inc(0, 1), Data(1), Jump(DmaLen), Inc(256, 1), Data(5), Ret>>,
                   <<M(0, 10)>>, "PROTECTION")
Unbound     == Bad(<<Inc(256, 1), Data(3), Inc(256, 1), Data(5), Inc(0, 1), Data(1)>>,
                   <<M(256, 3), M(256, 5), M(0, 10)>>, "PULLER")

MCPrograms ==
    [straight |-> Straight, subroutines |-> Subroutines, nested |-> NestedCall,
     stray |-> StrayReturn, reserved |-> Reserved, protection |-> Protection,
     unbound |-> Unbound]
=============================================================================
