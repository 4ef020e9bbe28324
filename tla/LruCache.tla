------------------------------ MODULE LruCache ------------------------------
(* What lru.h promises: the keys in the cache, most recently used first.   *)
(* A lookup brings its key to the front; if the key is new and the cache   *)
(* is full, the least recently used key makes room.                        *)
EXTENDS Integers, Sequences

CONSTANT Keys
VARIABLES recent, capacity

Init == recent = <<>> /\ capacity \in Nat \ {0}

Lookup(k) ==
    LET others == SelectSeq(recent, LAMBDA x : x # k)
    IN recent' = <<k>> \o SubSeq(others, 1, IF Len(others) < capacity THEN Len(others)
                                           ELSE capacity - 1)

Flush == recent' = <<>>

(* A lookup of the most recently used key changes nothing.                 *)
Next ==
    /\ recent' # recent /\ UNCHANGED capacity
    /\ Flush \/ \E k \in Keys : Lookup(k)

Spec == Init /\ [][Next]_<<recent, capacity>>
=============================================================================
