---------------------------- MODULE TextureCache ----------------------------
(***************************************************************************)
(* The texture cache of PGRAPH: lru.c with the callbacks of nv2a_pgraph.c, *)
(* and pgraph_bind_textures, which gives each texture unit a reference to  *)
(* a GL texture that the cache may drop while the unit still uses it.      *)
(*                                                                         *)
(* The puller runs all of it under pgraph.lock.  The vCPU writes texture   *)
(* memory at any time, also between the hashing of a texture and its       *)
(* upload.  A texture's content is its hash (two contents of one shape are *)
(* taken not to collide); textures of different shapes may share a hash.   *)
(***************************************************************************)
EXTENDS Integers, Sequences, FiniteSets, Functions

CONSTANTS
    Setups,         \* entries (512), texture units (4), and whether the guest
                    \* leaves memory alone that the puller is reading
    Null,
    Bindings,       \* addresses g_malloc may give a TextureBinding
    Locations,      \* places in memory a texture may be at
    Shapes, Hashes

ASSUME SetupsAssumption ==
    Setups \subseteq [entries : Nat \ {0}, units : Nat \ {0}, waits : BOOLEAN]
ASSUME NullAssumption == Null \notin Nat /\ Null \notin Bindings

VARIABLES
    setup,      \* the one of Setups the machine has; it does not change
    lru,        \* the two lists: active, free, and next of every node
    entry,      \* the TextureKey around each node: hash, shape, binding
    refcnt,     \* of every binding; 0 when it is not allocated
    image,      \* what was uploaded to it
    regs,       \* per unit: enabled, location, shape
    dirty,      \* texture_dirty
    bound,      \* texture_binding
    mem,        \* the content of each location
    at,         \* pgraph_bind_textures: the unit it is at, and the hash
    fresh       \* history: unit was bound and nothing it reads has changed

vars == <<setup, lru, entry, refcnt, image, regs, dirty, bound, mem, at, fresh>>
cacheVars == <<lru, entry, refcnt, image>>

Nodes == 1 .. setup.entries
UnitSet == 0 .. setup.units - 1
Idle == [pc |-> "idle", unit |-> 0, hash |-> Null]
Dead == [Idle EXCEPT !.pc = "destroyed"]
NoImage == [hash |-> Null, shape |-> Null]
NoEntry == [hash |-> Null, shape |-> Null, binding |-> Null]

----------------------------------------------------------------------------
(* The nodes of a list in order.                                           *)
Chain(head, next) ==
    LET nth[k \in Nodes] ==
          IF k = 1 THEN head ELSE IF nth[k - 1] = Null THEN Null ELSE next[nth[k - 1]]
        len == Cardinality({k \in Nodes : nth[k] # Null})
    IN [k \in 1 .. len |-> nth[k]]
Active == Chain(lru.active, lru.next)

AddFree(l, n) == [l EXCEPT !.next[n] = l.free, !.free = n]

Promote(l, prev, n) == [l EXCEPT !.next[prev] = l.next[n], !.next[n] = l.active, !.active = n]

(* Mutant: the first node is evicted, the most recently used one.          *)
EvictFirst(l, chain) == AddFree([l EXCEPT !.active = l.next[l.active]], l.active)

(* The last node is unlinked from the active list and freed.               *)
Evict(l, chain) ==
    LET n == chain[Len(chain)] IN
    AddFree(IF Len(chain) = 1 THEN [l EXCEPT !.active = Null]
            ELSE [l EXCEPT !.next[chain[Len(chain) - 1]] = l.next[n]], n)

Alloc(l) == [l EXCEPT !.free = l.next[l.free], !.next[l.free] = l.active, !.active = l.free]

(* Mutant: the hash alone decides.                                         *)
SameHash(n, hash, shape) == entry[n].hash = hash

(* The fast hash compare, then texture_cache_entry_compare.                *)
Matches(n, hash, shape) == entry[n].hash = hash /\ entry[n].shape = shape

----------------------------------------------------------------------------
(* pgraph_init: every entry of the array is added to the free list.        *)
Init ==
    /\ setup \in Setups
    /\ lru = [active |-> Null, free |-> setup.entries,
              next |-> [n \in Nodes |-> IF n = 1 THEN Null ELSE n - 1]]
    /\ entry = [n \in Nodes |-> NoEntry]
    /\ refcnt = [b \in Bindings |-> 0]
    /\ image = [b \in Bindings |-> NoImage]
    /\ regs \in [UnitSet -> [enabled : {FALSE}, loc : Locations, shape : Shapes]]
    /\ dirty = [i \in UnitSet |-> FALSE] /\ fresh = dirty
    /\ bound = [i \in UnitSet |-> Null]
    /\ mem \in [Locations -> Hashes]
    /\ at = Idle

(* texture_binding_destroy: the binding is freed with its last reference.  *)
Drop(r, b) == [r EXCEPT ![b] = @ - 1]
Freed(images) == image' = [b \in Bindings |-> IF refcnt'[b] = 0 THEN NoImage ELSE images[b]]

(* pgraph_bind_textures, for one unit after the other.                     *)
Advance == at' = [pc |-> "unit", unit |-> at.unit + 1, hash |-> Null]

BeginDraw ==
    /\ at.pc = "idle" /\ at' = [Idle EXCEPT !.pc = "unit"]
    /\ UNCHANGED <<cacheVars, regs, dirty, bound, mem, fresh>>

EndDraw ==
    /\ at.pc = "unit" /\ at.unit = setup.units /\ at' = Idle
    /\ UNCHANGED <<cacheVars, regs, dirty, bound, mem, fresh>>

(* A unit that is off, or whose texture was not changed, is left alone.    *)
Skips(i) == ~regs[i].enabled \/ (~dirty[i] /\ bound[i] # Null)

SkipUnit ==
    /\ at.pc = "unit" /\ at.unit \in UnitSet /\ Skips(at.unit)
    /\ Advance
    /\ UNCHANGED <<cacheVars, regs, dirty, bound, mem, fresh>>

HashTexture ==
    /\ at.pc = "unit" /\ at.unit \in UnitSet /\ ~Skips(at.unit)
    /\ at' = [at EXCEPT !.pc = "lookup", !.hash = mem[regs[at.unit].loc]]
    /\ UNCHANGED <<cacheVars, regs, dirty, bound, mem, fresh>>

(* Mutant: the reference a unit had is dropped before it takes the new one,*)
(* and the new one is not counted if the unit had none.                    *)
BindUncounted(i, b, refs) ==
    /\ refcnt' = IF bound[i] = Null THEN refs ELSE Drop([refs EXCEPT ![b] = @ + 1], bound[i])
    /\ bound' = [bound EXCEPT ![i] = b]

Bind(i, b, refs) ==
    LET counted == [refs EXCEPT ![b] = @ + 1] IN
    /\ refcnt' = IF bound[i] = Null THEN counted ELSE Drop(counted, bound[i])
    /\ bound' = [bound EXCEPT ![i] = b]

Bound(i) ==
    /\ dirty' = [dirty EXCEPT ![i] = FALSE] /\ fresh' = [fresh EXCEPT ![i] = TRUE]
    /\ Advance /\ UNCHANGED <<regs, mem>>

(* lru_lookup finds the texture.                                           *)
LookupHit ==
    LET i == at.unit
        chain == Active
        hits == {k \in DOMAIN chain : Matches(chain[k], at.hash, regs[i].shape)}
        k == CHOOSE j \in hits : \A h \in hits : j <= h
    IN /\ at.pc = "lookup" /\ hits # {}
       /\ lru' = IF k = 1 THEN lru ELSE Promote(lru, chain[k - 1], chain[k])
       /\ Bind(i, entry[chain[k]].binding, refcnt)
       /\ Bound(i) /\ Freed(image) /\ UNCHANGED entry

(* lru_lookup does not: a node is evicted if none is free, and the texture *)
(* is uploaded as it now is in memory.                                     *)
LookupMiss ==
    LET i == at.unit
        chain == Active
        full == lru.free = Null
        l == IF full THEN Evict(lru, chain) ELSE lru
        refs == IF full THEN Drop(refcnt, entry[l.free].binding) ELSE refcnt
    IN /\ at.pc = "lookup"
       /\ \A n \in Range(chain) : ~Matches(n, at.hash, regs[i].shape)
       /\ lru' = Alloc(l)
       /\ \E b \in {x \in Bindings : refs[x] = 0} :
            /\ entry' = [entry EXCEPT ![l.free] =
                           [hash |-> at.hash, shape |-> regs[i].shape, binding |-> b]]
            /\ Bind(i, b, [refs EXCEPT ![b] = 1])
            /\ Freed([image EXCEPT ![b] = [shape |-> regs[i].shape, hash |-> mem[regs[i].loc]]])
       /\ Bound(i)

----------------------------------------------------------------------------
(* SET_TEXTURE_OFFSET, FORMAT, IMAGE_RECT and PALETTE mark the unit dirty; *)
(* CONTROL0 and CONTROL1, which switch it on and off and hold the levels   *)
(* and the pitch of its shape, do not.                                     *)
SetTexture(i, loc, shape) ==
    /\ at.pc = "idle"
    /\ regs' = [regs EXCEPT ![i].loc = loc, ![i].shape = shape]
    /\ dirty' = [dirty EXCEPT ![i] = TRUE] /\ fresh' = [fresh EXCEPT ![i] = FALSE]
    /\ UNCHANGED <<cacheVars, bound, mem, at>>

SetControl(i, enabled, shape) ==
    /\ at.pc = "idle"
    /\ regs' = [regs EXCEPT ![i].enabled = enabled, ![i].shape = shape]
    /\ fresh' = [fresh EXCEPT ![i] = @ /\ shape = regs[i].shape]
    /\ UNCHANGED <<cacheVars, dirty, bound, mem, at>>

(* The vCPU stores to texture memory; no unit is marked dirty.             *)
MemWrite(loc, hash) ==
    /\ at.pc # "destroyed" /\ (setup.waits => at.pc = "idle") /\ hash # mem[loc]
    /\ mem' = [mem EXCEPT ![loc] = hash]
    /\ fresh' = [i \in UnitSet |-> fresh[i] /\ regs[i].loc # loc]
    /\ UNCHANGED <<cacheVars, regs, dirty, bound, at>>

(* pgraph_destroy: lru_flush empties the active list onto the free list.   *)
Destroy ==
    LET chain == Active IN
    /\ at.pc = "idle" /\ at' = Dead
    /\ lru' = [active |-> Null,
               free |-> IF chain = <<>> THEN lru.free ELSE chain[Len(chain)],
               next |-> [n \in Nodes |->
                           IF \E k \in DOMAIN chain : chain[k] = n
                           THEN LET k == CHOOSE k \in DOMAIN chain : chain[k] = n
                                IN IF k = 1 THEN lru.free ELSE chain[k - 1]
                           ELSE lru.next[n]]]
    /\ refcnt' = [b \in Bindings |->
                    refcnt[b] - Cardinality({n \in Range(chain) : entry[n].binding = b})]
    /\ Freed(image)
    /\ UNCHANGED <<entry, regs, dirty, bound, mem, fresh>>

Destroyed == at = Dead /\ UNCHANGED vars

Next ==
    /\ \/ BeginDraw \/ EndDraw \/ SkipUnit \/ HashTexture \/ LookupHit \/ LookupMiss
       \/ \E i \in UnitSet, loc \in Locations, shape \in Shapes : SetTexture(i, loc, shape)
       \/ \E i \in UnitSet, e \in BOOLEAN, shape \in Shapes : SetControl(i, e, shape)
       \/ \E loc \in Locations, hash \in Hashes : MemWrite(loc, hash)
       \/ Destroy \/ Destroyed
    /\ UNCHANGED setup

Spec == Init /\ [][Next]_vars

----------------------------------------------------------------------------
(* The count of a binding is the number of cache entries and units that    *)
(* have it, so a texture is deleted when, and only when, neither the cache *)
(* nor a unit uses it any more; the assertion of texture_binding_destroy   *)
(* holds.                                                                  *)
RefcountExact ==
    LET cached == Range(Active) IN
    \A b \in Bindings :
      refcnt[b] = Cardinality({n \in cached : entry[n].binding = b})
                  + Cardinality({i \in UnitSet : bound[i] = b})

(* If the guest waits for the puller before it reuses texture memory, a    *)
(* unit that was bound draws with the texture it names, as long as nothing *)
(* but the other units, the cache and the unit's switch has changed: a hit *)
(* gives the right texture and an eviction never takes it away.            *)
UnitsCurrent ==
    setup.waits => \A i \in UnitSet : fresh[i] =>
      bound[i] # Null /\ image[bound[i]] = [shape |-> regs[i].shape, hash |-> mem[regs[i].loc]]

(* The linked lists implement the cache lru.h describes.                   *)
Recent == LET a == Active IN
          [k \in DOMAIN a |-> [hash |-> entry[a[k]].hash, shape |-> entry[a[k]].shape]]
L == INSTANCE LruCache WITH Keys <- [hash : Hashes, shape : Shapes], capacity <- setup.entries,
                            recent <- Recent
IsLruCache == L!Spec
=============================================================================
