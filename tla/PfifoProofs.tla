---------------------------- MODULE PfifoProofs ----------------------------
(* Proofs about Pfifo, for every cache size, program and guest.            *)
EXTENDS Pfifo, SequenceTheorems, TLAPS

(* What a step of PFIFO preserves.  NoLostWakeup needs MarksTell (a push   *)
(* wakes the puller exactly when the cache was marked empty) and LockHeld. *)
IInv == TypeOK /\ LockHeld /\ MarksTell /\ NoLostWakeup

USE CacheSizeAssumption, DmaLenAssumption, SMTT(60) DEF Access, Slots

LEMMA NextSlotType == ASSUME NEW s \in Slots PROVE NextSlot(s) \in Slots
  BY DEF NextSlot

LEMMA WordTypes ==
  ASSUME NEW w \in Word
  PROVE /\ w.value \in Nat
        /\ w.op \in {"inc", "non_inc"} =>
             w.method \in Nat /\ w.subchannel \in Nat /\ w.count \in Nat
        /\ w.op \in {"jump", "call"} => w.to \in Nat
  BY DEF Word

LEMMA ProgramTypes ==
  ASSUME TypeOK
  PROVE /\ \A a \in Words : Prog.words[a] \in Word
        /\ Prog.writes \in Seq(GuestWrites)
  <1>1. guest.program \in DOMAIN Programs
    BY DEF TypeOK
  <1>2. Prog \in Program
    BY <1>1, ProgramsAssumption DEF Prog
  <1> QED BY <1>2 DEF Program

LEMMA MethodOfType ==
  ASSUME NEW e \in Entries
  PROVE MethodOf(e) \in Entries
  BY RamhtAssumption DEF MethodOf, Entries

LEMMA InitIInv == Init => IInv
  <1> SUFFICES ASSUME Init PROVE IInv
    OBVIOUS
  <1>1. NoEntry \in Entries
    BY DEF NoEntry, Entries
  <1>2. done \in Seq(Entries)
    BY DEF Init
  <1>3. guest \in [program : DOMAIN Programs, made : Nat]
    BY DEF Init
  <1>4. TypeOK
    <2>1. slot \in [Slots -> Entries] /\ cur \in Entries
      BY <1>1 DEF Init
    <2>2. dmaState \in [inc : BOOLEAN, method : Nat, subchannel : Nat, count : Nat]
      BY DEF Init
    <2>3. subroutine \in [active : BOOLEAN, ret : Nat] /\ access \in [Access -> BOOLEAN]
      BY DEF Init
    <2>4. get \in Slots /\ put \in Slots
      BY DEF Init
    <2> QED BY ZenonT(60), <1>2, <1>3, <2>1, <2>2, <2>3, <2>4 DEF Init, TypeOK, Errors, NoneError
  <1>5. LockHeld /\ MarksTell /\ NoLostWakeup
    BY DEF Init, LockHeld, MarksTell, NoLostWakeup
  <1> QED BY <1>4, <1>5 DEF IInv

-----------------------------------------------------------------------------
LEMMA PusherAcquireStep == IInv /\ PusherAcquire => IInv'
  BY DEF IInv, PusherAcquire, PusherExit, MayPush, Full, TypeOK, LockHeld, MarksTell, NoLostWakeup,
     regVars, dmaVars, cacheVars, pullVars

LEMMA PusherWaitStep == IInv /\ PusherWait => IInv'
  BY DEF IInv, PusherWait, MayPush, Full, TypeOK, LockHeld, MarksTell, NoLostWakeup,
     regVars, dmaVars, cacheVars, pullVars

LEMMA PusherDataStep ==
  ASSUME IInv, NEW a \in Words, PusherData(Prog.words[a]) PROVE IInv'
  <1> DEFINE w == Prog.words[a]
  <1>1. w.value \in Nat
    BY ProgramTypes, WordTypes DEF IInv
  <1>2. NextSlot(put) \in Slots
    BY NextSlotType DEF IInv, TypeOK
  <1>3. dmaState' \in [inc : BOOLEAN, method : Nat, subchannel : Nat, count : Nat]
    <2>1. dmaState.method \in Nat /\ (dmaState.method + 4) % 8192 \in Nat
      BY DEF IInv, TypeOK
    <2>2. dmaState.count - 1 \in Nat
      <3>1. dmaState.count \in Nat
        BY DEF IInv, TypeOK
      <3>2. dmaState.count > 0
        BY DEF PusherData
      <3> QED BY <3>1, <3>2
    <2> DEFINE m == IF dmaState.inc THEN (dmaState.method + 4) % 8192 ELSE dmaState.method
    <2>3. m \in Nat
      BY <2>1
    <2> HIDE DEF m
    <2>4. dmaState' = [[dmaState EXCEPT !.method = m] EXCEPT !.count = dmaState.count - 1]
      BY DEF IInv, TypeOK, PusherData, m
    <2> QED BY ZenonT(60), <2>2, <2>3, <2>4 DEF IInv, TypeOK
  <1>4. slot' \in [Slots -> Entries]
    BY <1>1 DEF IInv, TypeOK, PusherData, PushEntry, Entries
  <1>5. puller' \in {puller, "woken"} /\ (low => puller' # "wait")
        /\ (puller' # puller => puller = "wait")
    BY DEF PusherData, PushEntry, SignalPuller, Woken
  <1>6. TypeOK'
    <2>1. put' \in Slots /\ get' \in Slots /\ low' \in BOOLEAN /\ high' \in BOOLEAN
      <3>1. /\ put' = NextSlot(put) /\ get' = get
            /\ high' = (high \/ Fills(NextSlot(put))) /\ low' = FALSE
        BY DEF PusherData, PushEntry
      <3> QED BY ZenonT(60), <1>2, <3>1 DEF IInv, TypeOK
    <2>2. puller' \in {"start", "run", "submit", "method", "return", "wait", "woken", "exited"}
      BY <1>5 DEF IInv, TypeOK
    <2>3. dmaGet' \in Nat
      <3>1. dmaGet \in Nat
        BY DEF IInv, TypeOK
      <3>2. dmaGet' = dmaGet + 1
        BY DEF PusherData
      <3> QED BY <3>1, <3>2
    <2>4. UNCHANGED <<lock, pusher, access, dmaPut, subroutine, error, engine, cur, done,
                      exiting, guest>>
      BY DEF PusherData, pullVars
    <2> QED BY <2>1, <2>2, <2>3, <2>4, <1>3, <1>4 DEF IInv, TypeOK
  <1>7. MarksTell'
    <2>1. ~high
      <3>1. dmaState.count > 0 /\ ~Full
        BY DEF PusherData
      <3> QED BY <3>1 DEF Full
    <2>2. /\ put' = NextSlot(put) /\ get' = get
          /\ high' = (high \/ NextSlot(put) = get) /\ low' = FALSE
      BY DEF PusherData, PushEntry, Fills
    <2> QED BY ZenonT(60), <2>1, <2>2 DEF MarksTell
  <1>8. LockHeld'
    BY <1>5 DEF IInv, TypeOK, LockHeld, PusherData
  <1>9. NoLostWakeup'
    BY <1>5 DEF IInv, TypeOK, NoLostWakeup, PusherData, PushEntry, Fetch
  <1> QED BY <1>6, <1>7, <1>8, <1>9 DEF IInv

LEMMA PusherCommandStep ==
  ASSUME IInv, NEW a \in Words,
         LET w == Prog.words[a] IN
           PusherMethods(w) \/ PusherJump(w) \/ PusherCall(w) \/ PusherReturn(w)
  PROVE IInv'
  <1> DEFINE w == Prog.words[a]
  <1>1. w \in Word
    BY ProgramTypes DEF IInv
  <1> HIDE DEF w
  <1>2. CASE PusherMethods(w)
    <2>1. dmaState' \in [inc : BOOLEAN, method : Nat, subchannel : Nat, count : Nat]
      BY <1>1, <1>2, WordTypes DEF PusherMethods
    <2>2. /\ dmaGet' = dmaGet + 1 /\ pusher = "run"
          /\ UNCHANGED <<lock, pusher, puller, access, dmaPut, subroutine, error, slot, get, put,
                         low, high, engine, cur, done, exiting, guest>>
      BY <1>2 DEF PusherMethods, Decoding, Fetch, cacheVars, pullVars
    <2>3. TypeOK'
      BY <2>1, <2>2 DEF IInv, TypeOK
    <2> QED BY <2>2, <2>3 DEF IInv, LockHeld, MarksTell, NoLostWakeup
  <1>3. CASE PusherJump(w)
    <2>1. dmaGet' \in Nat
      BY <1>1, <1>3, WordTypes DEF PusherJump
    <2>2. /\ pusher = "run"
          /\ UNCHANGED <<lock, pusher, puller, access, dmaPut, dmaState, subroutine, error, slot,
                         get, put, low, high, engine, cur, done, exiting, guest>>
      BY <1>3 DEF PusherJump, Decoding, Fetch, dmaVars, cacheVars, pullVars
    <2>3. TypeOK'
      BY <2>1, <2>2 DEF IInv, TypeOK
    <2> QED BY <2>2, <2>3 DEF IInv, LockHeld, MarksTell, NoLostWakeup
  <1>4. CASE PusherCall(w)
    <2>1. dmaGet' \in Nat
      BY ZenonT(60), <1>1, <1>4, WordTypes DEF PusherCall
    <2>2. subroutine' \in [active : BOOLEAN, ret : Nat]
      BY <1>4 DEF PusherCall, IInv, TypeOK
    <2> QED BY <1>4, <2>1, <2>2 DEF IInv, TypeOK, LockHeld, MarksTell, NoLostWakeup, PusherCall,
         Decoding, Fetch, cacheVars, pullVars
  <1>5. CASE PusherReturn(w)
    <2>1. dmaGet' \in Nat /\ subroutine' \in [active : BOOLEAN, ret : Nat]
      BY ZenonT(60), <1>5 DEF PusherReturn, IInv, TypeOK
    <2>2. /\ pusher = "run"
          /\ UNCHANGED <<lock, pusher, puller, access, dmaPut, dmaState, error, slot, get, put,
                         low, high, engine, cur, done, exiting, guest>>
      BY <1>5 DEF PusherReturn, Decoding, Fetch, cacheVars, pullVars
    <2>3. TypeOK'
      BY <2>1, <2>2 DEF IInv, TypeOK
    <2> QED BY <2>2, <2>3 DEF IInv, LockHeld, MarksTell, NoLostWakeup
  <1> QED BY <1>2, <1>3, <1>4, <1>5 DEF w

LEMMA PusherErrorStep == IInv /\ PusherError => IInv'
  <1> SUFFICES ASSUME IInv, PusherError PROVE IInv'
    OBVIOUS
  <1>1. error' \in Errors
    BY DEF PusherError, CommandError, Errors, NoneError
  <1>2. UNCHANGED <<lock, pusher, puller, access, dmaGet, dmaPut, dmaState, subroutine, slot, get,
                    put, low, high, engine, cur, done, exiting, guest>>
    BY DEF PusherError, regVars, dmaVars, cacheVars, pullVars
  <1>3. TypeOK'
    BY <1>1, <1>2 DEF IInv, TypeOK
  <1> QED BY <1>2, <1>3 DEF IInv, LockHeld, MarksTell, NoLostWakeup, MayPush, Full

-----------------------------------------------------------------------------
LEMMA PullerAcquireStep == IInv /\ PullerAcquire => IInv'
  BY DEF IInv, PullerAcquire, PullerExit, MayPush, Full, TypeOK, LockHeld, MarksTell, NoLostWakeup,
     regVars, dmaVars, cacheVars, pullVars

LEMMA PullerWaitStep == IInv /\ PullerWait => IInv'
  BY DEF IInv, PullerWait, MayPush, Full, TypeOK, LockHeld, MarksTell, NoLostWakeup,
     regVars, dmaVars, cacheVars, pullVars

LEMMA PullerPullStep == ASSUME IInv, PullerPull PROVE IInv'
  <1>1. NextSlot(get) \in Slots /\ slot[get] \in Entries
    BY NextSlotType DEF IInv, TypeOK
  <1>2. pusher' \in {pusher, "woken"} /\ (high => pusher' # "wait")
        /\ (pusher' # pusher => pusher = "wait")
    BY DEF PullerPull, PullEntry, SignalPusher, Woken
  <1>3. cur' \in Entries
    BY <1>1, MethodOfType DEF PullerPull, IInv, TypeOK
  <1>4. engine' \subseteq Nat
    <2>1. slot[get].subchannel \in Nat
      BY <1>1 DEF Entries
    <2>2. engine' = engine \/ engine' = engine \cup {slot[get].subchannel}
      BY DEF PullerPull
    <2> QED BY ZenonT(60), <2>1, <2>2 DEF IInv, TypeOK
  <1>5. puller' \in {puller, "submit"} /\ error' \in Errors
    BY DEF PullerPull, IInv, TypeOK, Errors, NoneError
  <1>6. TypeOK'
    <2>1. put' \in Slots /\ get' \in Slots /\ low' \in BOOLEAN /\ high' \in BOOLEAN
      BY ZenonT(60), <1>1 DEF IInv, TypeOK, PullerPull, PullEntry
    <2>2. UNCHANGED <<lock, access, dmaGet, dmaPut, dmaState, subroutine, slot, done, exiting, guest>>
      BY DEF PullerPull, PullEntry, regVars, dmaVars
    <2> QED BY <1>2, <1>3, <1>4, <1>5, <2>1, <2>2 DEF IInv, TypeOK
  <1>7. MarksTell'
    BY <1>1 DEF IInv, TypeOK, MarksTell, PullerPull, PullEntry, NextSlot
  <1>8. LockHeld'
    BY <1>2, <1>5 DEF IInv, TypeOK, LockHeld, PullerPull
  <1>9. NoLostWakeup'
    BY <1>2, <1>5 DEF IInv, TypeOK, NoLostWakeup, MayPush, Full, PullerPull, PullEntry,
       regVars, dmaVars
  <1> QED BY <1>6, <1>7, <1>8, <1>9 DEF IInv

LEMMA PullerHandoffStep == IInv /\ PullerHandoff => IInv'
  BY DEF IInv, PullerHandoff, MayPush, Full, TypeOK, LockHeld,
     MarksTell, NoLostWakeup, regVars, dmaVars, cacheVars, pullVars

LEMMA MethodDoneStep == ASSUME IInv, MethodDone PROVE IInv'
  <1>1. done' \in Seq(Entries)
    <2>1. done \in Seq(Entries) /\ cur \in Entries
      BY DEF IInv, TypeOK
    <2>2. done' = Append(done, cur)
      BY DEF MethodDone
    <2> HIDE DEF Entries
    <2> QED BY <2>1, <2>2
  <1>2. /\ puller = "method" /\ puller' = "return"
        /\ UNCHANGED <<lock, pusher, access, dmaGet, dmaPut, dmaState, subroutine, error, slot,
                       get, put, low, high, engine, cur, exiting, guest>>
    BY DEF MethodDone, regVars, dmaVars, cacheVars
  <1>3. TypeOK'
    BY <1>1, <1>2 DEF IInv, TypeOK
  <1> QED BY <1>2, <1>3 DEF IInv, MayPush, Full, LockHeld, MarksTell, NoLostWakeup

-----------------------------------------------------------------------------
LEMMA GuestWriteStep ==
  ASSUME IInv, NEW w \in GuestWrites, GuestWrite(w.reg, w.val),
         guest' \in [program : DOMAIN Programs, made : Nat]
  PROVE IInv'
  <1>1. access' \in [Access -> BOOLEAN] /\ dmaGet' \in Nat /\ dmaPut' \in Nat
    BY DEF IInv, TypeOK, GuestWrite, GuestWrites
  <1>2. pusher' \in {pusher, "woken"} /\ pusher' # "wait"
        /\ puller' \in {puller, "woken"} /\ puller' # "wait"
    BY DEF GuestWrite, Broadcast, Woken
  <1>3. pusher # "run" /\ puller \notin {"run", "submit"}
    BY DEF GuestWrite, IInv, LockHeld
  <1>4. UNCHANGED <<lock, dmaState, subroutine, error, slot, get, put, low, high, engine, cur,
                    done, exiting>>
    BY DEF GuestWrite, dmaVars, cacheVars, pullVars
  <1>5. TypeOK'
    BY <1>1, <1>2, <1>4 DEF IInv, TypeOK
  <1> QED BY <1>2, <1>3, <1>4, <1>5 DEF IInv, LockHeld, MarksTell, NoLostWakeup

LEMMA GuestScriptStep == ASSUME IInv, GuestScript PROVE IInv'
  <1> DEFINE w == Prog.writes[guest.made + 1]
  <1>1. guest.made + 1 \in 1 .. Len(Prog.writes)
    <2>1. Len(Prog.writes) \in Nat
      BY ProgramTypes DEF IInv
    <2>2. guest.made \in Nat
      BY DEF IInv, TypeOK
    <2> QED BY <2>1, <2>2 DEF GuestScript
  <1>2. w \in GuestWrites
    BY <1>1, ProgramTypes DEF IInv
  <1>3. guest' \in [program : DOMAIN Programs, made : Nat]
    <2>1. guest' = [guest EXCEPT !.made = @ + 1]
      BY DEF GuestScript
    <2>2. guest \in [program : DOMAIN Programs, made : Nat]
      BY DEF IInv, TypeOK
    <2>3. guest.made + 1 \in Nat
      BY <2>2
    <2> QED BY <2>1, <2>2, <2>3
  <1>4. GuestWrite(w.reg, w.val)
    BY DEF GuestScript
  <1> HIDE DEF w
  <1> QED BY <1>2, <1>3, <1>4, GuestWriteStep

LEMMA GuestToggleStep == ASSUME IInv, GuestToggle PROVE IInv'
  <1>1. PICK r \in FreeRegs : GuestWrite(r, ~access[r]) /\ UNCHANGED guest
    BY DEF GuestToggle
  <1> DEFINE w == [reg |-> r, val |-> ~access[r]]
  <1>2. w \in GuestWrites
    BY FreeRegsAssumption DEF GuestWrites
  <1>3. GuestWrite(w.reg, w.val)
    BY <1>1
  <1>4. guest' \in [program : DOMAIN Programs, made : Nat]
    BY <1>1 DEF IInv, TypeOK
  <1> HIDE DEF w
  <1> QED BY <1>2, <1>3, <1>4, GuestWriteStep

LEMMA ExitFlagStep == IInv /\ ExitFlag => IInv'
  BY DEF IInv, ExitFlag, MayPush, Full, TypeOK, LockHeld,
     MarksTell, NoLostWakeup, regVars, dmaVars, cacheVars, pullVars

LEMMA WakeupStep == ASSUME IInv, ExitBroadcast \/ SpuriousWakeup PROVE IInv'
  <1>1. pusher' \in {pusher, "woken"} /\ (pusher' # pusher => pusher = "wait")
        /\ puller' \in {puller, "woken"} /\ (puller' # puller => puller = "wait")
    BY DEF ExitBroadcast, SpuriousWakeup, Broadcast, Woken
  <1>2. exiting' \in {exiting, "broadcast"}
        /\ UNCHANGED <<lock, regVars, dmaVars, error, cacheVars, pullVars, guest>>
    BY DEF ExitBroadcast, SpuriousWakeup
  <1>3. UNCHANGED <<lock, access, dmaGet, dmaPut, dmaState, subroutine, error, slot, get, put, low,
                    high, engine, cur, done, guest>>
    BY <1>2 DEF regVars, dmaVars, cacheVars, pullVars
  <1>4. TypeOK'
    BY <1>1, <1>2, <1>3 DEF IInv, TypeOK
  <1>5. LockHeld'
    BY <1>1, <1>3 DEF IInv, LockHeld
  <1>6. MarksTell' /\ NoLostWakeup'
    BY <1>1, <1>3 DEF IInv, MarksTell, NoLostWakeup, MayPush, Full
  <1> QED BY <1>4, <1>5, <1>6 DEF IInv

LEMMA StutterStep == ASSUME IInv, UNCHANGED vars PROVE IInv'
  <1>1. /\ UNCHANGED <<lock, access, dmaGet, dmaPut, dmaState, subroutine, error, slot, get, put,
                       low, high, engine, cur, done, guest>>
        /\ UNCHANGED <<pusher, puller, exiting>>
    BY DEF vars, regVars, dmaVars, cacheVars, pullVars
  <1>2. TypeOK'
    BY <1>1 DEF IInv, TypeOK
  <1> QED BY <1>1, <1>2 DEF IInv, LockHeld, MarksTell, NoLostWakeup, MayPush, Full

LEMMA NextIInv == IInv /\ [Next]_vars => IInv'
  <1> SUFFICES ASSUME IInv, [Next]_vars PROVE IInv'
    OBVIOUS
  <1>1. CASE Pusher
    BY <1>1, PusherAcquireStep, PusherWaitStep, PusherErrorStep, PusherDataStep,
       PusherCommandStep DEF Pusher
  <1>2. CASE Puller
    BY <1>2, PullerAcquireStep, PullerWaitStep, PullerPullStep, PullerHandoffStep,
       MethodDoneStep DEF Puller
  <1> QED BY <1>1, <1>2, GuestScriptStep, GuestToggleStep, ExitFlagStep,
         WakeupStep, StutterStep DEF Next

(* The inductive invariant holds of every reachable state of PFIFO.        *)
THEOREM Invariance == Spec => []IInv
  BY InitIInv, NextIInv, PTL DEF Spec

-----------------------------------------------------------------------------
(* The variables of PFIFO keep their types: in particular GET and PUT stay *)
(* inside CACHE1, as the assertions of both run loops demand.              *)
THEOREM TypeCorrect == Spec => []TypeOK
  <1>1. IInv => TypeOK
    BY DEF IInv
  <1> QED BY <1>1, Invariance, PTL

(* The two marks always tell an empty CACHE1 from a full one.              *)
THEOREM MarksCorrect == Spec => []MarksTell
  <1>1. IInv => MarksTell
    BY DEF IInv
  <1> QED BY <1>1, Invariance, PTL

(* The run loops exclude each other under pfifo.lock.                      *)
THEOREM LockCorrect == Spec => []LockHeld
  <1>1. IInv => LockHeld
    BY DEF IInv
  <1> QED BY <1>1, Invariance, PTL

(* Neither thread ever sleeps with work to do, whatever the guest writes   *)
(* and whenever it writes it.                                              *)
THEOREM WakeupCorrect == Spec => []NoLostWakeup
  <1>1. IInv => NoLostWakeup
    BY DEF IInv
  <1> QED BY <1>1, Invariance, PTL

-----------------------------------------------------------------------------
(* PFIFO implements MethodQueue: CACHE1 read from GET round to PUT is the  *)
(* queue, a push appends to it, a pull takes its head off, and every other *)
(* step leaves it alone.                                                   *)

LEMMA HeldRange ==
  ASSUME NEW g \in Slots, NEW p \in Slots, NEW l \in BOOLEAN, NEW h \in BOOLEAN,
         ~(l /\ h), g = p <=> (l \/ h)
  PROVE /\ Held(g, p, l) \in 0 .. CacheSize
        /\ l <=> Held(g, p, l) = 0
        /\ h <=> Held(g, p, l) = CacheSize
  BY DEF Held

LEMMA AtType ==
  ASSUME NEW g \in Slots, NEW i \in 1 .. CacheSize
  PROVE At(g, i) \in Slots
  BY DEF At

(* The queue CACHE1 holds, as a sequence; stated of arbitrary registers so *)
(* that it applies before and after a step.                                *)
LEMMA UnpulledSeq ==
  ASSUME NEW g \in Slots, NEW n \in 0 .. CacheSize, NEW s \in [Slots -> Entries]
  PROVE LET u == [i \in 1 .. n |-> MethodOf(s[At(g, i)])] IN
        u \in Seq(Entries) /\ Len(u) = n
  <1>1. \A i \in 1 .. n : MethodOf(s[At(g, i)]) \in Entries
    BY AtType, MethodOfType
  <1> HIDE DEF Entries
  <1> QED BY <1>1

(* A push appends to what CACHE1 holds.                                    *)
LEMMA PushAppends ==
  ASSUME IInv, IInv', NEW w, PusherData(w)
  PROVE /\ Len(Unpulled) < CacheSize
        /\ Len(Unpulled') = Len(Unpulled) + 1
        /\ Unpulled' = Append(Unpulled, Unpulled'[Len(Unpulled')])
  <1> DEFINE n == Held(get, put, low)
  <1> USE DEF IInv
  <1>1. /\ get \in Slots /\ put \in Slots /\ low \in BOOLEAN /\ high \in BOOLEAN
        /\ slot \in [Slots -> Entries] /\ slot' \in [Slots -> Entries]
        /\ ~(low /\ high) /\ (get = put <=> (low \/ high))
    BY ZenonT(60) DEF TypeOK, MarksTell
  <1>2. ~high /\ low' = FALSE /\ get' = get /\ put' = NextSlot(put)
    BY DEF PusherData, PushEntry, Full, TypeOK
  <1>3. n \in Nat /\ n < CacheSize
    BY <1>1, <1>2, HeldRange
  <1>4. Held(get', put', low') = n + 1
    BY <1>1, <1>2 DEF Held, NextSlot
  <1>5. \A i \in 1 .. n : At(get, i) \in Slots /\ At(get, i) # put
    BY <1>1, <1>2 DEF At, Held
  <1>6. \A i \in 1 .. n : slot'[At(get', i)] = slot[At(get, i)]
    <2>1. \A s \in Slots : s # put => slot'[s] = slot[s]
      BY <1>1 DEF PusherData, PushEntry
    <2> QED BY <1>2, <1>5, <2>1
  <1> HIDE DEF n
  <1>7. Unpulled \in Seq(Entries) /\ Len(Unpulled) = n
    <2>1. n \in 0 .. CacheSize
      BY <1>3
    <2> QED BY ZenonT(60), <1>1, <2>1, UnpulledSeq DEF Unpulled, n
  <1>8. Unpulled' \in Seq(Entries) /\ Len(Unpulled') = n + 1
    BY <1>1, <1>2, <1>3, <1>4, UnpulledSeq DEF Unpulled
  <1>10. \A i \in 1 .. n : Unpulled'[i] = Unpulled[i]
    BY <1>3, <1>4, <1>6 DEF Unpulled, n
  <1>9. Unpulled' = Append(Unpulled, Unpulled'[n + 1])
    <2> DEFINE S == Unpulled
               T == Unpulled'
    <2> HIDE DEF S, T, Entries
    <2>1. S \in Seq(Entries) /\ T \in Seq(Entries) /\ Len(T) = Len(S) + 1 /\ Len(S) = n
          /\ \A i \in 1 .. Len(S) : T[i] = S[i]
      BY <1>7, <1>8, <1>10 DEF S, T
    <2>2. T = Append(S, T[Len(S) + 1])
      BY <2>1
    <2> QED BY <2>1, <2>2 DEF S, T
  <1> QED BY <1>3, <1>7, <1>8, <1>9

(* A pull takes the head off, the method the puller then holds.            *)
LEMMA PullTakesHead ==
  ASSUME IInv, IInv', PullerPull
  PROVE /\ Unpulled # <<>>
        /\ Unpulled' = Tail(Unpulled)
        /\ Head(Unpulled) = MethodOf(slot[get])
  <1> DEFINE n == Held(get, put, low)
  <1> USE DEF IInv
  <1>1. /\ get \in Slots /\ put \in Slots /\ low \in BOOLEAN /\ high \in BOOLEAN
        /\ slot \in [Slots -> Entries]
        /\ ~(low /\ high) /\ (get = put <=> (low \/ high))
    BY DEF TypeOK, MarksTell
  <1>2. ~low /\ put' = put /\ slot' = slot /\ get' = NextSlot(get)
        /\ (low' <=> NextSlot(get) = put)
    BY ZenonT(60), <1>1 DEF PullerPull, PullEntry
  <1>3. n \in 1 .. CacheSize
    BY <1>1, <1>2, HeldRange
  <1>4. Held(get', put', low') = n - 1
    <2>1. CASE low'
      BY <1>1, <1>2, <2>1 DEF Held, NextSlot
    <2>2. CASE ~low'
      BY <1>1, <1>2, <2>2 DEF Held, NextSlot
    <2> QED BY <2>1, <2>2
  <1>5. \A i \in 1 .. n - 1 : At(get', i) = At(get, i + 1)
    BY <1>1, <1>2, <1>3 DEF At, NextSlot
  <1>6. At(get, 1) = get /\ get' \in Slots
    BY <1>1, <1>2 DEF At, NextSlot
  <1> HIDE DEF n
  <1>7. Unpulled \in Seq(Entries) /\ Len(Unpulled) = n
    <2>1. Unpulled = [i \in 1 .. n |-> MethodOf(slot[At(get, i)])]
      BY DEF Unpulled, n
    <2>2. n \in 0 .. CacheSize
      BY <1>3
    <2> HIDE DEF Entries
    <2> QED BY <1>1, <2>1, <2>2, UnpulledSeq
  <1>8. Unpulled' \in Seq(Entries) /\ Len(Unpulled') = n - 1
    <2>1. n - 1 \in 0 .. CacheSize
      BY <1>3
    <2>2. Unpulled' = [i \in 1 .. n - 1 |-> MethodOf(slot'[At(get', i)])]
      BY <1>4 DEF Unpulled
    <2>3. slot' \in [Slots -> Entries]
      BY <1>1, <1>2
    <2> QED BY <1>6, <2>1, <2>2, <2>3, UnpulledSeq
  <1>12. \A i \in 1 .. n - 1 : Unpulled'[i] = Unpulled[i + 1]
    BY <1>2, <1>3, <1>4, <1>5 DEF Unpulled, n
  <1>9. Unpulled[1] = MethodOf(slot[get])
    BY <1>3, <1>6 DEF Unpulled, n
  <1> DEFINE S == Unpulled
             T == Unpulled'
  <1> HIDE DEF S, T, Entries
  <1>10. S \in Seq(Entries) /\ T \in Seq(Entries) /\ Len(S) = n /\ Len(T) = Len(S) - 1
         /\ \A i \in 1 .. Len(S) - 1 : T[i] = S[i + 1]
    BY <1>7, <1>8, <1>12 DEF S, T
  <1>11. S # <<>> /\ T = Tail(S) /\ Head(S) = S[1]
    BY <1>3, <1>10
  <1> QED BY <1>9, <1>11 DEF S, T

-----------------------------------------------------------------------------
(* What a step does to the queue, the method in flight and the history.    *)
LEMMA QueueUnchanged == UNCHANGED cacheVars => UNCHANGED Unpulled
  BY DEF cacheVars, Unpulled

LEMMA StepSimulates ==
  ASSUME IInv, IInv', [Next]_vars
  PROVE [Q!Next]_<<Unpulled, InFlight, done, Running>>
  <1> DEFINE Still == UNCHANGED <<Unpulled, InFlight, done, Running>>
  <1>1. CASE \E a \in Words : PusherData(Prog.words[a])
    <2>1. PICK a \in Words : PusherData(Prog.words[a])
      BY <1>1
    <2>2. UNCHANGED <<InFlight, done, Running>> /\ Running
      BY <2>1 DEF PusherData, PushEntry, Fetch, SignalPuller, Woken, InFlight, Running, pullVars
    <2>3. Q!Push
      BY <2>1, <2>2, PushAppends DEF Q!Push
    <2> QED BY <2>3 DEF Q!Next
  <1>2. CASE PullerPull
    <2>1. /\ Unpulled # <<>> /\ Unpulled' = Tail(Unpulled)
          /\ Head(Unpulled) = MethodOf(slot[get])
      BY <1>2, PullTakesHead
    <2>2. Running /\ InFlight = <<>> /\ done' = done
      BY <1>2 DEF PullerPull, InFlight
    <2>3. CASE PullAsserts(slot[get])
      <3>1. Running' = Running /\ InFlight' = <<Head(Unpulled)>>
        BY <1>2, <2>1, <2>3 DEF PullerPull, InFlight, Running
      <3> QED BY <2>1, <2>2, <3>1 DEF Q!Take, Q!Next
    <2>4. CASE ~PullAsserts(slot[get])
      <3>1. Running' = FALSE
        BY <1>2, <2>4 DEF PullerPull, Running, NoneError
      <3> QED BY ZenonT(60), <2>2, <3>1 DEF Q!Abort, Q!Next
    <2> QED BY <2>3, <2>4
  <1>3. CASE MethodDone
    <2>1. InFlight = <<cur>> /\ InFlight' = <<>> /\ done' = Append(done, cur)
          /\ Running /\ Running' = Running
      BY <1>3 DEF MethodDone, InFlight, Running
    <2>2. UNCHANGED Unpulled
      BY <1>3, QueueUnchanged DEF MethodDone
    <2> QED BY <2>1, <2>2 DEF Q!Execute, Q!Next
  <1>4. CASE PusherError
    <2>1. Running /\ Running' = FALSE /\ done' = done
      BY <1>4 DEF PusherError, Running, NoneError, pullVars
    <2> QED BY ZenonT(60), <2>1 DEF Q!Abort, Q!Next
  <1>5. CASE PusherAcquire \/ PusherWait \/ PullerAcquire \/ PullerWait \/ PullerHandoff
    <2>1. UNCHANGED <<cacheVars, pullVars, error>>
      BY <1>5 DEF PusherAcquire, PusherWait, PullerAcquire, PullerWait, PullerHandoff
    <2>2. UNCHANGED InFlight
      BY <1>5 DEF PusherAcquire, PusherWait, PullerAcquire, PullerWait, PullerHandoff,
         InFlight, pullVars
    <2> QED BY <2>1, <2>2, QueueUnchanged DEF Running, pullVars
  <1>6. CASE \E a \in Words : LET w == Prog.words[a] IN
               PusherMethods(w) \/ PusherJump(w) \/ PusherCall(w) \/ PusherReturn(w)
    <2>1. UNCHANGED <<cacheVars, pullVars, error, puller>>
      BY <1>6 DEF PusherMethods, PusherJump, PusherCall, PusherReturn
    <2> QED BY <2>1, QueueUnchanged DEF Running, pullVars, InFlight
  <1>7. CASE GuestScript \/ GuestToggle \/ ExitFlag \/ ExitBroadcast \/ SpuriousWakeup
    <2>1. UNCHANGED <<cacheVars, pullVars, error>> /\ puller' \in {puller, Woken(puller)}
      BY <1>7 DEF GuestScript, GuestToggle, GuestWrite, ExitFlag, ExitBroadcast,
         SpuriousWakeup, Broadcast, Woken
    <2> QED BY <2>1, QueueUnchanged DEF Running, pullVars, InFlight, Woken
  <1>8. CASE UNCHANGED vars
    <2>1. UNCHANGED <<cacheVars, pullVars, error, puller>>
      BY <1>8 DEF vars
    <2> QED BY <2>1, QueueUnchanged DEF Running, pullVars, InFlight
  <1>9. Pusher => \/ PusherAcquire \/ PusherWait \/ PusherError
                  \/ \E a \in Words : PusherData(Prog.words[a])
                  \/ \E a \in Words : LET w == Prog.words[a] IN
                       PusherMethods(w) \/ PusherJump(w) \/ PusherCall(w) \/ PusherReturn(w)
    BY DEF Pusher
  <1> QED BY <1>1, <1>2, <1>3, <1>4, <1>5, <1>6, <1>7, <1>8, <1>9 DEF Next, Puller

LEMMA InitSimulates == Init => Q!Init
  <1> SUFFICES ASSUME Init PROVE Q!Init
    OBVIOUS
  <1>1. Unpulled = <<>>
    BY DEF Init, Unpulled, Held
  <1> QED BY <1>1 DEF Init, Q!Init, InFlight, Running

(* Every behaviour of PFIFO is one of the bounded first-in first-out queue *)
(* of methods, for every size of CACHE1, every push buffer and every guest.*)
THEOREM Refinement == Spec => IsMethodQueue
  <1>1. IInv /\ IInv' /\ [Next]_vars => [Q!Next]_<<Unpulled, InFlight, done, Running>>
    BY StepSimulates
  <1> QED BY <1>1, InitSimulates, Invariance, PTL DEF Spec, IsMethodQueue, Q!Spec
=============================================================================
