--------------------------- MODULE LockCntProofs ---------------------------
(***************************************************************************)
(* The rules of a QemuLockCnt, for any number of threads and of calls.       *)
(*                                                                         *)
(* NoVisitWhileFreed is made inductive by Loc: what a thread that is inside  *)
(* a function knows of its own visit and of the mutex.  SleepersKnown needs  *)
(* Slp besides: who sleeps is in the wait, and remembers it.                *)
(***************************************************************************)
EXTENDS LockCnt, TLAPS, FiniteSetTheorems

Waits == {"inc", "dec_and_lock", "dec_if_lock", "lock"}

(* freeing goes with the mutex *)
Acc ==
  /\ NoVisitWhileFreed
  /\ freeing => holder # NoThread

LocOf(t) ==
  /\ pc[t] = "out" <=> op[t] = "none"
  /\ pc[t] \in {"slow", "futex"} => op[t] \in Waits
  /\ waited[t] => op[t] \in Waits
  /\ pc[t] \in {"loop", "slow", "futex"} =>
       /\ op[t] \in {"inc", "inc_and_unlock"} => t \notin visiting
       /\ op[t] \in {"dec", "dec_and_lock", "dec_if_lock"} => t \in visiting
       /\ holder = t <=> op[t] \in {"unlock", "inc_and_unlock"}

Loc == \A t \in Threads : LocOf(t)

Slp ==
  /\ \A t \in sleeping : pc[t] = "futex" /\ waited[t]
  /\ SleepersKnown

IInv == TypeOK /\ Acc /\ Loc /\ Slp

(* A step of t leaves what the other threads rely on *)
Other(t) ==
  \A u \in Threads \ {t} :
    /\ pc'[u] = pc[u] /\ op'[u] = op[u] /\ (waited'[u] <=> waited[u])
    /\ u \in visiting' <=> u \in visiting
    /\ holder' = u <=> holder = u

(* t has a duty towards the sleepers *)
Duty(t) == pc[t] = "wake" \/ waited[t]

USE SMTT(60)

---------------------------------------------------------------------------
(* Counting the visits *)
LEMMA Visits ==
  ASSUME TypeOK, NEW t \in Threads
  PROVE  /\ Cardinality(visiting) \in Nat
         /\ t \notin visiting =>
              Cardinality(visiting \cup {t}) = Cardinality(visiting) + 1
         /\ t \in visiting =>
              /\ Cardinality(visiting) >= 1
              /\ Cardinality(visiting \ {t}) = Cardinality(visiting) - 1
              /\ Cardinality(visiting) <= 1 => visiting \ {t} = {}
         /\ Cardinality(visiting) = 0 <=> visiting = {}
<1>1. IsFiniteSet(visiting) BY LockCntAssumption, FS_Subset DEF TypeOK
<1>2. Cardinality(visiting) \in Nat BY <1>1, FS_CardinalityType
<1>3. t \notin visiting =>
        Cardinality(visiting \cup {t}) = Cardinality(visiting) + 1
  BY <1>1, FS_AddElement
<1>4. t \in visiting =>
        Cardinality(visiting \ {t}) = Cardinality(visiting) - 1
  BY <1>1, FS_RemoveElement
<1>5. Cardinality(visiting) = 0 <=> visiting = {} BY <1>1, FS_EmptySet
<1>6. t \in visiting => Cardinality(visiting) >= 1 BY <1>2, <1>5
<1>7. ASSUME t \in visiting, Cardinality(visiting) <= 1
      PROVE  visiting \ {t} = {}
  <2>1. IsFiniteSet(visiting \ {t}) BY <1>1, FS_RemoveElement
  <2>2. Cardinality(visiting \ {t}) = 0 BY <1>2, <1>4, <1>6, <1>7
  <2> QED BY <2>1, <2>2, FS_EmptySet
<1> QED BY <1>2, <1>3, <1>4, <1>5, <1>6, <1>7

LEMMA LocFrame ==
  ASSUME Loc, NEW t \in Threads, Other(t), LocOf(t)'
  PROVE  Loc'
BY DEF Loc, LocOf, Other

LEMMA SlpFrame ==
  ASSUME TypeOK, Slp, NEW t \in Threads, Other(t), t \notin sleeping,
         sleeping' = sleeping,
         count.s = "WAITING" \/ Duty(t) => count'.s = "WAITING" \/ Duty(t)'
  PROVE  Slp'
<1>1. \A u \in sleeping' : pc'[u] = "futex" /\ waited'[u]
  BY DEF Slp, Other, TypeOK
<1>2. ASSUME sleeping' # {} PROVE SleepersKnown'
  <2>1. CASE count.s = "WAITING" \/ Duty(t)
    BY <2>1 DEF SleepersKnown, Duty
  <2>2. CASE ~(count.s = "WAITING" \/ Duty(t))
    <3>1. PICK u \in Threads \ sleeping : pc[u] = "wake" \/ waited[u]
      BY <1>2, <2>2 DEF Slp, SleepersKnown
    <3>2. u # t BY <2>2, <3>1 DEF Duty
    <3>3. pc'[u] = "wake" \/ waited'[u] BY <3>1, <3>2 DEF Other
    <3> QED BY <3>1, <3>3 DEF SleepersKnown
  <2> QED BY <2>1, <2>2
<1> QED BY <1>1, <1>2 DEF Slp, SleepersKnown

(* Return and ReturnOrWake: the locals, the place, the duty *)
LEMMA ReturnTypes ==
  ASSUME TypeOK, NEW t \in Threads, ReturnOrWake(t) \/ Return(t)
  PROVE  /\ op' \in [Threads -> Functions \cup {"none"}]
         /\ pc' \in [Threads -> {"out", "loop", "slow", "futex", "wake"}]
         /\ val' \in [Threads -> [n : Nat, s : {"FREE", "LOCKED", "WAITING"}]]
         /\ waited' \in [Threads -> BOOLEAN]
<1>1. CASE Return(t) BY <1>1 DEF TypeOK, Return, Go, Reads, Zero, Word
<1>2. CASE ReturnOrWake(t) /\ ~Return(t)
  BY <1>2 DEF TypeOK, ReturnOrWake, Go
<1> QED BY <1>1, <1>2

LEMMA ReturnOther ==
  ASSUME TypeOK, NEW t \in Threads, ReturnOrWake(t) \/ Return(t),
         NEW u \in Threads \ {t}
  PROVE  pc'[u] = pc[u] /\ op'[u] = op[u] /\ (waited'[u] <=> waited[u])
BY DEF TypeOK, ReturnOrWake, Return, Go

LEMMA ReturnLoc ==
  ASSUME TypeOK, Loc, NEW t \in Threads, ReturnOrWake(t) \/ Return(t),
         pc[t] # "out"
  PROVE  LocOf(t)'
<1>1. CASE Return(t) BY <1>1 DEF TypeOK, Return, Go, LocOf
<1>2. CASE ReturnOrWake(t) /\ ~Return(t)
  BY <1>2 DEF TypeOK, ReturnOrWake, Go, Loc, LocOf
<1> QED BY <1>1, <1>2

LEMMA ReturnDuty ==
  ASSUME TypeOK, NEW t \in Threads, ReturnOrWake(t), pc[t] # "wake"
  PROVE  Duty(t) => Duty(t)'
BY DEF TypeOK, ReturnOrWake, Go, Duty

(* A failed cmpxchg changes a local variable only *)
LEMMA RetryKeeps ==
  ASSUME IInv, NEW t \in Threads, Retry(t), UNCHANGED <<sleeping, calls>>
  PROVE  IInv'
<1> USE DEF IInv
<1>1. UNCHANGED <<count, sleeping, op, pc, waited, visiting, holder, freeing,
                  calls>>
  BY DEF Retry
<1>2. val' \in [Threads -> [n : Nat, s : {"FREE", "LOCKED", "WAITING"}]]
  BY DEF TypeOK, Retry, Reads
<1>3. TypeOK' BY <1>1, <1>2 DEF TypeOK
<1> QED BY <1>1, <1>3 DEF Acc, NoVisitWhileFreed, Loc, LocOf, Slp, SleepersKnown

LEMMA CallKeeps ==
  ASSUME IInv, NEW t \in Threads, NEW f \in Functions, Call(t, f)
  PROVE  IInv'
<1> USE DEF IInv, Go, Reads
<1>1. UNCHANGED <<count, sleeping, waited, visiting, holder, freeing>> BY DEF Call
<1>2. /\ pc[t] = "out" /\ ~waited[t] /\ t \notin sleeping
      /\ pc'[t] = "loop" /\ op'[t] = f /\ Legal(t, f)
  BY DEF Call, Loc, LocOf, Slp, TypeOK, Waits
<1>3. Other(t) BY <1>1 DEF Call, Other, TypeOK
<1>4. TypeOK' BY DEF TypeOK, Call, Legal, Begins
<1>5. Acc' BY <1>1 DEF Acc, NoVisitWhileFreed
<1>6. LocOf(t)' BY ZenonT(60), <1>1, <1>2 DEF LocOf, Legal, Functions, Waits
<1>7. Slp' BY <1>1, <1>2, <1>3, SlpFrame DEF Duty
<1> QED BY <1>3, <1>4, <1>5, <1>6, <1>7, LocFrame

LEMMA DecKeeps ==
  ASSUME IInv, NEW t \in Threads, qemu_lockcnt_dec(t)
  PROVE  IInv'
<1> USE DEF IInv, Go, Reads
<1>1. /\ visiting' = visiting \ {t}
      /\ count' = [count EXCEPT !.n = @ - 1]
      /\ UNCHANGED <<sleeping, holder, freeing, calls>>
  BY DEF qemu_lockcnt_dec
<1>2. /\ t \in visiting /\ ~waited[t] /\ t \notin sleeping /\ pc[t] = "loop"
      /\ pc'[t] = "out" /\ op'[t] = "none" /\ ~waited'[t]
  BY DEF qemu_lockcnt_dec, Return, Loc, LocOf, Slp, TypeOK, Waits
<1>3. Other(t) BY <1>1 DEF qemu_lockcnt_dec, Return, Other, TypeOK
<1>4. count.n >= 1 /\ Cardinality(visiting') = count.n - 1
  BY ZenonT(60), <1>1, <1>2, Visits DEF TypeOK, Acc, NoVisitWhileFreed
<1>5. count'.n = count.n - 1 /\ count'.s = count.s BY <1>1 DEF TypeOK
<1>6. TypeOK'
  <2>1. count' \in [n : Nat, s : {"FREE", "LOCKED", "WAITING"}]
    BY <1>1, <1>4 DEF TypeOK
  <2> QED BY <1>1, <2>1 DEF TypeOK, qemu_lockcnt_dec, Return, Zero, Word
<1>7. Acc' BY <1>1, <1>4, <1>5 DEF Acc, NoVisitWhileFreed, TypeOK
<1>8. LocOf(t)' BY <1>2 DEF LocOf
<1>9. Slp' BY <1>1, <1>2, <1>3, <1>5, SlpFrame DEF Duty
<1> QED BY <1>3, <1>6, <1>7, <1>8, <1>9, LocFrame

LEMMA CountedFastKeeps ==
  ASSUME IInv, NEW t \in Threads, CountedFast(t)
  PROVE  IInv'
<1> USE DEF IInv, Go, Reads
<1>1. /\ pc[t] = "loop" /\ t \notin sleeping /\ Counts(t)
      /\ UNCHANGED <<sleeping, calls>>
  BY DEF CountedFast, Slp
<1>2. CASE Retry(t) BY <1>1, <1>2, RetryKeeps
<1>3. CASE Found(t) /\ ~Retry(t)
  <2>1. /\ count = val[t]
        /\ count' = [count EXCEPT !.n = @ + Add(t)]
        /\ visiting' = IF op[t] = "inc" THEN visiting \cup {t} ELSE visiting \ {t}
        /\ ReturnOrWake(t)
        /\ UNCHANGED <<holder, freeing>>
    BY <1>3 DEF CountedFast, Found
  <2>2. Other(t) BY <2>1, ReturnOther DEF Other
  <2>3. /\ count'.n = count.n + Add(t) /\ count'.s = count.s
        /\ count'.n = Cardinality(visiting')
        /\ count' \in [n : Nat, s : {"FREE", "LOCKED", "WAITING"}]
        /\ freeing => visiting' = {}
    <3>1. CASE op[t] = "inc"
      <4>1. t \notin visiting BY <1>1, <3>1 DEF Loc, LocOf
      <4>2. count.n >= 1 BY <1>1, <2>1, <3>1 DEF Counts
      <4> QED BY <2>1, <3>1, <4>1, <4>2, Visits
              DEF Add, TypeOK, Acc, NoVisitWhileFreed
    <3>2. CASE op[t] # "inc"
      <4>1. t \in visiting /\ count.n >= 2
        BY <1>1, <2>1, <3>2 DEF Loc, LocOf, Counts
      <4> QED BY <2>1, <3>2, <4>1, Visits DEF Add, TypeOK, Acc, NoVisitWhileFreed
    <3> QED BY <3>1, <3>2
  <2>4. TypeOK'
    <3>1. visiting' \subseteq Threads BY <2>1 DEF TypeOK
    <3> QED BY <1>1, <2>1, <2>3, <3>1, ReturnTypes DEF TypeOK
  <2>5. Acc' BY <2>1, <2>3 DEF Acc, NoVisitWhileFreed
  <2>6. LocOf(t)' BY <2>1, <1>1, ReturnLoc
  <2>7. Slp' BY <1>1, <2>1, <2>2, <2>3, ReturnDuty, SlpFrame
  <2> QED BY <2>2, <2>4, <2>5, <2>6, <2>7, LocFrame
<1> QED BY <1>2, <1>3 DEF CountedFast

LEMMA DecIfGivesUpKeeps ==
  ASSUME IInv, NEW t \in Threads, DecIfGivesUp(t)
  PROVE  IInv'
<1> USE DEF IInv
<1>1. /\ pc[t] = "loop" /\ t \notin sleeping /\ ReturnOrWake(t)
      /\ UNCHANGED <<count, sleeping, visiting, holder, freeing, calls>>
  BY DEF DecIfGivesUp, Slp
<1>2. Other(t) BY <1>1, ReturnOther DEF Other
<1>3. TypeOK' BY <1>1, ReturnTypes DEF TypeOK
<1>4. Acc' BY <1>1 DEF Acc, NoVisitWhileFreed
<1>5. LocOf(t)' BY <1>1, ReturnLoc
<1>6. Slp' BY <1>1, <1>2, ReturnDuty, SlpFrame
<1> QED BY <1>2, <1>3, <1>4, <1>5, <1>6, LocFrame

(* The mutex is free, and the word is as it was read *)
LEMMA FastFacts ==
  ASSUME IInv, NEW t \in Threads, FastPath(t), Found(t)
  PROVE  /\ pc[t] = "loop" /\ t \notin sleeping /\ NeedsMutex(t)
         /\ count = val[t] /\ count.s = "FREE" /\ holder = NoThread /\ ~freeing
         /\ count' = NewIfFree(t)
         /\ UNCHANGED <<sleeping, calls>>
BY DEF IInv, FastPath, Found, Slp, Acc, NoVisitWhileFreed, TypeOK

LEMMA FastPathKeeps ==
  ASSUME IInv, NEW t \in Threads, FastPath(t)
  PROVE  IInv'
<1> USE DEF IInv
<1>1. CASE ~Found(t)
  <2>1. /\ pc[t] = "loop" /\ t \notin sleeping /\ NeedsMutex(t)
        /\ Reads(t, count) /\ Go(t, "slow")
        /\ UNCHANGED <<count, sleeping, op, waited, visiting, holder, freeing, calls>>
    BY <1>1 DEF FastPath, Slp
  <2>2. val' \in [Threads -> [n : Nat, s : {"FREE", "LOCKED", "WAITING"}]]
    BY <2>1 DEF TypeOK, Reads
  <2>3. TypeOK' BY ZenonT(60), <2>1, <2>2 DEF TypeOK, Go
  <2>4. Acc' BY <2>1 DEF Acc, NoVisitWhileFreed
  <2>5. Other(t) BY <2>1 DEF Other, TypeOK, Go
  <2>6. LocOf(t)' BY <2>1 DEF Loc, LocOf, TypeOK, Go, NeedsMutex, Waits
  <2>7. Slp' BY <2>1, <2>5, SlpFrame DEF Duty, TypeOK, Go
  <2> QED BY <2>3, <2>4, <2>5, <2>6, <2>7, LocFrame
<1>2. CASE Found(t) /\ op[t] = "inc"
  <2>1. /\ t \notin visiting /\ visiting' = visiting \cup {t}
        /\ ReturnOrWake(t) /\ UNCHANGED <<holder, freeing>>
        /\ count' = Word(1, "FREE") /\ count.n = 0
    BY <1>2, FastFacts DEF FastPath, Loc, LocOf, NewIfFree, NeedsMutex
  <2>2. Other(t) BY <2>1, ReturnOther DEF Other
  <2>3. TypeOK'
    <3>1. count' \in [n : Nat, s : {"FREE", "LOCKED", "WAITING"}]
      BY <2>1 DEF Word
    <3> QED BY <1>2, <2>1, <3>1, FastFacts, ReturnTypes DEF TypeOK
  <2>4. Acc'
    <3>1. Cardinality(visiting') = 1
      BY <2>1, Visits DEF Acc, NoVisitWhileFreed
    <3> QED BY <1>2, <2>1, <3>1, FastFacts DEF Acc, NoVisitWhileFreed, Word
  <2>5. LocOf(t)' BY <1>2, <2>1, FastFacts, ReturnLoc
  <2>6. Slp'
    <3>1. count.s # "WAITING" BY <1>2, FastFacts
    <3> QED BY <1>2, <2>1, <2>2, <3>1, FastFacts, ReturnDuty, SlpFrame
  <2> QED BY <2>2, <2>3, <2>4, <2>5, <2>6, LocFrame
<1>3. CASE Found(t) /\ op[t] # "inc"
  <2>1. /\ holder' = t /\ freeing' = (op[t] # "lock")
        /\ visiting' = IF op[t] = "lock" THEN visiting ELSE visiting \ {t}
        /\ Return(t)
    BY <1>3 DEF FastPath
  <2>2. op[t] \in {"lock", "dec_and_lock", "dec_if_lock"}
    BY <1>3, FastFacts DEF NeedsMutex
  <2>3. Other(t) BY <1>3, <2>1, FastFacts, ReturnOther, LockCntAssumption DEF Other
  <2>4. /\ count'.n = Cardinality(visiting')
        /\ count'.s = Taken(t)
        /\ count' \in [n : Nat, s : {"FREE", "LOCKED", "WAITING"}]
        /\ op[t] # "lock" => visiting' = {}
    <3>1. CASE op[t] = "lock"
      BY <1>3, <2>1, <3>1, FastFacts
      DEF NewIfFree, Word, Taken, TypeOK, Acc, NoVisitWhileFreed
    <3>2. CASE op[t] # "lock"
      <4>1. t \in visiting /\ count.n <= 1
        BY <1>3, <2>2, <3>2, FastFacts DEF NeedsMutex, Loc, LocOf
      <4>2. visiting' = {} BY ZenonT(60), <2>1, <3>2, <4>1, Visits DEF Acc, NoVisitWhileFreed
      <4>3. count' = Word(0, Taken(t)) BY <1>3, <3>2, FastFacts DEF NewIfFree
      <4> QED BY <4>2, <4>3, FS_EmptySet DEF Word, Taken
    <3> QED BY <3>1, <3>2
  <2>5. TypeOK'
    <3>1. visiting' \subseteq Threads BY <2>1 DEF TypeOK
    <3>2. freeing' \in BOOLEAN BY <2>1
    <3> QED BY <1>3, <2>1, <2>4, <3>1, <3>2, FastFacts, ReturnTypes DEF TypeOK
  <2>6. Acc'
    <3>1. holder' # NoThread BY <2>1, LockCntAssumption
    <3>2. count'.s # "FREE" BY <2>4 DEF Taken
    <3>3. freeing' => visiting' = {} BY ZenonT(60), <2>1, <2>4
    <3> QED BY <2>4, <3>1, <3>2, <3>3 DEF Acc, NoVisitWhileFreed
  <2>7. LocOf(t)' BY <1>3, <2>1, FastFacts, ReturnLoc
  <2>8. Slp'
    <3>1. count.s # "WAITING" /\ pc[t] = "loop" BY <1>3, FastFacts
    <3>2. Duty(t) => count'.s = "WAITING" BY <2>4, <3>1 DEF Duty, Taken
    <3> QED BY <1>3, <2>3, <3>1, <3>2, FastFacts, SlpFrame
  <2> QED BY <2>3, <2>5, <2>6, <2>7, <2>8, LocFrame
<1> QED BY <1>1, <1>2, <1>3

(* Into the loop of the slow path and out of it: only the place changes *)
LEMMA SlowKeeps ==
  ASSUME IInv, NEW t \in Threads, SlowPath(t) \/ SlowEnd(t)
  PROVE  IInv'
<1> USE DEF IInv
<1>1. /\ pc[t] \in {"loop", "slow"} /\ t \notin sleeping /\ op[t] \in Waits
      /\ Go(t, "slow") \/ Go(t, "loop")
      /\ UNCHANGED <<count, sleeping, op, val, waited, visiting, holder, freeing, calls>>
  BY DEF SlowPath, SlowEnd, Slp, Loc, LocOf, NeedsMutex, Waits
<1>2. TypeOK' BY <1>1 DEF TypeOK, Go
<1>3. Acc' BY <1>1 DEF Acc, NoVisitWhileFreed
<1>4. Other(t) BY <1>1 DEF Other, TypeOK, Go
<1>5. LocOf(t)' BY <1>1 DEF Loc, LocOf, TypeOK, Go, Waits
<1>6. Slp' BY <1>1, <1>4, SlpFrame DEF Duty, TypeOK, Go
<1> QED BY <1>2, <1>3, <1>4, <1>5, <1>6, LocFrame

LEMMA FutexPrepareKeeps ==
  ASSUME IInv, NEW t \in Threads, FutexPrepare(t)
  PROVE  IInv'
<1> USE DEF IInv, Reads, Found
<1>1. /\ pc[t] = "slow" /\ t \notin sleeping
      /\ UNCHANGED <<sleeping, op, pc, waited, visiting, holder, freeing, calls>>
  BY DEF FutexPrepare, Slp
<1>2. /\ count' \in [n : Nat, s : {"FREE", "LOCKED", "WAITING"}]
      /\ count'.n = count.n /\ (count'.s = "FREE" <=> count.s = "FREE")
      /\ count.s = "WAITING" => count'.s = "WAITING"
  BY DEF FutexPrepare, TypeOK
<1>3. val' \in [Threads -> [n : Nat, s : {"FREE", "LOCKED", "WAITING"}]]
  <2>1. [val[t] EXCEPT !.s = "WAITING"] \in [n : Nat, s : {"FREE", "LOCKED", "WAITING"}]
    BY DEF TypeOK
  <2>2. PICK w \in [n : Nat, s : {"FREE", "LOCKED", "WAITING"}] :
          val' = [val EXCEPT ![t] = w]
    BY <2>1 DEF FutexPrepare, TypeOK
  <2> QED BY <2>2 DEF TypeOK
<1>4. TypeOK' BY <1>1, <1>2, <1>3 DEF TypeOK
<1>5. Acc' BY <1>1, <1>2 DEF Acc, NoVisitWhileFreed
<1>6. Other(t) BY <1>1 DEF Other
<1>7. LocOf(t)' BY <1>1 DEF Loc, LocOf
<1>8. Slp' BY <1>1, <1>2, <1>6, SlpFrame DEF Duty
<1> QED BY <1>4, <1>5, <1>6, <1>7, <1>8, LocFrame

LEMMA FutexWaitKeeps ==
  ASSUME IInv, NEW t \in Threads, FutexWait(t)
  PROVE  IInv'
<1> USE DEF IInv
<1>1. /\ pc[t] = "slow" /\ val[t].s = "WAITING"
      /\ waited' = [waited EXCEPT ![t] = TRUE] /\ Go(t, "futex")
      /\ sleeping' = IF Found(t) THEN sleeping \cup {t} ELSE sleeping
      /\ UNCHANGED <<count, op, val, visiting, holder, freeing, calls>>
  BY DEF FutexWait
<1>2. Other(t) BY <1>1 DEF Other, TypeOK, Go
<1>3. TypeOK'
  <2>1. sleeping' \subseteq Threads BY <1>1 DEF TypeOK
  <2>2. waited' \in [Threads -> BOOLEAN] BY <1>1 DEF TypeOK
  <2> QED BY <1>1, <2>1, <2>2 DEF TypeOK, Go
<1>4. Acc' BY <1>1 DEF Acc, NoVisitWhileFreed
<1>5. LocOf(t)' BY <1>1 DEF Loc, LocOf, TypeOK, Go
<1>6. Slp'
  <2>1. pc'[t] = "futex" /\ waited'[t] BY <1>1 DEF TypeOK, Go
  <2>2. \A u \in sleeping' : pc'[u] = "futex" /\ waited'[u]
    BY <1>1, <1>2, <2>1 DEF Slp, Other, TypeOK
  <2>3. CASE Found(t)
    <3>1. count'.s = "WAITING" BY <1>1, <2>3 DEF Found
    <3> QED BY <2>2, <3>1 DEF Slp, SleepersKnown
  <2>4. CASE ~Found(t)
    <3>1. t \notin sleeping' BY <1>1, <2>4 DEF Slp
    <3> QED BY <2>1, <2>2, <3>1 DEF Slp, SleepersKnown
  <2> QED BY <2>3, <2>4
<1> QED BY <1>2, <1>3, <1>4, <1>5, <1>6, LocFrame

LEMMA FutexReturnKeeps ==
  ASSUME IInv, NEW t \in Threads, FutexReturn(t)
  PROVE  IInv'
<1> USE DEF IInv
<1>1. /\ pc[t] = "futex" /\ t \notin sleeping
      /\ Reads(t, count) /\ Go(t, "slow")
      /\ UNCHANGED <<count, sleeping, op, waited, visiting, holder, freeing, calls>>
  BY DEF FutexReturn
<1>2. val' \in [Threads -> [n : Nat, s : {"FREE", "LOCKED", "WAITING"}]]
  BY <1>1 DEF TypeOK, Reads
<1>3. TypeOK' BY ZenonT(60), <1>1, <1>2 DEF TypeOK, Go
<1>4. Acc' BY <1>1 DEF Acc, NoVisitWhileFreed
<1>5. Other(t) BY <1>1 DEF Other, TypeOK, Go
<1>6. LocOf(t)' BY <1>1 DEF Loc, LocOf, TypeOK, Go
<1>7. Slp' BY <1>1, <1>5, SlpFrame DEF Duty, TypeOK, Go
<1> QED BY <1>3, <1>4, <1>5, <1>6, <1>7, LocFrame

LEMMA UnlockedMore ==
  ASSUME NEW w \in [n : Nat, s : {"FREE", "LOCKED", "WAITING"}]
  PROVE  Unlocked([w EXCEPT !.n = @ + 1]) = [n |-> w.n + 1, s |-> "FREE"]
<1>1. [w EXCEPT !.n = @ + 1] = [n |-> w.n + 1, s |-> w.s] OBVIOUS
<1>2. Unlocked([n |-> w.n + 1, s |-> w.s]) = [n |-> w.n + 1, s |-> "FREE"]
  BY DEF Unlocked
<1> QED BY <1>1, <1>2

LEMMA UnlocksKeeps ==
  ASSUME IInv, NEW t \in Threads, Unlocks(t)
  PROVE  IInv'
<1> USE DEF IInv
<1>1. /\ pc[t] = "loop" /\ t \notin sleeping /\ holder = t
      /\ op[t] \in {"unlock", "inc_and_unlock"} /\ ~waited[t]
      /\ UNCHANGED <<sleeping, calls>>
  BY DEF Unlocks, Slp, Loc, LocOf, Waits
<1>2. CASE Retry(t) BY <1>1, <1>2, RetryKeeps
<1>3. CASE Found(t) /\ ~Retry(t)
  <2>1. /\ count = val[t]
        /\ count' = IF op[t] = "unlock" THEN Unlocked(count)
                    ELSE Unlocked([count EXCEPT !.n = @ + 1])
        /\ visiting' = IF op[t] = "unlock" THEN visiting ELSE visiting \cup {t}
        /\ holder' = NoThread /\ freeing' = FALSE
        /\ IF MustWake(t) THEN Go(t, "wake") /\ UNCHANGED <<op, val, waited>>
           ELSE Return(t)
    BY <1>3 DEF Unlocks, Found
  <2>2. Other(t)
    <3>1. \A u \in Threads \ {t} :
            pc'[u] = pc[u] /\ op'[u] = op[u] /\ (waited'[u] <=> waited[u])
      BY <2>1, ReturnOther DEF TypeOK, Go
    <3> QED BY <1>1, <2>1, <3>1, LockCntAssumption DEF Other
  <2>3. /\ count' \in [n : Nat, s : {"FREE", "LOCKED", "WAITING"}]
        /\ count'.s = "FREE" /\ count'.n = Cardinality(visiting')
    <3>1. CASE op[t] = "unlock"
      BY <2>1, <3>1 DEF Unlocked, TypeOK, Acc, NoVisitWhileFreed
    <3>2. CASE op[t] # "unlock"
      <4>1. t \notin visiting BY <1>1, <3>2 DEF Loc, LocOf
      <4>2. count.n \in Nat /\ Cardinality(visiting') = count.n + 1
        BY <2>1, <3>2, <4>1, Visits DEF TypeOK, Acc, NoVisitWhileFreed
      <4>3. count' = Unlocked([count EXCEPT !.n = @ + 1]) BY <2>1, <3>2
      <4>4. count' = [n |-> count.n + 1, s |-> "FREE"]
        BY <4>2, <4>3, UnlockedMore DEF TypeOK
      <4>5. count' \in [n : Nat, s : {"FREE", "LOCKED", "WAITING"}]
        BY <4>2, <4>4
      <4> QED BY <4>2, <4>4, <4>5
    <3> QED BY <3>1, <3>2
  <2>4. TypeOK'
    <3>1. visiting' \subseteq Threads BY <2>1 DEF TypeOK
    <3>2. CASE MustWake(t) BY ZenonT(60), <1>1, <2>1, <2>3, <3>1, <3>2 DEF TypeOK, Go
    <3>3. CASE ~MustWake(t)
      BY ZenonT(60), <1>1, <2>1, <2>3, <3>1, <3>3, ReturnTypes DEF TypeOK
    <3> QED BY <3>2, <3>3
  <2>5. Acc' BY <2>1, <2>3 DEF Acc, NoVisitWhileFreed
  <2>6. LocOf(t)'
    <3>1. CASE MustWake(t) BY <1>1, <2>1, <3>1 DEF LocOf, TypeOK, Go
    <3>2. CASE ~MustWake(t) BY <1>1, <2>1, <3>2, ReturnLoc
    <3> QED BY <3>1, <3>2
  <2>7. Slp'
    <3>1. ASSUME count.s = "WAITING" \/ Duty(t) PROVE Duty(t)'
      BY <1>1, <2>1, <3>1 DEF Duty, MustWake, TypeOK, Go
    <3> QED BY <1>1, <2>2, <3>1, SlpFrame
  <2> QED BY <2>2, <2>4, <2>5, <2>6, <2>7, LocFrame
<1> QED BY <1>2, <1>3 DEF Unlocks

LEMMA WakeKeeps ==
  ASSUME IInv, NEW t \in Threads, lockcnt_wake(t)
  PROVE  IInv'
<1> USE DEF IInv
<1>1. /\ pc[t] = "wake" /\ t \notin sleeping /\ Return(t)
      /\ UNCHANGED <<count, visiting, holder, freeing, calls>>
  BY DEF lockcnt_wake, Slp
<1>2. Other(t) BY <1>1, ReturnOther DEF Other
<1>3. sleeping' \subseteq sleeping BY DEF lockcnt_wake
<1>4. TypeOK' BY <1>1, <1>3, ReturnTypes DEF TypeOK
<1>5. Acc' BY <1>1 DEF Acc, NoVisitWhileFreed
<1>6. LocOf(t)' BY <1>1, ReturnLoc
<1>7. Slp'
  <2>1. \A u \in sleeping' : pc'[u] = "futex" /\ waited'[u]
    BY <1>1, <1>2, <1>3 DEF Slp, Other, TypeOK
  <2>2. CASE sleeping = {} BY <1>3, <2>1, <2>2 DEF Slp, SleepersKnown
  <2>3. CASE sleeping # {}
    <3>1. PICK s \in sleeping : sleeping' = sleeping \ {s}
      BY <2>3 DEF lockcnt_wake
    <3>2. s \in Threads \ sleeping' /\ s # t /\ waited[s]
      BY <1>1, <3>1 DEF Slp, TypeOK
    <3>3. waited'[s] BY <1>2, <3>2 DEF Other
    <3> QED BY <2>1, <3>2, <3>3 DEF Slp, SleepersKnown
  <2> QED BY <2>2, <2>3
<1> QED BY <1>2, <1>4, <1>5, <1>6, <1>7, LocFrame

---------------------------------------------------------------------------
LEMMA InitIInv == Init => IInv
<1> SUFFICES ASSUME Init PROVE IInv OBVIOUS
<1>1. TypeOK BY ZenonT(60) DEF Init, TypeOK, Zero, Word
<1>2. Acc BY FS_EmptySet DEF Init, Acc, NoVisitWhileFreed, Zero, Word
<1>3. Loc BY LockCntAssumption DEF Init, Loc, LocOf
<1>4. Slp BY DEF Init, Slp, SleepersKnown
<1> QED BY <1>1, <1>2, <1>3, <1>4 DEF IInv

LEMMA NextIInv == IInv /\ [Next]_vars => IInv'
<1> SUFFICES ASSUME IInv, [Next]_vars PROVE IInv' OBVIOUS
<1>1. CASE UNCHANGED vars
  BY <1>1
  DEF vars, IInv, TypeOK, Acc, NoVisitWhileFreed, Loc, LocOf, Slp, SleepersKnown
<1>2. ASSUME NEW t \in Threads, NEW f \in Functions, Call(t, f) PROVE IInv'
  BY <1>2, CallKeeps
<1>3. ASSUME NEW t \in Threads, Step(t) PROVE IInv'
  BY <1>3, DecKeeps, CountedFastKeeps, DecIfGivesUpKeeps, FastPathKeeps, SlowKeeps,
     FutexPrepareKeeps, FutexWaitKeeps, FutexReturnKeeps, UnlocksKeeps, WakeKeeps
     DEF Step
<1> QED BY <1>1, <1>2, <1>3 DEF Next

LEMMA SpecIInv == Spec => []IInv
BY InitIInv, NextIInv, PTL DEF Spec

(* The word counts the visits and shows the mutex, and what a holder from    *)
(* dec_and_lock or dec_if_lock frees is not visited, for any threads.        *)
THEOREM FreedUnvisited == Spec => []NoVisitWhileFreed
<1>1. IInv => NoVisitWhileFreed BY DEF IInv, Acc
<1> QED BY <1>1, SpecIInv, PTL

(* Whoever sleeps on the futex is known to the word or to a thread that will *)
(* go on to take the mutex or to wake, for any threads.                      *)
THEOREM SleepersWoken == Spec => []SleepersKnown
<1>1. IInv => SleepersKnown BY DEF IInv, Slp
<1> QED BY <1>1, SpecIInv, PTL

---------------------------------------------------------------------------
(* The refinement: each step of the word is a step of LockedCounter or none  *)

LEMMA StepRefines ==
  ASSUME IInv, IInv', NEW t \in Threads, Step(t)
  PROVE  [C!Next]_<<count.n, holder>>
<1> USE DEF IInv
<1>1. CASE qemu_lockcnt_dec(t)
  <2>1. count.n \in Nat /\ count.n >= 1 /\ UNCHANGED holder
    BY <1>1, Visits DEF qemu_lockcnt_dec, Loc, LocOf, Acc, NoVisitWhileFreed
  <2>2. count'.n = count.n - 1 BY <1>1 DEF qemu_lockcnt_dec, TypeOK
  <2> QED BY <2>1, <2>2 DEF C!Next, C!Dec
<1>2. CASE CountedFast(t)
  <2>1. CASE Retry(t) BY <2>1 DEF Retry
  <2>2. CASE Found(t) /\ ~Retry(t)
    <3>1. /\ count = val[t] /\ UNCHANGED holder
          /\ count' = [count EXCEPT !.n = @ + Add(t)]
      BY <1>2, <2>2 DEF CountedFast, Found
    <3>2. count'.n = count.n + Add(t) /\ count.n \in Nat BY <3>1 DEF TypeOK
    <3>3. count.n >= 1 BY <1>2, <3>1, <3>2 DEF CountedFast, Counts
    <3>4. CASE op[t] = "inc" BY <3>1, <3>2, <3>3, <3>4 DEF Add, C!Next, C!Inc
    <3>5. CASE op[t] # "inc" BY <3>1, <3>2, <3>3, <3>5 DEF Add, C!Next, C!Dec
    <3> QED BY <3>4, <3>5
  <2> QED BY <1>2, <2>1, <2>2 DEF CountedFast
<1>3. CASE FastPath(t)
  <2>1. CASE ~Found(t) BY <1>3, <2>1 DEF FastPath
  <2>2. CASE Found(t)
    <3>1. /\ count = val[t] /\ holder = NoThread /\ NeedsMutex(t)
          /\ count' = NewIfFree(t) /\ count.n \in Nat
      BY <1>3, <2>2, FastFacts DEF TypeOK
    <3>2. CASE op[t] = "inc"
      <4>1. count.n = 0 /\ count'.n = 1 /\ UNCHANGED holder
        BY <1>3, <2>2, <3>1, <3>2 DEF FastPath, NeedsMutex, NewIfFree, Word
      <4> QED BY <3>1, <4>1 DEF C!Next, C!Inc
    <3>3. CASE op[t] = "lock"
      <4>1. count'.n = count.n /\ holder' = t
        BY <1>3, <2>2, <3>1, <3>3 DEF FastPath, NewIfFree, Word
      <4> QED BY <3>1, <4>1 DEF C!Next, C!Lock
    <3>4. CASE op[t] \notin {"inc", "lock"}
      <4>1. count'.n = 0 /\ holder' = t
        BY <1>3, <2>2, <3>1, <3>4 DEF FastPath, NewIfFree, Word
      <4>2. t \in visiting /\ count.n <= 1
        BY <1>3, <3>1, <3>4 DEF FastPath, NeedsMutex, Loc, LocOf
      <4>3. count.n >= 1 BY ZenonT(60), <4>2, Visits DEF Acc, NoVisitWhileFreed
      <4>4. count.n = 1 BY <3>1, <4>2, <4>3
      <4> QED BY <3>1, <4>1, <4>4 DEF C!Next, C!DecAndLock
    <3> QED BY <3>2, <3>3, <3>4
  <2> QED BY <2>1, <2>2
<1>4. CASE FutexPrepare(t)
  <2>1. count'.n = count.n /\ UNCHANGED holder
    BY <1>4 DEF FutexPrepare, Found, Reads, TypeOK
  <2> QED BY <2>1
<1>5. CASE Unlocks(t)
  <2>1. CASE Retry(t) BY <2>1 DEF Retry
  <2>2. CASE Found(t) /\ ~Retry(t)
    <3>1. /\ holder # NoThread /\ holder' = NoThread
          /\ count' = IF op[t] = "unlock" THEN Unlocked(count)
                      ELSE Unlocked([count EXCEPT !.n = @ + 1])
      BY <1>5, <2>2, LockCntAssumption DEF Unlocks, Loc, LocOf
    <3>2. count'.n = IF op[t] = "unlock" THEN count.n ELSE count.n + 1
      BY <3>1 DEF Unlocked, TypeOK
    <3>3. CASE op[t] = "unlock" BY <3>1, <3>2, <3>3 DEF C!Next, C!Unlock
    <3>4. CASE op[t] # "unlock" BY <3>1, <3>2, <3>4 DEF C!Next, C!IncAndUnlock
    <3> QED BY <3>3, <3>4
  <2> QED BY <1>5, <2>1, <2>2 DEF Unlocks
<1>6. CASE DecIfGivesUp(t) \/ SlowPath(t) \/ SlowEnd(t) \/ FutexWait(t)
             \/ FutexReturn(t) \/ lockcnt_wake(t)
  BY ZenonT(60), <1>6 DEF DecIfGivesUp, SlowPath, SlowEnd, FutexWait, FutexReturn, lockcnt_wake
<1> QED BY <1>1, <1>2, <1>3, <1>4, <1>5, <1>6 DEF Step

(* The futex word implements the counter and the mutex of                    *)
(* docs/devel/lockcnt.txt, for any threads.                                  *)
THEOREM WordImplementsCounter == Spec => IsLockedCounter
<1>1. Init => C!Init BY DEF Init, C!Init, Zero, Word
<1>2. IInv /\ IInv' /\ [Next]_vars => [C!Next]_<<count.n, holder>>
  <2> SUFFICES ASSUME IInv, IInv', [Next]_vars
               PROVE  [C!Next]_<<count.n, holder>>
    OBVIOUS
  <2>1. CASE UNCHANGED vars BY <2>1 DEF vars
  <2>2. ASSUME NEW t \in Threads, NEW f \in Functions, Call(t, f)
        PROVE  [C!Next]_<<count.n, holder>>
    BY <2>2 DEF Call
  <2>3. ASSUME NEW t \in Threads, Step(t)
        PROVE  [C!Next]_<<count.n, holder>>
    BY <2>3, StepRefines
  <2> QED BY <2>1, <2>2, <2>3 DEF Next
<1> QED BY <1>1, <1>2, SpecIInv, PTL DEF Spec, IsLockedCounter, C!Spec
=============================================================================
