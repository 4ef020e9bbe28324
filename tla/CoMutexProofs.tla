--------------------------- MODULE CoMutexProofs ---------------------------
(***************************************************************************)
(* CoMutex, for any number of coroutines.                                   *)
(*                                                                         *)
(* One token goes round: whoever is inside the mutex, was chosen to go in,   *)
(* or looks for the next to choose, has it (Tok), and while somebody has it  *)
(* `handoff` is zero.  A hand-off lays the token down; taking the hand-off   *)
(* picks it up.  That the token reaches whoever is woken, and nobody else,   *)
(* rests on the wait records: each waiting coroutine has exactly one.        *)
(***************************************************************************)
EXTENDS CoMutex, Functions, FiniteSetTheorems, TLAPS

Waits == {"read", "hasToPop", "hasFromPush", "steal", "yield"}
LockPops == {"pop", "move", "fill", "take", "wake"}
UnlockPops == {"unlockPop", "unlockMove", "unlockFill", "unlockTake",
               "unlockWake", "number", "offer"}

Tok(c) == pc[c] \in Owning \cup LockPops \cup UnlockPops \/ c \in woken

Token ==
  /\ \A c, d \in Coroutines : Tok(c) /\ Tok(d) => c = d
  /\ \A c \in Coroutines : Tok(c) => handoff = 0 /\ locked > 0
  /\ handoff # 0 => locked > 0

(* What a coroutine knows where it is *)
Knows(c) ==
  /\ c \in woken => pc[c] \in Waits
  /\ pc[c] \in {"hasToPop", "hasFromPush", "steal", "offer", "unlockHasToPop",
                "unlockHasFromPush", "retake"} => seen[c] # 0
  /\ pc[c] = "cs" => holder = c
  /\ pc[c] \notin {"fill", "unlockFill", "wake", "unlockWake"} => record[c] = <<>>
  /\ pc[c] \in {"wake", "unlockWake"} =>
       \E e \in Coroutines : e # c /\ record[c] = <<e>>
  /\ pc[c] \in {"move", "fill", "unlockMove", "unlockFill"} => to_pop = <<>>
  /\ pc[c] = "fill" => record[c] # <<>>
  /\ pc[c] \in {"take", "unlockTake"} => to_pop # <<>>

Known == \A c \in Coroutines : Knows(c)

Distinct(s) == \A m, n \in 1..Len(s) : s[m] = s[n] => m = n

(* No record is there twice *)
Once ==
  /\ Distinct(from_push) /\ Distinct(to_pop)
  /\ \A d \in Coroutines : Distinct(record[d])
  /\ \A c \in Range(from_push) : c \notin Range(to_pop)
  /\ \A d \in Coroutines : \A c \in Range(record[d]) :
       c \notin Range(from_push) /\ c \notin Range(to_pop)

Recorded(c) == \/ c \in Range(from_push) \/ c \in Range(to_pop)
               \/ \E d \in Coroutines : c \in Range(record[d])

(* Whose record is there: who waits and was not woken *)
Recs == \A c \in Coroutines :
          Recorded(c) <=> pc[c] \in Waits \cup LockPops /\ c \notin woken

IInv == TypeOK /\ Token /\ Known /\ Once /\ Recs

---------------------------------------------------------------------------
(* Leaves name the prover when it is the SMT solver *)
USE ZenonT(60)

(* The sequences of records *)

LEMMA OnceEmpty == Distinct(<<>>) /\ Range(<<>>) = {}
BY SMT DEF Distinct, Range

LEMMA OnePushed ==
  ASSUME NEW c, NEW s \in Seq(Coroutines), c \in Coroutines
  PROVE  /\ <<c>> \o s \in Seq(Coroutines)
         /\ Range(<<c>> \o s) = {c} \cup Range(s)
         /\ Distinct(s) /\ c \notin Range(s) => Distinct(<<c>> \o s)
<1> DEFINE p == <<c>> \o s
<1>1. p \in Seq(Coroutines) /\ Len(p) = Len(s) + 1 /\ Len(s) \in Nat BY SMT
<1>2. p[1] = c /\ \A n \in 1..Len(s) : p[n + 1] = s[n] BY SMT
<1>3. \A n \in 1..Len(p) : n # 1 => n - 1 \in 1..Len(s) /\ p[n] = s[n - 1]
  BY <1>1, <1>2, SMT
<1>4. DOMAIN p = 1..Len(p) /\ DOMAIN s = 1..Len(s) BY <1>1, SMT
<1> HIDE DEF p
<1>5. Range(p) = {c} \cup Range(s)
  <2>1. ASSUME NEW n \in 1..Len(p) PROVE p[n] \in {c} \cup Range(s)
    <3>1. CASE n = 1 BY <1>2, <3>1
    <3>2. CASE n # 1
      <4>1. n - 1 \in DOMAIN s /\ p[n] = s[n - 1] BY <1>3, <1>4, <3>2
      <4> QED BY <4>1 DEF Range
    <3> QED BY <3>1, <3>2
  <2>2. Range(s) \subseteq Range(p)
    <3> SUFFICES ASSUME NEW n \in 1..Len(s) PROVE s[n] \in Range(p)
      BY <1>4 DEF Range
    <3>1. n + 1 \in 1..Len(p) /\ p[n + 1] = s[n] BY <1>1, <1>2, SMT
    <3> QED BY <3>1, <1>4 DEF Range
  <2>3. c \in Range(p) BY <1>1, <1>2, <1>4, SMT DEF Range
  <2> QED BY <1>4, <2>1, <2>2, <2>3 DEF Range
<1>6. ASSUME Distinct(s), c \notin Range(s) PROVE Distinct(p)
  <2>1. \A n \in 1..Len(p) : n # 1 => p[n] # c
    BY <1>3, <1>4, <1>6 DEF Range
  <2>2. ASSUME NEW m \in 1..Len(p), NEW n \in 1..Len(p), m # 1, n # 1, p[m] = p[n]
        PROVE  m = n
    <3>1. m - 1 = n - 1 BY <1>3, <1>6, <2>2 DEF Distinct
    <3> QED BY <1>1, <3>1, SMT
  <2> QED BY <1>2, <2>1, <2>2 DEF Distinct
<1> QED BY <1>1, <1>5, <1>6 DEF p

LEMMA OneSingle ==
  ASSUME NEW c
  PROVE  Range(<<c>>) = {c} /\ Distinct(<<c>>) /\ <<c>> # <<>>
BY SMT DEF Range, Distinct

LEMMA ReversedSame ==
  ASSUME NEW s \in Seq(Coroutines)
  PROVE  /\ Reversed(s) \in Seq(Coroutines)
         /\ Range(Reversed(s)) = Range(s)
         /\ Distinct(s) => Distinct(Reversed(s))
         /\ Reversed(s) = <<>> <=> s = <<>>
<1> DEFINE r == Reversed(s)
<1>1. /\ r = [n \in 1..Len(s) |-> s[(Len(s) - n) + 1]]
      /\ Len(s) \in Nat /\ DOMAIN s = 1..Len(s)
  BY SMT DEF Reversed
<1>2. \A n \in 1..Len(s) : (Len(s) - n) + 1 \in 1..Len(s)
                           /\ (Len(s) - ((Len(s) - n) + 1)) + 1 = n
  BY <1>1, SMT
<1>3. r \in Seq(Coroutines) /\ Len(r) = Len(s) /\ DOMAIN r = 1..Len(s)
  BY <1>1, <1>2, SMT
<1>4. \A n \in 1..Len(s) : r[n] = s[(Len(s) - n) + 1] BY <1>1
<1> HIDE DEF r
<1>5. Range(r) = Range(s)
  <2>1. ASSUME NEW n \in 1..Len(s) PROVE r[n] \in Range(s)
    BY <1>1, <1>2, <1>4 DEF Range
  <2>2. ASSUME NEW n \in 1..Len(s) PROVE s[n] \in Range(r)
    <3>1. r[(Len(s) - n) + 1] = s[n] BY <1>2, <1>4
    <3> QED BY <3>1, <1>2, <1>3 DEF Range
  <2>3. DOMAIN r = 1..Len(s) /\ DOMAIN s = 1..Len(s) BY <1>1, <1>3
  <2>4. Range(r) \subseteq Range(s) BY <2>1, <2>3 DEF Range
  <2>5. Range(s) \subseteq Range(r) BY <2>2, <2>3 DEF Range
  <2> QED BY <2>4, <2>5
<1>6. ASSUME Distinct(s) PROVE Distinct(r)
  <2> SUFFICES ASSUME NEW m \in 1..Len(s), NEW n \in 1..Len(s), r[m] = r[n]
               PROVE  m = n
    BY <1>3 DEF Distinct
  <2>0. s[(Len(s) - m) + 1] = s[(Len(s) - n) + 1] BY <1>4
  <2>1. (Len(s) - m) + 1 = (Len(s) - n) + 1 BY <1>2, <1>6, <2>0 DEF Distinct
  <2> QED BY <2>1, <1>1, SMT
<1>7. r = <<>> <=> s = <<>> BY <1>3, SMT
<1> QED BY <1>3, <1>5, <1>6, <1>7 DEF r

LEMMA OneTaken ==
  ASSUME NEW s \in Seq(Coroutines), s # <<>>
  PROVE  /\ Head(s) \in Coroutines /\ Tail(s) \in Seq(Coroutines)
         /\ Head(s) \in Range(s)
         /\ Distinct(s) => /\ Distinct(Tail(s))
                           /\ Range(Tail(s)) = Range(s) \ {Head(s)}
<1> DEFINE t == Tail(s)
<1>1. /\ Len(s) \in Nat /\ Len(s) >= 1 /\ DOMAIN s = 1..Len(s)
      /\ Head(s) = s[1] /\ Head(s) \in Coroutines
      /\ t \in Seq(Coroutines) /\ Len(t) = Len(s) - 1 /\ DOMAIN t = 1..Len(t)
  BY SMT
<1>2. \A n \in 1..Len(t) : n + 1 \in 1..Len(s) /\ t[n] = s[n + 1] BY <1>1, SMT
<1>3. \A n \in 1..Len(s) : n # 1 => n - 1 \in 1..Len(t) /\ t[n - 1] = s[n]
  BY <1>1, <1>2, SMT
<1> HIDE DEF t
<1>4. Head(s) \in Range(s) BY <1>1, SMT DEF Range
<1>5. ASSUME Distinct(s) PROVE Distinct(t)
  <2> SUFFICES ASSUME NEW m \in 1..Len(t), NEW n \in 1..Len(t), t[m] = t[n]
               PROVE  m = n
    BY DEF Distinct
  <2>1. m + 1 = n + 1 BY <1>2, <1>5 DEF Distinct
  <2> QED BY <2>1, <1>1, SMT
<1>6. ASSUME Distinct(s) PROVE Range(t) = Range(s) \ {Head(s)}
  <2>1. ASSUME NEW n \in 1..Len(t) PROVE t[n] \in Range(s) /\ t[n] # Head(s)
    <3>1. n + 1 \in 1..Len(s) /\ t[n] = s[n + 1] /\ n + 1 # 1 BY <1>1, <1>2, SMT
    <3>2. s[n + 1] # s[1] BY <1>1, <1>6, <3>1, SMT DEF Distinct
    <3> QED BY <1>1, <3>1, <3>2 DEF Range
  <2>2. ASSUME NEW n \in 1..Len(s), s[n] # Head(s) PROVE s[n] \in Range(t)
    <3>1. n # 1 BY <1>1, <2>2
    <3> QED BY <1>1, <1>3, <3>1 DEF Range
  <2> QED BY <1>1, <2>1, <2>2 DEF Range
<1> QED BY <1>1, <1>4, <1>5, <1>6 DEF t

---------------------------------------------------------------------------
(* What a step of c leaves alone *)

Only(c) == \A d \in Coroutines \ {c} :
             pc'[d] = pc[d] /\ seen'[d] = seen[d] /\ record'[d] = record[d]

LEMMA KnownFrame ==
  ASSUME Known, NEW c \in Coroutines, Only(c), Knows(c)',
         \A d \in Coroutines \ {c} :
           /\ d \in woken' => d \in woken \/ pc[d] \in Waits
           /\ holder' = holder \/ pc[d] # "cs"
           /\ to_pop' = to_pop \/ pc[d] \notin LockPops \cup UnlockPops
  PROVE  Known'
<1> SUFFICES ASSUME NEW d \in Coroutines \ {c} PROVE Knows(d)'
  BY DEF Known
<1>1. /\ pc'[d] = pc[d] /\ seen'[d] = seen[d] /\ record'[d] = record[d]
      /\ Knows(d)
  BY DEF Only, Known
<1> QED BY <1>1 DEF Knows, LockPops, UnlockPops

LEMMA RecsFrame ==
  ASSUME TypeOK, TypeOK', Once, Recs, NEW c \in Coroutines, Only(c),
         UNCHANGED <<from_push, to_pop, woken>>, record'[c] = record[c],
         pc[c] \in Waits \cup LockPops <=> pc'[c] \in Waits \cup LockPops
  PROVE  Once' /\ Recs'
<1>1. record' = record BY SMT DEF Only, TypeOK
<1>2. Once' BY <1>1 DEF Once
<1>3. \A d \in Coroutines : Recorded(d)' <=> Recorded(d) BY <1>1 DEF Recorded
<1>4. Recs' BY <1>3 DEF Recs, Only
<1> QED BY <1>2, <1>4

LEMMA TokenFrame ==
  ASSUME TypeOK, TypeOK', Token, NEW c \in Coroutines, Only(c),
         UNCHANGED <<woken, handoff>>, locked' >= locked, Tok(c)' => Tok(c)
  PROVE  Token'
<1>1. \A d \in Coroutines : Tok(d)' => Tok(d) BY DEF Tok, Only
<1>2. locked > 0 => locked' > 0 BY SMT DEF TypeOK
<1> QED BY <1>1, <1>2 DEF Token

(* The token is with e, or laid down *)
LEMMA TokenMoves ==
  ASSUME NEW e \in Coroutines, \A d \in Coroutines : Tok(d)' => d = e,
         Tok(e)' => handoff' = 0 /\ locked' > 0, handoff' # 0 => locked' > 0
  PROVE  Token'
BY DEF Token

(* A step that only looks *)
LEMMA LookKeeps ==
  ASSUME IInv, NEW c \in Coroutines, Only(c), TypeOK', Knows(c)',
         UNCHANGED <<from_push, to_pop, handoff, woken>>, record'[c] = record[c],
         locked' >= locked, holder' = holder \/ Tok(c),
         pc[c] \in Waits \cup LockPops <=> pc'[c] \in Waits \cup LockPops,
         Tok(c)' => Tok(c)
  PROVE  IInv'
<1>1. Known'
  <2>1. \A d \in Coroutines \ {c} : holder' = holder \/ pc[d] # "cs"
    BY DEF IInv, Token, Tok, Owning
  <2> QED BY <2>1, KnownFrame DEF IInv
<1>2. Once' /\ Recs' BY RecsFrame DEF IInv
<1>3. Token' BY TokenFrame DEF IInv
<1> QED BY <1>1, <1>2, <1>3 DEF IInv

---------------------------------------------------------------------------
(* One lemma for each kind of step *)

LEMMA InitIInv == Init => IInv
<1> SUFFICES ASSUME Init PROVE IInv OBVIOUS
<1> USE DEF Init
<1>1. TypeOK BY CoMutexAssumption, SMT DEF TypeOK, Places
<1>2. Token BY DEF Token, Tok, Owning, LockPops, UnlockPops
<1>3. Known BY DEF Known, Knows
<1>4. Once BY OnceEmpty DEF Once
<1>5. Recs BY OnceEmpty DEF Recs, Recorded, Waits, LockPops
<1> QED BY <1>1, <1>2, <1>3, <1>4, <1>5 DEF IInv

LEMMA LookSteps ==
  ASSUME IInv, NEW c \in Coroutines,
         \/ Lock(c) \/ Spin(c) \/ SpinEnd(c) \/ ReadHandoff(c)
         \/ has_waiters(c) \/ PopTest(c) \/ Owned(c) \/ Unlock(c) \/ Number(c)
  PROVE  IInv'
<1> USE DEF Go, shared, local
<1>0. TypeOK /\ Knows(c) BY DEF IInv, Known
<1>1. CASE Lock(c)
  <2>1. pc' = [pc EXCEPT ![c] = "try"] /\ pc[c] = "out" /\ UNCHANGED <<shared, local>>
    BY <1>1 DEF Lock
  <2>2. Only(c) BY <1>0, <2>1 DEF Only, TypeOK
  <2>3. TypeOK' BY <1>0, <2>1 DEF TypeOK, Places
  <2>4. Knows(c)' BY <1>0, <2>1 DEF Knows, TypeOK, Waits
  <2>5. UNCHANGED <<from_push, to_pop, handoff, woken>> /\ record'[c] = record[c]
    BY <2>1
  <2>6. locked' >= locked BY <1>0, <2>1, SMT DEF TypeOK
  <2>7. /\ pc[c] \in Waits \cup LockPops <=> pc'[c] \in Waits \cup LockPops
        /\ Tok(c)' => Tok(c)
        /\ holder' = holder \/ Tok(c)
    BY <1>0, <2>1 DEF Tok, TypeOK, Waits, Owning, LockPops, UnlockPops
  <2> QED BY <2>2, <2>3, <2>4, <2>5, <2>6, <2>7, LookKeeps
<1>2. CASE Spin(c)
  <2>1. /\ pc[c] = "spin" /\ pc' \in {pc, [pc EXCEPT ![c] = "try"]}
        /\ i[c] + 1 < SpinMax /\ i' = [i EXCEPT ![c] = @ + 1]
        /\ UNCHANGED <<shared, seen, record, woken>>
    BY <1>2 DEF Spin
  <2>2. Only(c) BY <1>0, <2>1 DEF Only, TypeOK
  <2>3. TypeOK'
    <3>1. pc' \in [Coroutines -> Places] BY <1>0, <2>1 DEF TypeOK, Places
    <3>2. i' \in [Coroutines -> 0..(SpinMax - 1)]
      BY <1>0, <2>1, CoMutexAssumption, SMTT(60) DEF TypeOK
    <3> QED BY <1>0, <2>1, <3>1, <3>2 DEF TypeOK
  <2>4. Knows(c)' BY <1>0, <2>1 DEF Knows, TypeOK, Waits
  <2>5. UNCHANGED <<from_push, to_pop, handoff, woken>> /\ record'[c] = record[c]
    BY <2>1
  <2>6. locked' >= locked BY <1>0, <2>1, SMT DEF TypeOK
  <2>7. /\ pc[c] \in Waits \cup LockPops <=> pc'[c] \in Waits \cup LockPops
        /\ Tok(c)' => Tok(c)
        /\ holder' = holder \/ Tok(c)
    BY <1>0, <2>1 DEF Tok, TypeOK, Waits, Owning, LockPops, UnlockPops
  <2> QED BY <2>2, <2>3, <2>4, <2>5, <2>6, <2>7, LookKeeps
<1>3. CASE SpinEnd(c)
  <2>1. /\ pc[c] = "spin" /\ pc' = [pc EXCEPT ![c] = "inc"]
        /\ UNCHANGED <<shared, local>>
    BY <1>3 DEF SpinEnd
  <2>2. Only(c) BY <1>0, <2>1 DEF Only, TypeOK
  <2>3. TypeOK' BY <1>0, <2>1 DEF TypeOK, Places
  <2>4. Knows(c)' BY <1>0, <2>1 DEF Knows, TypeOK, Waits
  <2>5. UNCHANGED <<from_push, to_pop, handoff, woken>> /\ record'[c] = record[c]
    BY <2>1
  <2>6. locked' >= locked BY <1>0, <2>1, SMT DEF TypeOK
  <2>7. /\ pc[c] \in Waits \cup LockPops <=> pc'[c] \in Waits \cup LockPops
        /\ Tok(c)' => Tok(c)
        /\ holder' = holder \/ Tok(c)
    BY <1>0, <2>1 DEF Tok, TypeOK, Waits, Owning, LockPops, UnlockPops
  <2> QED BY <2>2, <2>3, <2>4, <2>5, <2>6, <2>7, LookKeeps
<1>4. CASE ReadHandoff(c)
  <2>1. /\ pc[c] = "read" /\ seen' = [seen EXCEPT ![c] = handoff]
        /\ pc' = [pc EXCEPT ![c] = IF handoff = 0 THEN "yield" ELSE "hasToPop"]
        /\ UNCHANGED <<shared, i, record, woken>>
    BY <1>4 DEF ReadHandoff
  <2>2. Only(c) BY <1>0, <2>1 DEF Only, TypeOK
  <2>3. TypeOK' BY <1>0, <2>1 DEF TypeOK, Places
  <2>4. Knows(c)' BY <1>0, <2>1 DEF Knows, TypeOK, Waits
  <2>5. UNCHANGED <<from_push, to_pop, handoff, woken>> /\ record'[c] = record[c]
    BY <2>1
  <2>6. locked' >= locked BY <1>0, <2>1, SMT DEF TypeOK
  <2>7. /\ pc[c] \in Waits \cup LockPops <=> pc'[c] \in Waits \cup LockPops
        /\ Tok(c)' => Tok(c)
        /\ holder' = holder \/ Tok(c)
    BY <1>0, <2>1 DEF Tok, TypeOK, Waits, Owning, LockPops, UnlockPops
  <2> QED BY <2>2, <2>3, <2>4, <2>5, <2>6, <2>7, LookKeeps
<1>5. CASE has_waiters(c)
  <2>1. /\ UNCHANGED <<shared, local>>
        /\ \/ /\ pc[c] \in {"hasToPop", "hasFromPush"}
              /\ \E p \in {"hasFromPush", "steal", "yield"} :
                   pc' = [pc EXCEPT ![c] = p]
           \/ /\ pc[c] \in {"unlockHasToPop", "unlockHasFromPush"}
              /\ \E p \in {"unlockHasFromPush", "retake", "out"} :
                   pc' = [pc EXCEPT ![c] = p]
    BY <1>5 DEF has_waiters
  <2>2. Only(c) BY <1>0, <2>1 DEF Only, TypeOK
  <2>3. TypeOK' BY <1>0, <2>1 DEF TypeOK, Places
  <2>4. Knows(c)' BY <1>0, <2>1 DEF Knows, TypeOK, Waits
  <2>5. UNCHANGED <<from_push, to_pop, handoff, woken>> /\ record'[c] = record[c]
    BY <2>1
  <2>6. locked' >= locked BY <1>0, <2>1, SMT DEF TypeOK
  <2>7. /\ pc[c] \in Waits \cup LockPops <=> pc'[c] \in Waits \cup LockPops
        /\ Tok(c)' => Tok(c)
        /\ holder' = holder \/ Tok(c)
    BY <1>0, <2>1 DEF Tok, TypeOK, Waits, Owning, LockPops, UnlockPops
  <2> QED BY <2>2, <2>3, <2>4, <2>5, <2>6, <2>7, LookKeeps
<1>6. CASE PopTest(c)
  <2>1. /\ UNCHANGED <<shared, local>>
        /\ \/ /\ pc[c] = "pop"
              /\ pc' = [pc EXCEPT ![c] = IF to_pop = <<>> THEN "move" ELSE "take"]
           \/ /\ pc[c] = "unlockPop"
              /\ pc' = [pc EXCEPT ![c] = IF to_pop = <<>> THEN "unlockMove"
                                         ELSE "unlockTake"]
    BY <1>6 DEF PopTest
  <2>2. Only(c) BY <1>0, <2>1 DEF Only, TypeOK
  <2>3. TypeOK' BY <1>0, <2>1 DEF TypeOK, Places, Popping
  <2>4. Knows(c)' BY <1>0, <2>1 DEF Knows, TypeOK, Waits
  <2>5. UNCHANGED <<from_push, to_pop, handoff, woken>> /\ record'[c] = record[c]
    BY <2>1
  <2>6. locked' >= locked BY <1>0, <2>1, SMT DEF TypeOK
  <2>7. /\ pc[c] \in Waits \cup LockPops <=> pc'[c] \in Waits \cup LockPops
        /\ Tok(c)' => Tok(c)
        /\ holder' = holder \/ Tok(c)
    BY <1>0, <2>1 DEF Tok, TypeOK, Waits, Owning, LockPops, UnlockPops
  <2> QED BY <2>2, <2>3, <2>4, <2>5, <2>6, <2>7, LookKeeps
<1>7. CASE Owned(c)
  <2>1. /\ pc[c] = "own" /\ holder' = c /\ pc' = [pc EXCEPT ![c] = "cs"]
        /\ UNCHANGED <<locked, from_push, to_pop, handoff, sequence, local>>
    BY <1>7 DEF Owned
  <2>2. Only(c) BY <1>0, <2>1 DEF Only, TypeOK
  <2>3. TypeOK' BY <1>0, <2>1 DEF TypeOK, Places, Owning
  <2>4. Knows(c)' BY <1>0, <2>1 DEF Knows, TypeOK, Waits
  <2>5. UNCHANGED <<from_push, to_pop, handoff, woken>> /\ record'[c] = record[c]
    BY <2>1
  <2>6. locked' >= locked BY <1>0, <2>1, SMT DEF TypeOK
  <2>7. /\ pc[c] \in Waits \cup LockPops <=> pc'[c] \in Waits \cup LockPops
        /\ Tok(c)' => Tok(c)
        /\ holder' = holder \/ Tok(c)
    BY <1>0, <2>1 DEF Tok, TypeOK, Waits, Owning, LockPops, UnlockPops
  <2> QED BY <2>2, <2>3, <2>4, <2>5, <2>6, <2>7, LookKeeps
<1>8. CASE Unlock(c)
  <2>1. /\ pc[c] = "cs" /\ holder' = Nobody /\ pc' = [pc EXCEPT ![c] = "dec"]
        /\ UNCHANGED <<locked, from_push, to_pop, handoff, sequence, local>>
    BY <1>8 DEF Unlock
  <2>2. Only(c) BY <1>0, <2>1 DEF Only, TypeOK
  <2>3. TypeOK' BY <1>0, <2>1 DEF TypeOK, Places, Owning
  <2>4. Knows(c)' BY <1>0, <2>1 DEF Knows, TypeOK, Waits
  <2>5. UNCHANGED <<from_push, to_pop, handoff, woken>> /\ record'[c] = record[c]
    BY <2>1
  <2>6. locked' >= locked BY <1>0, <2>1, SMT DEF TypeOK
  <2>7. /\ pc[c] \in Waits \cup LockPops <=> pc'[c] \in Waits \cup LockPops
        /\ Tok(c)' => Tok(c)
        /\ holder' = holder \/ Tok(c)
    BY <1>0, <2>1 DEF Tok, TypeOK, Waits, Owning, LockPops, UnlockPops
  <2> QED BY <2>2, <2>3, <2>4, <2>5, <2>6, <2>7, LookKeeps
<1>9. CASE Number(c)
  <2> DEFINE s == IF sequence + 1 = Wrap THEN 1 ELSE sequence + 1
  <2>1. /\ pc[c] = "number" /\ sequence' = s /\ seen' = [seen EXCEPT ![c] = s]
        /\ pc' = [pc EXCEPT ![c] = "offer"]
        /\ UNCHANGED <<locked, from_push, to_pop, handoff, holder, i, record, woken>>
    BY <1>9 DEF Number
  <2>0. s \in 1..(Wrap - 1) BY <1>0, CoMutexAssumption, SMT DEF TypeOK
  <2> HIDE DEF s
  <2>2. Only(c) BY <1>0, <2>1 DEF Only, TypeOK
  <2>3. TypeOK'
    <3>1. s \in 0..(Wrap - 1) BY <2>0, SMT
    <3> QED BY <1>0, <2>1, <3>1 DEF TypeOK, Places
  <2>4. Knows(c)'
    <3>1. s # 0 BY <2>0, SMT
    <3> QED BY <1>0, <2>1, <3>1 DEF Knows, TypeOK, Waits
  <2>5. UNCHANGED <<from_push, to_pop, handoff, woken>> /\ record'[c] = record[c]
    BY <2>1
  <2>6. locked' >= locked BY <1>0, <2>1, SMT DEF TypeOK
  <2>7. /\ pc[c] \in Waits \cup LockPops <=> pc'[c] \in Waits \cup LockPops
        /\ Tok(c)' => Tok(c)
        /\ holder' = holder \/ Tok(c)
    BY <1>0, <2>1 DEF Tok, TypeOK, Waits, Owning, LockPops, UnlockPops
  <2> QED BY <2>2, <2>3, <2>4, <2>5, <2>6, <2>7, LookKeeps
<1> QED BY <1>1, <1>2, <1>3, <1>4, <1>5, <1>6, <1>7, <1>8, <1>9

---------------------------------------------------------------------------
(* The steps that take, carry or lay down the token.  Nobody else has it *)

OnlyToken(c) == \A d \in Coroutines \ {c} : ~Tok(d)

LEMMA AloneKnown ==
  ASSUME IInv, NEW c \in Coroutines, Only(c), OnlyToken(c), Knows(c)',
         \A d \in Coroutines \ {c} : d \in woken' => d \in woken \/ pc[d] \in Waits
  PROVE  Known'
<1>1. \A d \in Coroutines \ {c} :
        pc[d] # "cs" /\ pc[d] \notin LockPops \cup UnlockPops
  BY DEF OnlyToken, Tok, Owning
<1> QED BY <1>1, KnownFrame DEF IInv

LEMMA AloneToken ==
  ASSUME IInv, NEW c \in Coroutines, Only(c), OnlyToken(c),
         woken' \subseteq woken \cup {c},
         Tok(c)' => handoff' = 0 /\ locked' > 0, handoff' # 0 => locked' > 0
  PROVE  Token'
<1>1. \A d \in Coroutines : Tok(d)' => d = c BY DEF Only, OnlyToken, Tok
<1> QED BY <1>1, TokenMoves

LEMMA HasAlone ==
  ASSUME IInv, NEW c \in Coroutines, Tok(c) \/ handoff # 0 \/ locked = 0
  PROVE  OnlyToken(c)
BY SMT DEF IInv, OnlyToken, Token

LEMMA TakeSteps ==
  ASSUME IInv, NEW c \in Coroutines, TryFast(c) \/ Announce(c)
  PROVE  IInv'
<1> USE DEF Go, Gone
<1>0. TypeOK /\ Knows(c) BY DEF IInv, Known
<1>1. /\ pc[c] \in {"try", "inc"}
      /\ locked' >= locked
      /\ \/ locked = 0 /\ locked' = 1 /\ pc' = [pc EXCEPT ![c] = "own"]
         \/ \E p \in {"spin", "inc", "push"} : pc' = [pc EXCEPT ![c] = p]
      /\ i' \in {i, [i EXCEPT ![c] = 0]} /\ locked' \in Nat
      /\ UNCHANGED <<from_push, to_pop, handoff, sequence, holder, seen, record, woken>>
  BY <1>0, SMT DEF TryFast, Announce, TypeOK
<1>2. Only(c) BY <1>0, <1>1 DEF Only, TypeOK
<1>3. TypeOK'
  <2>1. pc' \in [Coroutines -> Places] BY <1>0, <1>1 DEF TypeOK, Places, Owning
  <2>2. i' \in [Coroutines -> 0..(SpinMax - 1)]
    <3>1. 0 \in 0..(SpinMax - 1) BY CoMutexAssumption, SMT
    <3> QED BY <1>0, <1>1, <3>1 DEF TypeOK
  <2> QED BY <1>0, <1>1, <2>1, <2>2 DEF TypeOK
<1>4. Knows(c)' BY <1>0, <1>1 DEF Knows, TypeOK, Waits
<1>5. Known' BY <1>1, <1>2, <1>4, KnownFrame DEF IInv
<1>6. Once' /\ Recs'
  <2>1. pc[c] \in Waits \cup LockPops <=> pc'[c] \in Waits \cup LockPops
    BY <1>0, <1>1 DEF TypeOK, Waits, LockPops
  <2> QED BY <1>1, <1>2, <1>3, <2>1, RecsFrame DEF IInv
<1>7. Token'
  <2>1. CASE locked = 0
    <3>1. OnlyToken(c) BY <2>1, HasAlone
    <3>2. handoff = 0 BY <2>1, SMT DEF IInv, Token
    <3>3. Tok(c)' => locked' > 0
      <4>1. c \notin woken BY <1>0, <1>1 DEF Knows, Waits
      <4>2. CASE locked' = 1 BY <4>2, SMT
      <4>3. CASE pc'[c] \in {"spin", "inc", "push"}
        BY <1>1, <4>1, <4>3 DEF Tok, Owning, LockPops, UnlockPops
      <4> QED BY <1>0, <1>1, <4>2, <4>3 DEF TypeOK
    <3> QED BY <1>1, <1>2, <3>1, <3>2, <3>3, AloneToken
  <2>2. CASE locked # 0
    <3>1. Tok(c)' => Tok(c)
      BY <1>0, <1>1, <2>2 DEF Tok, TypeOK, Owning, LockPops, UnlockPops
    <3> QED BY <1>1, <1>2, <1>3, <3>1, TokenFrame DEF IInv
  <2> QED BY <2>1, <2>2
<1> QED BY <1>3, <1>5, <1>6, <1>7 DEF IInv

LEMMA PushKeeps ==
  ASSUME IInv, NEW c \in Coroutines, push_waiter(c)
  PROVE  IInv'
<1>0. TypeOK /\ Knows(c) /\ Once /\ Recs BY DEF IInv, Known
<1>1. /\ pc[c] = "push" /\ pc' = [pc EXCEPT ![c] = "read"]
      /\ from_push' = <<c>> \o from_push
      /\ UNCHANGED <<locked, to_pop, handoff, sequence, holder, i, seen, record, woken>>
  BY DEF push_waiter, Go, local
<1>2. Only(c) BY <1>0, <1>1 DEF Only, TypeOK
<1>3. ~Recorded(c) /\ c \notin woken
  BY <1>0, <1>1 DEF Recs, Knows, Waits, LockPops
<1>4. /\ from_push' \in Seq(Coroutines) /\ Range(from_push') = {c} \cup Range(from_push)
      /\ Distinct(from_push')
  BY <1>0, <1>1, <1>3, OnePushed DEF TypeOK, Once, Recorded
<1>5. TypeOK' BY <1>0, <1>1, <1>4 DEF TypeOK, Places
<1>6. Knows(c)' BY <1>0, <1>1 DEF Knows, TypeOK, Waits
<1>7. Known' BY <1>1, <1>2, <1>6, KnownFrame DEF IInv
<1>8. Once' BY <1>0, <1>1, <1>3, <1>4, SMT DEF Once, Recorded
<1>9. Recs'
  <2>1. \A d \in Coroutines : Recorded(d)' <=> Recorded(d) \/ d = c
    BY <1>1, <1>4 DEF Recorded
  <2>2. pc'[c] \in Waits BY <1>0, <1>1 DEF TypeOK, Waits
  <2> QED BY <1>0, <1>1, <1>2, <1>3, <2>1, <2>2 DEF Recs, Only
<1>10. Token'
  <2>1. Tok(c)' => Tok(c)
    BY <1>0, <1>1 DEF Tok, TypeOK, Owning, LockPops, UnlockPops
  <2>2. locked' >= locked BY <1>0, <1>1, SMT DEF TypeOK
  <2> QED BY <1>1, <1>2, <1>5, <2>1, <2>2, TokenFrame DEF IInv
<1> QED BY <1>5, <1>7, <1>8, <1>9, <1>10 DEF IInv

LEMMA HandoffSteps ==
  ASSUME IInv, NEW c \in Coroutines, StealHandoff(c) \/ RetakeHandoff(c)
  PROVE  IInv'
<1> USE DEF Go, Gone
<1>0. TypeOK /\ Knows(c) BY DEF IInv, Known
<1>1. /\ seen' = [seen EXCEPT ![c] = 0] /\ seen[c] # 0
      /\ UNCHANGED <<locked, from_push, to_pop, sequence, holder, i, record, woken>>
      /\ \/ pc[c] = "steal" /\ handoff = seen[c] /\ pc' = [pc EXCEPT ![c] = "pop"]
            /\ handoff' = 0
         \/ pc[c] = "steal" /\ pc' = [pc EXCEPT ![c] = "yield"] /\ handoff' = handoff
         \/ pc[c] = "retake" /\ handoff = seen[c] /\ handoff' = 0
            /\ pc' = [pc EXCEPT ![c] = "unlockPop"]
         \/ pc[c] = "retake" /\ pc' = [pc EXCEPT ![c] = "out"] /\ handoff' = handoff
  BY <1>0 DEF StealHandoff, RetakeHandoff, HandoffStands, Retakes, Knows
<1>2. Only(c) BY <1>0, <1>1 DEF Only, TypeOK
<1>3. handoff' \in 0..(Wrap - 1) /\ 0 \in 0..(Wrap - 1)
  BY <1>0, <1>1, CoMutexAssumption, SMT DEF TypeOK
<1>4. TypeOK' BY <1>0, <1>1, <1>3 DEF TypeOK, Places, Popping
<1>5. handoff # 0 => c \notin woken BY DEF IInv, Token, Tok
<1>6. Knows(c)'
  <2>1. c \in woken' => pc'[c] \in Waits
    BY <1>0, <1>1, <1>5 DEF Knows, TypeOK, Waits
  <2>2. record'[c] = <<>> /\ pc'[c] \in {"pop", "yield", "unlockPop", "out"}
    BY <1>0, <1>1 DEF Knows, TypeOK
  <2> QED BY <2>1, <2>2 DEF Knows
<1>7. Known' BY <1>1, <1>2, <1>6, KnownFrame DEF IInv
<1>8. Once' /\ Recs'
  <2>1. pc[c] \in Waits \cup LockPops <=> pc'[c] \in Waits \cup LockPops
    BY <1>0, <1>1 DEF TypeOK, Waits, LockPops
  <2> QED BY <1>1, <1>2, <1>4, <2>1, RecsFrame DEF IInv
<1>9. Token'
  <2>1. CASE handoff' = handoff
    <3>1. pc'[c] \in {"yield", "out"} BY <1>0, <1>1, <2>1 DEF TypeOK
    <3>2. Tok(c)' => Tok(c) BY <1>1, <3>1 DEF Tok, Owning, LockPops, UnlockPops
    <3>3. locked' >= locked BY <1>0, <1>1, SMT DEF TypeOK
    <3> QED BY <1>1, <1>2, <1>4, <2>1, <3>2, <3>3, TokenFrame DEF IInv
  <2>2. CASE handoff' # handoff
    <3>1. handoff # 0 /\ handoff' = 0 BY <1>1, <2>2
    <3>2. locked' > 0 /\ OnlyToken(c) BY <1>1, <3>1, HasAlone DEF IInv, Token
    <3> QED BY <1>1, <1>2, <3>1, <3>2, AloneToken
  <2> QED BY <2>1, <2>2
<1> QED BY <1>4, <1>7, <1>8, <1>9 DEF IInv

LEMMA YieldedKeeps ==
  ASSUME IInv, NEW c \in Coroutines, Yielded(c)
  PROVE  IInv'
<1>0. TypeOK /\ Knows(c) /\ Once /\ Recs BY DEF IInv, Known
<1>1. /\ pc[c] = "yield" /\ c \in woken /\ woken' = woken \ {c}
      /\ pc' = [pc EXCEPT ![c] = "own"]
      /\ UNCHANGED <<locked, from_push, to_pop, handoff, sequence, holder, i, seen,
                     record>>
  BY DEF Yielded, Go, shared
<1>2. Only(c) BY <1>0, <1>1 DEF Only, TypeOK
<1>3. OnlyToken(c) /\ handoff = 0 /\ locked > 0
  BY <1>1, HasAlone DEF IInv, Token, Tok
<1>4. TypeOK' BY <1>0, <1>1 DEF TypeOK, Places, Owning
<1>5. Knows(c)' BY <1>0, <1>1 DEF Knows, TypeOK, Waits
<1>6. Known' BY <1>1, <1>2, <1>3, <1>5, AloneKnown
<1>7. Once' BY <1>0, <1>1 DEF Once
<1>8. Recs'
  <2>1. \A d \in Coroutines : Recorded(d)' <=> Recorded(d) BY <1>1 DEF Recorded
  <2>2. pc'[c] \notin Waits \cup LockPops
    BY <1>0, <1>1 DEF TypeOK, Waits, LockPops
  <2> QED BY <1>0, <1>1, <1>2, <2>1, <2>2 DEF Recs, Only
<1>9. Token' BY <1>1, <1>2, <1>3, AloneToken
<1> QED BY <1>4, <1>6, <1>7, <1>8, <1>9 DEF IInv

LEMMA MoveOutKeeps ==
  ASSUME IInv, NEW c \in Coroutines, MoveOut(c)
  PROVE  IInv'
<1>0. TypeOK /\ Knows(c) /\ Once /\ Recs BY DEF IInv, Known
<1>1. /\ \/ pc[c] = "move" /\ pc' = [pc EXCEPT ![c] = "fill"]
         \/ pc[c] = "unlockMove" /\ pc' = [pc EXCEPT ![c] = "unlockFill"]
      /\ record' = [record EXCEPT ![c] = from_push] /\ from_push' = <<>>
      /\ UNCHANGED <<locked, to_pop, handoff, sequence, holder, i, seen, woken>>
  BY DEF MoveOut, Go
<1>2. Only(c) BY <1>0, <1>1 DEF Only, TypeOK
<1>3. OnlyToken(c) /\ handoff = 0 /\ locked > 0
  BY <1>1, HasAlone DEF IInv, Token, Tok, LockPops, UnlockPops
<1>4. TypeOK'
  <2>1. pc' \in [Coroutines -> Places] BY <1>0, <1>1 DEF TypeOK, Places, Popping
  <2>2. record' \in [Coroutines -> Seq(Coroutines)] BY <1>0, <1>1 DEF TypeOK
  <2>3. from_push' \in Seq(Coroutines) BY <1>1, SMT
  <2> QED BY <1>0, <1>1, <2>1, <2>2, <2>3 DEF TypeOK
<1>5. /\ to_pop = <<>> /\ record[c] = <<>> /\ record'[c] = from_push
      /\ c \notin woken
  BY <1>0, <1>1 DEF Knows, TypeOK, Waits
<1>6. \A d \in Coroutines \ {c} : record[d] = <<>> /\ record'[d] = <<>>
  BY <1>2, <1>3 DEF IInv, Known, Knows, OnlyToken, Tok, Only, LockPops, UnlockPops
<1>7. \A d \in Coroutines : Recorded(d)' <=> Recorded(d)
  <2>1. \A d \in Coroutines : Recorded(d) <=> d \in Range(from_push)
    BY <1>5, <1>6, OnceEmpty DEF Recorded
  <2>2. \A d \in Coroutines : Recorded(d)' <=> d \in Range(record'[c])
    BY <1>1, <1>5, <1>6, OnceEmpty DEF Recorded
  <2> QED BY <1>5, <2>1, <2>2
<1>8. Knows(c)'
  <2>1. pc[c] = "move" => from_push # <<>>
    <3>1. pc[c] = "move" => Recorded(c) BY <1>0, <1>5 DEF Recs, LockPops
    <3> QED BY <3>1, <1>5, <1>6, OnceEmpty DEF Recorded
  <2>2. pc'[c] \in {"fill", "unlockFill"} /\ (pc'[c] = "fill" => pc[c] = "move")
    BY <1>0, <1>1 DEF TypeOK
  <2> QED BY <1>1, <1>5, <2>1, <2>2 DEF Knows
<1>9. Known' BY <1>1, <1>2, <1>3, <1>8, AloneKnown
<1>10. Once' BY <1>0, <1>1, <1>5, <1>6, OnceEmpty DEF Once
<1>11. Recs'
  <2>1. pc[c] \in Waits \cup LockPops <=> pc'[c] \in Waits \cup LockPops
    BY <1>0, <1>1 DEF TypeOK, Waits, LockPops
  <2> QED BY <1>0, <1>1, <1>2, <1>7, <2>1 DEF Recs, Only
<1>12. Token' BY <1>1, <1>2, <1>3, AloneToken
<1> QED BY <1>4, <1>9, <1>10, <1>11, <1>12 DEF IInv

LEMMA MoveInKeeps ==
  ASSUME IInv, NEW c \in Coroutines, MoveIn(c)
  PROVE  IInv'
<1> DEFINE r == Reversed(record[c])
<1>0. TypeOK /\ Knows(c) /\ Once /\ Recs BY DEF IInv, Known
<1>1. pc[c] \in {"fill", "unlockFill"} BY DEF MoveIn
<1>2. to_pop = <<>> BY <1>0, <1>1 DEF Knows
<1>3. /\ r \in Seq(Coroutines) /\ Range(r) = Range(record[c])
      /\ Distinct(r) /\ (r = <<>> <=> record[c] = <<>>)
  BY <1>0, ReversedSame DEF TypeOK, Once
<1> HIDE DEF r
<1>4. r \o to_pop = r BY <1>2, <1>3, SMTT(30)
<1>5. /\ \/ pc[c] = "fill" /\ pc' = [pc EXCEPT ![c] = "take"]
         \/ /\ pc[c] = "unlockFill"
            /\ pc' = [pc EXCEPT ![c] = IF r = <<>> THEN "number" ELSE "unlockTake"]
      /\ to_pop' = r /\ record' = [record EXCEPT ![c] = <<>>]
      /\ UNCHANGED <<locked, from_push, handoff, sequence, holder, i, seen, woken>>
  BY <1>4 DEF MoveIn, Moved, Go, r
<1>6. Only(c) BY <1>0, <1>5 DEF Only, TypeOK
<1>7. OnlyToken(c) /\ handoff = 0 /\ locked > 0
  BY <1>1, HasAlone DEF IInv, Token, Tok, LockPops, UnlockPops
<1>8. TypeOK'
  <2>1. pc' \in [Coroutines -> Places] BY <1>0, <1>5 DEF TypeOK, Places, Popping
  <2>2. <<>> \in Seq(Coroutines) BY SMT
  <2>3. record' \in [Coroutines -> Seq(Coroutines)] BY <1>0, <1>5, <2>2 DEF TypeOK
  <2> QED BY <1>0, <1>3, <1>5, <2>1, <2>3 DEF TypeOK
<1>9. Knows(c)'
  <2>1. pc[c] = "fill" => r # <<>> BY <1>0, <1>3 DEF Knows
  <2>2. c \notin woken BY <1>0, <1>1 DEF Knows, Waits
  <2>3. /\ pc'[c] \in {"take", "number", "unlockTake"} /\ record'[c] = <<>>
        /\ pc'[c] # "number" => r # <<>>
    BY <1>0, <1>5, <2>1 DEF TypeOK
  <2> QED BY <1>5, <2>2, <2>3 DEF Knows
<1>10. Known' BY <1>5, <1>6, <1>7, <1>9, AloneKnown
<1>11. \A d \in Coroutines \ {c} : record'[d] = record[d] BY <1>6 DEF Only
<1>12. record'[c] = <<>> BY <1>0, <1>5 DEF TypeOK
<1>13. \A d \in Coroutines \ {c} : record[d] = <<>>
  BY <1>7 DEF IInv, Known, Knows, OnlyToken, Tok, LockPops, UnlockPops
<1>14. Once'
  BY <1>0, <1>3, <1>5, <1>11, <1>12, <1>13, OnceEmpty DEF Once
<1>15. Recs'
  <2>1. pc[c] \in Waits \cup LockPops <=> pc'[c] \in Waits \cup LockPops
    BY <1>0, <1>5 DEF TypeOK, Waits, LockPops
  <2>2. \A d \in Coroutines : Recorded(d)' <=> Recorded(d)
    BY <1>2, <1>3, <1>5, <1>11, <1>12, <1>13, OnceEmpty DEF Recorded
  <2> QED BY <1>0, <1>5, <1>6, <2>1, <2>2 DEF Recs, Only
<1>16. Token' BY <1>5, <1>6, <1>7, AloneToken
<1> QED BY <1>8, <1>10, <1>14, <1>15, <1>16 DEF IInv

LEMMA PopTakeKeeps ==
  ASSUME IInv, NEW c \in Coroutines, PopTake(c)
  PROVE  IInv'
<1> DEFINE h == Head(to_pop)
           t == Tail(to_pop)
<1>0. TypeOK /\ Knows(c) /\ Once /\ Recs BY DEF IInv, Known
<1>1. /\ h \in Coroutines /\ t \in Seq(Coroutines) /\ h \in Range(to_pop)
      /\ Distinct(t) /\ Range(t) = Range(to_pop) \ {h}
  BY <1>0, OneTaken DEF PopTake, TypeOK, Once
<1> HIDE DEF h, t
<1>2. /\ \/ pc[c] = "take" /\ h = c /\ pc' = [pc EXCEPT ![c] = "own"]
            /\ record' = [record EXCEPT ![c] = <<>>]
         \/ pc[c] = "take" /\ h # c /\ pc' = [pc EXCEPT ![c] = "wake"]
            /\ record' = [record EXCEPT ![c] = <<h>>]
         \/ pc[c] = "unlockTake" /\ pc' = [pc EXCEPT ![c] = "unlockWake"]
            /\ record' = [record EXCEPT ![c] = <<h>>]
      /\ to_pop' = t
      /\ UNCHANGED <<locked, from_push, handoff, sequence, holder, i, seen, woken>>
  BY DEF PopTake, Go, h, t
<1>3. Only(c) BY <1>0, <1>2 DEF Only, TypeOK
<1>4. OnlyToken(c) /\ handoff = 0 /\ locked > 0
  BY <1>2, HasAlone DEF IInv, Token, Tok, LockPops, UnlockPops
<1>5. TypeOK'
  <2>1. pc' \in [Coroutines -> Places]
    BY <1>0, <1>2 DEF TypeOK, Places, Popping, Owning
  <2>2. <<>> \in Seq(Coroutines) /\ <<h>> \in Seq(Coroutines) BY <1>1, SMT
  <2>3. record' \in [Coroutines -> Seq(Coroutines)]
    BY <1>0, <1>2, <2>2 DEF TypeOK
  <2> QED BY <1>0, <1>1, <1>2, <2>1, <2>3 DEF TypeOK
<1>6. c \notin woken /\ record[c] = <<>> BY <1>0, <1>2 DEF Knows, Waits
<1>7. Recorded(h) /\ (pc[c] = "unlockTake" => h # c)
  <2>1. Recorded(h) BY <1>1 DEF Recorded
  <2> QED BY <1>0, <1>1, <2>1 DEF Recs, Waits, LockPops
<1>8. /\ \/ pc'[c] = "own" /\ h = c /\ record'[c] = <<>>
         \/ pc'[c] \in {"wake", "unlockWake"} /\ h # c /\ record'[c] = <<h>>
      /\ pc'[c] \in {"wake"} <=> pc[c] = "take" /\ h # c
  BY <1>0, <1>2, <1>7 DEF TypeOK
<1>9. Knows(c)'
  <2>1. c \notin woken' BY <1>2, <1>6
  <2> QED BY <1>1, <1>8, <2>1 DEF Knows
<1>10. Known' BY <1>2, <1>3, <1>4, <1>9, AloneKnown
<1>11. \A d \in Coroutines \ {c} : record[d] = <<>> /\ record'[d] = <<>>
  BY <1>3, <1>4 DEF IInv, Known, Knows, OnlyToken, Tok, LockPops, UnlockPops, Only
<1>12. /\ Range(record'[c]) \subseteq {h} /\ Distinct(record'[c])
       /\ h # c => h \in Range(record'[c])
       /\ h = c => Range(record'[c]) = {}
  BY <1>8, OnceEmpty, OneSingle
<1>13. Once' BY <1>0, <1>1, <1>2, <1>11, <1>12, OnceEmpty DEF Once
<1>14. \A d \in Coroutines :
         Recorded(d)' <=> Recorded(d) /\ ~(d = h /\ h = c)
  <2>1. \A d \in Coroutines :
          Recorded(d) <=> d \in Range(from_push) \/ d \in Range(to_pop)
    BY <1>6, <1>11, OnceEmpty DEF Recorded
  <2>2. \A d \in Coroutines :
          Recorded(d)' <=> \/ d \in Range(from_push) \/ d \in Range(t)
                          \/ d \in Range(record'[c])
    BY <1>2, <1>11, OnceEmpty DEF Recorded
  <2>3. h \notin Range(from_push) BY <1>0, <1>1 DEF Once
  <2> QED BY <1>1, <1>12, <2>1, <2>2, <2>3
<1>15. Recs'
  <2>1. \A d \in Coroutines \ {c} :
          Recorded(d)' <=> pc'[d] \in Waits \cup LockPops /\ d \notin woken'
    BY <1>0, <1>2, <1>3, <1>14 DEF Recs, Only
  <2>2. CASE pc[c] = "take"
    <3>1. Recorded(c) BY <1>0, <1>6, <2>2 DEF Recs, LockPops
    <3>2. Recorded(c)' <=> h # c BY <1>14, <3>1
    <3>3. pc'[c] \in Waits \cup LockPops <=> h # c
      BY <1>8, <2>2 DEF Waits, LockPops
    <3> QED BY <1>2, <1>6, <2>1, <3>2, <3>3 DEF Recs
  <2>3. CASE pc[c] # "take"
    <3>1. pc[c] = "unlockTake" BY <1>2, <2>3
    <3>2. ~Recorded(c) BY <1>0, <3>1 DEF Recs, Waits, LockPops
    <3>3. ~Recorded(c)' BY <1>14, <3>2
    <3>4. pc'[c] \notin Waits \cup LockPops
      BY <1>7, <1>8, <2>3, <3>1 DEF Waits, LockPops
    <3> QED BY <2>1, <3>3, <3>4 DEF Recs
  <2> QED BY <2>2, <2>3
<1>16. Token' BY <1>2, <1>3, <1>4, AloneToken
<1> QED BY <1>5, <1>10, <1>13, <1>15, <1>16 DEF IInv

LEMMA WakeKeeps ==
  ASSUME IInv, NEW c \in Coroutines, qemu_co_mutex_wake(c)
  PROVE  IInv'
<1>0. TypeOK /\ Knows(c) /\ Once /\ Recs BY DEF IInv, Known
<1>1. pc[c] \in {"wake", "unlockWake"} BY DEF qemu_co_mutex_wake
<1>2. PICK e \in Coroutines : e # c /\ record[c] = <<e>> BY <1>0, <1>1 DEF Knows
<1>3. /\ \/ pc[c] = "wake" /\ pc' = [pc EXCEPT ![c] = "yield"]
         \/ pc[c] = "unlockWake" /\ pc' = [pc EXCEPT ![c] = "out"]
      /\ woken' = woken \cup {e} /\ record' = [record EXCEPT ![c] = <<>>]
      /\ UNCHANGED <<locked, from_push, to_pop, handoff, sequence, holder, i, seen>>
  BY <1>2, SMT DEF qemu_co_mutex_wake, Go, shared
<1>4. Only(c) BY <1>0, <1>3 DEF Only, TypeOK
<1>5. OnlyToken(c) /\ handoff = 0 /\ locked > 0
  BY <1>1, HasAlone DEF IInv, Token, Tok, LockPops, UnlockPops
<1>6. TypeOK'
  <2>1. pc' \in [Coroutines -> Places] BY <1>0, <1>3 DEF TypeOK, Places
  <2>2. <<>> \in Seq(Coroutines) BY SMT
  <2>3. record' \in [Coroutines -> Seq(Coroutines)] BY <1>0, <1>3, <2>2 DEF TypeOK
  <2>4. woken' \subseteq Coroutines BY <1>0, <1>3 DEF TypeOK
  <2> QED BY <1>0, <1>3, <2>1, <2>3, <2>4 DEF TypeOK
<1>7. /\ Range(record[c]) = {e} /\ Recorded(e)
      /\ e \notin Range(from_push) /\ e \notin Range(to_pop)
  BY <1>0, <1>2, OneSingle DEF Once, Recorded
<1>8. pc[e] \in Waits /\ e \notin woken
  BY <1>0, <1>2, <1>5, <1>7 DEF Recs, OnlyToken, Tok
<1>9. c \notin woken' /\ record'[c] = <<>> /\ pc'[c] \in {"yield", "out"}
  BY <1>0, <1>1, <1>2, <1>3 DEF Knows, TypeOK, Waits
<1>10. Knows(c)' BY <1>9 DEF Knows
<1>11. Known' BY <1>3, <1>4, <1>5, <1>8, <1>10, AloneKnown
<1>12. \A d \in Coroutines \ {c} : record[d] = <<>> /\ record'[d] = <<>>
  BY <1>4, <1>5 DEF IInv, Known, Knows, OnlyToken, Tok, LockPops, UnlockPops, Only
<1>13. Once' BY <1>0, <1>3, <1>9, <1>12, OnceEmpty DEF Once
<1>14. \A d \in Coroutines : Recorded(d)' <=> Recorded(d) /\ d # e
  BY <1>3, <1>7, <1>9, <1>12, OnceEmpty DEF Recorded
<1>15. Recs'
  <2>1. pc[c] \in Waits \cup LockPops <=> pc'[c] \in Waits \cup LockPops
    BY <1>0, <1>3 DEF TypeOK, Waits, LockPops
  <2> QED BY <1>0, <1>2, <1>3, <1>4, <1>14, <2>1 DEF Recs, Only
<1>16. Token'
  <2>1. ~Tok(c)' BY <1>9 DEF Tok, Owning, LockPops, UnlockPops
  <2>2. \A d \in Coroutines : Tok(d)' => d = e
    BY <1>3, <1>4, <1>5, <2>1 DEF OnlyToken, Tok, Only
  <2> QED BY <1>3, <1>5, <2>2, TokenMoves
<1> QED BY <1>6, <1>11, <1>13, <1>15, <1>16 DEF IInv

LEMMA LeaveSteps ==
  ASSUME IInv, NEW c \in Coroutines, UnlockDec(c) \/ Offer(c)
  PROVE  IInv'
<1>0. TypeOK /\ Knows(c) BY DEF IInv, Known
<1>1. /\ \/ pc[c] = "dec" /\ locked' = locked - 1 /\ handoff' = handoff
            /\ pc' = [pc EXCEPT ![c] = IF locked = 1 THEN "out" ELSE "unlockPop"]
         \/ pc[c] = "offer" /\ locked' = locked /\ handoff' = seen[c]
            /\ pc' = [pc EXCEPT ![c] = "unlockHasToPop"]
      /\ UNCHANGED <<from_push, to_pop, sequence, holder, i, seen, record, woken>>
  BY DEF UnlockDec, Offer, Alone, Go, local
<1>2. Only(c) BY <1>0, <1>1 DEF Only, TypeOK
<1>3. OnlyToken(c) /\ handoff = 0 /\ locked > 0 /\ locked \in Nat
  BY <1>0, <1>1, HasAlone DEF IInv, Token, Tok, Owning, UnlockPops, TypeOK
<1>4. TypeOK'
  <2>1. pc' \in [Coroutines -> Places] BY <1>0, <1>1 DEF TypeOK, Places, Popping
  <2>2. locked' \in Nat BY <1>1, <1>3, SMT
  <2> QED BY <1>0, <1>1, <2>1, <2>2, SMTT(60) DEF TypeOK
<1>5. Knows(c)' BY <1>0, <1>1 DEF Knows, TypeOK, Waits
<1>6. Known' BY <1>1, <1>2, <1>5, KnownFrame DEF IInv
<1>7. Once' /\ Recs'
  <2>1. pc[c] \in Waits \cup LockPops <=> pc'[c] \in Waits \cup LockPops
    BY <1>0, <1>1 DEF TypeOK, Waits, LockPops
  <2> QED BY <1>1, <1>2, <1>4, <2>1, RecsFrame DEF IInv
<1>8. c \notin woken' BY <1>0, <1>1 DEF Knows, Waits
<1>9. Token'
  <2>1. CASE pc[c] = "dec"
    <3>1. handoff' = 0 BY <1>1, <1>3, <2>1
    <3>2. Tok(c)' => locked' > 0
      <4>1. CASE locked = 1
        BY <1>0, <1>1, <1>8, <2>1, <4>1 DEF Tok, TypeOK, Owning, LockPops, UnlockPops
      <4>2. CASE locked # 1 BY <1>1, <1>3, <2>1, <4>2, SMT
      <4> QED BY <4>1, <4>2
    <3> QED BY <1>1, <1>2, <1>3, <3>1, <3>2, AloneToken
  <2>2. CASE pc[c] = "offer"
    <3>1. locked' > 0 BY <1>1, <1>3, <2>2
    <3>2. ~Tok(c)'
      BY <1>0, <1>1, <1>8, <2>2 DEF Tok, TypeOK, Owning, LockPops, UnlockPops
    <3> QED BY <1>1, <1>2, <1>3, <3>1, <3>2, AloneToken
  <2> QED BY <1>1, <2>1, <2>2
<1> QED BY <1>4, <1>6, <1>7, <1>9 DEF IInv

---------------------------------------------------------------------------
LEMMA NextIInv == IInv /\ [Next]_vars => IInv'
<1> SUFFICES ASSUME IInv, [Next]_vars PROVE IInv' OBVIOUS
<1>1. CASE UNCHANGED vars
  <2> USE <1>1 DEF vars, shared, local, IInv
  <2>1. TypeOK' BY DEF TypeOK
  <2>2. Token' BY DEF Token, Tok
  <2>3. Known' BY DEF Known, Knows
  <2>4. Once' BY DEF Once
  <2>5. Recs' BY DEF Recs, Recorded
  <2> QED BY <2>1, <2>2, <2>3, <2>4, <2>5
<1>2. ASSUME NEW c \in Coroutines, Lock(c) \/ Step(c) PROVE IInv'
  BY <1>2, LookSteps, TakeSteps, PushKeeps, HandoffSteps, YieldedKeeps, MoveOutKeeps,
     MoveInKeeps, PopTakeKeeps, WakeKeeps, LeaveSteps DEF Step
<1> QED BY <1>1, <1>2 DEF Next

LEMMA SpecIInv == Spec => []IInv
BY InitIInv, NextIInv, PTL DEF Spec

(* At most one coroutine is inside the mutex or woken to go in, for any      *)
(* number of coroutines, of spins and of hand-offs until the number wraps.   *)
THEOREM ExclusionCorrect == Spec => []MutualExclusion
<1>1. IInv => MutualExclusion
  BY DEF IInv, Token, Tok, Known, Knows, MutualExclusion
<1> QED BY <1>1, SpecIInv, PTL

(* The lists of wait records have one consumer at a time, between a lock     *)
(* that took the hand-off and an unlock, for any number of coroutines.       *)
THEOREM PopperCorrect == Spec => []SinglePopper
<1>1. IInv => SinglePopper
  BY DEF IInv, Token, Tok, SinglePopper, Popping, LockPops, UnlockPops
<1> QED BY <1>1, SpecIInv, PTL

(* A pop whose result is used without a test finds a record, and wakes a     *)
(* coroutine that was not woken, for any number of coroutines.               *)
THEOREM PopCorrect == Spec => []PopFinds
<1>1. IInv => PopFinds
  <2> SUFFICES ASSUME IInv, NEW c \in Coroutines
               PROVE  /\ pc[c] \in {"take", "unlockTake"} => to_pop # <<>>
                      /\ pc[c] \in {"wake", "unlockWake"} => Head(record[c]) \notin woken
    BY DEF PopFinds
  <2>1. Knows(c) BY DEF IInv, Known
  <2>2. ASSUME pc[c] \in {"wake", "unlockWake"} PROVE Head(record[c]) \notin woken
    <3>1. PICK e \in Coroutines : record[c] = <<e>> BY <2>1, <2>2 DEF Knows
    <3>2. Recorded(e) BY <3>1, OneSingle DEF Recorded
    <3>3. e \notin woken BY <3>2 DEF IInv, Recs
    <3> QED BY <3>1, <3>3, SMT
  <2> QED BY <2>1, <2>2 DEF Knows
<1> QED BY <1>1, SpecIInv, PTL

---------------------------------------------------------------------------
(* The refinement of FifoLock *)

(* `locked` counts exactly the coroutines that have the mutex or announced   *)
(* themselves, so that zero means that no record is anywhere                 *)
Inside == {c \in Coroutines : pc[c] \in {"push"} \cup Waits \cup LockPops \cup Owning}
Counted == IsFiniteSet(Inside) /\ locked = Cardinality(Inside)

LEMMA InitCounted == Init => Counted
<1> SUFFICES ASSUME Init PROVE Counted OBVIOUS
<1>1. Inside = {} BY DEF Init, Inside, Waits, LockPops, Owning
<1> QED BY <1>1, FS_EmptySet DEF Counted, Init

LEMMA InsideFrame ==
  ASSUME NEW c \in Coroutines, Only(c)
  PROVE  /\ (c \in Inside <=> c \in Inside') => Inside' = Inside
         /\ c \in Inside' => Inside' = Inside \cup {c}
         /\ c \notin Inside' => Inside' = Inside \ {c}
<1>1. \A d \in Coroutines \ {c} : d \in Inside <=> d \in Inside' BY DEF Only, Inside
<1>2. Inside \subseteq Coroutines /\ Inside' \subseteq Coroutines BY DEF Inside
<1> QED BY <1>1, <1>2, SMT

(* A step is a step of one coroutine *)
LEMMA StepOnly ==
  ASSUME TypeOK, NEW c \in Coroutines, Lock(c) \/ Step(c)
  PROVE  Only(c)
<1> USE DEF TypeOK, Only, Go, Gone, shared, local
<1>1. Lock(c) => Only(c) BY SMT DEF Lock
<1>2. Spin(c) => Only(c) BY SMT DEF Spin
<1>3. SpinEnd(c) => Only(c) BY SMT DEF SpinEnd
<1>4. Owned(c) => Only(c) BY SMT DEF Owned
<1>5. push_waiter(c) => Only(c) BY SMT DEF push_waiter
<1>6. ReadHandoff(c) => Only(c) BY SMT DEF ReadHandoff
<1>7. has_waiters(c) => Only(c) BY SMT DEF has_waiters
<1>8. StealHandoff(c) => Only(c) BY SMT DEF StealHandoff
<1>9. Yielded(c) => Only(c) BY SMT DEF Yielded
<1>10. PopTest(c) => Only(c) BY SMT DEF PopTest
<1>11. MoveOut(c) => Only(c) BY SMT DEF MoveOut
<1>12. MoveIn(c) => Only(c) BY SMT DEF MoveIn
<1>13. PopTake(c) => Only(c) BY SMTT(60) DEF PopTake
<1>14. qemu_co_mutex_wake(c) => Only(c) BY SMT DEF qemu_co_mutex_wake
<1>15. Unlock(c) => Only(c) BY SMT DEF Unlock
<1>16. Number(c) => Only(c) BY SMT DEF Number
<1>17. Offer(c) => Only(c) BY SMT DEF Offer
<1>18. RetakeHandoff(c) => Only(c) BY SMT DEF RetakeHandoff
<1>19. TryFast(c) => Only(c) BY SMT DEF TryFast
<1>20. Announce(c) => Only(c) BY SMT DEF Announce
<1>21. UnlockDec(c) => Only(c) BY SMT DEF UnlockDec
<1> QED BY Zenon, <1>1, <1>2, <1>3, <1>4, <1>5, <1>6, <1>7, <1>8, <1>9, <1>10, <1>11, <1>12, <1>13, <1>14, <1>15, <1>16, <1>17, <1>18, <1>19, <1>20, <1>21 DEF Step

(* Who is inside stays inside *)
LEMMA StepStays ==
  ASSUME TypeOK, NEW c \in Coroutines, Lock(c) \/ Step(c),
         ~(TryFast(c) /\ locked = 0), ~Announce(c), ~UnlockDec(c)
  PROVE  locked' = locked /\ (c \in Inside <=> c \in Inside')
<1> DEFINE Stays == locked' = locked /\ (c \in Inside <=> c \in Inside')
<1> USE DEF TypeOK, Inside, Waits, LockPops, Owning, Go, shared, local
<1>1. Lock(c) => Stays BY SMT DEF Lock
<1>2. Spin(c) => Stays BY SMT DEF Spin
<1>3. SpinEnd(c) => Stays BY SMT DEF SpinEnd
<1>4. Owned(c) => Stays BY SMT DEF Owned
<1>5. push_waiter(c) => Stays BY SMT DEF push_waiter
<1>6. ReadHandoff(c) => Stays BY SMT DEF ReadHandoff
<1>7. ASSUME has_waiters(c) PROVE Stays
  <2>1. /\ locked' = locked
        /\ \/ pc[c] \in {"hasToPop", "hasFromPush"} /\ pc'[c] \in {"hasFromPush", "steal", "yield"}
           \/ pc[c] \in {"unlockHasToPop", "unlockHasFromPush"} /\ pc'[c] \in {"unlockHasFromPush", "retake", "out"}
    BY <1>7, SMT DEF has_waiters
  <2> QED BY <2>1
<1>8. StealHandoff(c) => Stays BY SMT DEF StealHandoff
<1>9. Yielded(c) => Stays BY SMT DEF Yielded
<1>10. ASSUME PopTest(c) PROVE Stays
  <2>1. /\ locked' = locked
        /\ \/ pc[c] \in {"pop"} /\ pc'[c] \in {"move", "take"}
           \/ pc[c] \in {"unlockPop"} /\ pc'[c] \in {"unlockMove", "unlockTake"}
    BY <1>10, SMT DEF PopTest
  <2> QED BY <2>1
<1>11. MoveOut(c) => Stays BY SMTT(60) DEF MoveOut
<1>12. ASSUME MoveIn(c) PROVE Stays
  <2>1. /\ locked' = locked
        /\ \/ pc[c] \in {"fill"} /\ pc'[c] \in {"take"}
           \/ pc[c] \in {"unlockFill"} /\ pc'[c] \in {"number", "unlockTake"}
    BY <1>12, SMT DEF MoveIn, Moved
  <2> QED BY <2>1
<1>13. ASSUME PopTake(c) PROVE Stays
  <2>1. /\ locked' = locked
        /\ \/ pc[c] \in {"take"} /\ pc'[c] \in {"own", "wake"}
           \/ pc[c] \in {"unlockTake"} /\ pc'[c] \in {"unlockWake"}
    BY <1>13, SMTT(60) DEF PopTake
  <2> QED BY <2>1
<1>14. qemu_co_mutex_wake(c) => Stays BY SMTT(60) DEF qemu_co_mutex_wake
<1>15. Unlock(c) => Stays BY SMT DEF Unlock
<1>16. Number(c) => Stays BY SMT DEF Number
<1>17. Offer(c) => Stays BY SMT DEF Offer
<1>18. RetakeHandoff(c) => Stays BY SMT DEF RetakeHandoff
<1>19. locked # 0 /\ TryFast(c) => Stays BY SMT DEF TryFast
<1> QED BY <1>1, <1>2, <1>3, <1>4, <1>5, <1>6, <1>7, <1>8, <1>9, <1>10, <1>11, <1>12, <1>13, <1>14, <1>15, <1>16, <1>17, <1>18, <1>19 DEF Step

LEMMA NextCounted == IInv /\ Counted /\ [Next]_vars => Counted'
<1> SUFFICES ASSUME IInv, Counted, [Next]_vars PROVE Counted' OBVIOUS
<1>0. TypeOK BY DEF IInv
<1>1. CASE UNCHANGED vars
  <2>1. Inside' = Inside /\ locked' = locked BY <1>1 DEF vars, shared, Inside
  <2> QED BY <2>1 DEF Counted
<1>2. ASSUME NEW c \in Coroutines, Lock(c) \/ Step(c) PROVE Counted'
  <2>1. Only(c) BY <1>0, <1>2, StepOnly
  <2>2. CASE (TryFast(c) /\ locked = 0) \/ Announce(c)
    <3>1. /\ locked' = locked + 1 /\ pc[c] \in {"try", "inc"}
          /\ pc'[c] \in {"own", "push"}
      BY <1>0, <2>2, SMT DEF TypeOK, TryFast, Announce, Go
    <3>2. c \notin Inside /\ c \in Inside'
      BY <3>1 DEF Inside, Waits, LockPops, Owning
    <3>3. Inside' = Inside \cup {c} BY <2>1, <3>2, InsideFrame
    <3>4. IsFiniteSet(Inside') /\ Cardinality(Inside') = Cardinality(Inside) + 1
      BY <3>2, <3>3, FS_AddElement DEF Counted
    <3> QED BY <3>1, <3>4 DEF Counted
  <2>3. CASE UnlockDec(c)
    <3>1. locked' = locked - 1 /\ pc[c] = "dec" /\ pc'[c] \in {"out", "unlockPop"}
      BY <1>0, <2>3, SMT DEF TypeOK, UnlockDec, Go
    <3>2. c \in Inside /\ c \notin Inside'
      BY <3>1 DEF Inside, Waits, LockPops, Owning
    <3>3. Inside' = Inside \ {c} BY <2>1, <3>2, InsideFrame
    <3>4. IsFiniteSet(Inside') /\ Cardinality(Inside') = Cardinality(Inside) - 1
      BY <3>2, <3>3, FS_RemoveElement DEF Counted
    <3> QED BY <3>1, <3>4 DEF Counted
  <2>4. CASE ~(TryFast(c) /\ locked = 0) /\ ~Announce(c) /\ ~UnlockDec(c)
    <3>1. locked' = locked /\ (c \in Inside <=> c \in Inside')
      BY <1>0, <1>2, <2>4, StepStays
    <3>3. Inside' = Inside BY <2>1, <3>1, InsideFrame
    <3> QED BY <3>1, <3>3 DEF Counted
  <2> QED BY <2>2, <2>3, <2>4
<1> QED BY <1>1, <1>2 DEF Next

LEMMA SpecCounted == Spec => [](IInv /\ Counted)
BY InitIInv, NextIInv, InitCounted, NextCounted, PTL DEF Spec

(* The line and the owner of FifoLock, told from the state *)

LEMMA LineParts ==
  ASSUME NEW s \in Seq(Coroutines), NEW r \in Seq(Coroutines), NEW c \in Coroutines
  PROVE  /\ s \o <<>> = s /\ <<>> \o s = s /\ Reversed(<<>>) = <<>>
         /\ Reversed(<<c>> \o s) = Append(Reversed(s), c)
         /\ r \o Append(s, c) = Append(r \o s, c)
         /\ r # <<>> => /\ r \o s # <<>> /\ Head(r \o s) = Head(r)
                        /\ Tail(r \o s) = Tail(r) \o s
<1>1. s \o <<>> = s /\ <<>> \o s = s BY SMT
<1>2. Reversed(<<>>) = <<>> BY SMT DEF Reversed
<1>3. r \o Append(s, c) = Append(r \o s, c) BY SMT
<1>4. r # <<>> => r \o s # <<>> /\ Head(r \o s) = Head(r) BY SMT
<1>5. r # <<>> => Tail(r \o s) = Tail(r) \o s BY SMT
<1>6. Reversed(<<c>> \o s) = Append(Reversed(s), c)
  <2> DEFINE p == <<c>> \o s
             v == Reversed(s)
  <2>1. Len(p) = Len(s) + 1 /\ Len(s) \in Nat BY SMT
  <2>2. p[1] = c /\ \A n \in 1..Len(s) : p[n + 1] = s[n] BY SMT
  <2>3. Reversed(p) = [n \in 1..Len(p) |-> p[(Len(p) - n) + 1]] BY DEF Reversed
  <2>4. v \in Seq(Coroutines) /\ Len(v) = Len(s)
    BY ReversedSame, SMT DEF Reversed
  <2>5. \A n \in 1..Len(s) : v[n] = s[(Len(s) - n) + 1] BY SMT DEF Reversed
  <2> HIDE DEF p, v
  <2>6. \A n \in 1..Len(s) : p[(Len(p) - n) + 1] = v[n]
    <3> TAKE n \in 1..Len(s)
    <3>1. /\ (Len(s) - n) + 1 \in 1..Len(s)
          /\ (Len(p) - n) + 1 = ((Len(s) - n) + 1) + 1
      BY <2>1, SMT
    <3> QED BY <2>2, <2>5, <3>1
  <2>7. p[(Len(p) - (Len(s) + 1)) + 1] = c BY <2>1, <2>2, SMT
  <2>8. Append(v, c) = [n \in 1..(Len(s) + 1) |-> IF n = Len(s) + 1 THEN c ELSE v[n]]
    <3> DEFINE w == Append(v, c)
    <3>1. w \in Seq(Coroutines) /\ Len(w) = Len(s) + 1 BY <2>4, SMT
    <3>2. \A n \in 1..(Len(s) + 1) : w[n] = IF n = Len(s) + 1 THEN c ELSE v[n]
      BY <2>1, <2>4, SMT
    <3> HIDE DEF w
    <3>3. w = [n \in 1..(Len(s) + 1) |-> w[n]] BY <3>1, SMT
    <3>4. [n \in 1..(Len(s) + 1) |-> w[n]]
          = [n \in 1..(Len(s) + 1) |-> IF n = Len(s) + 1 THEN c ELSE v[n]]
      BY <3>2
    <3> QED BY <3>3, <3>4 DEF w
  <2>9. Reversed(p) = Append(v, c)
    <3>1. \A n \in 1..(Len(s) + 1) :
            p[(Len(p) - n) + 1] = IF n = Len(s) + 1 THEN c ELSE v[n]
      BY <2>1, <2>6, <2>7, SMT
    <3> QED BY <2>1, <2>3, <2>8, <3>1
  <2> QED BY <2>9 DEF p, v
<1> QED BY <1>1, <1>2, <1>3, <1>4, <1>5, <1>6

View ==
  /\ Moving = {} => Line = to_pop \o Reversed(from_push)
  /\ \A c \in Coroutines : Moving = {c} /\ to_pop = <<>> =>
       Line = Reversed(record[c]) \o Reversed(from_push)
  /\ Chosen = {} => Owner = Nobody
  /\ \A e \in Coroutines : Chosen = {e} => Owner = e

LEMMA ViewCorrect == TypeOK => View
<1> SUFFICES ASSUME TypeOK PROVE View OBVIOUS
<1>1. to_pop \in Seq(Coroutines) /\ from_push \in Seq(Coroutines)
      /\ Reversed(from_push) \in Seq(Coroutines)
  BY ReversedSame DEF TypeOK
<1>2. Moving = {} => Line = to_pop \o Reversed(from_push)
  <2>1. to_pop \o <<>> = to_pop BY <1>1, SMT
  <2> QED BY <2>1 DEF Line
<1>3. ASSUME NEW c \in Coroutines, Moving = {c}, to_pop = <<>>
      PROVE  Line = Reversed(record[c]) \o Reversed(from_push)
  <2>1. (CHOOSE d \in Moving : TRUE) = c BY <1>3
  <2>2. Reversed(record[c]) \in Seq(Coroutines) BY <1>3, ReversedSame DEF TypeOK
  <2>3. <<>> \o Reversed(record[c]) = Reversed(record[c]) BY <2>2, SMT
  <2>4. Moving # {} BY <1>3
  <2> QED BY <1>3, <2>1, <2>3, <2>4 DEF Line
<1>4. Chosen = {} => Owner = Nobody BY DEF Owner
<1>5. ASSUME NEW e \in Coroutines, Chosen = {e} PROVE Owner = e
  <2>1. (CHOOSE d \in Chosen : TRUE) = e /\ Chosen # {} BY <1>5
  <2> QED BY <2>1 DEF Owner
<1> QED BY <1>2, <1>3, <1>4, <1>5 DEF View

LEMMA SameView ==
  ASSUME Moving' = Moving, Chosen' = Chosen,
         from_push' = from_push, to_pop' = to_pop, record' = record
  PROVE  UNCHANGED <<Owner, Line>>
<1> DEFINE One(S) == CHOOSE d \in S : TRUE
<1>1. /\ Owner = IF Chosen = {} THEN Nobody ELSE One(Chosen)
      /\ Owner' = IF Chosen' = {} THEN Nobody ELSE One(Chosen')
  BY DEF Owner
<1>2. /\ Line = to_pop \o (IF Moving = {} THEN <<>> ELSE Reversed(record[One(Moving)]))
                 \o Reversed(from_push)
      /\ Line' = to_pop' \o (IF Moving' = {} THEN <<>> ELSE Reversed(record'[One(Moving')]))
                  \o Reversed(from_push')
  BY DEF Line
<1> HIDE DEF One
<1>3. Owner' = Owner BY <1>1
<1>4. Line' = Line BY <1>2
<1> QED BY <1>3, <1>4

(* A step that neither moves a record nor chooses an owner *)
LEMMA LookStutters ==
  ASSUME NEW c \in Coroutines, Only(c), UNCHANGED <<from_push, to_pop, record, woken>>,
         pc[c] \in Owning <=> pc'[c] \in Owning,
         pc[c] \in {"fill", "unlockFill"} <=> pc'[c] \in {"fill", "unlockFill"},
         pc[c] \in {"wake", "unlockWake"} <=> pc'[c] \in {"wake", "unlockWake"}
  PROVE  UNCHANGED <<Owner, Line>>
<1>1. \A d \in Coroutines :
        /\ pc[d] \in Owning <=> pc'[d] \in Owning
        /\ pc[d] \in {"fill", "unlockFill"} <=> pc'[d] \in {"fill", "unlockFill"}
        /\ pc[d] \in {"wake", "unlockWake"} <=> pc'[d] \in {"wake", "unlockWake"}
  BY DEF Only
<1>2. Moving' = Moving BY <1>1 DEF Moving
<1>3. Chosen' = Chosen
  <2>1. {d \in Coroutines : pc'[d] \in Owning} = {d \in Coroutines : pc[d] \in Owning}
    BY <1>1
  <2>2. {d \in Coroutines : pc'[d] \in {"wake", "unlockWake"}}
        = {d \in Coroutines : pc[d] \in {"wake", "unlockWake"}}
    BY <1>1
  <2> QED BY <2>1, <2>2 DEF Chosen
<1> QED BY <1>2, <1>3, SameView

Fills == {"fill", "unlockFill"}
Wakes == {"wake", "unlockWake"}

(* What they are when nobody but c has the token *)
Told(c) ==
  /\ pc[c] \notin Fills => Line = to_pop \o Reversed(from_push)
  /\ pc[c] \in Fills /\ to_pop = <<>> =>
       Line = Reversed(record[c]) \o Reversed(from_push)
  /\ pc[c] \notin Wakes /\ (pc[c] \in Owning \/ c \in woken) => Owner = c
  /\ \A e \in Coroutines :
       pc[c] \in Wakes /\ c \notin woken /\ record[c] = <<e>> => Owner = e
  /\ pc[c] \notin Wakes /\ pc[c] \notin Owning /\ c \notin woken => Owner = Nobody

AllTold == \A c \in Coroutines : OnlyToken(c) => Told(c)

LEMMA ToldCorrect == TypeOK => AllTold
<1> SUFFICES ASSUME TypeOK, NEW c \in Coroutines, OnlyToken(c) PROVE Told(c)
  BY DEF AllTold
<1>0. View BY ViewCorrect
<1>1. \A d \in Coroutines \ {c} :
        pc[d] \notin Owning /\ pc[d] \notin Fills /\ pc[d] \notin Wakes /\ d \notin woken
  BY DEF OnlyToken, Tok, LockPops, UnlockPops, Fills, Wakes
<1>2. Moving = {d \in Coroutines : pc[d] \in Fills} BY DEF Moving, Fills
<1>3. pc[c] \notin Fills => Moving = {} BY <1>1, <1>2
<1>4. pc[c] \in Fills => Moving = {c} BY <1>1, <1>2
<1>5. \A e : e \in Chosen <=>
        \/ e = c /\ pc[c] \in Owning
        \/ e = c /\ c \in woken
        \/ e = Head(record[c]) /\ pc[c] \in Wakes
  <2>1. woken \subseteq Coroutines BY DEF TypeOK
  <2> QED BY <1>1, <2>1 DEF Chosen, Wakes
<1>6. pc[c] \notin Wakes /\ (pc[c] \in Owning \/ c \in woken) => Chosen = {c} BY <1>5
<1>7. pc[c] \notin Wakes /\ pc[c] \notin Owning /\ c \notin woken => Chosen = {} BY <1>5
<1>8. ASSUME NEW e \in Coroutines, pc[c] \in Wakes, c \notin woken, record[c] = <<e>>
      PROVE  Chosen = {e}
  <2>1. Head(record[c]) = e BY <1>8, SMT
  <2>2. pc[c] \notin Owning BY <1>8 DEF Wakes, Owning
  <2> QED BY <1>5, <1>8, <2>1, <2>2
<1> QED BY <1>0, <1>3, <1>4, <1>6, <1>7, <1>8 DEF View, Told

LEMMA AloneTold ==
  ASSUME IInv, IInv', NEW c \in Coroutines, Only(c), OnlyToken(c),
         woken' \subseteq woken \cup {c}
  PROVE  Told(c) /\ Told(c)'
<1>1. OnlyToken(c)' BY DEF OnlyToken, Only, Tok
<1>2. AllTold BY ToldCorrect DEF IInv
<1>3. TypeOK' => AllTold' BY ToldCorrect, PTL
<1> QED BY <1>1, <1>2, <1>3 DEF AllTold, IInv

---------------------------------------------------------------------------
LEMMA InitFifo == Init => F!Init
<1> SUFFICES ASSUME Init PROVE F!Init OBVIOUS
<1>1. View BY InitIInv, ViewCorrect DEF IInv
<1>2. Moving = {} BY DEF Init, Moving
<1>3. Chosen = {} BY DEF Init, Chosen, Owning
<1>4. <<>> \o Reversed(<<>>) = <<>> BY SMT DEF Reversed
<1> QED BY <1>1, <1>2, <1>3, <1>4 DEF View, F!Init, Init

Quiet == {"out", "try", "spin", "inc", "push", "read", "hasToPop", "hasFromPush",
          "steal", "yield", "pop", "move", "take", "unlockPop", "unlockMove",
          "unlockTake", "number", "offer", "unlockHasToPop", "unlockHasFromPush",
          "retake"}

LEMMA LookFifo ==
  ASSUME IInv, NEW c \in Coroutines,
         \/ Lock(c) \/ Spin(c) \/ SpinEnd(c) \/ ReadHandoff(c)
         \/ has_waiters(c) \/ StealHandoff(c) \/ PopTest(c) \/ Owned(c)
         \/ Unlock(c) \/ Number(c) \/ Offer(c) \/ RetakeHandoff(c)
         \/ (TryFast(c) /\ locked # 0) \/ (Announce(c) /\ locked # 0)
  PROVE  UNCHANGED <<Owner, Line>>
<1>0. TypeOK BY DEF IInv
<1>1. Only(c) BY <1>0, StepOnly DEF Step
<1>2. UNCHANGED <<from_push, to_pop, record, woken>>
  BY DEF Lock, Spin, SpinEnd, ReadHandoff, has_waiters, StealHandoff, PopTest, Owned,
     Unlock, Number, Offer, RetakeHandoff, TryFast, Announce, shared, local
<1>3. \/ pc[c] \in Quiet /\ pc'[c] \in Quiet
      \/ pc[c] \in Owning /\ pc'[c] \in Owning
  <2> USE DEF Go, Quiet, Owning, TypeOK
  <2>1. CASE Lock(c) BY <1>0, <2>1, SMT DEF Lock
  <2>2. CASE Spin(c) BY <1>0, <2>2, SMT DEF Spin
  <2>3. CASE SpinEnd(c) BY <1>0, <2>3, SMT DEF SpinEnd
  <2>4. CASE ReadHandoff(c) BY <1>0, <2>4, SMT DEF ReadHandoff
  <2>5. CASE has_waiters(c) BY <1>0, <2>5, SMT DEF has_waiters
  <2>6. CASE StealHandoff(c) BY <1>0, <2>6, SMT DEF StealHandoff
  <2>7. CASE PopTest(c) BY <1>0, <2>7, SMT DEF PopTest
  <2>8. CASE Owned(c) BY <1>0, <2>8, SMT DEF Owned
  <2>9. CASE Unlock(c) BY <1>0, <2>9, SMT DEF Unlock
  <2>10. CASE Number(c) BY <1>0, <2>10, SMT DEF Number
  <2>11. CASE Offer(c) BY <1>0, <2>11, SMT DEF Offer
  <2>12. CASE RetakeHandoff(c) BY <1>0, <2>12, SMT DEF RetakeHandoff
  <2>13. CASE TryFast(c) /\ locked # 0 BY <1>0, <2>13, SMT DEF TryFast
  <2>14. CASE Announce(c) /\ locked # 0 BY <1>0, <2>14, SMT DEF Announce
  <2> QED BY <2>1, <2>2, <2>3, <2>4, <2>5, <2>6, <2>7, <2>8, <2>9, <2>10, <2>11,
             <2>12, <2>13, <2>14
<1>4. /\ pc[c] \in Owning <=> pc'[c] \in Owning
      /\ pc[c] \in Fills <=> pc'[c] \in Fills
      /\ pc[c] \in Wakes <=> pc'[c] \in Wakes
  BY <1>3 DEF Quiet, Fills, Wakes, Owning
<1> QED BY <1>1, <1>2, <1>4, LookStutters DEF Fills, Wakes

LEMMA TakeFifo ==
  ASSUME IInv, IInv', Counted, NEW c \in Coroutines, TryFast(c) \/ Announce(c), locked = 0
  PROVE  F!Take(c)
<1>0. TypeOK /\ Knows(c) BY DEF IInv, Known
<1>1. /\ pc[c] \in {"try", "inc"} /\ pc' = [pc EXCEPT ![c] = "own"]
      /\ UNCHANGED <<from_push, to_pop, record, woken>>
  BY DEF TryFast, Announce, Go
<1>2. Only(c) BY <1>0, StepOnly DEF Step
<1>3. Told(c) /\ Told(c)' BY <1>1, <1>2, HasAlone, AloneTold
<1>4. pc'[c] = "own" /\ c \notin woken BY <1>0, <1>1 DEF TypeOK, Knows, Waits
<1>5. from_push = <<>> /\ to_pop = <<>>
  <2>1. Inside = {} BY FS_EmptySet DEF Counted
  <2>2. \A d \in Coroutines : ~Recorded(d) BY <2>1 DEF Inside, IInv, Recs
  <2>3. \A s \in Seq(Coroutines) : s # <<>> => Head(s) \in Coroutines /\ Head(s) \in Range(s)
    BY OneTaken
  <2> QED BY <1>0, <2>2, <2>3 DEF Recorded, TypeOK
<1>6. /\ pc[c] \notin Fills /\ pc'[c] \notin Fills /\ pc[c] \notin Wakes
      /\ pc'[c] \notin Wakes /\ pc[c] \notin Owning /\ pc'[c] \in Owning
  BY <1>1, <1>4 DEF Fills, Wakes, Owning
<1>7. Owner = Nobody /\ Owner' = c BY <1>3, <1>4, <1>6 DEF Told
<1>8. <<>> \o Reversed(<<>>) = <<>> BY SMT DEF Reversed
<1>9. Line = <<>> /\ Line' = <<>> BY <1>1, <1>3, <1>5, <1>6, <1>8 DEF Told
<1> QED BY <1>7, <1>9 DEF F!Take

LEMMA PushFifo ==
  ASSUME IInv, NEW c \in Coroutines, push_waiter(c)
  PROVE  F!Queue(c)
<1> DEFINE One(S) == CHOOSE d \in S : TRUE
           M == IF Moving = {} THEN <<>> ELSE Reversed(record[One(Moving)])
           R == Reversed(from_push)
<1>0. TypeOK /\ Knows(c) /\ Recs BY DEF IInv, Known
<1>1. /\ pc[c] = "push" /\ pc' = [pc EXCEPT ![c] = "read"]
      /\ from_push' = <<c>> \o from_push
      /\ UNCHANGED <<to_pop, record, woken>>
  BY DEF push_waiter, Go, local
<1>2. \A d \in Coroutines :
        /\ pc[d] \in Owning <=> pc'[d] \in Owning
        /\ pc[d] \in Fills <=> pc'[d] \in Fills
        /\ pc[d] \in Wakes <=> pc'[d] \in Wakes
  <2>1. pc'[c] = "read" /\ \A d \in Coroutines \ {c} : pc'[d] = pc[d]
    BY <1>0, <1>1 DEF TypeOK
  <2> QED BY <1>1, <2>1 DEF Owning, Fills, Wakes
<1>3. Moving' = Moving BY <1>2 DEF Moving, Fills
<1>4. Chosen' = Chosen
  <2>1. {d \in Coroutines : pc'[d] \in Owning} = {d \in Coroutines : pc[d] \in Owning}
    BY <1>2
  <2>2. {d \in Coroutines : pc'[d] \in Wakes} = {d \in Coroutines : pc[d] \in Wakes}
    BY <1>2
  <2> QED BY <1>1, <2>1, <2>2 DEF Chosen, Wakes
<1>5. /\ Owner = IF Chosen = {} THEN Nobody ELSE One(Chosen)
      /\ Owner' = IF Chosen' = {} THEN Nobody ELSE One(Chosen')
      /\ Line = to_pop \o M \o R
      /\ Line' = to_pop' \o (IF Moving' = {} THEN <<>> ELSE Reversed(record'[One(Moving')]))
                  \o Reversed(from_push')
  BY DEF Line, Owner
<1>6. Chosen # {} => One(Chosen) \in Chosen OBVIOUS
<1>7. M \in Seq(Coroutines)
  <2>1. Moving # {} => One(Moving) \in Coroutines BY DEF Moving
  <2>2. Moving # {} => M \in Seq(Coroutines) BY <1>0, <2>1, ReversedSame DEF TypeOK
  <2>3. <<>> \in Seq(Coroutines) BY SMT
  <2> QED BY <2>2, <2>3
<1>8. R \in Seq(Coroutines) /\ Reversed(from_push') = Append(R, c)
  BY <1>0, <1>1, ReversedSame, LineParts DEF TypeOK
<1> HIDE DEF One
<1>9. Owner' = Owner BY <1>4, <1>5
<1>10. Line' = to_pop \o M \o Append(R, c) BY <1>1, <1>3, <1>5, <1>8
<1> HIDE DEF M, R
<1>11. Line' = Append(Line, c)
  <2>1. to_pop \o M \in Seq(Coroutines) BY <1>0, <1>7, SMT DEF TypeOK
  <2> QED BY <1>5, <1>8, <1>10, <2>1, LineParts
<1>12. c \notin Chosen
  <2>1. ~Recorded(c) /\ c \notin woken /\ pc[c] \notin Owning
    BY <1>0, <1>1 DEF Recs, Knows, Waits, LockPops, Owning
  <2>2. ASSUME NEW d \in Coroutines, pc[d] \in Wakes PROVE c # Head(record[d])
    <3>1. PICK e \in Coroutines : record[d] = <<e>>
      BY <2>2 DEF IInv, Known, Knows, Wakes
    <3>2. Head(record[d]) = e BY <3>1, SMT
    <3>3. Recorded(e) BY <3>1, OneSingle DEF Recorded
    <3> QED BY <2>1, <3>2, <3>3
  <2> QED BY <2>1, <2>2 DEF Chosen, Wakes
<1>13. c # Owner BY <1>5, <1>6, <1>12, CoMutexAssumption
<1> QED BY <1>9, <1>11, <1>13 DEF F!Queue

LEMMA MoveFifo ==
  ASSUME IInv, IInv', NEW c \in Coroutines, MoveOut(c) \/ MoveIn(c)
  PROVE  UNCHANGED <<Owner, Line>>
<1>0. TypeOK /\ Knows(c) BY DEF IInv, Known
<1>1. Only(c) BY <1>0, StepOnly DEF Step
<1>2. pc[c] \in {"move", "unlockMove", "fill", "unlockFill"} /\ woken' = woken
  BY DEF MoveOut, MoveIn
<1>3. OnlyToken(c) BY <1>2, HasAlone DEF Tok, LockPops, UnlockPops
<1>4. Told(c) /\ Told(c)' BY <1>1, <1>2, <1>3, AloneTold
<1>5. c \notin woken BY <1>0, <1>2 DEF Knows, Waits
<1>6. to_pop = <<>> BY <1>0, <1>2 DEF Knows
<1>7. CASE MoveOut(c)
  <2>1. /\ pc[c] \in {"move", "unlockMove"} /\ pc'[c] \in {"fill", "unlockFill"}
        /\ record'[c] = from_push /\ from_push' = <<>> /\ to_pop' = to_pop
    BY <1>0, <1>7, SMT DEF MoveOut, Go, TypeOK
  <2>2. Owner = Nobody /\ Owner' = Nobody
    BY <1>2, <1>4, <1>5, <2>1 DEF Told, Wakes, Owning
  <2>3. Line = <<>> \o Reversed(from_push) BY <1>4, <1>6, <2>1 DEF Told, Fills
  <2>4. Line' = Reversed(from_push) \o Reversed(<<>>)
    BY <1>4, <1>6, <2>1 DEF Told, Fills
  <2>5. Reversed(from_push) \in Seq(Coroutines) BY <1>0, ReversedSame DEF TypeOK
  <2>6. Line = Reversed(from_push) /\ Line' = Reversed(from_push)
    BY <2>3, <2>4, <2>5, LineParts
  <2> QED BY <2>2, <2>6
<1>8. CASE MoveIn(c)
  <2>1. /\ pc[c] \in {"fill", "unlockFill"} /\ pc'[c] \in {"take", "number", "unlockTake"}
        /\ to_pop' = Reversed(record[c]) \o to_pop /\ from_push' = from_push
    BY <1>0, <1>8, SMT DEF MoveIn, Go, TypeOK, Moved
  <2>2. Owner = Nobody /\ Owner' = Nobody
    BY <1>2, <1>4, <1>5, <2>1 DEF Told, Wakes, Owning
  <2>3. Line = Reversed(record[c]) \o Reversed(from_push)
    BY <1>4, <1>6, <2>1 DEF Told, Fills
  <2>4. Line' = to_pop' \o Reversed(from_push) BY <1>4, <2>1 DEF Told, Fills
  <2>5. Reversed(record[c]) \in Seq(Coroutines) BY <1>0, ReversedSame DEF TypeOK
  <2>6. to_pop' = Reversed(record[c]) BY <1>6, <2>1, <2>5, LineParts
  <2> QED BY <2>2, <2>3, <2>4, <2>6
<1> QED BY <1>7, <1>8

LEMMA PopTakeFifo ==
  ASSUME IInv, IInv', NEW c \in Coroutines, PopTake(c)
  PROVE  F!Grant
<1> DEFINE h == Head(to_pop)
           R == Reversed(from_push)
<1>0. TypeOK /\ Knows(c) BY DEF IInv, Known
<1>1. Only(c) BY <1>0, StepOnly DEF Step
<1>2. /\ pc[c] \in {"take", "unlockTake"} /\ to_pop # <<>> /\ to_pop' = Tail(to_pop)
      /\ from_push' = from_push /\ woken' = woken
      /\ \/ pc'[c] = "own" /\ h = c
         \/ pc'[c] \in {"wake", "unlockWake"} /\ record'[c] = <<h>>
  BY <1>0, SMTT(60) DEF PopTake, Go, TypeOK
<1>3. OnlyToken(c) BY <1>2, HasAlone DEF Tok, LockPops, UnlockPops
<1>4. Told(c) /\ Told(c)' BY <1>1, <1>2, <1>3, AloneTold
<1>5. c \notin woken /\ c \notin woken' BY <1>0, <1>2 DEF Knows, Waits
<1>6. h \in Coroutines /\ Tail(to_pop) \in Seq(Coroutines) /\ to_pop \in Seq(Coroutines)
  BY <1>0, <1>2, OneTaken DEF TypeOK
<1>7. R \in Seq(Coroutines) BY <1>0, ReversedSame DEF TypeOK
<1>8. Line = to_pop \o R /\ Line' = Tail(to_pop) \o R
  BY <1>2, <1>4 DEF Told, Fills
<1> HIDE DEF h, R
<1>9. Owner = Nobody BY <1>2, <1>4, <1>5 DEF Told, Wakes, Owning
<1>10. Owner' = h BY <1>2, <1>4, <1>5, <1>6 DEF Told, Wakes, Owning
<1>11. Line # <<>> /\ Head(Line) = Head(to_pop) /\ Line' = Tail(Line)
  BY <1>2, <1>6, <1>7, <1>8, LineParts
<1> QED BY <1>9, <1>10, <1>11 DEF F!Grant, h

LEMMA WakeFifo ==
  ASSUME IInv, IInv', NEW c \in Coroutines, qemu_co_mutex_wake(c)
  PROVE  UNCHANGED <<Owner, Line>>
<1>0. TypeOK /\ Knows(c) /\ Recs BY DEF IInv, Known
<1>1. Only(c) BY <1>0, StepOnly DEF Step
<1>2. /\ pc[c] \in {"wake", "unlockWake"} /\ pc'[c] \in {"yield", "out"}
      /\ woken' = woken \cup {Head(record[c])}
      /\ from_push' = from_push /\ to_pop' = to_pop
  BY <1>0, SMT DEF qemu_co_mutex_wake, Go, TypeOK, shared
<1>3. OnlyToken(c) BY <1>2, HasAlone DEF Tok, LockPops, UnlockPops
<1>4. PICK e \in Coroutines : e # c /\ record[c] = <<e>> BY <1>0, <1>2 DEF Knows
<1>5. woken' = woken \cup {e}
  <2>1. Head(record[c]) = e BY <1>4, SMT
  <2> QED BY <1>2, <2>1
<1>6. c \notin woken /\ c \notin woken' BY <1>0, <1>2, <1>4, <1>5 DEF Knows, Waits
<1>7. ~Tok(c)' BY <1>2, <1>6 DEF Tok, Owning, LockPops, UnlockPops
<1>8. OnlyToken(e)'
  <2>1. \A d \in Coroutines \ {e} : ~Tok(d)'
    BY <1>1, <1>3, <1>5, <1>7 DEF OnlyToken, Tok, Only
  <2> QED BY <2>1 DEF OnlyToken
<1>9. Told(c) BY <1>0, <1>3, ToldCorrect DEF AllTold
<1>10. Told(e)'
  <2>1. TypeOK' => AllTold' BY ToldCorrect, PTL
  <2> QED BY <1>8, <2>1 DEF AllTold, IInv
<1>11. pc[e] \in Waits
  <2>1. Recorded(e) BY <1>4, OneSingle DEF Recorded
  <2> QED BY <1>0, <1>3, <1>4, <2>1 DEF Recs, OnlyToken, Tok
<1>12. /\ pc'[e] \in Waits /\ pc'[e] \notin Wakes /\ pc'[e] \notin Fills
       /\ pc[c] \in Wakes /\ pc[c] \notin Fills
  BY <1>1, <1>2, <1>4, <1>11 DEF Only, Waits, Wakes, Fills
<1>13. Owner = e /\ Line = to_pop \o Reversed(from_push)
  BY <1>4, <1>6, <1>9, <1>12 DEF Told
<1>14. Owner' = e /\ Line' = to_pop \o Reversed(from_push)
  BY <1>2, <1>5, <1>10, <1>12 DEF Told
<1> QED BY <1>13, <1>14

LEMMA OwnFifo ==
  ASSUME IInv, IInv', NEW c \in Coroutines, Yielded(c) \/ UnlockDec(c)
  PROVE  /\ Yielded(c) => UNCHANGED <<Owner, Line>>
         /\ UnlockDec(c) => F!Release
<1>0. TypeOK /\ Knows(c) BY DEF IInv, Known
<1>1. Only(c) BY <1>0, StepOnly DEF Step
<1>2. /\ UNCHANGED <<from_push, to_pop>> /\ woken' \subseteq woken
      /\ \/ pc[c] = "yield" /\ c \in woken /\ pc'[c] = "own"
         \/ pc[c] = "dec" /\ c \notin woken' /\ pc'[c] \in {"out", "unlockPop"}
  <2>1. CASE Yielded(c) BY <1>0, <2>1, SMT DEF Yielded, Go, TypeOK, shared
  <2>2. CASE UnlockDec(c)
    <3>1. c \notin woken BY <1>0, <2>2 DEF UnlockDec, Knows, Waits
    <3> QED BY <1>0, <2>2, <3>1, SMT DEF UnlockDec, Go, TypeOK, local
  <2> QED BY <2>1, <2>2
<1>3. OnlyToken(c) BY <1>2, HasAlone DEF Tok, Owning
<1>4. Told(c) /\ Told(c)' BY <1>1, <1>2, <1>3, AloneTold
<1>5. Owner = c /\ Line' = Line
  BY <1>2, <1>4 DEF Told, Owning, Wakes, Fills
<1>6. pc[c] = "yield" => Owner' = c BY <1>2, <1>4 DEF Told, Owning, Wakes
<1>7. pc[c] = "dec" => Owner' = Nobody BY <1>2, <1>4 DEF Told, Owning, Wakes
<1>8. c # Nobody BY CoMutexAssumption
<1> QED BY <1>5, <1>6, <1>7, <1>8 DEF Yielded, UnlockDec, F!Release

LEMMA NextFifo ==
  IInv /\ IInv' /\ Counted /\ [Next]_vars => [F!Next]_<<Owner, Line>>
<1> SUFFICES ASSUME IInv, IInv', Counted, [Next]_vars
             PROVE  F!Next \/ UNCHANGED <<Owner, Line>>
  OBVIOUS
<1>1. CASE UNCHANGED vars
  <2>1. UNCHANGED <<from_push, to_pop, pc, record, woken>>
    BY <1>1 DEF vars, shared, local
  <2>2. Moving' = Moving /\ Chosen' = Chosen BY <2>1 DEF Moving, Chosen
  <2> QED BY <2>1, <2>2, SameView
<1>2. ASSUME NEW c \in Coroutines, Lock(c) \/ Step(c)
      PROVE  F!Next \/ UNCHANGED <<Owner, Line>>
  <2>1. CASE locked = 0 /\ (TryFast(c) \/ Announce(c))
    BY <2>1, TakeFifo DEF F!Next
  <2>2. CASE push_waiter(c) BY <2>2, PushFifo DEF F!Next
  <2>3. CASE PopTake(c) BY <2>3, PopTakeFifo DEF F!Next
  <2>4. CASE MoveOut(c) \/ MoveIn(c) BY <2>4, MoveFifo
  <2>5. CASE qemu_co_mutex_wake(c) BY <2>5, WakeFifo
  <2>6. CASE Yielded(c) \/ UnlockDec(c) BY <2>6, OwnFifo DEF F!Next
  <2> QED BY <1>2, <2>1, <2>2, <2>3, <2>4, <2>5, <2>6, LookFifo DEF Step
<1> QED BY <1>1, <1>2 DEF Next

(* A CoMutex is a first-come, first-served lock in the order of the wait     *)
(* records, for any number of coroutines, whichever of lock and unlock pops  *)
(* them and however often the hand-off number wraps: every step is a step of *)
(* FifoLock or changes neither who owns the mutex nor who is in line.        *)
THEOREM CoMutexIsFifo == Spec => IsFifoLock
<1>1. Spec => F!Init BY InitFifo, PTL DEF Spec
<1>2. Spec => [][F!Next]_<<Owner, Line>>
  BY SpecCounted, NextFifo, PTL DEF Spec
<1> QED BY <1>1, <1>2, PTL DEF IsFifoLock, F!Spec
=============================================================================
