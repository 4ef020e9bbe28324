--------------------------- MODULE CoRwlockProofs ---------------------------
(***************************************************************************)
(* CoRwlock, for any coroutines and any legal calls.                        *)
(*                                                                         *)
(* A writer has the mutex, and every step that makes a reader begins with    *)
(* the mutex, so the two never meet.  That `reader` counts the readers needs *)
(* what a coroutine may call next where it is (Mine), and that whoever is    *)
(* woken was asleep (Sleepers): a wakeup of a coroutine that reads would     *)
(* lose a reader.                                                            *)
(***************************************************************************)
EXTENDS CoRwlock, FiniteSetTheorems, TLAPS

States == {"idle", "reading", "writing", "asks", "tests", "queued", "woken"}

TypeOK ==
  /\ reader \in Nat
  /\ queue \in Seq(Coroutines) /\ line \in Seq(Coroutines)
  /\ owner \in Coroutines \cup {Nobody}
  /\ script \in [Coroutines -> Seq(Calls)]
  /\ state \in [Coroutines -> States]
  /\ locks_held \in [Coroutines -> Int]

Follows(a, b) ==
  \/ b \in {"rd", "wr"} /\ a = "un"
  \/ b = "up" /\ a \in {"rd", "down"}
  \/ b = "down" /\ a \in {"wr", "up"}
  \/ b = "un" /\ a # "un"

(* The calls that are left follow one another and end with an unlock *)
Chained(s) ==
  s # <<>> => /\ \A k \in 1..(Len(s) - 1) : Follows(s[k], s[k + 1])
              /\ s[Len(s)] = "un"

(* The call a coroutine is in, or makes next, where it is; and its locks *)
Place(p, s, h) ==
  \/ p = "idle" /\ h = 0 /\ (s = <<>> \/ Head(s) \in {"rd", "wr"})
  \/ p = "reading" /\ h = 1 /\ s # <<>> /\ Head(s) \in {"up", "un"}
  \/ p = "writing" /\ h = 1 /\ s # <<>> /\ Head(s) \in {"down", "un"}
  \/ p = "asks" /\ h = 0 /\ s # <<>> /\ Head(s) \in {"rd", "wr"}
  \/ p = "asks" /\ h = 1 /\ s # <<>> /\ Head(s) \in {"up", "un"}
  \/ p \in {"tests", "queued", "woken"} /\ h = 0 /\ s # <<>> /\ Head(s) \in {"rd", "wr"}
  \/ p \in {"tests", "queued", "woken"} /\ h = 1 /\ s # <<>> /\ Head(s) = "up"

Mine(c) == Chained(script[c]) /\ Place(state[c], script[c], locks_held[c])

Calling == \A c \in Coroutines : Mine(c)

(* Whoever is in the queue sleeps, and is there once *)
Asleep(q, p) ==
  /\ \A k \in 1..Len(q) : p[q[k]] = "queued"
  /\ \A j, k \in 1..Len(q) : q[j] = q[k] => j = k

Sleepers == Asleep(queue, state)

Counted == IsFiniteSet(Readers) /\ reader = Cardinality(Readers)

Writers == \A c \in Coroutines : state[c] = "writing" => owner = c /\ reader = 0

IInv == TypeOK /\ Calling /\ Sleepers /\ Counted /\ Writers

---------------------------------------------------------------------------
(* Leaves name the prover when it is the SMT solver *)
USE ZenonT(60)

(* The calls that are left *)

LEMMA NextCall ==
  ASSUME NEW s \in Seq(Calls), Chained(s), s # <<>>
  PROVE  /\ Tail(s) \in Seq(Calls) /\ Chained(Tail(s))
         /\ Tail(s) = <<>> => Head(s) = "un"
         /\ Tail(s) # <<>> => Follows(Head(s), Head(Tail(s)))
<1> DEFINE t == Tail(s)
<1>1. /\ Len(s) \in Nat /\ Len(s) >= 1 /\ t \in Seq(Calls) /\ Len(t) = Len(s) - 1
      /\ Head(s) = s[1]
  BY SMT
<1>2. \A k \in 1..Len(t) : t[k] = s[k + 1] BY <1>1, SMT
<1>3. t # <<>> => Len(t) >= 1 /\ Head(t) = t[1] BY <1>1, SMT
<1>4. t = <<>> => Len(s) = 1 BY <1>1, SMT
<1> HIDE DEF t
<1>5. (\A k \in 1..(Len(s) - 1) : Follows(s[k], s[k + 1])) /\ s[Len(s)] = "un"
  BY DEF Chained
<1>6. t = <<>> => Head(s) = "un" BY <1>1, <1>4, <1>5
<1>7. ASSUME t # <<>> PROVE Follows(Head(s), Head(t)) /\ Chained(t)
  <2>1. 1 \in 1..(Len(s) - 1) /\ 1 \in 1..Len(t) /\ t[1] = s[2] BY <1>1, <1>2, <1>3, <1>7, SMT
  <2>2. Follows(s[1], s[1 + 1]) BY <1>5, <2>1
  <2>3. Follows(Head(s), Head(t)) BY <1>1, <1>3, <1>7, <2>1, <2>2, SMT
  <2>4. ASSUME NEW k \in 1..(Len(t) - 1) PROVE Follows(t[k], t[k + 1])
    <3>1. /\ k + 1 \in 1..(Len(s) - 1) /\ t[k] = s[k + 1] /\ t[k + 1] = s[(k + 1) + 1]
      BY <1>1, <1>2, SMT
    <3> QED BY <1>5, <3>1
  <2>5. t[Len(t)] = "un"
    <3>1. Len(t) \in 1..Len(t) /\ Len(t) + 1 = Len(s) BY <1>1, <1>3, <1>7, SMT
    <3> QED BY <1>2, <1>5, <3>1
  <2> QED BY <2>3, <2>4, <2>5 DEF Chained
<1>8. t = <<>> => Chained(t) BY DEF Chained
<1> QED BY <1>1, <1>6, <1>7, <1>8 DEF t

LEMMA LegalChained ==
  ASSUME NEW s \in Seq(Calls), Legal(s), s # <<>> => s[Len(s)] = "un"
  PROVE  Chained(s) /\ (s = <<>> \/ Head(s) \in {"rd", "wr"})
<1>1. Len(s) \in Nat /\ \A k \in 1..Len(s) : s[k] \in Calls BY SMT
<1>2. ASSUME NEW k \in 1..(Len(s) - 1) PROVE Follows(s[k], s[k + 1])
  <2>1. /\ k + 1 \in 1..Len(s) /\ k + 1 # 1 /\ k + 1 > 1 /\ (k + 1) - 1 = k
        /\ s[k + 1] \in Calls
    BY <1>1, SMT
  <2>2. /\ s[k + 1] \in {"rd", "wr"} => s[k] = "un"
        /\ s[k + 1] = "up" => s[k] \in {"rd", "down"}
        /\ s[k + 1] = "down" => s[k] \in {"wr", "up"}
        /\ s[k + 1] = "un" => s[k] # "un"
    BY <2>1, SMT DEF Legal
  <2> QED BY <2>1, <2>2 DEF Follows, Calls
<1>3. ASSUME s # <<>> PROVE Head(s) \in {"rd", "wr"}
  <2>1. 1 \in 1..Len(s) /\ Head(s) = s[1] /\ ~(1 > 1) /\ s[1] \in Calls BY <1>1, <1>3, SMT
  <2>2. s[1] \in {"rd", "wr"} BY <2>1, SMT DEF Legal, Calls
  <2> QED BY <2>1, <2>2
<1> QED BY <1>2, <1>3 DEF Chained

---------------------------------------------------------------------------
(* What a step of c leaves alone *)

Others(c) ==
  \A d \in Coroutines \ {c} :
    /\ script'[d] = script[d] /\ locks_held'[d] = locks_held[d]
    /\ state'[d] = state[d] \/ (state[d] = "queued" /\ state'[d] = "woken")

LEMMA OthersCall ==
  ASSUME Calling, NEW c \in Coroutines, Others(c), Mine(c)'
  PROVE  Calling'
<1> SUFFICES ASSUME NEW d \in Coroutines \ {c} PROVE Mine(d)' BY DEF Calling
<1>1. Mine(d) /\ script'[d] = script[d] /\ locks_held'[d] = locks_held[d]
  BY DEF Calling, Others
<1>2. CASE state'[d] = state[d] BY <1>1, <1>2 DEF Mine
<1>3. CASE state[d] = "queued" /\ state'[d] = "woken" BY <1>1, <1>3 DEF Mine, Place
<1> QED BY <1>2, <1>3 DEF Others

LEMMA OthersRead ==
  ASSUME NEW c \in Coroutines, Others(c)
  PROVE  /\ c \in Readers' => Readers' = Readers \cup {c}
         /\ c \notin Readers' => Readers' = Readers \ {c}
<1>1. ASSUME NEW d \in Coroutines \ {c} PROVE d \in Readers <=> d \in Readers'
  BY DEF Others, Readers, Call
<1>2. Readers \subseteq Coroutines /\ Readers' \subseteq Coroutines BY DEF Readers
<1>3. \A d : d \in Readers' => d \in Coroutines BY <1>2
<1>4. \A d : d \in Readers => d \in Coroutines BY <1>2
<1>5. c \in Readers' => Readers' = Readers \cup {c} BY <1>1, <1>3, <1>4
<1>6. c \notin Readers' => Readers' = Readers \ {c} BY <1>1, <1>3, <1>4
<1> QED BY <1>5, <1>6

LEMMA CountKept ==
  ASSUME Counted, NEW c \in Coroutines, Others(c),
         \/ c \in Readers /\ c \in Readers' /\ reader' = reader
         \/ c \notin Readers /\ c \notin Readers' /\ reader' = reader
         \/ c \notin Readers /\ c \in Readers' /\ reader' = reader + 1
         \/ c \in Readers /\ c \notin Readers' /\ reader' = reader - 1
  PROVE  Counted' /\ reader' \in Nat
<1>1. IsFiniteSet(Readers') /\ reader' = Cardinality(Readers')
  <2>1. IsFiniteSet(Readers) /\ reader = Cardinality(Readers) BY DEF Counted
  <2>2. CASE c \in Readers'
    <3>1. Readers' = Readers \cup {c} BY <2>2, OthersRead
    <3> QED BY <2>1, <2>2, <3>1, FS_AddElement
  <2>3. CASE c \notin Readers'
    <3>1. Readers' = Readers \ {c} BY <2>3, OthersRead
    <3> QED BY <2>1, <2>3, <3>1, FS_RemoveElement
  <2> QED BY <2>2, <2>3
<1>2. Cardinality(Readers') \in Nat BY <1>1, FS_CardinalityType
<1> QED BY <1>1, <1>2 DEF Counted

(* Nobody takes the mutex from a writer *)
LEMMA WritersKept ==
  ASSUME TypeOK, Writers, NEW c \in Coroutines, Others(c),
         state'[c] = "writing" => owner' = c /\ reader' = 0,
         owner = c \/ (reader' = reader /\ (owner # Nobody => owner' = owner))
  PROVE  Writers'
<1> SUFFICES ASSUME NEW d \in Coroutines \ {c}, state'[d] = "writing"
             PROVE  owner' = d /\ reader' = 0
  BY DEF Writers
<1>1. state[d] = "writing" BY DEF Others
<1>2. owner = d /\ reader = 0 BY <1>1 DEF Writers
<1>3. d # Nobody BY RwlockAssumption
<1> QED BY <1>2, <1>3

LEMMA SleepersKept ==
  ASSUME Sleepers, NEW c \in Coroutines, queue' = queue, state[c] # "queued",
         \A d \in Coroutines \ {c} : state'[d] = state[d], queue \in Seq(Coroutines)
  PROVE  Sleepers'
<1>1. \A k \in 1..Len(queue) : queue[k] \in Coroutines BY SMT
<1>2. \A k \in 1..Len(queue) : state'[queue[k]] = "queued"
  BY <1>1 DEF Sleepers, Asleep
<1> QED BY <1>2 DEF Sleepers, Asleep

LEMMA SleepersJoined ==
  ASSUME TypeOK, Sleepers, NEW c \in Coroutines, state[c] # "queued", Sleep(c)
  PROVE  Sleepers' /\ queue' \in Seq(Coroutines)
<1> DEFINE n == Len(queue)
<1>1. /\ queue \in Seq(Coroutines) /\ n \in Nat /\ queue' = Append(queue, c)
      /\ state' = [state EXCEPT ![c] = "queued"] /\ state \in [Coroutines -> States]
  BY SMT DEF TypeOK, Sleep, Become
<1>2. /\ queue' \in Seq(Coroutines) /\ Len(queue') = n + 1 /\ queue'[n + 1] = c
      /\ \A k \in 1..n : queue'[k] = queue[k] /\ queue[k] \in Coroutines
      /\ \A k \in 1..(n + 1) : k \in 1..n \/ k = n + 1
  BY <1>1, SMT
<1>3. \A k \in 1..n : queue[k] # c BY DEF Sleepers, Asleep
<1>4. state'[c] = "queued" /\ \A d \in Coroutines \ {c} : state'[d] = state[d] BY <1>1, SMT
<1>5. \A k \in 1..n : state'[queue[k]] = "queued" BY <1>2, <1>3, <1>4 DEF Sleepers, Asleep
<1>6. ASSUME NEW k \in 1..Len(queue') PROVE state'[queue'[k]] = "queued"
  BY <1>2, <1>4, <1>5
<1>7. ASSUME NEW j \in 1..Len(queue'), NEW k \in 1..Len(queue'), queue'[j] = queue'[k]
      PROVE  j = k
  <2>1. CASE j \in 1..n /\ k \in 1..n BY <1>2, <1>7, <2>1 DEF Sleepers, Asleep
  <2>2. CASE j \in 1..n /\ k = n + 1 BY <1>2, <1>3, <1>7, <2>2
  <2>3. CASE j = n + 1 /\ k \in 1..n BY <1>2, <1>3, <1>7, <2>3
  <2> QED BY <1>2, <1>7, <2>1, <2>2, <2>3
<1> QED BY <1>2, <1>6, <1>7 DEF Sleepers, Asleep

LEMMA SleepersWoken ==
  ASSUME TypeOK, Sleepers, NEW c \in Coroutines, state[c] # "queued",
         NEW n \in 0..Len(queue), Wake(n, [state EXCEPT ![c] = "idle"])
  PROVE  /\ Sleepers' /\ queue' \in Seq(Coroutines)
         /\ state' \in [Coroutines -> States] /\ state'[c] = "idle"
         /\ \A d \in Coroutines \ {c} :
              state'[d] = state[d] \/ (state[d] = "queued" /\ state'[d] = "woken")
<1> DEFINE taken == {queue[k] : k \in 1..n}
           m == Len(queue) - n
<1>1. /\ queue \in Seq(Coroutines) /\ Len(queue) \in Nat /\ state \in [Coroutines -> States]
      /\ queue' = SubSeq(queue, n + 1, Len(queue))
      /\ state' = [d \in Coroutines |-> IF d \in taken THEN "woken"
                                        ELSE [state EXCEPT ![c] = "idle"][d]]
  <2>1. queue \in Seq(Coroutines) /\ state \in [Coroutines -> States] BY DEF TypeOK
  <2>2. Len(queue) \in Nat BY <2>1, SMT
  <2> QED BY <2>1, <2>2 DEF Wake
<1>2. /\ queue' \in Seq(Coroutines) /\ Len(queue') = m /\ m \in Nat
      /\ \A k \in 1..m : queue'[k] = queue[k + n] /\ k + n \in 1..Len(queue)
      /\ \A k \in 1..n : k \in 1..Len(queue)
      /\ \A k \in 1..m : \A j \in 1..n : j # k + n
      /\ \A j, k \in 1..m : j + n = k + n => j = k
      /\ \A k \in 1..Len(queue) : queue[k] \in Coroutines
  BY <1>1, SMT
<1>3. \A k \in 1..Len(queue) : state[queue[k]] = "queued" BY DEF Sleepers, Asleep
<1>4. \A d \in taken : state[d] = "queued" BY <1>2, <1>3
<1>5. c \notin taken BY <1>4
<1> HIDE DEF taken
<1>6. /\ state'[c] = "idle"
      /\ \A d \in Coroutines \ {c} : state'[d] = IF d \in taken THEN "woken" ELSE state[d]
      /\ state' \in [Coroutines -> States]
  BY <1>1, <1>5, SMT DEF States
<1>7. ASSUME NEW k \in 1..m
      PROVE  /\ queue'[k] \notin taken /\ queue'[k] # c
             /\ queue'[k] \in Coroutines /\ state[queue'[k]] = "queued"
  <2>1. queue'[k] = queue[k + n] /\ k + n \in 1..Len(queue) BY <1>2
  <2>2. queue[k + n] \in Coroutines /\ state[queue[k + n]] = "queued" BY <1>2, <1>3, <2>1
  <2>3. ASSUME NEW j \in 1..n PROVE queue[j] # queue[k + n]
    <3>1. j # k + n /\ j \in 1..Len(queue) BY <1>2
    <3> QED BY <2>1, <3>1 DEF Sleepers, Asleep
  <2>4. queue[k + n] \notin taken BY <2>3 DEF taken
  <2> QED BY <2>1, <2>2, <2>4
<1>8. \A k \in 1..Len(queue') : state'[queue'[k]] = "queued" BY <1>2, <1>6, <1>7
<1>9. ASSUME NEW j \in 1..Len(queue'), NEW k \in 1..Len(queue'), queue'[j] = queue'[k]
      PROVE  j = k
  <2>1. j \in 1..m /\ k \in 1..m BY <1>2
  <2>2. queue[j + n] = queue[k + n] /\ j + n \in 1..Len(queue) /\ k + n \in 1..Len(queue)
    BY <1>2, <1>9, <2>1
  <2>3. j + n = k + n BY <2>2 DEF Sleepers, Asleep
  <2> QED BY <1>2, <2>1, <2>3
<1> QED BY <1>2, <1>4, <1>6, <1>8, <1>9 DEF Sleepers, Asleep

(* The mutex *)
LEMMA AskFrame ==
  ASSUME TypeOK, NEW c \in Coroutines, Ask(c)
  PROVE  /\ owner' \in Coroutines \cup {Nobody} /\ line' \in Seq(Coroutines)
         /\ owner # Nobody => owner' = owner
<1>1. owner \in Coroutines \cup {Nobody} /\ line \in Seq(Coroutines) BY DEF TypeOK
<1>2. CASE owner = Nobody BY <1>1, <1>2 DEF Ask
<1>3. CASE owner # Nobody
  <2>1. line' = Append(line, c) /\ owner' = owner BY <1>3 DEF Ask
  <2>2. Append(line, c) \in Seq(Coroutines) BY <1>1, SMT
  <2> QED BY <1>1, <2>1, <2>2
<1> QED BY <1>2, <1>3

LEMMA ReleaseFrame ==
  ASSUME TypeOK, Release
  PROVE  owner' \in Coroutines \cup {Nobody} /\ line' \in Seq(Coroutines)
<1>1. line \in Seq(Coroutines) BY DEF TypeOK
<1>2. CASE line = <<>> BY <1>1, <1>2 DEF Release
<1>3. CASE line # <<>>
  <2>1. owner' = Head(line) /\ line' = Tail(line) BY <1>3 DEF Release
  <2>2. Head(line) \in Coroutines /\ Tail(line) \in Seq(Coroutines) BY <1>1, <1>3, SMT
  <2> QED BY <2>1, <2>2
<1> QED BY <1>2, <1>3

(* What an action must give for the invariant to be kept *)
LEMMA Kept ==
  ASSUME IInv, NEW c \in Coroutines, Others(c), Mine(c)', Sleepers',
         queue' \in Seq(Coroutines), line' \in Seq(Coroutines),
         owner' \in Coroutines \cup {Nobody}, script' \in [Coroutines -> Seq(Calls)],
         state' \in [Coroutines -> States], locks_held' \in [Coroutines -> Int],
         \/ c \in Readers /\ c \in Readers' /\ reader' = reader
         \/ c \notin Readers /\ c \notin Readers' /\ reader' = reader
         \/ c \notin Readers /\ c \in Readers' /\ reader' = reader + 1
         \/ c \in Readers /\ c \notin Readers' /\ reader' = reader - 1,
         state'[c] = "writing" => owner' = c /\ reader' = 0,
         owner = c \/ (reader' = reader /\ (owner # Nobody => owner' = owner))
  PROVE  IInv'
<1>1. TypeOK /\ Calling /\ Sleepers /\ Counted /\ Writers BY DEF IInv
<1>2. Calling' BY <1>1, OthersCall
<1>3. Counted' /\ reader' \in Nat BY <1>1, CountKept
<1>4. Writers' BY <1>1, WritersKept
<1>5. TypeOK' BY <1>3 DEF TypeOK
<1> QED BY <1>2, <1>3, <1>4, <1>5 DEF IInv

---------------------------------------------------------------------------
(* What c does to itself: it goes to p, has the calls t left and h locks *)

Moves(c, p, t, h) ==
  /\ state'[c] = p /\ script'[c] = t /\ locks_held'[c] = h /\ Others(c)
  /\ state' \in [Coroutines -> States] /\ script' \in [Coroutines -> Seq(Calls)]
  /\ locks_held' \in [Coroutines -> Int]

LEMMA Stays ==
  ASSUME TypeOK, NEW c \in Coroutines, NEW p \in States, Become(c, p),
         UNCHANGED <<script, locks_held>>
  PROVE  Moves(c, p, script[c], locks_held[c])
BY SMT DEF TypeOK, Become, Moves, Others

LEMMA Returns ==
  ASSUME TypeOK, NEW c \in Coroutines, script[c] # <<>>, NEW n \in Int, Held(c, n), Return(c)
  PROVE  /\ script' \in [Coroutines -> Seq(Calls)] /\ locks_held' \in [Coroutines -> Int]
         /\ script'[c] = Tail(script[c]) /\ locks_held'[c] = locks_held[c] + n
         /\ \A d \in Coroutines \ {c} :
              script'[d] = script[d] /\ locks_held'[d] = locks_held[d]
<1>1. script \in [Coroutines -> Seq(Calls)] /\ locks_held \in [Coroutines -> Int] BY DEF TypeOK
<1>2. script[c] \in Seq(Calls) BY <1>1
<1>3. Tail(script[c]) \in Seq(Calls) BY <1>2, SMT
<1>4. script' = [script EXCEPT ![c] = Tail(script[c])] BY DEF Return
<1>5. locks_held' = [locks_held EXCEPT ![c] = locks_held[c] + n] BY DEF Held
<1>6. /\ script' \in [Coroutines -> Seq(Calls)] /\ script'[c] = Tail(script[c])
      /\ \A d \in Coroutines \ {c} : script'[d] = script[d]
  BY <1>1, <1>3, <1>4
<1>7. /\ locks_held' \in [Coroutines -> Int] /\ locks_held'[c] = locks_held[c] + n
      /\ \A d \in Coroutines \ {c} : locks_held'[d] = locks_held[d]
  BY <1>1, <1>5, SMT
<1> QED BY <1>6, <1>7

LEMMA ReturnsTo ==
  ASSUME TypeOK, NEW c \in Coroutines, NEW p \in States, script[c] # <<>>, NEW n \in Int,
         Become(c, p), Held(c, n), Return(c)
  PROVE  Moves(c, p, Tail(script[c]), locks_held[c] + n)
<1>1. /\ state' \in [Coroutines -> States] /\ state'[c] = p
      /\ \A d \in Coroutines \ {c} : state'[d] = state[d]
  BY DEF TypeOK, Become
<1> QED BY <1>1, Returns DEF Moves, Others

LEMMA MovesReads ==
  ASSUME NEW c \in Coroutines, NEW p, NEW t, NEW h, Moves(c, p, t, h)
  PROVE  c \in Readers' <=> (p = "reading" \/ (p = "asks" /\ Head(t) \in {"up", "un"}))
BY DEF Moves, Readers, Call

LEMMA MovesMine ==
  ASSUME NEW c \in Coroutines, NEW p, NEW t, NEW h, Moves(c, p, t, h), Chained(t), Place(p, t, h)
  PROVE  Mine(c)'
BY DEF Moves, Mine

(* The next call, by the one that returns *)
LEMMA AfterCall ==
  ASSUME TypeOK, NEW c \in Coroutines, Mine(c), script[c] # <<>>
  PROVE  LET t == Tail(script[c]) IN
         /\ Chained(t)
         /\ Call(c) \in {"rd", "down"} => t # <<>> /\ Head(t) \in {"up", "un"}
         /\ Call(c) \in {"wr", "up"} => t # <<>> /\ Head(t) \in {"down", "un"}
         /\ Call(c) = "un" => t = <<>> \/ Head(t) \in {"rd", "wr"}
<1>1. script[c] \in Seq(Calls) /\ Chained(script[c]) BY DEF TypeOK, Mine
<1> DEFINE t == Tail(script[c])
<1>2. /\ Chained(t) /\ (t = <<>> => Call(c) = "un")
      /\ (t # <<>> => Follows(Call(c), Head(t)))
  BY <1>1, NextCall DEF Call
<1> HIDE DEF t
<1>3. Call(c) \in {"rd", "down"} => t # <<>> /\ Head(t) \in {"up", "un"}
  BY <1>2 DEF Follows
<1>4. Call(c) \in {"wr", "up"} => t # <<>> /\ Head(t) \in {"down", "un"}
  BY <1>2 DEF Follows
<1>5. Call(c) = "un" => t = <<>> \/ Head(t) \in {"rd", "wr"}
  BY <1>2 DEF Follows
<1> QED BY <1>2, <1>3, <1>4, <1>5 DEF t

---------------------------------------------------------------------------
(* One lemma per action *)

LEMMA BeginKeeps ==
  ASSUME IInv, NEW c \in Coroutines, Begin(c)
  PROVE  IInv'
<1>1. TypeOK /\ Mine(c) /\ Sleepers BY DEF IInv, Calling
<1>2. Moves(c, "asks", script[c], locks_held[c]) BY <1>1, Stays DEF Begin, States
<1>3. Chained(script[c]) /\ Place("asks", script[c], locks_held[c])
  BY <1>1 DEF Mine, Place, Begin, Call
<1>4. Mine(c)' BY <1>2, <1>3, MovesMine
<1>5. c \in Readers <=> c \in Readers' BY <1>2, MovesReads DEF Begin, Readers, Call
<1>6. Sleepers' /\ queue' \in Seq(Coroutines)
  <2>1. \A d \in Coroutines \ {c} : state'[d] = state[d] BY <1>1 DEF TypeOK, Begin, Become
  <2> QED BY <1>1, <2>1, SleepersKept DEF TypeOK, Begin
<1>7. reader' = reader /\ Ask(c) BY DEF Begin
<1> QED BY <1>1, <1>2, <1>4, <1>5, <1>6, <1>7, AskFrame, Kept DEF Moves

LEMMA WokenKeeps ==
  ASSUME IInv, NEW c \in Coroutines, Woken(c)
  PROVE  IInv'
<1>1. TypeOK /\ Mine(c) /\ Sleepers BY DEF IInv, Calling
<1>2. Moves(c, "tests", script[c], locks_held[c]) BY <1>1, Stays DEF Woken, States
<1>3. Chained(script[c]) /\ Place("tests", script[c], locks_held[c])
  BY <1>1 DEF Mine, Place, Woken, Call
<1>4. Mine(c)' BY <1>2, <1>3, MovesMine
<1>5. c \notin Readers /\ c \notin Readers'
  <2>1. c \notin Readers BY DEF Woken, Readers
  <2>2. c \notin Readers' BY <1>2, MovesReads, SMT
  <2> QED BY <2>1, <2>2
<1>6. Sleepers' /\ queue' \in Seq(Coroutines)
  <2>1. \A d \in Coroutines \ {c} : state'[d] = state[d] BY <1>1 DEF TypeOK, Woken, Become
  <2> QED BY <1>1, <2>1, SleepersKept DEF TypeOK, Woken
<1>7. reader' = reader /\ Ask(c) BY DEF Woken
<1> QED BY <1>1, <1>2, <1>4, <1>5, <1>6, <1>7, AskFrame, Kept DEF Moves

(* qemu_co_queue_wait, by the owner of the mutex within rdlock, wrlock, upgrade *)
LEMMA SleepKeeps ==
  ASSUME IInv, NEW c \in Coroutines, Sleep(c), owner = c, state[c] \in {"asks", "tests"},
         Call(c) \in {"rd", "wr", "up"},
         reader' = IF state[c] = "asks" /\ Call(c) = "up" THEN reader - 1 ELSE reader
  PROVE  IInv'
<1>1. TypeOK /\ Mine(c) /\ Sleepers BY DEF IInv, Calling
<1>2. Moves(c, "queued", script[c], locks_held[c]) BY <1>1, Stays DEF Sleep, States
<1>3. Chained(script[c]) /\ Place("queued", script[c], locks_held[c])
  BY <1>1 DEF Mine, Place, Call
<1>4. Mine(c)' BY <1>2, <1>3, MovesMine
<1>5. /\ c \notin Readers'
      /\ c \in Readers <=> state[c] = "asks" /\ Call(c) = "up"
  <2>1. c \notin Readers' BY <1>2, MovesReads, SMT
  <2> QED BY <2>1 DEF Readers
<1>6. Sleepers' /\ queue' \in Seq(Coroutines) BY <1>1, SleepersJoined
<1>7. Release BY DEF Sleep
<1>8. \/ c \notin Readers /\ c \notin Readers' /\ reader' = reader
      \/ c \in Readers /\ c \notin Readers' /\ reader' = reader - 1
  BY <1>5
<1> QED BY <1>1, <1>2, <1>4, <1>6, <1>7, <1>8, ReleaseFrame, Kept DEF Moves

LEMMA RdlockKeeps ==
  ASSUME IInv, NEW c \in Coroutines, qemu_co_rwlock_rdlock(c)
  PROVE  IInv'
<1>1. TypeOK /\ Mine(c) /\ Sleepers BY DEF IInv, Calling
<1>2. owner = c /\ state[c] \in {"asks", "tests"} /\ Call(c) = "rd"
  BY DEF qemu_co_rwlock_rdlock
<1>3. CASE ~ReaderMay
  <2>1. Sleep(c) /\ reader' = reader BY <1>3 DEF qemu_co_rwlock_rdlock
  <2> QED BY <1>2, <2>1, SleepKeeps
<1>4. CASE ReaderMay
  <2>1. /\ reader' = reader + 1 /\ Release /\ Become(c, "reading") /\ Return(c)
        /\ Held(c, 1) /\ queue' = queue
    BY <1>4 DEF qemu_co_rwlock_rdlock
  <2>2. script[c] # <<>> /\ locks_held[c] = 0 BY <1>1, <1>2 DEF Mine, Place, Call
  <2>3. Moves(c, "reading", Tail(script[c]), 1)
    <3>1. 1 \in Int /\ "reading" \in States /\ 0 + 1 = 1 BY SMT DEF States
    <3> QED BY <1>1, <2>1, <2>2, <3>1, ReturnsTo
  <2>4. Mine(c)' BY <1>1, <1>2, <2>2, <2>3, AfterCall, MovesMine DEF Place
  <2>5. c \notin Readers /\ c \in Readers' BY <1>2, <2>3, MovesReads DEF Readers
  <2>6. Sleepers' /\ queue' \in Seq(Coroutines)
    <3>1. \A d \in Coroutines \ {c} : state'[d] = state[d] BY <1>1, <2>1 DEF TypeOK, Become
    <3> QED BY <1>1, <1>2, <2>1, <3>1, SleepersKept DEF TypeOK
  <2> QED BY <1>1, <1>2, <2>1, <2>3, <2>4, <2>5, <2>6, ReleaseFrame, Kept DEF Moves
<1> QED BY <1>3, <1>4

(* The loop of the writers, whatever r and w they enter it with *)
LEMMA WriterTestKeeps ==
  ASSUME IInv, NEW c \in Coroutines, NEW r, NEW w, WriterTest(c, r, w), owner = c,
         state[c] \in {"asks", "tests"}, Call(c) \in {"wr", "up"}, reader' = r,
         r = IF state[c] = "asks" /\ Call(c) = "up" THEN reader - 1 ELSE reader
  PROVE  IInv'
<1>1. TypeOK /\ Mine(c) /\ Sleepers BY DEF IInv, Calling
<1>2. CASE r # 0
  <2>1. Sleep(c) BY <1>2 DEF WriterTest
  <2> QED BY <2>1, SleepKeeps
<1>3. CASE r = 0
  <2> DEFINE n == IF Call(c) = "up" THEN 0 ELSE 1
  <2>1. Become(c, "writing") /\ Return(c) /\ Held(c, n) /\ UNCHANGED <<queue, owner, line>>
    BY <1>3 DEF WriterTest
  <2>2. script[c] # <<>> BY <1>1 DEF Mine, Place, Call
  <2>3. locks_held[c] + n = 1
    <3>1. locks_held[c] = IF Call(c) = "up" THEN 1 ELSE 0 BY <1>1 DEF Mine, Place, Call
    <3> QED BY <3>1, SMT
  <2>4. Moves(c, "writing", Tail(script[c]), 1)
    <3>1. n \in Int /\ "writing" \in States BY SMT DEF States
    <3> HIDE DEF n
    <3> QED BY <1>1, <2>1, <2>2, <2>3, <3>1, ReturnsTo
  <2>5. Mine(c)' BY <1>1, <2>2, <2>4, AfterCall, MovesMine DEF Place
  <2>6. /\ c \notin Readers'
        /\ c \in Readers <=> state[c] = "asks" /\ Call(c) = "up"
    <3>1. c \notin Readers' BY <2>4, MovesReads, SMT
    <3> QED BY <3>1 DEF Readers
  <2>7. Sleepers' /\ queue' \in Seq(Coroutines)
    <3>1. \A d \in Coroutines \ {c} : state'[d] = state[d] BY <1>1, <2>1 DEF TypeOK, Become
    <3> QED BY <1>1, <2>1, <3>1, SleepersKept DEF TypeOK
  <2>8. \/ c \notin Readers /\ c \notin Readers' /\ reader' = reader
        \/ c \in Readers /\ c \notin Readers' /\ reader' = reader - 1
    BY <2>6
  <2>9. line' \in Seq(Coroutines) /\ owner' \in Coroutines \cup {Nobody} BY <1>1, <2>1 DEF TypeOK
  <2> QED BY <1>3, <2>1, <2>4, <2>5, <2>7, <2>8, <2>9, Kept DEF Moves
<1> QED BY <1>2, <1>3

LEMMA WritersKeep ==
  ASSUME IInv, NEW c \in Coroutines,
         qemu_co_rwlock_wrlock(c) \/ qemu_co_rwlock_upgrade(c) \/ WriterAgain(c)
  PROVE  IInv'
<1>1. CASE qemu_co_rwlock_wrlock(c) BY <1>1, WriterTestKeeps DEF qemu_co_rwlock_wrlock
<1>2. CASE qemu_co_rwlock_upgrade(c)
  BY <1>2, WriterTestKeeps DEF qemu_co_rwlock_upgrade, ReaderLeaves
<1>3. CASE WriterAgain(c) BY <1>3, WriterTestKeeps DEF WriterAgain
<1> QED BY <1>1, <1>2, <1>3

(* Both ways to unlock: c had the mutex, and n of those asleep are woken *)
LEMMA UnlockMoves ==
  ASSUME IInv, NEW c \in Coroutines, state[c] \in {"asks", "writing"}, Call(c) = "un",
         NEW n \in 0..Len(queue), Wake(n, [state EXCEPT ![c] = "idle"]),
         Return(c), Held(c, -1)
  PROVE  /\ Moves(c, "idle", Tail(script[c]), 0) /\ Mine(c)' /\ c \notin Readers'
         /\ Sleepers' /\ queue' \in Seq(Coroutines)
<1>1. TypeOK /\ Mine(c) /\ Sleepers BY DEF IInv, Calling
<1>2. script[c] # <<>> /\ locks_held[c] = 1 BY <1>1 DEF Mine, Place, Call
<1>3. /\ Sleepers' /\ queue' \in Seq(Coroutines)
      /\ state' \in [Coroutines -> States] /\ state'[c] = "idle"
      /\ \A d \in Coroutines \ {c} :
           state'[d] = state[d] \/ (state[d] = "queued" /\ state'[d] = "woken")
  BY <1>1, SleepersWoken
<1>4. -1 \in Int /\ 1 + (-1) = 0 BY SMT
<1>5. Moves(c, "idle", Tail(script[c]), 0) BY <1>1, <1>2, <1>3, <1>4, Returns DEF Moves, Others
<1>6. Mine(c)' BY <1>1, <1>2, <1>5, AfterCall, MovesMine DEF Place
<1>7. c \notin Readers' BY <1>5, MovesReads, SMT
<1> QED BY <1>3, <1>5, <1>6, <1>7

LEMMA UnlockReaderKeeps ==
  ASSUME IInv, NEW c \in Coroutines, UnlockReader(c)
  PROVE  IInv'
<1>1. TypeOK /\ queue \in Seq(Coroutines) BY DEF IInv, TypeOK
<1>2. /\ owner = c /\ state[c] = "asks" /\ Call(c) = "un" /\ reader' = reader - 1
      /\ Wake(WakesOne, [state EXCEPT ![c] = "idle"]) /\ Release /\ Return(c) /\ Held(c, -1)
  BY DEF UnlockReader
<1>3. WakesOne \in 0..Len(queue)
  <2>1. 0 \in 0..Len(queue) /\ (queue # <<>> => 1 \in 0..Len(queue)) BY <1>1, SMT
  <2> QED BY <2>1 DEF WakesOne
<1>4. /\ Moves(c, "idle", Tail(script[c]), 0) /\ Mine(c)' /\ c \notin Readers'
      /\ Sleepers' /\ queue' \in Seq(Coroutines)
  BY <1>2, <1>3, UnlockMoves
<1>5. c \in Readers BY <1>2 DEF Readers
<1>6. state'[c] # "writing" BY <1>4 DEF Moves
<1> QED BY <1>1, <1>2, <1>4, <1>5, <1>6, ReleaseFrame, Kept DEF Moves

LEMMA UnlockWriterKeeps ==
  ASSUME IInv, NEW c \in Coroutines, UnlockWriter(c)
  PROVE  IInv'
<1>1. TypeOK /\ queue \in Seq(Coroutines) BY DEF IInv, TypeOK
<1>2. /\ state[c] = "writing" /\ Call(c) = "un" /\ reader' = reader
      /\ Wake(WakesAll, [state EXCEPT ![c] = "idle"]) /\ Release /\ Return(c) /\ Held(c, -1)
  BY DEF UnlockWriter
<1>3. WakesAll \in 0..Len(queue) BY <1>1, SMT DEF WakesAll
<1>4. /\ Moves(c, "idle", Tail(script[c]), 0) /\ Mine(c)' /\ c \notin Readers'
      /\ Sleepers' /\ queue' \in Seq(Coroutines)
  BY <1>2, <1>3, UnlockMoves
<1>5. c \notin Readers /\ owner = c BY <1>2 DEF Readers, IInv, Writers
<1>6. state'[c] # "writing" BY <1>4 DEF Moves
<1> QED BY <1>1, <1>2, <1>4, <1>5, <1>6, ReleaseFrame, Kept DEF Moves

LEMMA DowngradeKeeps ==
  ASSUME IInv, NEW c \in Coroutines, qemu_co_rwlock_downgrade(c)
  PROVE  IInv'
<1>1. TypeOK /\ Mine(c) /\ Sleepers BY DEF IInv, Calling
<1>2. /\ state[c] = "writing" /\ Call(c) = "down" /\ reader' = reader + 1 /\ Release
      /\ Become(c, "reading") /\ Return(c) /\ queue' = queue /\ locks_held' = locks_held
  BY DEF qemu_co_rwlock_downgrade
<1>3. script[c] # <<>> /\ locks_held[c] = 1 BY <1>1, <1>2 DEF Mine, Place, Call
<1>4. Held(c, 0)
  <2>1. locks_held \in [Coroutines -> Int] BY <1>1 DEF TypeOK
  <2> QED BY <1>2, <2>1, SMT DEF Held
<1>5. Moves(c, "reading", Tail(script[c]), 1)
  <2>1. 0 \in Int /\ "reading" \in States /\ 1 + 0 = 1 BY SMT DEF States
  <2> QED BY <1>1, <1>2, <1>3, <1>4, <2>1, ReturnsTo
<1>6. Mine(c)' BY <1>1, <1>2, <1>3, <1>5, AfterCall, MovesMine DEF Place
<1>7. c \notin Readers /\ owner = c BY <1>2 DEF Readers, IInv, Writers
<1>8. c \in Readers' BY <1>5, MovesReads
<1>9. Sleepers' /\ queue' \in Seq(Coroutines)
  <2>1. \A d \in Coroutines \ {c} : state'[d] = state[d] BY <1>1, <1>2 DEF TypeOK, Become
  <2> QED BY <1>1, <1>2, <2>1, SleepersKept DEF TypeOK
<1>10. state'[c] # "writing" BY <1>5 DEF Moves
<1> QED BY <1>1, <1>2, <1>5, <1>6, <1>7, <1>8, <1>9, <1>10, ReleaseFrame, Kept DEF Moves

---------------------------------------------------------------------------
LEMMA InitIInv == Init => IInv
<1> SUFFICES ASSUME Init PROVE IInv OBVIOUS
<1>1. script \in [Coroutines -> Seq(Calls)] BY RwlockAssumption DEF Init
<1>2. <<>> \in Seq(Coroutines) /\ Len(<<>>) = 0 /\ 1..0 = {} /\ 0 \in Nat /\ 0 \in Int BY SMT
<1>3. TypeOK BY <1>1, <1>2 DEF Init, TypeOK, States
<1>4. Calling
  <2> SUFFICES ASSUME NEW c \in Coroutines PROVE Mine(c) BY DEF Calling
  <2>1. script[c] \in Seq(Calls) BY <1>1
  <2>2. Legal(script[c]) /\ (script[c] # <<>> => script[c][Len(script[c])] = "un")
    BY RwlockAssumption DEF Init
  <2>3. Chained(script[c]) /\ (script[c] = <<>> \/ Head(script[c]) \in {"rd", "wr"})
    BY <2>1, <2>2, LegalChained
  <2>4. state[c] = "idle" /\ locks_held[c] = 0 BY DEF Init
  <2> QED BY <2>3, <2>4 DEF Mine, Place
<1>5. Sleepers BY <1>2 DEF Init, Sleepers, Asleep
<1>6. Readers = {} BY DEF Init, Readers
<1>7. Counted BY <1>6, FS_EmptySet DEF Init, Counted
<1>8. Writers BY DEF Init, Writers
<1> QED BY <1>3, <1>4, <1>5, <1>7, <1>8 DEF IInv

LEMMA NextIInv == IInv /\ [Next]_vars => IInv'
<1> SUFFICES ASSUME IInv, [Next]_vars PROVE IInv' OBVIOUS
<1>1. CASE UNCHANGED vars
  BY <1>1 DEF vars, IInv, TypeOK, Calling, Mine, Sleepers, Counted, Writers, Readers, Call
<1>2. ASSUME NEW c \in Coroutines, Coroutine(c) PROVE IInv'
  BY <1>2, BeginKeeps, WokenKeeps, RdlockKeeps, WritersKeep, UnlockReaderKeeps,
     UnlockWriterKeeps, DowngradeKeeps DEF Coroutine
<1> QED BY <1>1, <1>2 DEF Next

(* For any number of coroutines and any legal calls, a writer has the mutex  *)
(* and there is no reader, `reader` counts the read locks that are held      *)
(* after any mix of upgrades, downgrades and waits, and who is done holds no *)
(* locks, as qemu_aio_coroutine_enter asserts.                               *)
THEOREM WriterCorrect == Spec => []WriterAlone
<1>1. IInv => WriterAlone
  <2> SUFFICES ASSUME IInv PROVE WriterAlone OBVIOUS
  <2>1. reader = Cardinality(Readers) /\ IsFiniteSet(Readers) BY DEF IInv, Counted
  <2>2. ASSUME NEW c \in Coroutines, state[c] = "idle" PROVE locks_held[c] = 0
    BY <2>2 DEF IInv, Calling, Mine, Place
  <2>3. ASSUME NEW c \in Coroutines, state[c] = "writing" PROVE owner = c /\ Readers = {}
    <3>1. owner = c /\ reader = 0 BY <2>3 DEF IInv, Writers
    <3> QED BY <2>1, <3>1, FS_EmptySet
  <2> QED BY <2>1, <2>2, <2>3 DEF WriterAlone
<1> QED BY InitIInv, NextIInv, <1>1, PTL DEF Spec
=============================================================================
