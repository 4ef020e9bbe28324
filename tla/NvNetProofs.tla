---------------------------- MODULE NvNetProofs ----------------------------
(***************************************************************************)
(* NvNet, for rings of any size, any number of frames and any interleaving   *)
(* of the two walks with the driver.                                         *)
(*                                                                         *)
(* Buffers and descriptors are numbered as the driver uses them, and number  *)
(* k is in place k modulo the size of its ring.  Those in use are a window   *)
(* no longer than the ring, so that no two of them share a place.            *)
(***************************************************************************)
EXTENDS NvNet, FiniteSetTheorems, TLAPS

RxDescs == [avail : BOOLEAN, frame : Nat]
TxDescs == [valid : BOOLEAN, last : BOOLEAN, frag : Nat]
Bits == {"RX", "TX"}
Drivers == [pc : {"setup", "run", "read", "ack", "serve"}, events : SUBSET Bits,
            take : Nat, give : Nat, queue : Nat, reclaim : Nat,
            frame : {"none", "partial", "complete"}, extras : Nat, cleared : BOOLEAN]

TypeOK ==
  /\ plan \in [rx : 0..IndexRange - 2, tx : 0..IndexRange - 2,
               frames : Nat, queued : Nat, extras : Nat]
  /\ rx \in [index : Nat, size : Nat] /\ tx \in [index : Nat, size : Nat]
  /\ status \subseteq Bits
  /\ receiving \in {Idle} \cup [pc : {"walk", "raise"}, i : Nat, fits : BOOLEAN]
  /\ sending \in {Idle} \cup [pc : {"walk", "send", "sent", "end"}, i : Nat, desc : Nat, any : BOOLEAN]
  /\ driver \in Drivers
  /\ arrived \in Nat /\ overrun \in BOOLEAN
  /\ accepted \in Seq(Nat) /\ seen \in Seq(Nat) /\ sent \in Seq(Nat)
  /\ dmaBuf \in [frame : Nat, frag : Nat]

(* Before the driver wrote the sizes, a ring has no descriptors *)
Setup ==
  /\ driver.pc = "setup"
  /\ rx = [index |-> 0, size |-> 0] /\ tx = [index |-> 0, size |-> 0]
  /\ sending = Idle /\ (receiving = Idle \/ (receiving.pc = "walk" /\ receiving.i = 0))
  /\ driver.take = 0 /\ driver.give = 0 /\ driver.queue = 0 /\ driver.reclaim = 0
  /\ driver.frame = "none" /\ overrun = FALSE
  /\ accepted = <<>> /\ seen = <<>> /\ sent = <<>>

Rings ==
  /\ driver.pc # "setup"
  /\ rx.size = RxSize /\ rxRing \in [0..plan.rx -> RxDescs]
  /\ tx.size = TxSize /\ txRing \in [0..plan.tx -> TxDescs]

(* NoFrameLost, but for the order of the frames *)
Kept ==
  /\ Len(accepted) = Len(seen) + Cardinality(Waiting)
  /\ Range(accepted) = Range(seen) \cup {Buffer(k).frame : k \in Waiting}

(* The driver's buffers, and the frames in them *)
Buffers ==
  /\ driver.take = Len(seen)
  /\ driver.take <= driver.give /\ driver.give <= driver.take + RxSize
  /\ \A k \in driver.give .. driver.take + RxSize - 1 : ~Buffer(k).avail
  /\ Kept

(* Descriptors a walk for a frame that is too long has passed *)
Passed == IF receiving.pc = "walk" THEN receiving.i ELSE 0

InOrder ==
  ~overrun => /\ RxInOrder
              /\ Len(seen) <= Len(accepted) /\ Len(accepted) <= driver.give
              /\ rx.index % RxSize = (Len(accepted) + Passed) % RxSize
              /\ Passed <= RxSize
              /\ receiving.pc = "walk" => ~receiving.fits \/ receiving.i = 0

(* The driver's descriptors: those the device is done with, those to be sent *)
Slot(k) == txRing[k % TxSize]
Done == Len(sent) - (IF sending.pc = "sent" THEN 1 ELSE 0)

Window ==
  /\ driver.reclaim <= Done /\ Done <= driver.queue
  /\ driver.queue <= driver.reclaim + TxSize
  /\ \A k \in driver.reclaim .. driver.reclaim + TxSize - 1 :
       Slot(k).valid <=> Done <= k /\ k < driver.queue
  /\ \A k \in Done .. driver.queue - 1 :
       /\ Slot(k).frag = k + 1
       /\ Slot(k).last <=> k = driver.queue - 1 /\ driver.frame # "partial"

(* The device's place in the ring *)
AtIdle == /\ sending = Idle /\ tx.index % TxSize = Len(sent) % TxSize
          /\ driver.frame = "none" <=> Len(sent) = driver.queue
AtFull == /\ sending.pc = "walk" /\ driver.frame = "none" /\ Len(sent) < driver.queue
          /\ tx.index % TxSize = Len(sent) % TxSize
          /\ sending.i + (driver.queue - Len(sent)) <= TxSize
AtEmpty == /\ sending.pc = "walk" /\ driver.frame = "none" /\ Len(sent) = driver.queue
           /\ sending.i <= TxSize
           /\ tx.index % TxSize = (Len(sent) + sending.i) % TxSize
AtSend == /\ sending.pc = "send" /\ driver.frame = "none" /\ Len(sent) < driver.queue
          /\ sending.desc = Len(sent) % TxSize /\ dmaBuf.frag = Len(sent) + 1
          /\ tx.index % TxSize = (Len(sent) + 1) % TxSize
          /\ sending.i + (driver.queue - Len(sent)) <= TxSize
AtSent == /\ sending.pc = "sent" /\ driver.frame = "none" /\ Len(sent) > 0
          /\ Done < driver.queue /\ sending.desc = Done % TxSize
          /\ tx.index % TxSize = Len(sent) % TxSize
          /\ sending.i + (driver.queue - Done) <= TxSize
AtEnd == /\ sending.pc = "end" /\ driver.frame = "none" /\ Len(sent) = driver.queue
         /\ tx.index % TxSize = Len(sent) % TxSize

Sending == AtIdle \/ AtFull \/ AtEmpty \/ AtSend \/ AtSent \/ AtEnd

(* The frame in txrx_dma_buf during a walk is the last that arrived *)
Ascends == \A k \in DOMAIN accepted : accepted[k] > IF k = 1 THEN 0 ELSE accepted[k - 1]
Below(n) == \A k \in DOMAIN accepted : accepted[k] <= n
Buffered ==
  /\ Ascends /\ Below(arrived)
  /\ receiving.pc = "walk" => dmaBuf.frame = arrived /\ 0 < arrived /\ Below(arrived - 1)
  /\ sending.pc \in {"walk", "send", "end"} => receiving = Idle

IInv ==
  /\ TypeOK
  /\ Setup \/ (Rings /\ Buffers /\ InOrder /\ Window /\ Sending /\ TxInOrder)

---------------------------------------------------------------------------
(* Leaves name the prover when it is the SMT solver *)
USE ZenonT(60)

(* The arithmetic of a ring of n places *)

LEMMA Divides ==
  ASSUME NEW x \in Int, NEW n \in Int, n > 0
  PROVE  /\ x = n * (x \div n) + (x % n) /\ x \div n \in Int
         /\ x % n \in Int /\ 0 <= x % n /\ x % n < n
<1>1. x % n = x - n * (x \div n) BY Z3T(30)
<1>2. x \div n \in Int /\ x % n \in Int BY SMT
<1>3. 0 <= x % n /\ x % n < n BY SMT
<1>4. n * (x \div n) \in Int BY <1>2, SMT
<1> QED BY <1>1, <1>2, <1>3, <1>4, SMT

LEMMA LaterRound ==
  ASSUME NEW n \in Int, n > 0, NEW q \in Int, NEW p \in Int, q < p
  PROVE  n * q + n <= n * p
<1>1. n * (p - q) >= n * 1 BY SMT
<1>2. n * (p - q) = n * p - n * q BY SMT
<1> QED BY <1>1, <1>2, SMT

LEMMA SameRound ==
  ASSUME NEW n \in Int, n > 0, NEW q \in Int, NEW p \in Int, NEW r \in Int, NEW s \in Int,
         n * q + r < n * p + n, n * p + s < n * q + n, 0 <= r, 0 <= s
  PROVE  q = p
<1>1. n * q \in Int /\ n * p \in Int BY SMT
<1>2. ASSUME q < p PROVE FALSE BY <1>1, <1>2, LaterRound, SMT
<1>3. ASSUME p < q PROVE FALSE BY <1>1, <1>3, LaterRound, SMT
<1> QED BY <1>2, <1>3, SMT

LEMMA PlaceIs ==
  ASSUME NEW n \in Int, n > 0, NEW q \in Int, NEW r \in Int, 0 <= r, r < n
  PROVE  (n * q + r) % n = r
<1> DEFINE x == n * q + r
           p == x \div n
           s == x % n
<1>1. x \in Int /\ n * q \in Int BY SMT
<1> HIDE DEF x
<1>2. x = n * p + s /\ p \in Int /\ s \in Int /\ 0 <= s /\ s < n BY <1>1, Divides
<1> HIDE DEF p, s
<1>3. n * p + s = n * q + r /\ n * p \in Int BY <1>2, SMT DEF x
<1>4. q = p
  <2>1. n * q + r < n * p + n /\ n * p + s < n * q + n BY <1>1, <1>2, <1>3, SMT
  <2> QED BY <1>2, <2>1, SameRound
<1>5. s = r BY <1>1, <1>2, <1>3, <1>4, SMT
<1> QED BY <1>5 DEF s, x

LEMMA RoundLater ==
  ASSUME NEW n \in Int, n > 0, NEW x \in Int
  PROVE  (x + n) % n = x % n
<1> DEFINE q == x \div n
           r == x % n
<1>1. x = n * q + r /\ q \in Int /\ r \in Int /\ 0 <= r /\ r < n BY Divides
<1> HIDE DEF q, r
<1>2. x + n = n * (q + 1) + r
  <2>1. n * (q + 1) = n * q + n /\ n * q \in Int BY <1>1, SMT
  <2> QED BY <1>1, <2>1, SMT
<1>3. (n * (q + 1) + r) % n = r
  <2>1. q + 1 \in Int BY <1>1, SMT
  <2> QED BY <1>1, <2>1, PlaceIs
<1> QED BY <1>2, <1>3 DEF r

LEMMA NextPlace ==
  ASSUME NEW n \in Int, n > 0, NEW x \in Int
  PROVE  ((x % n) + 1) % n = (x + 1) % n
<1> DEFINE q == x \div n
           r == x % n
<1>1. x = n * q + r /\ q \in Int /\ r \in Int /\ 0 <= r /\ r < n BY Divides
<1> HIDE DEF q, r
<1>2. n * q \in Int BY <1>1, SMT
<1>3. CASE r + 1 < n
  <2>1. x + 1 = n * q + (r + 1) /\ r + 1 \in Int /\ 0 <= r + 1 BY <1>1, <1>2, SMT
  <2>2. (x + 1) % n = r + 1 BY <1>1, <1>3, <2>1, PlaceIs
  <2>3. (r + 1) % n = r + 1 BY <1>1, <1>3, SMT
  <2> QED BY <2>2, <2>3 DEF r
<1>4. CASE r + 1 = n
  <2>1. x + 1 = n * (q + 1) + 0 /\ q + 1 \in Int
    <3>1. n * (q + 1) = n * q + n BY <1>1, SMT
    <3> QED BY <1>1, <1>2, <1>4, <3>1, SMT
  <2>2. (x + 1) % n = 0 BY <1>1, <2>1, PlaceIs, SMT
  <2>3. r + 1 = n * 1 + 0 BY <1>4, SMT
  <2>4. (n * 1 + 0) % n = 0 BY PlaceIs, SMT
  <2> QED BY <2>2, <2>3, <2>4 DEF r
<1> QED BY <1>1, <1>3, <1>4, SMT

(* In a window of n numbers no two share a place, and every place has one *)
LEMMA OnePlace ==
  ASSUME NEW n \in Int, n > 0, NEW a \in Int, NEW x \in a .. a + n - 1, NEW y \in a .. a + n - 1,
         x % n = y % n
  PROVE  x = y
<1> DEFINE q == x \div n
           p == y \div n
           r == x % n
<1>0. x \in Int /\ y \in Int /\ x < y + n /\ y < x + n BY SMT
<1>1. x = n * q + r /\ q \in Int /\ r \in Int /\ 0 <= r /\ r < n BY <1>0, Divides
<1>2. y = n * p + r /\ p \in Int BY <1>0, Divides
<1> HIDE DEF q, p, r
<1>3. n * q \in Int /\ n * p \in Int BY <1>1, <1>2, SMT
<1>4. ASSUME q < p PROVE FALSE
  <2>1. n * q + n <= n * p BY <1>1, <1>2, <1>4, LaterRound
  <2> QED BY <2>1, <1>0, <1>1, <1>2, <1>3, SMT
<1>5. ASSUME p < q PROVE FALSE
  <2>1. n * p + n <= n * q BY <1>1, <1>2, <1>5, LaterRound
  <2> QED BY <2>1, <1>0, <1>1, <1>2, <1>3, SMT
<1>6. q = p BY <1>1, <1>2, <1>4, <1>5, SMT
<1> QED BY <1>1, <1>2, <1>6

LEMMA EveryPlace ==
  ASSUME NEW n \in Int, n > 0, NEW a \in Int, NEW d \in Int, 0 <= d, d < n
  PROVE  \E k \in a .. a + n - 1 : k % n = d
<1> DEFINE q == a \div n
           r == a % n
<1>1. a = n * q + r /\ q \in Int /\ r \in Int /\ 0 <= r /\ r < n BY Divides
<1> HIDE DEF q, r
<1>2. n * q \in Int BY <1>1, SMT
<1>3. CASE r <= d
  <2>1. n * q + d \in a .. a + n - 1 BY <1>1, <1>2, <1>3, SMT
  <2>2. (n * q + d) % n = d BY <1>1, PlaceIs
  <2> QED BY <2>1, <2>2
<1>4. CASE d < r
  <2>1. n * (q + 1) = n * q + n /\ q + 1 \in Int BY <1>1, SMT
  <2>2. n * (q + 1) + d \in a .. a + n - 1 BY <1>1, <1>2, <1>4, <2>1, SMT
  <2>3. (n * (q + 1) + d) % n = d BY <2>1, PlaceIs
  <2> QED BY <2>2, <2>3
<1> QED BY <1>1, <1>3, <1>4, SMT

(* The device moves on by one place, with an index of type uint8_t *)
LEMMA MovesOn ==
  ASSUME NEW n \in Int, n > 0, n < IndexRange, NEW x \in Nat, NEW y \in Nat, x % n = y % n
  PROVE  /\ ((x % n) + 1) % IndexRange \in Nat
         /\ (((x % n) + 1) % IndexRange) % n = (y + 1) % n
<1>1. x % n \in Int /\ 0 <= x % n /\ x % n < n BY Divides, SMT
<1>2. IndexRange \in Nat BY NvNetAssumption
<1>3. ((x % n) + 1) % IndexRange = (x % n) + 1 BY <1>1, <1>2, SMT
<1>4. ((y % n) + 1) % n = (y + 1) % n
  <2>1. y \in Int BY SMT
  <2> QED BY <2>1, NextPlace
<1> QED BY <1>1, <1>3, <1>4, SMT

---------------------------------------------------------------------------
(* Sizes, and the two parts of the state *)

Live == Rings /\ Buffers /\ InOrder /\ Window /\ Sending /\ TxInOrder

LEMMA Sizes ==
  ASSUME TypeOK
  PROVE  /\ RxSize \in Int /\ RxSize > 0 /\ RxSize < IndexRange /\ 0..plan.rx = 0..RxSize - 1
         /\ TxSize \in Int /\ TxSize > 0 /\ TxSize < IndexRange /\ 0..plan.tx = 0..TxSize - 1
<1>1. /\ plan.rx \in 0..IndexRange - 2 /\ plan.tx \in 0..IndexRange - 2
      /\ IndexRange \in Nat
  BY NvNetAssumption DEF TypeOK
<1>2. /\ plan.rx + 1 \in Int /\ plan.rx + 1 > 0 /\ plan.rx + 1 < IndexRange
      /\ (plan.rx + 1) - 1 = plan.rx
  BY <1>1, SMT
<1>3. /\ plan.tx + 1 \in Int /\ plan.tx + 1 > 0 /\ plan.tx + 1 < IndexRange
      /\ (plan.tx + 1) - 1 = plan.tx
  BY <1>1, SMT
<1> QED BY <1>2, <1>3 DEF RxSize, TxSize

LEMMA RxPlace ==
  ASSUME TypeOK, NEW k \in Nat
  PROVE  k % RxSize \in 0..plan.rx
<1>1. k \in Int BY SMT
<1>2. k % RxSize \in Int /\ 0 <= k % RxSize /\ k % RxSize < RxSize BY <1>1, Sizes, Divides
<1>3. RxSize \in Int /\ 0..plan.rx = 0..RxSize - 1 BY Sizes
<1>4. k % RxSize \in 0..RxSize - 1 BY <1>2, <1>3, SMT
<1> QED BY <1>3, <1>4

LEMMA TxPlace ==
  ASSUME TypeOK, NEW k \in Nat
  PROVE  k % TxSize \in 0..plan.tx
<1>1. k \in Int BY SMT
<1>2. k % TxSize \in Int /\ 0 <= k % TxSize /\ k % TxSize < TxSize BY <1>1, Sizes, Divides
<1>3. TxSize \in Int /\ 0..plan.tx = 0..TxSize - 1 BY Sizes
<1>4. k % TxSize \in 0..TxSize - 1 BY <1>2, <1>3, SMT
<1> QED BY <1>3, <1>4

LEMMA Walks ==
  ASSUME TypeOK
  PROVE  /\ receiving.pc \in {"walk", "raise"} =>
              receiving \in [pc : {"walk", "raise"}, i : Nat, fits : BOOLEAN]
         /\ sending.pc \in {"walk", "send", "sent", "end"} =>
              sending \in [pc : {"walk", "send", "sent", "end"}, i : Nat, desc : Nat, any : BOOLEAN]
         /\ receiving = Idle => receiving.pc = "idle"
         /\ sending = Idle => sending.pc = "idle"
<1>1. Idle.pc = "idle" BY DEF Idle
<1> QED BY <1>1 DEF TypeOK

LEMMA DriverType ==
  ASSUME TypeOK
  PROVE  /\ driver.take \in Nat /\ driver.give \in Nat /\ driver.queue \in Nat
         /\ driver.reclaim \in Nat /\ driver.extras \in Nat
         /\ driver.frame \in {"none", "partial", "complete"}
         /\ driver.pc \in {"setup", "run", "read", "ack", "serve"}
BY DEF TypeOK, Drivers

LEMMA Histories ==
  ASSUME TypeOK
  PROVE  /\ accepted \in Seq(Nat) /\ seen \in Seq(Nat) /\ sent \in Seq(Nat)
         /\ Len(accepted) \in Nat /\ Len(seen) \in Nat /\ Len(sent) \in Nat
<1>1. accepted \in Seq(Nat) /\ seen \in Seq(Nat) /\ sent \in Seq(Nat) BY DEF TypeOK
<1>2. Len(accepted) \in Nat /\ Len(seen) \in Nat /\ Len(sent) \in Nat BY <1>1, SMT
<1> QED BY <1>1, <1>2

(* The receive side depends on these alone *)
RxSame ==
  /\ plan' = plan /\ rxRing' = rxRing /\ rx' = rx /\ accepted' = accepted /\ seen' = seen
  /\ overrun' = overrun /\ driver'.take = driver.take /\ driver'.give = driver.give

LEMMA RxFrame ==
  ASSUME RxSame, Passed' = Passed,
         receiving'.pc = "walk" => receiving'.i = 0 \/ ~receiving'.fits \/ receiving' = receiving
  PROVE  (Buffers => Buffers') /\ (InOrder => InOrder')
<1>1. RxSize' = RxSize BY DEF RxSame, RxSize
<1>2. \A k : Buffer(k)' = Buffer(k) BY <1>1 DEF RxSame, Buffer
<1>3. Waiting' = Waiting BY <1>2 DEF RxSame, Waiting, Given
<1>4. Kept => Kept' BY <1>2, <1>3 DEF Kept, RxSame
<1>5. RxInOrder => RxInOrder' BY <1>2, <1>3 DEF RxInOrder, RxSame
<1>6. Buffers => Buffers' BY <1>1, <1>2, <1>4 DEF RxSame, Buffers
<1>7. InOrder => InOrder'
  <2> SUFFICES ASSUME InOrder, ~overrun' PROVE
                 /\ RxInOrder'
                 /\ Len(seen') <= Len(accepted') /\ Len(accepted') <= driver'.give
                 /\ rx'.index % RxSize' = (Len(accepted') + Passed') % RxSize'
                 /\ Passed' <= RxSize'
                 /\ receiving'.pc = "walk" => ~receiving'.fits \/ receiving'.i = 0
    BY DEF InOrder
  <2>1. ~overrun BY DEF RxSame
  <2>2. /\ RxInOrder
        /\ Len(seen) <= Len(accepted) /\ Len(accepted) <= driver.give
        /\ rx.index % RxSize = (Len(accepted) + Passed) % RxSize
        /\ Passed <= RxSize
        /\ receiving.pc = "walk" => ~receiving.fits \/ receiving.i = 0
    BY <2>1 DEF InOrder
  <2> QED BY <1>1, <1>5, <2>1, <2>2 DEF RxSame
<1> QED BY <1>6, <1>7

(* The transmit side depends on these *)
TxSame ==
  /\ plan' = plan /\ txRing' = txRing /\ tx' = tx /\ sending' = sending /\ sent' = sent
  /\ driver'.queue = driver.queue /\ driver'.reclaim = driver.reclaim
  /\ driver'.frame = driver.frame /\ (sending.pc = "send" => dmaBuf' = dmaBuf)

LEMMA TxFrame ==
  ASSUME TxSame
  PROVE  (Window => Window') /\ (Sending => Sending') /\ (TxInOrder => TxInOrder')
<1>1. TxSize' = TxSize /\ Done' = Done BY DEF TxSame, TxSize, Done
<1>2. \A k : Slot(k)' = Slot(k) BY <1>1 DEF TxSame, Slot
<1>3. Window => Window' BY <1>1, <1>2 DEF TxSame, Window
<1>4. Sending => Sending'
  BY <1>1 DEF TxSame, Sending, AtIdle, AtFull, AtEmpty, AtSend, AtSent, AtEnd
<1> QED BY <1>3, <1>4 DEF TxSame, TxInOrder

---------------------------------------------------------------------------
(* nvnet_receive and nvnet_dma_packet_to_guest *)

LEMMA ReceiveStep ==
  ASSUME IInv, NEW fits \in BOOLEAN, nvnet_receive(fits)
  PROVE  IInv'
<1>1. TypeOK BY DEF IInv
<1>2. /\ receiving = Idle /\ receiving.pc = "idle"
      /\ receiving' = [pc |-> "walk", i |-> 0, fits |-> fits]
      /\ UNCHANGED <<plan, rxRing, txRing, rx, tx, status, driver, sending, accepted, seen, sent, overrun>>
      /\ arrived' = arrived + 1 /\ dmaBuf' = Holding(arrived + 1, 0) /\ sending.pc # "send"
  BY <1>1, Walks DEF nvnet_receive
<1>3. receiving'.pc = "walk" /\ receiving'.i = 0 BY <1>2
<1>4. TypeOK'
  <2>1. arrived + 1 \in Nat /\ 0 \in Nat BY <1>1, SMT DEF TypeOK
  <2>2. receiving' \in [pc : {"walk", "raise"}, i : Nat, fits : BOOLEAN]
    BY <1>2, <2>1
  <2>3. dmaBuf' \in [frame : Nat, frag : Nat] BY <1>2, <2>1 DEF Holding
  <2> QED BY <1>1, <1>2, <2>1, <2>2, <2>3 DEF TypeOK
<1>5. CASE Setup
  <2>1. Setup' BY <1>2, <1>3, <1>5 DEF Setup
  <2> QED BY <1>4, <2>1 DEF IInv
<1>6. CASE Live
  <2>1. Passed' = Passed BY <1>2, <1>3 DEF Passed
  <2>2. RxSame /\ TxSame BY <1>2 DEF RxSame, TxSame
  <2>3. Rings' BY <1>2, <1>6 DEF Live, Rings, RxSize, TxSize
  <2> QED BY <1>3, <1>4, <1>6, <2>1, <2>2, <2>3, RxFrame, TxFrame DEF Live, IInv
<1> QED BY <1>5, <1>6 DEF IInv, Live

LEMMA AppendOne ==
  ASSUME NEW s \in Seq(Nat), NEW f \in Nat
  PROVE  /\ Append(s, f) \in Seq(Nat) /\ Len(Append(s, f)) = Len(s) + 1 /\ Len(s) \in Nat
         /\ DOMAIN Append(s, f) = 1..(Len(s) + 1) /\ DOMAIN s = 1..Len(s)
         /\ Append(s, f)[Len(s) + 1] = f
         /\ \A j \in 1..Len(s) : Append(s, f)[j] = s[j]
BY SMT

LEMMA RangeAppend ==
  ASSUME NEW s \in Seq(Nat), NEW f \in Nat
  PROVE  Range(Append(s, f)) = Range(s) \cup {f}
<1> DEFINE n == Len(s)
           t == Append(s, f)
<1>1. /\ DOMAIN t = 1..(n + 1) /\ DOMAIN s = 1..n /\ t[n + 1] = f
      /\ \A j \in 1..n : t[j] = s[j]
      /\ 1..(n + 1) = (1..n) \cup {n + 1}
  <2>1. 1..(Len(s) + 1) = (1..Len(s)) \cup {Len(s) + 1} BY SMT
  <2> QED BY <2>1, AppendOne
<1> HIDE DEF n, t
<1>2. \A v : v \in Range(t) <=> v \in Range(s) \/ v = f
  <2>1. ASSUME NEW v PROVE v \in Range(t) <=> \E j \in (1..n) \cup {n + 1} : v = t[j]
    BY <1>1 DEF Range
  <2>2. ASSUME NEW v PROVE v \in Range(s) <=> \E j \in 1..n : v = s[j]
    BY <1>1 DEF Range
  <2> QED BY <1>1, <2>1, <2>2
<1> QED BY <1>2 DEF t

(* The frame goes into a buffer of the window that holds none *)
LEMMA FillBuffers ==
  ASSUME TypeOK, Live, NEW f \in Nat, NEW k \in Given, Buffer(k).avail,
         rxRing' = [rxRing EXCEPT ![k % RxSize] = RxDesc(FALSE, f)],
         accepted' = Append(accepted, f),
         UNCHANGED <<plan, seen>>, driver'.take = driver.take, driver'.give = driver.give
  PROVE  /\ Buffers' /\ Waiting' = Waiting \cup {k} /\ Buffer(k)'.frame = f
         /\ \A j \in Given : j # k => Buffer(j)' = Buffer(j)
<1>0. /\ driver.take \in Nat /\ driver.give \in Nat /\ RxSize \in Int /\ RxSize > 0 /\ RxSize' = RxSize
      /\ rxRing \in [0..plan.rx -> RxDescs]
  BY DriverType, Sizes DEF Live, Rings, RxSize
<1> DEFINE win == driver.take .. driver.take + RxSize - 1
<1>1. driver.take <= driver.give /\ driver.give <= driver.take + RxSize BY DEF Live, Buffers
<1>2. /\ win \subseteq Nat /\ Given \subseteq win
      /\ driver.give .. driver.take + RxSize - 1 \subseteq win
      /\ k \notin driver.give .. driver.take + RxSize - 1
  BY <1>0, <1>1, SMTT(60) DEF Given
<1>3. \A j \in win : j # k => j % RxSize # k % RxSize
  <2>1. driver.take \in Int /\ k \in win BY <1>0, <1>2, SMT
  <2> QED BY <1>0, <2>1, OnePlace
<1>4. \A j \in win : j % RxSize \in 0..plan.rx BY <1>2, RxPlace
<1>5. \A j \in win : j # k => Buffer(j)' = Buffer(j)
  BY <1>0, <1>3, <1>4 DEF Buffer
<1>6. Buffer(k)' = RxDesc(FALSE, f) BY <1>0, <1>2, <1>4 DEF Buffer
<1>7. ~Buffer(k)'.avail /\ Buffer(k)'.frame = f BY <1>6, SMT DEF RxDesc
<1>8. Waiting' = Waiting \cup {k}
  <2>1. Given' = Given BY DEF Given
  <2>2. \A j \in Given : j # k => Buffer(j)' = Buffer(j) BY <1>2, <1>5
  <2>3. Waiting' = {j \in Given : ~Buffer(j)'.avail} BY <2>1 DEF Waiting
  <2> QED BY <1>7, <2>2, <2>3 DEF Waiting
<1>9. Kept'
  <2>1. k \notin Waiting BY DEF Waiting
  <2>2. IsFiniteSet(Waiting)
    <3>1. IsFiniteSet(Given)
      <4>1. driver.take \in Int /\ driver.give - 1 \in Int BY <1>0, SMT
      <4> QED BY <4>1, FS_Interval DEF Given
    <3>2. Waiting \in SUBSET Given BY DEF Waiting
    <3> QED BY <3>1, <3>2, FS_Subset
  <2>3. Cardinality(Waiting') = Cardinality(Waiting) + 1
    BY <1>8, <2>1, <2>2, FS_AddElement
  <2>4. Cardinality(Waiting) \in Nat BY <2>2, FS_CardinalityType
  <2>5. /\ Len(accepted') = Len(accepted) + 1
        /\ Range(accepted') = Range(accepted) \cup {f}
        /\ Len(accepted) \in Nat /\ Len(seen) \in Nat
    <3>1. accepted \in Seq(Nat) /\ seen \in Seq(Nat) BY DEF TypeOK
    <3>2. Len(accepted') = Len(accepted) + 1 /\ Len(accepted) \in Nat /\ Len(seen) \in Nat
      BY <3>1, SMT
    <3>3. Range(accepted') = Range(accepted) \cup {f} BY <3>1, RangeAppend
    <3> QED BY <3>2, <3>3
  <2>6. Len(accepted') = Len(seen') + Cardinality(Waiting')
    <3>1. Len(accepted) = Len(seen) + Cardinality(Waiting) BY DEF Live, Buffers, Kept
    <3> QED BY <2>3, <2>4, <2>5, <3>1, SMT
  <2>7. {Buffer(j)'.frame : j \in Waiting'} = {Buffer(j).frame : j \in Waiting} \cup {f}
    <3>1. \A j \in Waiting : Buffer(j)' = Buffer(j) BY <1>2, <1>5, <2>1 DEF Waiting
    <3> QED BY <1>7, <1>8, <3>1
  <2>8. Range(accepted) = Range(seen) \cup {Buffer(j).frame : j \in Waiting}
    BY DEF Live, Buffers, Kept
  <2>9. Range(accepted') = Range(seen') \cup {Buffer(j)'.frame : j \in Waiting'}
    BY <2>5, <2>7, <2>8
  <2> QED BY <2>6, <2>9 DEF Kept
<1>10. \A j \in driver.give .. driver.take + RxSize - 1 : ~Buffer(j)'.avail
  BY <1>2, <1>5 DEF Live, Buffers
<1>11. Buffers'
  BY <1>0, <1>1, <1>9, <1>10 DEF Live, Buffers
<1> QED BY <1>2, <1>5, <1>7, <1>8, <1>11

LEMMA RxWalkFrame ==
  ASSUME IInv, RxWalk
  PROVE  /\ TypeOK /\ Live /\ receiving.pc = "walk" /\ receiving.i < RxSize
         /\ receiving.i \in Nat /\ dmaBuf.frame \in Nat /\ receiving.fits \in BOOLEAN
         /\ rx.index \in Nat /\ rx.size = RxSize /\ rx.index % RxSize \in 0..plan.rx
         /\ rx'.size = RxSize /\ rx'.index \in Nat
         /\ rx'.index = ((rx.index % RxSize) + 1) % IndexRange
         /\ rx' \in [index : Nat, size : Nat]
<1>1. TypeOK BY DEF IInv
<1>2. receiving.pc = "walk" /\ receiving.i < rx.size /\ rx' = NextInRing(rx) BY DEF RxWalk
<1>3. receiving \in [pc : {"walk", "raise"}, i : Nat, fits : BOOLEAN]
  BY <1>1, <1>2, Walks
<1>4. receiving.i \in Nat /\ dmaBuf.frame \in Nat /\ receiving.fits \in BOOLEAN
  BY <1>1, <1>3 DEF TypeOK
<1>5. ~Setup
  <2> SUFFICES ASSUME Setup PROVE FALSE OBVIOUS
  <2>1. rx.size = 0 BY DEF Setup
  <2> QED BY <1>2, <1>4, <2>1, SMT
<1>6. Live BY <1>5 DEF IInv, Live
<1>7. rx.size = RxSize /\ rx \in [index : Nat, size : Nat] BY <1>1, <1>6 DEF Live, Rings, TypeOK
<1>8. rx.index \in Nat BY <1>7
<1>9. rx.index % RxSize \in 0..plan.rx BY <1>1, <1>8, RxPlace
<1>10. rx' = [rx EXCEPT !.index = ((rx.index % RxSize) + 1) % IndexRange]
  BY <1>2, <1>7 DEF NextInRing, Position
<1>11. ((rx.index % RxSize) + 1) % IndexRange \in Nat BY <1>1, <1>8, Sizes, MovesOn
<1>12. /\ rx'.index = ((rx.index % RxSize) + 1) % IndexRange /\ rx'.size = RxSize
       /\ rx' \in [index : Nat, size : Nat]
  BY <1>7, <1>10, <1>11, SMT
<1> QED BY <1>1, <1>2, <1>4, <1>6, <1>7, <1>8, <1>9, <1>11, <1>12

(* The index moves on *)
LEMMA RxMoves ==
  ASSUME IInv, RxWalk, ~overrun
  PROVE  rx'.index % RxSize = (Len(accepted) + receiving.i + 1) % RxSize
<1>1. TypeOK /\ Live /\ receiving.pc = "walk" /\ receiving.i \in Nat /\ rx.index \in Nat
  BY RxWalkFrame
<1>2. rx'.index = ((rx.index % RxSize) + 1) % IndexRange BY RxWalkFrame
<1>3. rx.index % RxSize = (Len(accepted) + receiving.i) % RxSize
  BY <1>1 DEF Live, InOrder, Passed
<1>4. Len(accepted) + receiving.i \in Nat BY <1>1, Histories, SMT
<1>5. (((rx.index % RxSize) + 1) % IndexRange) % RxSize = ((Len(accepted) + receiving.i) + 1) % RxSize
  BY <1>1, <1>3, <1>4, Sizes, MovesOn
<1> QED BY <1>2, <1>5

LEMMA RxSkipStep ==
  ASSUME IInv, RxWalk, ~Usable(Buffer(rx.index), receiving.fits),
         receiving' = [receiving EXCEPT !.i = @ + 1],
         overrun' = (overrun \/ (receiving.fits /\ ~Buffer(rx.index).avail)),
         UNCHANGED <<rxRing, accepted>>
  PROVE  IInv'
<1>1. /\ TypeOK /\ Live /\ receiving.pc = "walk" /\ receiving.i < RxSize
      /\ receiving.i \in Nat /\ receiving.fits \in BOOLEAN
      /\ rx'.size = RxSize /\ rx' \in [index : Nat, size : Nat]
  BY RxWalkFrame
<1>2. UNCHANGED <<plan, txRing, tx, status, sending, driver, arrived, seen, sent, rxRing, accepted, dmaBuf>>
  BY DEF RxWalk
<1>3. /\ receiving' \in [pc : {"walk", "raise"}, i : Nat, fits : BOOLEAN]
      /\ receiving'.pc = "walk" /\ receiving'.i = receiving.i + 1 /\ receiving'.fits = receiving.fits
  <2>1. receiving \in [pc : {"walk", "raise"}, i : Nat, fits : BOOLEAN]
    BY <1>1, Walks
  <2> QED BY <1>1, <2>1, SMT
<1>4. overrun' \in BOOLEAN BY <1>1 DEF TypeOK
<1>5. TypeOK' BY <1>1, <1>2, <1>3, <1>4 DEF TypeOK
<1>6. RxSize' = RxSize /\ (\A k : Buffer(k)' = Buffer(k)) BY <1>2 DEF RxSize, Buffer
<1>7. Waiting' = Waiting BY <1>2, <1>6 DEF Waiting, Given
<1>8. Buffers' BY <1>1, <1>2, <1>6, <1>7 DEF Live, Buffers, Kept
<1>9. InOrder'
  <2> SUFFICES ASSUME ~overrun' PROVE
         /\ RxInOrder'
         /\ Len(seen') <= Len(accepted') /\ Len(accepted') <= driver'.give
         /\ rx'.index % RxSize' = (Len(accepted') + Passed') % RxSize'
         /\ Passed' <= RxSize'
         /\ receiving'.pc = "walk" => ~receiving'.fits \/ receiving'.i = 0
    BY DEF InOrder
  <2>1. ~overrun /\ ~(receiving.fits /\ ~Buffer(rx.index).avail) OBVIOUS
  <2>2. ~receiving.fits BY <2>1 DEF Usable
  <2>3. Passed' = receiving.i + 1 BY <1>3 DEF Passed
  <2>4. rx'.index % RxSize = (Len(accepted) + (receiving.i + 1)) % RxSize
    <3>1. rx'.index % RxSize = (Len(accepted) + receiving.i + 1) % RxSize BY <2>1, RxMoves
    <3>2. Len(accepted) + receiving.i + 1 = Len(accepted) + (receiving.i + 1)
      BY <1>1, Histories, SMT
    <3> QED BY <3>1, <3>2
  <2>5. receiving.i + 1 <= RxSize BY <1>1, Sizes, SMT
  <2>6. RxInOrder' BY <1>1, <1>2, <1>6, <1>7, <2>1 DEF Live, InOrder, RxInOrder
  <2>7. Len(seen) <= Len(accepted) /\ Len(accepted) <= driver.give BY <1>1, <2>1 DEF Live, InOrder
  <2> QED BY <1>2, <1>3, <1>6, <2>2, <2>3, <2>4, <2>5, <2>6, <2>7
<1>10. Rings' BY <1>1, <1>2 DEF Live, Rings, RxSize, TxSize
<1>11. TxSame BY <1>2 DEF TxSame
<1> QED BY <1>1, <1>5, <1>8, <1>9, <1>10, <1>11, TxFrame DEF Live, IInv

LEMMA RxFillStep ==
  ASSUME IInv, RxWalk, Usable(Buffer(rx.index), receiving.fits),
         rxRing' = [rxRing EXCEPT ![rx.index % RxSize] = RxDesc(FALSE, dmaBuf.frame)],
         accepted' = Append(accepted, dmaBuf.frame),
         receiving' = [receiving EXCEPT !.pc = "raise"], UNCHANGED overrun
  PROVE  IInv'
<1>1. /\ TypeOK /\ Live /\ receiving.pc = "walk" /\ receiving.i < RxSize
      /\ receiving.i \in Nat /\ dmaBuf.frame \in Nat /\ rx.index \in Nat
      /\ rx.index % RxSize \in 0..plan.rx
      /\ rx'.size = RxSize /\ rx' \in [index : Nat, size : Nat]
  BY RxWalkFrame
<1>2. UNCHANGED <<plan, txRing, tx, status, sending, driver, arrived, seen, sent, overrun, dmaBuf>>
  BY DEF RxWalk
<1>3. /\ receiving' \in [pc : {"walk", "raise"}, i : Nat, fits : BOOLEAN]
      /\ receiving'.pc = "raise"
  <2>1. receiving \in [pc : {"walk", "raise"}, i : Nat, fits : BOOLEAN]
    BY <1>1, Walks
  <2> QED BY <2>1, SMT
<1>4. accepted' \in Seq(Nat) BY <1>1, SMT DEF TypeOK
<1>5. TypeOK' BY <1>1, <1>2, <1>3, <1>4 DEF TypeOK
<1>6. /\ RxSize \in Int /\ RxSize > 0 /\ RxSize' = RxSize
      /\ driver.take \in Nat /\ driver.give \in Nat
      /\ driver.take <= driver.give /\ driver.give <= driver.take + RxSize
  BY <1>1, <1>2, Sizes, DriverType DEF Live, Buffers, RxSize
<1>7. PICK k \in driver.take .. driver.take + RxSize - 1 : k % RxSize = rx.index % RxSize
  <2>1. rx.index % RxSize \in Int /\ 0 <= rx.index % RxSize /\ rx.index % RxSize < RxSize
    <3>1. rx.index \in Int BY <1>1, SMT
    <3> QED BY <1>6, <3>1, Divides
  <2>2. driver.take \in Int BY <1>6, SMT
  <2> QED BY <1>6, <2>1, <2>2, EveryPlace
<1>8. Buffer(k) = Buffer(rx.index) /\ Buffer(k).avail BY <1>7 DEF Buffer, Usable
<1>9. k \in Given
  <2>1. k \notin driver.give .. driver.take + RxSize - 1 BY <1>1, <1>8 DEF Live, Buffers
  <2> QED BY <1>6, <1>7, <2>1, SMT DEF Given
<1>10. /\ Buffers' /\ Waiting' = Waiting \cup {k} /\ Buffer(k)'.frame = dmaBuf.frame
       /\ \A j \in Given : j # k => Buffer(j)' = Buffer(j)
  BY <1>1, <1>2, <1>7, <1>8, <1>9, FillBuffers
<1>11. InOrder'
  <2> DEFINE a == Len(accepted)
  <2>0. a \in Nat /\ Len(seen) = driver.take BY <1>1, Histories DEF Live, Buffers
  <2> SUFFICES ASSUME ~overrun' PROVE
         /\ RxInOrder'
         /\ Len(seen') <= Len(accepted') /\ Len(accepted') <= driver'.give
         /\ rx'.index % RxSize' = (Len(accepted') + Passed') % RxSize'
         /\ Passed' <= RxSize'
         /\ receiving'.pc = "walk" => ~receiving'.fits \/ receiving'.i = 0
    BY DEF InOrder
  <2>a. ~overrun OBVIOUS
  <2>1. /\ RxInOrder /\ Len(seen) <= a /\ a <= driver.give /\ receiving.i = 0
        /\ rx.index % RxSize = (a + receiving.i) % RxSize
    BY <1>1, <2>a DEF Live, InOrder, Passed, Usable
  <2>2. rx.index % RxSize = a % RxSize
    <3>1. a + 0 = a BY <2>0, SMT
    <3> QED BY <2>1, <3>1
  <2>3. Waiting = driver.take .. a - 1 BY <2>0, <2>1, <2>a DEF RxInOrder
  <2>4. k \notin Waiting BY <1>8 DEF Waiting
  <2>5. k = a
    <3>1. CASE a < driver.take + RxSize
      <4>1. a \in driver.take .. driver.take + RxSize - 1 /\ driver.take \in Int
        BY <1>6, <2>0, <2>1, <3>1, SMT
      <4> QED BY <1>6, <1>7, <2>2, <4>1, OnePlace
    <3>2. CASE a = driver.take + RxSize
      <4>1. a % RxSize = driver.take % RxSize
        <5>1. driver.take \in Int BY <1>6, SMT
        <5> QED BY <1>6, <3>2, <5>1, RoundLater
      <4>2. driver.take \in driver.take .. driver.take + RxSize - 1 /\ driver.take \in Int
        BY <1>6, SMT
      <4>3. k = driver.take BY <1>6, <1>7, <2>2, <4>1, <4>2, OnePlace
      <4>4. driver.take \in driver.take .. a - 1 BY <1>6, <3>2, SMT
      <4> QED BY <2>3, <2>4, <4>3, <4>4
    <3> QED BY <1>6, <2>0, <2>1, <3>1, <3>2, SMTT(60)
  <2>6. a < driver.give BY <1>6, <1>9, <2>0, <2>5, SMT DEF Given
  <2>7. Len(accepted') = a + 1 /\ Len(accepted') <= driver.give /\ Len(seen) <= a + 1
    <3>1. Len(accepted') = a + 1 BY <1>1, Histories, AppendOne
    <3> HIDE DEF a
    <3> QED BY <1>6, <2>0, <2>1, <2>6, <3>1, SMT
  <2>8. Waiting' = Len(seen) .. Len(accepted') - 1
    BY <1>6, <1>10, <2>0, <2>1, <2>3, <2>5, <2>7, SMT
  <2>9. ASSUME NEW j \in DOMAIN accepted'
        PROVE  accepted'[j] = IF j <= Len(seen) THEN seen[j] ELSE Buffer(j - 1)'.frame
    <3>1. /\ j \in 1..(a + 1) /\ (j # a + 1 => j \in DOMAIN accepted /\ accepted'[j] = accepted[j])
          /\ accepted'[a + 1] = dmaBuf.frame
      <4>1. /\ DOMAIN accepted' = 1..(a + 1) /\ DOMAIN accepted = 1..a
            /\ accepted'[a + 1] = dmaBuf.frame /\ \A i \in 1..a : accepted'[i] = accepted[i]
        <5> DEFINE t == Append(accepted, dmaBuf.frame)
        <5>1. /\ DOMAIN t = 1..(a + 1) /\ DOMAIN accepted = 1..a
              /\ t[a + 1] = dmaBuf.frame /\ \A i \in 1..a : t[i] = accepted[i]
          BY <1>1, Histories, AppendOne
        <5>2. accepted' = t OBVIOUS
        <5> HIDE DEF t, a
        <5> QED BY <5>1, <5>2
      <4> HIDE DEF a
      <4>2. j \in 1..(a + 1) /\ (j # a + 1 => j \in 1..a) BY <2>0, <4>1, SMT
      <4> QED BY <4>1, <4>2
    <3>2. CASE j = a + 1
      <4>1. ~(a + 1 <= Len(seen)) /\ (a + 1) - 1 = a BY <1>6, <2>0, <2>1, SMT
      <4> QED BY <1>10, <2>5, <3>1, <3>2, <4>1
    <3>3. CASE j # a + 1
      <4>1. accepted[j] = IF j <= Len(seen) THEN seen[j] ELSE Buffer(j - 1).frame
        BY <2>1, <2>a, <3>1, <3>3 DEF RxInOrder
      <4>2. ASSUME ~(j <= Len(seen)) PROVE Buffer(j - 1)' = Buffer(j - 1)
        <5>1. j - 1 \in Given /\ j - 1 # a
          BY <1>6, <2>0, <2>1, <2>6, <3>1, <3>3, <4>2, SMTT(60) DEF Given
        <5> QED BY <1>10, <2>5, <5>1
      <4> QED BY <3>1, <3>3, <4>1, <4>2
    <3> QED BY <3>2, <3>3
  <2>10. RxInOrder' BY <1>2, <2>8, <2>9 DEF RxInOrder
  <2>11. Passed' = 0 BY <1>3 DEF Passed
  <2>12. rx'.index % RxSize = (Len(accepted') + 0) % RxSize
    <3>1. rx'.index % RxSize = (a + receiving.i + 1) % RxSize BY <2>a, RxMoves
    <3>2. a + receiving.i + 1 = Len(accepted') + 0 BY <2>0, <2>1, <2>7, SMT
    <3> QED BY <3>1, <3>2
  <2>13. 0 <= RxSize BY <1>6, SMT
  <2> QED BY <1>2, <1>3, <1>6, <2>7, <2>10, <2>11, <2>12, <2>13
<1>12. Rings'
  <2>1. rxRing' \in [0..plan.rx -> RxDescs]
    <3>1. RxDesc(FALSE, dmaBuf.frame) \in RxDescs BY <1>1 DEF RxDesc, RxDescs
    <3> QED BY <1>1, <3>1 DEF Live, Rings
  <2> QED BY <1>1, <1>2, <2>1 DEF Live, Rings, RxSize, TxSize
<1>13. TxSame BY <1>2 DEF TxSame
<1> QED BY <1>1, <1>5, <1>10, <1>11, <1>12, <1>13, TxFrame DEF Live, IInv

LEMMA RxWalkStep ==
  ASSUME IInv, RxWalk
  PROVE  IInv'
<1>1. rx.size = RxSize BY RxWalkFrame
<1>2. Position(rx) = rx.index % RxSize /\ rxRing[Position(rx)] = Buffer(rx.index)
  BY <1>1 DEF Position, Buffer
<1>3. CASE Usable(Buffer(rx.index), receiving.fits) BY <1>2, <1>3, RxFillStep DEF RxWalk
<1>4. CASE ~Usable(Buffer(rx.index), receiving.fits) BY <1>2, <1>4, RxSkipStep DEF RxWalk
<1> QED BY <1>3, <1>4

LEMMA RxRaiseStep ==
  ASSUME IInv, RxRaise
  PROVE  IInv'
<1>1. TypeOK BY DEF IInv
<1>2. /\ receiving.pc = "raise" /\ receiving' = Idle /\ status' = {"RX"}
      /\ UNCHANGED <<plan, rxRing, txRing, rx, tx, sending, driver, arrived, accepted, seen, sent, overrun, dmaBuf>>
  BY DEF RxRaise, Raise
<1>3. TypeOK' BY <1>1, <1>2 DEF TypeOK, Bits
<1>4. receiving'.pc = "idle" BY <1>2 DEF Idle
<1>5. Live BY <1>1, <1>2, Walks DEF IInv, Live, Setup
<1>6. Passed' = Passed BY <1>2, <1>4 DEF Passed
<1>7. RxSame /\ TxSame BY <1>2 DEF RxSame, TxSame
<1>8. Rings' BY <1>2, <1>5 DEF Live, Rings, RxSize, TxSize
<1> QED BY <1>3, <1>4, <1>5, <1>6, <1>7, <1>8, RxFrame, TxFrame DEF Live, IInv

(* After a full round the index is where it was *)
LEMMA RxDropStep ==
  ASSUME IInv, RxDrop
  PROVE  IInv'
<1>1. TypeOK BY DEF IInv
<1>2. /\ receiving.pc = "walk" /\ receiving.i >= rx.size /\ receiving' = Idle
      /\ UNCHANGED <<plan, rxRing, txRing, rx, tx, status, sending, driver, arrived, accepted, seen, sent, overrun, dmaBuf>>
  BY DEF RxDrop
<1>3. TypeOK' BY <1>1, <1>2 DEF TypeOK
<1>4. receiving'.pc = "idle" BY <1>2 DEF Idle
<1>5. CASE Setup
  <2>1. Setup' BY <1>2, <1>5 DEF Setup
  <2> QED BY <1>3, <2>1 DEF IInv
<1>6. CASE Live
  <2>1. RxSize' = RxSize /\ (\A k : Buffer(k)' = Buffer(k)) BY <1>2 DEF RxSize, Buffer
  <2>2. Waiting' = Waiting BY <1>2, <2>1 DEF Waiting, Given
  <2>3. Buffers' BY <1>2, <1>6, <2>1, <2>2 DEF Live, Buffers, Kept
  <2>4. InOrder'
    <3> SUFFICES ASSUME ~overrun' PROVE
           /\ RxInOrder'
           /\ Len(seen') <= Len(accepted') /\ Len(accepted') <= driver'.give
           /\ rx'.index % RxSize' = (Len(accepted') + Passed') % RxSize'
           /\ Passed' <= RxSize'
           /\ receiving'.pc = "walk" => ~receiving'.fits \/ receiving'.i = 0
      BY DEF InOrder
    <3>1. ~overrun BY <1>2
    <3>2. /\ RxInOrder /\ Len(seen) <= Len(accepted) /\ Len(accepted) <= driver.give
          /\ rx.index % RxSize = (Len(accepted) + receiving.i) % RxSize /\ receiving.i <= RxSize
      BY <1>2, <1>6, <3>1 DEF Live, InOrder, Passed
    <3>3. receiving.i = RxSize
      <4>1. receiving.i \in Nat /\ RxSize \in Int /\ rx.size = RxSize
        BY <1>1, <1>2, <1>6, Walks, Sizes DEF Live, Rings
      <4> QED BY <1>2, <3>2, <4>1, SMT
    <3>4. (Len(accepted) + RxSize) % RxSize = (Len(accepted) + 0) % RxSize
      <4>1. Len(accepted) \in Int /\ Len(accepted) + 0 = Len(accepted) BY <1>1, Histories, SMT
      <4> QED BY <1>1, <4>1, Sizes, RoundLater
    <3>5. Passed' = 0 BY <1>4 DEF Passed
    <3>6. 0 <= RxSize BY <1>1, Sizes, SMT
    <3>7. RxInOrder' BY <1>2, <2>1, <2>2, <3>2 DEF RxInOrder
    <3> QED BY <1>2, <1>4, <2>1, <3>2, <3>3, <3>4, <3>5, <3>6, <3>7
  <2>5. TxSame BY <1>2 DEF TxSame
  <2>6. Rings' BY <1>2, <1>6 DEF Live, Rings, RxSize, TxSize
  <2> QED BY <1>3, <1>6, <2>3, <2>4, <2>5, <2>6, TxFrame DEF Live, IInv
<1> QED BY <1>5, <1>6 DEF IInv, Live

---------------------------------------------------------------------------
(* The driver and the receive ring *)

LEMMA RunDriver ==
  ASSUME IInv, driver.pc # "setup"
  PROVE  TypeOK /\ Live
BY DEF IInv, Live, Setup

LEMMA GiveStep ==
  ASSUME IInv, Give
  PROVE  IInv'
<1>1. TypeOK /\ Live BY RunDriver DEF Give
<1>0. PICK g \in Nat, t \in Nat : g = driver.give /\ t = driver.take BY <1>1, DriverType
<1>2. /\ g - t < RxSize /\ rxRing' = [rxRing EXCEPT ![g % RxSize] = RxDesc(TRUE, 0)]
      /\ driver' = [driver EXCEPT !.give = g + 1] /\ driver.pc = "run"
      /\ UNCHANGED <<plan, txRing, rx, tx, status, receiving, sending, arrived, accepted, seen, sent, overrun, dmaBuf>>
  BY <1>0 DEF Give, device
<1>3. /\ driver'.give = g + 1 /\ driver'.take = t /\ driver'.queue = driver.queue
      /\ driver'.reclaim = driver.reclaim /\ driver'.frame = driver.frame /\ driver'.pc = "run"
      /\ driver' \in Drivers
  <2>1. driver \in Drivers BY <1>1 DEF TypeOK
  <2>2. g + 1 \in Nat BY SMT
  <2> QED BY <1>0, <1>2, <2>1, <2>2 DEF Drivers
<1>4. TypeOK' BY <1>1, <1>2, <1>3 DEF TypeOK
<1>5. /\ t \in Nat /\ g \in Nat /\ t <= g /\ g <= t + RxSize /\ RxSize \in Int /\ RxSize > 0
      /\ RxSize' = RxSize /\ rxRing \in [0..plan.rx -> RxDescs]
  BY <1>0, <1>1, <1>2, Sizes DEF Live, Buffers, Rings, RxSize
<1> DEFINE win == t .. t + RxSize - 1
<1>6. /\ g \in win /\ win \subseteq Nat /\ t..g - 1 \subseteq win /\ g \notin t..g - 1
      /\ (g + 1)..t + RxSize - 1 \subseteq win /\ g \notin (g + 1)..t + RxSize - 1
      /\ (g + 1)..t + RxSize - 1 \subseteq g..t + RxSize - 1
      /\ t..(g + 1) - 1 = (t..g - 1) \cup {g} /\ t <= g + 1 /\ g + 1 <= t + RxSize
  BY <1>2, <1>5, SMT
<1>7. \A j \in win : j # g => j % RxSize # g % RxSize
  <2>1. t \in Int BY <1>5, SMT
  <2> QED BY <1>5, <1>6, <2>1, OnePlace
<1>8. \A j \in win : j % RxSize \in 0..plan.rx BY <1>1, <1>6, RxPlace
<1>9. \A j \in win : j # g => Buffer(j)' = Buffer(j) BY <1>2, <1>5, <1>7, <1>8 DEF Buffer
<1>10. Buffer(g)'.avail
  <2>0. g % RxSize \in 0..plan.rx BY <1>6, <1>8
  <2>1. Buffer(g)' = RxDesc(TRUE, 0) BY <1>2, <1>5, <2>0, SMT DEF Buffer
  <2> QED BY <2>1, SMT DEF RxDesc
<1>11. Given = t..g - 1 /\ Given' = (t..g - 1) \cup {g} BY <1>0, <1>3, <1>6 DEF Given
<1>12. Waiting' = Waiting
  <2>1. Waiting' = {j \in (t..g - 1) \cup {g} : ~Buffer(j)'.avail} BY <1>11 DEF Waiting
  <2>2. Waiting = {j \in t..g - 1 : ~Buffer(j).avail} BY <1>11 DEF Waiting
  <2>3. \A j \in t..g - 1 : Buffer(j)' = Buffer(j) BY <1>6, <1>9
  <2>4. \A j : j \in Waiting' <=> j \in t..g - 1 /\ ~Buffer(j)'.avail BY <1>10, <2>1
  <2>5. \A j : j \in Waiting <=> j \in t..g - 1 /\ ~Buffer(j).avail BY <2>2
  <2>6. \A j : j \in Waiting' <=> j \in Waiting BY <2>3, <2>4, <2>5
  <2> QED BY <2>6
<1>13. \A j \in Waiting : Buffer(j)' = Buffer(j) BY <1>6, <1>9, <1>11 DEF Waiting
<1>14. Buffers'
  <2>1. Kept' 
    <3>1. {Buffer(j)'.frame : j \in Waiting'} = {Buffer(j).frame : j \in Waiting}
      BY <1>12, <1>13
    <3> QED BY <1>1, <1>2, <1>12, <3>1 DEF Live, Buffers, Kept
  <2>2. \A j \in g..t + RxSize - 1 : ~Buffer(j).avail BY <1>0, <1>1 DEF Live, Buffers
  <2>3. \A j \in (g + 1)..t + RxSize - 1 : ~Buffer(j)'.avail BY <1>6, <1>9, <2>2
  <2>4. t = Len(seen) BY <1>0, <1>1 DEF Live, Buffers
  <2> QED BY <1>2, <1>3, <1>5, <1>6, <2>1, <2>3, <2>4 DEF Buffers
<1>15. InOrder'
  <2> SUFFICES ASSUME ~overrun' PROVE
         /\ RxInOrder'
         /\ Len(seen') <= Len(accepted') /\ Len(accepted') <= driver'.give
         /\ rx'.index % RxSize' = (Len(accepted') + Passed') % RxSize'
         /\ Passed' <= RxSize'
         /\ receiving'.pc = "walk" => ~receiving'.fits \/ receiving'.i = 0
    BY DEF InOrder
  <2>1. ~overrun BY <1>2
  <2>2. /\ RxInOrder /\ Len(seen) <= Len(accepted) /\ Len(accepted) <= g
        /\ rx.index % RxSize = (Len(accepted) + Passed) % RxSize
        /\ Passed <= RxSize
        /\ receiving.pc = "walk" => ~receiving.fits \/ receiving.i = 0
    BY <1>0, <1>1, <2>1 DEF Live, InOrder
  <2>3. Passed' = Passed BY <1>2 DEF Passed
  <2>4. RxInOrder'
    <3>1. Waiting = Len(seen) .. Len(accepted) - 1 BY <2>1, <2>2 DEF RxInOrder
    <3>2. ASSUME NEW j \in DOMAIN accepted, ~(j <= Len(seen)) PROVE Buffer(j - 1)' = Buffer(j - 1)
      <4>1. j - 1 \in Len(seen) .. Len(accepted) - 1 BY <1>1, <3>2, Histories, SMT
      <4> QED BY <1>13, <3>1, <4>1
    <3>3. \A j \in DOMAIN accepted :
            accepted[j] = IF j <= Len(seen) THEN seen[j] ELSE Buffer(j - 1).frame
      BY <2>1, <2>2 DEF RxInOrder
    <3>4. \A j \in DOMAIN accepted :
            accepted[j] = IF j <= Len(seen) THEN seen[j] ELSE Buffer(j - 1)'.frame
      BY <3>2, <3>3
    <3> QED BY <1>2, <1>12, <3>1, <3>4 DEF RxInOrder
  <2>5. Len(accepted) <= g + 1 BY <1>1, <1>5, <2>2, Histories, SMT
  <2> QED BY <1>2, <1>3, <1>5, <2>2, <2>3, <2>4, <2>5
<1>16. Rings'
  <2>1. RxDesc(TRUE, 0) \in RxDescs BY SMT DEF RxDesc, RxDescs
  <2>2. rxRing' \in [0..plan.rx -> RxDescs] BY <1>2, <1>5, <2>1
  <2> QED BY <1>1, <1>2, <1>3, <2>2 DEF Live, Rings, RxSize, TxSize
<1>17. TxSame BY <1>2, <1>3 DEF TxSame
<1> QED BY <1>1, <1>4, <1>14, <1>15, <1>16, <1>17, TxFrame DEF Live, IInv

LEMMA TakeStep ==
  ASSUME IInv, Take
  PROVE  IInv'
<1>1. TypeOK /\ Live BY RunDriver DEF Take
<1>0. PICK g \in Nat, t \in Nat : g = driver.give /\ t = driver.take BY <1>1, DriverType
<1>f. PICK f : f = Buffer(t).frame OBVIOUS
<1>2. /\ t < g /\ ~Buffer(t).avail /\ seen' = Append(seen, f)
      /\ rxRing' = [rxRing EXCEPT ![t % RxSize] = RxDesc(FALSE, 0)]
      /\ driver' = [driver EXCEPT !.take = t + 1] /\ driver.pc = "serve"
      /\ UNCHANGED <<plan, txRing, rx, tx, status, receiving, sending, arrived, accepted, sent, overrun, dmaBuf>>
  BY <1>0, <1>f DEF Take, HasFrame, device, Buffer
<1>3. /\ driver'.give = g /\ driver'.take = t + 1 /\ driver'.queue = driver.queue
      /\ driver'.reclaim = driver.reclaim /\ driver'.frame = driver.frame /\ driver'.pc = "serve"
      /\ driver' \in Drivers
  <2>1. driver \in Drivers BY <1>1 DEF TypeOK
  <2>2. t + 1 \in Nat BY SMT
  <2> QED BY <1>0, <1>2, <2>1, <2>2 DEF Drivers
<1>4. /\ t <= g /\ g <= t + RxSize /\ RxSize \in Int /\ RxSize > 0
      /\ RxSize' = RxSize /\ rxRing \in [0..plan.rx -> RxDescs] /\ t = Len(seen)
  BY <1>0, <1>1, <1>2, Sizes DEF Live, Buffers, Rings, RxSize
<1>5. f \in Nat
  <2>1. t % RxSize \in 0..plan.rx BY <1>1, RxPlace
  <2>2. Buffer(t) \in RxDescs BY <1>4, <2>1 DEF Buffer
  <2> QED BY <1>f, <2>2 DEF RxDescs
<1>6. /\ seen' \in Seq(Nat) /\ Len(seen') = t + 1 /\ seen'[t + 1] = f
      /\ \A j \in 1..t : seen'[j] = seen[j]
      /\ Range(seen') = Range(seen) \cup {f}
  <2>1. seen \in Seq(Nat) BY <1>1, Histories
  <2> DEFINE s == Append(seen, f)
  <2>2. /\ s \in Seq(Nat) /\ Len(s) = Len(seen) + 1 /\ s[Len(seen) + 1] = f
        /\ \A j \in 1..Len(seen) : s[j] = seen[j]
    BY <1>5, <2>1, AppendOne
  <2>3. Range(s) = Range(seen) \cup {f} BY <1>5, <2>1, RangeAppend
  <2>4. seen' = s BY <1>2
  <2> HIDE DEF s
  <2> QED BY <1>4, <2>2, <2>3, <2>4
<1>7. TypeOK' BY <1>1, <1>2, <1>3, <1>6 DEF TypeOK
<1> DEFINE win == t .. t + RxSize - 1
<1>8. /\ t \in win /\ win \subseteq Nat /\ t..g - 1 \subseteq win /\ t \in t..g - 1
      /\ (t + 1)..g - 1 \subseteq win /\ t \notin (t + 1)..g - 1
      /\ t..g - 1 = ((t + 1)..g - 1) \cup {t}
      /\ g..t + RxSize - 1 \subseteq win /\ t \notin g..t + RxSize - 1
      /\ g..(t + 1) + RxSize - 1 \subseteq (g..t + RxSize - 1) \cup {t + RxSize}
      /\ t + 1 <= g /\ g <= (t + 1) + RxSize /\ t \in Int
  <2>1. /\ t \in win /\ win \subseteq Nat /\ t..g - 1 \subseteq win /\ t \in t..g - 1
        /\ (t + 1)..g - 1 \subseteq win /\ t \notin (t + 1)..g - 1
    BY <1>2, <1>4, SMT
  <2>2. /\ t..g - 1 = ((t + 1)..g - 1) \cup {t}
        /\ g..t + RxSize - 1 \subseteq win /\ t \notin g..t + RxSize - 1
    BY <1>2, <1>4, SMT
  <2>3. g..(t + 1) + RxSize - 1 \subseteq (g..t + RxSize - 1) \cup {t + RxSize}
    BY <1>2, <1>4, SMT
  <2>4. t + 1 <= g /\ g <= (t + 1) + RxSize /\ t \in Int BY <1>2, <1>4, SMT
  <2> QED BY <2>1, <2>2, <2>3, <2>4
<1>9. \A j \in win : j # t => j % RxSize # t % RxSize BY <1>4, <1>8, OnePlace
<1>10. \A j \in win : j % RxSize \in 0..plan.rx BY <1>1, <1>8, RxPlace
<1>11. \A j \in win : j # t => Buffer(j)' = Buffer(j) BY <1>2, <1>4, <1>9, <1>10 DEF Buffer
<1>12. \A j : j = t + RxSize => ~Buffer(j)'.avail
  <2>1. (t + RxSize) % RxSize = t % RxSize BY <1>4, <1>8, RoundLater
  <2>2. t % RxSize \in 0..plan.rx BY <1>8, <1>10
  <2>3. rxRing'[t % RxSize] = RxDesc(FALSE, 0) BY <1>2, <1>4, <2>2
  <2>4. ~RxDesc(FALSE, 0).avail BY SMT DEF RxDesc
  <2> QED BY <1>4, <2>1, <2>3, <2>4 DEF Buffer
<1>13. Given = ((t + 1)..g - 1) \cup {t} /\ Given' = (t + 1)..g - 1
  BY <1>0, <1>3, <1>8 DEF Given
<1>14. Waiting = Waiting' \cup {t} /\ t \notin Waiting'
  <2>1. \A j : j \in Waiting <=> j \in Given /\ ~Buffer(j).avail BY DEF Waiting
  <2>2. \A j : j \in Waiting' <=> j \in Given' /\ ~Buffer(j)'.avail BY DEF Waiting
  <2>3. \A j \in Given' : Buffer(j)' = Buffer(j) BY <1>8, <1>11, <1>13
  <2>4. \A j : j \in Waiting <=> j \in Waiting' \/ j = t BY <1>2, <1>13, <2>1, <2>2, <2>3
  <2>5. t \notin Waiting' BY <1>8, <1>13, <2>2
  <2> QED BY <2>4, <2>5
<1>15. \A j \in Waiting' : Buffer(j)' = Buffer(j)
  <2>1. Waiting' \subseteq Given' BY DEF Waiting
  <2> QED BY <1>8, <1>11, <1>13, <2>1
<1>16. Buffers'
  <2>1. Kept'
    <3>1. Kept BY <1>1 DEF Live, Buffers
    <3>2. IsFiniteSet(Waiting')
      <4>1. IsFiniteSet((t + 1)..g - 1)
        <5>1. t + 1 \in Int /\ g - 1 \in Int BY SMT
        <5> QED BY <5>1, FS_Interval
      <4>2. Waiting' \subseteq (t + 1)..g - 1 BY <1>13 DEF Waiting
      <4> QED BY <4>1, <4>2, FS_Subset
    <3>3. Cardinality(Waiting) = Cardinality(Waiting') + 1
      BY <1>14, <3>2, FS_AddElement
    <3>4. Len(accepted') = Len(seen') + Cardinality(Waiting')
      <4>1. Len(accepted) = Len(seen) + Cardinality(Waiting) BY <3>1 DEF Kept
      <4>2. Cardinality(Waiting') \in Nat BY <3>2, FS_CardinalityType
      <4>3. Len(accepted) = (t + 1) + Cardinality(Waiting') BY <1>4, <3>3, <4>1, <4>2, SMT
      <4> QED BY <1>2, <1>6, <4>3
    <3>5. Range(accepted') = Range(seen') \cup {Buffer(k)'.frame : k \in Waiting'}
      <4>1. Range(accepted) = Range(seen) \cup {Buffer(k).frame : k \in Waiting}
        BY <3>1 DEF Kept
      <4>2. {Buffer(k).frame : k \in Waiting} = {f} \cup {Buffer(k).frame : k \in Waiting'}
        BY <1>f, <1>14
      <4>3. {Buffer(k)'.frame : k \in Waiting'} = {Buffer(k).frame : k \in Waiting'} BY <1>15
      <4>4. Range(accepted) = (Range(seen) \cup {f}) \cup {Buffer(k).frame : k \in Waiting'}
        BY <4>1, <4>2
      <4> QED BY <1>2, <1>6, <4>3, <4>4
    <3> QED BY <3>4, <3>5 DEF Kept
  <2>2. \A j \in g..t + RxSize - 1 : ~Buffer(j).avail BY <1>0, <1>1 DEF Live, Buffers
  <2>3. \A j \in g..t + RxSize - 1 : ~Buffer(j)'.avail BY <1>8, <1>11, <2>2
  <2>4. \A j \in g..(t + 1) + RxSize - 1 : ~Buffer(j)'.avail BY <1>8, <1>12, <2>3
  <2> QED BY <1>3, <1>4, <1>6, <1>8, <2>1, <2>4 DEF Buffers
<1>17. InOrder'
  <2> SUFFICES ASSUME ~overrun' PROVE
         /\ RxInOrder'
         /\ Len(seen') <= Len(accepted') /\ Len(accepted') <= driver'.give
         /\ rx'.index % RxSize' = (Len(accepted') + Passed') % RxSize'
         /\ Passed' <= RxSize'
         /\ receiving'.pc = "walk" => ~receiving'.fits \/ receiving'.i = 0
    BY DEF InOrder
  <2>1. ~overrun BY <1>2
  <2>2. /\ RxInOrder /\ Len(accepted) <= g
        /\ rx.index % RxSize = (Len(accepted) + Passed) % RxSize
        /\ Passed <= RxSize
        /\ receiving.pc = "walk" => ~receiving.fits \/ receiving.i = 0
    BY <1>0, <1>1, <2>1 DEF Live, InOrder
  <2>3. Passed' = Passed BY <1>2 DEF Passed
  <2>4. PICK m \in Nat : m = Len(accepted) BY <1>1, Histories
  <2>5. Waiting = t .. m - 1 BY <1>4, <2>1, <2>2, <2>4 DEF RxInOrder
  <2>6. t \in t .. m - 1 BY <1>14, <2>5
  <2>7. t + 1 <= m /\ t..m - 1 = ((t + 1)..m - 1) \cup {t} /\ t \notin (t + 1)..m - 1
    BY <2>6, SMT
  <2>8. Waiting' = (t + 1)..m - 1 BY <1>14, <2>5, <2>7
  <2>9. ASSUME NEW j \in DOMAIN accepted
        PROVE  accepted[j] = IF j <= t + 1 THEN seen'[j] ELSE Buffer(j - 1)'.frame
    <3>1. accepted[j] = IF j <= t THEN seen[j] ELSE Buffer(j - 1).frame
      BY <1>4, <2>1, <2>2 DEF RxInOrder
    <3>2. j \in 1..m BY <1>1, <2>4, Histories, SMT
    <3>3. CASE j <= t
      <4>1. j \in 1..t /\ j <= t + 1 BY <3>2, <3>3, SMT
      <4> QED BY <1>6, <3>1, <3>3, <4>1
    <3>4. CASE j = t + 1
      <4>1. ~(j <= t) /\ j - 1 = t /\ j <= t + 1 BY <3>4, SMT
      <4> QED BY <1>f, <1>6, <3>1, <3>4, <4>1
    <3>5. CASE j > t + 1
      <4>1. ~(j <= t) /\ ~(j <= t + 1) /\ j - 1 \in (t + 1)..m - 1 BY <3>2, <3>5, SMT
      <4>2. Buffer(j - 1)' = Buffer(j - 1) BY <1>15, <2>8, <4>1
      <4> QED BY <3>1, <4>1, <4>2
    <3> QED BY <3>2, <3>3, <3>4, <3>5, SMT
  <2>10. RxInOrder' BY <1>2, <1>6, <2>4, <2>8, <2>9 DEF RxInOrder
  <2> QED BY <1>2, <1>3, <1>4, <1>6, <2>2, <2>3, <2>4, <2>7, <2>10
<1>18. Rings'
  <2>1. RxDesc(FALSE, 0) \in RxDescs BY SMT DEF RxDesc, RxDescs
  <2>2. rxRing' \in [0..plan.rx -> RxDescs] BY <1>2, <1>4, <2>1
  <2> QED BY <1>1, <1>2, <1>3, <2>2 DEF Live, Rings, RxSize, TxSize
<1>19. TxSame BY <1>2, <1>3 DEF TxSame
<1> QED BY <1>1, <1>7, <1>16, <1>17, <1>18, <1>19, TxFrame DEF Live, IInv

---------------------------------------------------------------------------
(* nvnet_dma_packet_from_guest *)

LEMMA DoneIs ==
  ASSUME TypeOK
  PROVE  /\ sending.pc = "sent" => Done = Len(sent) - 1
         /\ sending.pc # "sent" => Done = Len(sent)
<1>1. Len(sent) - 0 = Len(sent) BY Histories, SMT
<1> QED BY <1>1 DEF Done

(* The receive side while the other one moves *)
LEMMA TxOnly ==
  ASSUME TypeOK, Live, RxSame, receiving' = receiving
  PROVE  Buffers' /\ InOrder'
<1>1. Passed' = Passed BY DEF Passed
<1> QED BY <1>1, RxFrame DEF Live

LEMMA TxWalkStep ==
  ASSUME IInv, TxWalk
  PROVE  IInv'
<1>1. TypeOK BY DEF IInv
<1>2. /\ sending.pc = "walk" /\ sending.i < tx.size /\ tx' = NextInRing(tx)
      /\ UNCHANGED <<plan, rxRing, txRing, rx, status, receiving, driver, arrived, accepted, seen,
                     sent, overrun>>
  BY DEF TxWalk
<1>3. Live BY <1>1, <1>2, Walks DEF IInv, Live, Setup
<1>4. PICK n \in Nat, q \in Nat, r \in Nat, i \in Nat, x \in Nat :
        n = Len(sent) /\ q = driver.queue /\ r = driver.reclaim /\ i = sending.i /\ x = tx.index
  <2>1. tx.index \in Nat BY <1>1 DEF TypeOK
  <2>2. sending.i \in Nat BY <1>1, <1>2, Walks
  <2> QED BY <1>1, <2>1, <2>2, Histories, DriverType
<1>5. /\ TxSize \in Int /\ TxSize > 0 /\ TxSize < IndexRange /\ TxSize' = TxSize /\ tx.size = TxSize
      /\ i < TxSize
  BY <1>1, <1>2, <1>3, <1>4, Sizes DEF Live, Rings, TxSize
<1>6. /\ tx'.index = ((x % TxSize) + 1) % IndexRange /\ tx'.size = TxSize
      /\ Position(tx) = x % TxSize
  <2>1. tx \in [index : Nat, size : Nat] BY <1>1 DEF TypeOK
  <2> QED BY <1>2, <1>4, <1>5, <2>1 DEF NextInRing, Position
<1>7. tx' \in [index : Nat, size : Nat]
  <2>1. tx \in [index : Nat, size : Nat] BY <1>1 DEF TypeOK
  <2>2. ((x % TxSize) + 1) % IndexRange \in Nat BY <1>5, MovesOn
  <2> QED BY <1>2, <1>4, <1>5, <2>1, <2>2 DEF NextInRing, Position
<1>8. /\ r <= n /\ n <= q /\ q <= r + TxSize /\ Done = n
      /\ \A k \in r .. r + TxSize - 1 : Slot(k).valid <=> n <= k /\ k < q
      /\ \A k \in n .. q - 1 : Slot(k).frag = k + 1
  BY <1>1, <1>2, <1>3, <1>4, DoneIs DEF Live, Window
<1>9. \A k : Slot(k)' = Slot(k) BY <1>2, <1>5 DEF Slot
<1>10. sending \in [pc : {"walk", "send", "sent", "end"}, i : Nat, desc : Nat, any : BOOLEAN]
  BY <1>1, <1>2, Walks
<1>11. RxSame BY <1>2 DEF RxSame
<1>12. Buffers' /\ InOrder' BY <1>1, <1>2, <1>3, <1>11, TxOnly
<1>13. Rings' BY <1>2, <1>3, <1>5, <1>6 DEF Live, Rings, RxSize
<1>14. Done' = Done => Window' BY <1>2, <1>3, <1>5, <1>9 DEF Live, Window
<1>15. AtFull \/ AtEmpty BY <1>1, <1>2, <1>3, Walks DEF Live, Sending, AtIdle, AtSend, AtSent, AtEnd
<1>16. CASE AtFull
  <2>1. n < q /\ x % TxSize = n % TxSize /\ i + (q - n) <= TxSize /\ driver.frame = "none"
    BY <1>4, <1>16 DEF AtFull
  <2>2. n \in r .. r + TxSize - 1 /\ n \in n .. q - 1 /\ n <= n /\ n + 1 \in Nat
    BY <1>5, <1>8, <2>1, SMT
  <2>3. txRing[Position(tx)] = Slot(n) BY <1>6, <2>1 DEF Slot
  <2>4. txRing[Position(tx)].valid /\ txRing[Position(tx)].frag = n + 1
    BY <1>8, <2>1, <2>2, <2>3
  <2>5. /\ dmaBuf' = Holding(0, n + 1)
        /\ sending' = [sending EXCEPT !.pc = "send", !.desc = n % TxSize, !.any = TRUE]
    BY <1>6, <2>1, <2>4 DEF TxWalk
  <2>6. n % TxSize \in Nat
    <3>1. n % TxSize \in 0..plan.tx BY <1>1, TxPlace
    <3>2. plan.tx \in 0..IndexRange - 2 /\ IndexRange \in Nat BY <1>1, NvNetAssumption DEF TypeOK
    <3> QED BY <3>1, <3>2, SMT
  <2>7. /\ sending' \in [pc : {"walk", "send", "sent", "end"}, i : Nat, desc : Nat, any : BOOLEAN]
        /\ sending'.pc = "send" /\ sending'.desc = n % TxSize /\ sending'.i = i
    BY <1>4, <1>10, <2>5, <2>6
  <2>8. dmaBuf' \in [frame : Nat, frag : Nat] /\ dmaBuf'.frag = n + 1
    <3>1. 0 \in Nat BY SMT
    <3> QED BY <2>2, <2>5, <3>1 DEF Holding
  <2>9. TypeOK' BY <1>1, <1>2, <1>7, <2>7, <2>8 DEF TypeOK
  <2>10. TxInOrder' BY <1>2, <1>3 DEF Live, TxInOrder
  <2>11. Done' = Done BY <1>2, <2>7 DEF Done
  <2>12. AtSend'
    <3>0. (((x % TxSize) + 1) % IndexRange) % TxSize = (n + 1) % TxSize BY <1>5, <2>1, MovesOn
    <3>1. tx'.index % TxSize = (n + 1) % TxSize BY <1>6, <3>0
    <3> QED BY <1>2, <1>4, <1>5, <2>1, <2>7, <2>8, <3>1 DEF AtSend
  <2> QED BY <1>12, <1>13, <1>14, <2>9, <2>10, <2>11, <2>12 DEF IInv, Sending
<1>17. CASE AtEmpty
  <2>1. n = q /\ x % TxSize = (n + i) % TxSize /\ i <= TxSize /\ driver.frame = "none"
    BY <1>4, <1>17 DEF AtEmpty
  <2>2. ~txRing[Position(tx)].valid
    <3>1. x \in Int /\ r \in Int BY SMT
    <3>2. x % TxSize \in Int /\ 0 <= x % TxSize /\ x % TxSize < TxSize BY <1>5, <3>1, Divides
    <3>0. PICK d \in Int : d = x % TxSize /\ 0 <= d /\ d < TxSize BY <3>2
    <3>3. PICK k \in r .. r + TxSize - 1 : k % TxSize = x % TxSize
      <4>1. \E k \in r .. r + TxSize - 1 : k % TxSize = d
        <5>1. TxSize \in Int /\ TxSize > 0 BY <1>5
        <5>2. r \in Int /\ d \in Int /\ 0 <= d /\ d < TxSize BY <3>0, <3>1
        <5> QED BY <5>1, <5>2, EveryPlace
      <4> QED BY <3>0, <4>1
    <3>4. ~(n <= k /\ k < q) BY <2>1, <3>1, <3>3, <1>5, SMT
    <3>5. ~Slot(k).valid BY <1>8, <3>4
    <3> QED BY <1>6, <3>3, <3>5 DEF Slot
  <2>3. sent' = sent /\ dmaBuf' = dmaBuf /\ sending' = [sending EXCEPT !.i = i + 1]
    BY <1>2, <1>4, <2>2 DEF TxWalk
  <2>4. /\ sending' \in [pc : {"walk", "send", "sent", "end"}, i : Nat, desc : Nat, any : BOOLEAN]
        /\ sending'.pc = "walk" /\ sending'.i = i + 1
    <3>1. i + 1 \in Nat BY SMT
    <3> QED BY <1>2, <1>10, <2>3, <3>1
  <2>5. TypeOK' BY <1>1, <1>2, <1>7, <2>3, <2>4 DEF TypeOK
  <2>6. Done' = Done BY <1>2, <2>3, <2>4 DEF Done
  <2>7. AtEmpty'
    <3>1. n + i \in Nat /\ (n + i) + 1 = n + (i + 1) /\ i + 1 <= TxSize BY <1>5, SMT
    <3>0. (((x % TxSize) + 1) % IndexRange) % TxSize = ((n + i) + 1) % TxSize
      BY <1>5, <2>1, <3>1, MovesOn
    <3>2. tx'.index % TxSize = (n + (i + 1)) % TxSize BY <1>6, <3>0, <3>1
    <3> QED BY <1>2, <1>4, <1>5, <2>1, <2>3, <2>4, <3>1, <3>2 DEF AtEmpty
  <2>8. TxInOrder' BY <1>3, <2>3 DEF Live, TxInOrder
  <2> QED BY <1>12, <1>13, <1>14, <2>5, <2>6, <2>7, <2>8 DEF IInv, Sending
<1> QED BY <1>15, <1>16, <1>17

LEMMA TxSendStep ==
  ASSUME IInv, TxSend
  PROVE  IInv'
<1>1. TypeOK BY DEF IInv
<1>2. /\ sending.pc = "send" /\ sent' = Append(sent, dmaBuf.frag)
      /\ sending' = [sending EXCEPT !.pc = "sent"]
      /\ UNCHANGED <<plan, rxRing, txRing, rx, tx, status, receiving, driver, arrived, accepted,
                     seen, overrun, dmaBuf>>
  BY DEF TxSend
<1>3. Live BY <1>1, <1>2, Walks DEF IInv, Live, Setup
<1>4. PICK n \in Nat : n = Len(sent) BY <1>1, Histories
<1>5. AtSend BY <1>1, <1>2, <1>3, Walks DEF Live, Sending, AtIdle, AtFull, AtEmpty, AtSent, AtEnd
<1>6. /\ driver.frame = "none" /\ n < driver.queue /\ sending.desc = n % TxSize
      /\ dmaBuf.frag = n + 1 /\ tx.index % TxSize = (n + 1) % TxSize
      /\ sending.i + (driver.queue - n) <= TxSize
  BY <1>4, <1>5 DEF AtSend
<1>7. /\ sending' \in [pc : {"walk", "send", "sent", "end"}, i : Nat, desc : Nat, any : BOOLEAN]
      /\ sending'.pc = "sent" /\ sending'.desc = sending.desc /\ sending'.i = sending.i
  <2>1. sending \in [pc : {"walk", "send", "sent", "end"}, i : Nat, desc : Nat, any : BOOLEAN]
    BY <1>1, <1>2, Walks
  <2> QED BY <1>2, <2>1
<1>8. /\ sent' \in Seq(Nat) /\ Len(sent') = n + 1 /\ DOMAIN sent' = 1..(n + 1)
      /\ sent'[n + 1] = n + 1 /\ \A j \in 1..n : sent'[j] = sent[j]
      /\ DOMAIN sent = 1..n
  <2> DEFINE s == Append(sent, n + 1)
  <2>1. sent \in Seq(Nat) /\ n + 1 \in Nat
    <3>1. n + 1 \in Nat BY SMT
    <3> QED BY <1>1, <3>1, Histories
  <2>2. /\ s \in Seq(Nat) /\ Len(s) = Len(sent) + 1 /\ s[Len(sent) + 1] = n + 1
        /\ \A j \in 1..Len(sent) : s[j] = sent[j]
        /\ DOMAIN s = 1..(Len(sent) + 1) /\ DOMAIN sent = 1..Len(sent)
    BY <2>1, AppendOne
  <2>3. sent' = s BY <1>2, <1>6
  <2> HIDE DEF s
  <2> QED BY <1>4, <2>2, <2>3
<1>9. TypeOK' BY <1>1, <1>2, <1>7, <1>8 DEF TypeOK
<1>10. TxInOrder'
  <2>1. \A j \in 1..n : sent[j] = j BY <1>3, <1>8 DEF Live, TxInOrder
  <2>2. 1..(n + 1) = (1..n) \cup {n + 1} BY SMT
  <2> QED BY <1>8, <2>1, <2>2 DEF TxInOrder
<1>11. TxSize' = TxSize /\ Done = n /\ Done' = n
  <2>1. (n + 1) - 1 = n BY SMT
  <2>2. Done' = n BY <1>7, <1>8, <2>1 DEF Done
  <2>3. Done = n BY <1>1, <1>2, <1>4, DoneIs
  <2> QED BY <1>2, <2>2, <2>3 DEF TxSize
<1>12. Window'
  <2>1. \A k : Slot(k)' = Slot(k) BY <1>2, <1>11 DEF Slot
  <2> QED BY <1>2, <1>3, <1>11, <2>1 DEF Live, Window
<1>13. AtSent'
  <2>1. n + 1 > 0 BY SMT
  <2> QED BY <1>2, <1>6, <1>7, <1>8, <1>11, <2>1 DEF AtSent
<1>14. RxSame BY <1>2 DEF RxSame
<1>15. Buffers' /\ InOrder' BY <1>1, <1>2, <1>3, <1>14, TxOnly
<1>16. Rings' BY <1>2, <1>3, <1>11 DEF Live, Rings, RxSize
<1> QED BY <1>9, <1>10, <1>12, <1>13, <1>15, <1>16 DEF IInv, Sending

LEMMA TxUpdateStep ==
  ASSUME IInv, TxUpdate
  PROVE  IInv'
<1>1. TypeOK BY DEF IInv
<1>2. /\ sending.pc = "sent"
      /\ txRing' = [txRing EXCEPT ![sending.desc] = [@ EXCEPT !.valid = FALSE]]
      /\ sending' = IF Stops(txRing[sending.desc]) THEN [sending EXCEPT !.pc = "end"]
                    ELSE [sending EXCEPT !.pc = "walk", !.i = @ + 1]
      /\ UNCHANGED <<plan, rxRing, rx, tx, status, receiving, driver, arrived, accepted, seen,
                     sent, overrun, dmaBuf>>
  BY DEF TxUpdate
<1>3. Live BY <1>1, <1>2, Walks DEF IInv, Live, Setup
<1>4. PICK n \in Nat, q \in Nat, r \in Nat, i \in Nat :
        n = Len(sent) /\ q = driver.queue /\ r = driver.reclaim /\ i = sending.i
  <2>1. sending.i \in Nat BY <1>1, <1>2, Walks
  <2> QED BY <1>1, <2>1, Histories, DriverType
<1>d. PICK d \in Int : d = n - 1 /\ Done = d
  <2>1. n - 1 \in Int BY SMT
  <2> QED BY <1>1, <1>2, <1>4, <2>1, DoneIs
<1>5. AtSent BY <1>1, <1>2, <1>3, Walks DEF Live, Sending, AtIdle, AtFull, AtEmpty, AtSend, AtEnd
<1>6. /\ driver.frame = "none" /\ n > 0 /\ d < q /\ sending.desc = d % TxSize
      /\ tx.index % TxSize = n % TxSize /\ i + (q - d) <= TxSize
  BY <1>4, <1>5, <1>d DEF AtSent
<1>7. TxSize \in Int /\ TxSize > 0 /\ TxSize' = TxSize /\ txRing \in [0..plan.tx -> TxDescs]
  BY <1>1, <1>2, <1>3, Sizes DEF Live, Rings, TxSize
<1>8. /\ r <= d /\ q <= r + TxSize
      /\ \A k \in r .. r + TxSize - 1 : Slot(k).valid <=> d <= k /\ k < q
      /\ \A k \in d .. q - 1 : Slot(k).frag = k + 1 /\ (Slot(k).last <=> k = q - 1)
  BY <1>3, <1>4, <1>d, <1>6 DEF Live, Window
<1> DEFINE win == r .. r + TxSize - 1
<1>9. /\ d \in win /\ d \in Nat /\ n = d + 1 /\ d \in d .. q - 1 /\ win \subseteq Nat /\ r \in Int
      /\ n .. q - 1 \subseteq d .. q - 1 /\ d .. q - 1 \subseteq win /\ d \notin n .. q - 1
  <2>1. d \in win /\ d \in Nat /\ n = d + 1 /\ d \in d .. q - 1 /\ r \in Int
    BY <1>d, <1>6, <1>7, <1>8, SMT
  <2>2. win \subseteq Nat BY <1>7, SMT
  <2>3. n .. q - 1 \subseteq d .. q - 1 /\ d \notin n .. q - 1 BY <1>d, SMT
  <2>4. d .. q - 1 \subseteq win BY <1>7, <1>8, SMT
  <2> QED BY <2>1, <2>2, <2>3, <2>4
<1>10. \A k \in win : k % TxSize \in 0..plan.tx BY <1>1, <1>9, TxPlace
<1>11. \A k \in win : k # d => k % TxSize # d % TxSize BY <1>7, <1>9, OnePlace
<1>12. \A k \in win : k # d => Slot(k)' = Slot(k) BY <1>2, <1>6, <1>7, <1>10, <1>11 DEF Slot
<1>13. Slot(d) \in TxDescs /\ txRing[sending.desc] = Slot(d)
  BY <1>6, <1>7, <1>9, <1>10 DEF Slot
<1>14. ~Slot(d)'.valid /\ txRing' \in [0..plan.tx -> TxDescs]
  <2> DEFINE t == [Slot(d) EXCEPT !.valid = FALSE]
  <2>1. t \in TxDescs /\ t.valid = FALSE BY <1>13 DEF TxDescs
  <2>2. txRing' = [txRing EXCEPT ![d % TxSize] = t] BY <1>2, <1>6, <1>13 DEF Slot
  <2> HIDE DEF t
  <2>3. d % TxSize \in 0..plan.tx BY <1>9, <1>10
  <2>4. txRing'[d % TxSize] = t BY <1>7, <2>2, <2>3
  <2> QED BY <1>7, <2>1, <2>2, <2>3, <2>4 DEF Slot
<1>15. Stops(txRing[sending.desc]) <=> d = q - 1 BY <1>8, <1>9, <1>13 DEF Stops
<1>16. /\ sending' \in [pc : {"walk", "send", "sent", "end"}, i : Nat, desc : Nat, any : BOOLEAN]
       /\ d = q - 1 => sending'.pc = "end"
       /\ d # q - 1 => sending'.pc = "walk" /\ sending'.i = i + 1
  <2>1. sending \in [pc : {"walk", "send", "sent", "end"}, i : Nat, desc : Nat, any : BOOLEAN]
    BY <1>1, <1>2, Walks
  <2>2. i + 1 \in Nat BY SMT
  <2>3. sending' = IF d = q - 1 THEN [sending EXCEPT !.pc = "end"]
                   ELSE [sending EXCEPT !.pc = "walk", !.i = i + 1]
    BY <1>2, <1>4, <1>15
  <2> QED BY <2>1, <2>2, <2>3
<1>17. TypeOK' BY <1>1, <1>2, <1>16 DEF TypeOK
<1>18. Done' = n
  <2>1. sending'.pc # "sent" BY <1>16
  <2>2. n - 0 = n BY SMT
  <2> QED BY <1>2, <1>4, <2>1, <2>2 DEF Done
<1>19. Window'
  <2>1. r <= n /\ n <= q BY <1>8, <1>9, <1>6, SMT
  <2>2. ASSUME NEW k \in win PROVE Slot(k)'.valid <=> n <= k /\ k < q
    <3>1. CASE k = d
      <4>1. ~(n <= k) BY <1>9, <3>1, SMT
      <4> QED BY <1>14, <3>1, <4>1
    <3>2. CASE k # d
      <4>1. d <= k <=> n <= k
        <5>1. k \in Int BY <1>7, SMT
        <5> QED BY <1>d, <1>9, <3>2, <5>1, SMT
      <4> QED BY <1>8, <1>12, <3>2, <4>1
    <3> QED BY <3>1, <3>2
  <2>3. ASSUME NEW k \in n .. q - 1
        PROVE Slot(k)'.frag = k + 1 /\ (Slot(k)'.last <=> k = q - 1 /\ driver'.frame # "partial")
    <3>1. Slot(k)' = Slot(k) BY <1>9, <1>12
    <3>2. Slot(k).frag = k + 1 /\ (Slot(k).last <=> k = q - 1) BY <1>8, <1>9
    <3> QED BY <1>2, <1>6, <3>1, <3>2
  <2> QED BY <1>2, <1>4, <1>7, <1>8, <1>18, <2>1, <2>2, <2>3 DEF Window
<1>20. Sending'
  <2>1. CASE d = q - 1
    <3>1. n = q BY <1>9, <2>1, SMT
    <3> QED BY <1>2, <1>4, <1>6, <1>7, <1>16, <2>1, <3>1 DEF Sending, AtEnd
  <2>2. CASE d # q - 1
    <3>1. n < q /\ (i + 1) + (q - n) <= TxSize BY <1>6, <1>7, <1>9, <2>2, SMT
    <3> QED BY <1>2, <1>4, <1>6, <1>7, <1>16, <2>2, <3>1 DEF Sending, AtFull
  <2> QED BY <2>1, <2>2
<1>21. RxSame BY <1>2 DEF RxSame
<1>22. Buffers' /\ InOrder' BY <1>1, <1>2, <1>3, <1>21, TxOnly
<1>23. Rings' BY <1>2, <1>3, <1>7, <1>14 DEF Live, Rings, RxSize
<1>24. TxInOrder' BY <1>2, <1>3 DEF Live, TxInOrder
<1> QED BY <1>17, <1>19, <1>20, <1>22, <1>23, <1>24 DEF IInv

LEMMA TxEndStep ==
  ASSUME IInv, TxEnd
  PROVE  IInv'
<1>1. TypeOK BY DEF IInv
<1>2. /\ sending.pc = "end" \/ (sending.pc = "walk" /\ sending.i >= tx.size)
      /\ sending' = Idle /\ (status' = status \/ status' = {"TX"})
      /\ UNCHANGED <<plan, rxRing, txRing, rx, tx, receiving, driver, arrived, accepted, seen,
                     sent, overrun, dmaBuf>>
  BY DEF TxEnd, Raise
<1>3. Live BY <1>1, <1>2, Walks DEF IInv, Live, Setup
<1>4. TypeOK' BY <1>1, <1>2 DEF TypeOK, Bits
<1>5. sending'.pc = "idle" BY <1>2 DEF Idle
<1>6. PICK n \in Nat, q \in Nat : n = Len(sent) /\ q = driver.queue
  BY <1>1, Histories, DriverType
<1>7. TxSize \in Int /\ TxSize > 0 /\ TxSize' = TxSize /\ tx.size = TxSize
  BY <1>1, <1>2, <1>3, Sizes DEF Live, Rings, TxSize
<1>8. driver.frame = "none" /\ n = q /\ tx.index % TxSize = n % TxSize
  <2>1. AtEnd \/ AtFull \/ AtEmpty BY <1>1, <1>2, <1>3, Walks DEF Live, Sending, AtIdle, AtSend, AtSent
  <2>2. CASE AtEnd BY <1>6, <2>2 DEF AtEnd
  <2>3. CASE AtFull
    <3>1. sending.pc = "walk" /\ n < q /\ sending.i + (q - n) <= TxSize BY <1>6, <2>3 DEF AtFull
    <3>2. sending.i \in Nat /\ sending.i >= TxSize BY <1>1, <1>2, <1>7, <3>1, Walks
    <3> QED BY <1>7, <3>1, <3>2, SMT
  <2>4. CASE AtEmpty
    <3>1. /\ sending.pc = "walk" /\ driver.frame = "none" /\ n = q /\ sending.i <= TxSize
          /\ tx.index % TxSize = (n + sending.i) % TxSize
      BY <1>6, <2>4 DEF AtEmpty
    <3>2. sending.i \in Nat /\ sending.i >= TxSize BY <1>1, <1>2, <1>7, <3>1, Walks
    <3>3. sending.i = TxSize /\ n \in Int BY <1>7, <3>1, <3>2, SMT
    <3>4. (n + TxSize) % TxSize = n % TxSize BY <1>7, <3>3, RoundLater
    <3> QED BY <3>1, <3>3, <3>4
  <2> QED BY <2>1, <2>2, <2>3, <2>4
<1>9. AtIdle' BY <1>2, <1>6, <1>7, <1>8 DEF AtIdle
<1>10. Window'
  <2>1. sending.pc # "sent" /\ sending'.pc # "sent" BY <1>2, <1>5
  <2>2. Done' = Done BY <1>2, <2>1 DEF Done
  <2>3. \A k : Slot(k)' = Slot(k) BY <1>2, <1>7 DEF Slot
  <2> QED BY <1>2, <1>3, <1>7, <2>2, <2>3 DEF Live, Window
<1>11. RxSame BY <1>2 DEF RxSame
<1>12. Buffers' /\ InOrder' BY <1>1, <1>2, <1>3, <1>11, TxOnly
<1>13. Rings' BY <1>2, <1>3, <1>7 DEF Live, Rings, RxSize
<1>14. TxInOrder' BY <1>2, <1>3 DEF Live, TxInOrder
<1> QED BY <1>4, <1>9, <1>10, <1>12, <1>13, <1>14 DEF IInv, Sending

---------------------------------------------------------------------------
(* The registers the driver writes, and the transmit ring *)

LEMMA WriteRingSizesStep ==
  ASSUME IInv, WriteRingSizes
  PROVE  IInv'
<1>1. TypeOK BY DEF IInv
<1>2. /\ receiving = Idle /\ sending = Idle /\ driver.pc = "setup"
      /\ rx' = [rx EXCEPT !.size = (plan.rx + 1) % IndexRange]
      /\ tx' = [tx EXCEPT !.size = (plan.tx + 1) % IndexRange]
      /\ rxRing' = [d \in 0..plan.rx |-> RxDesc(FALSE, 0)]
      /\ txRing' = [d \in 0..plan.tx |-> TxDesc(FALSE, FALSE, 0)]
      /\ driver' = [driver EXCEPT !.pc = "run"]
      /\ UNCHANGED <<plan, status, receiving, sending, arrived, accepted, seen, sent, overrun, dmaBuf>>
  BY DEF WriteRingSizes, MayAccess, GuestRuns
<1>3. Setup BY <1>2 DEF IInv, Rings
<1>4. /\ driver' \in Drivers /\ driver'.pc = "run" /\ driver'.take = 0 /\ driver'.give = 0
      /\ driver'.queue = 0 /\ driver'.reclaim = 0 /\ driver'.frame = "none"
  <2>1. driver \in Drivers BY <1>1 DEF TypeOK
  <2> QED BY <1>2, <1>3, <2>1 DEF Drivers, Setup
<1>5. /\ RxSize \in Int /\ RxSize > 0 /\ RxSize < IndexRange /\ RxSize' = RxSize
      /\ TxSize \in Int /\ TxSize > 0 /\ TxSize < IndexRange /\ TxSize' = TxSize
      /\ IndexRange \in Nat
  BY <1>1, <1>2, Sizes, NvNetAssumption DEF RxSize, TxSize
<1>6. RxSize % IndexRange = RxSize /\ TxSize % IndexRange = TxSize BY <1>5, SMT
<1>7. rx' = [index |-> 0, size |-> RxSize] /\ tx' = [index |-> 0, size |-> TxSize]
  <2>1. /\ rx' = [rx EXCEPT !.size = RxSize] /\ tx' = [tx EXCEPT !.size = TxSize]
    BY <1>2, <1>6 DEF RxSize, TxSize
  <2> QED BY <1>3, <2>1, SMT DEF Setup
<1>8. TypeOK'
  <2>1. RxSize \in Nat /\ TxSize \in Nat /\ 0 \in Nat BY <1>5, SMT
  <2>2. rx' \in [index : Nat, size : Nat] /\ tx' \in [index : Nat, size : Nat] BY <1>7, <2>1
  <2> QED BY <1>1, <1>2, <1>4, <2>2 DEF TypeOK
<1>9. Rings'
  <2>1. RxDesc(FALSE, 0) \in RxDescs BY SMT DEF RxDesc, RxDescs
  <2>2. TxDesc(FALSE, FALSE, 0) \in TxDescs BY SMT DEF TxDesc, TxDescs
  <2>3. rxRing' \in [0..plan.rx -> RxDescs] /\ txRing' \in [0..plan.tx -> TxDescs]
    BY <1>2, <2>1, <2>2
  <2>4. rx'.size = RxSize /\ tx'.size = TxSize BY <1>7
  <2> QED BY <1>2, <1>4, <1>5, <2>3, <2>4 DEF Rings
<1>10. \A k \in Nat : ~Buffer(k)'.avail /\ ~Slot(k)'.valid
  <2>1. ASSUME NEW k \in Nat PROVE ~Buffer(k)'.avail
    <3>1. k % RxSize \in 0..plan.rx BY <1>1, RxPlace
    <3>2. rxRing'[k % RxSize] = RxDesc(FALSE, 0) BY <1>2, <3>1
    <3>3. ~RxDesc(FALSE, 0).avail BY SMT DEF RxDesc
    <3> QED BY <1>5, <3>2, <3>3 DEF Buffer
  <2>2. ASSUME NEW k \in Nat PROVE ~Slot(k)'.valid
    <3>1. k % TxSize \in 0..plan.tx BY <1>1, TxPlace
    <3>2. txRing'[k % TxSize] = TxDesc(FALSE, FALSE, 0) BY <1>2, <3>1
    <3>3. ~TxDesc(FALSE, FALSE, 0).valid BY SMT DEF TxDesc
    <3> QED BY <1>5, <3>2, <3>3 DEF Slot
  <2> QED BY <2>1, <2>2
<1>11. /\ accepted' = <<>> /\ seen' = <<>> /\ sent' = <<>> /\ Len(<<>>) = 0
       /\ receiving'.pc = "idle" /\ sending'.pc = "idle" /\ sending' = Idle
  <2>1. Len(<<>>) = 0 BY SMT
  <2> QED BY <1>1, <1>2, <1>3, <2>1, Walks DEF Setup
<1>12. Buffers' /\ InOrder'
  <2>1. Given' = 0..0 - 1 /\ 0..0 - 1 = {} BY <1>4, SMT DEF Given
  <2>2. Waiting' = {} BY <2>1 DEF Waiting
  <2>3. Kept'
    <3>1. Cardinality({}) = 0 BY FS_EmptySet
    <3>2. 0 = 0 + 0 BY SMT
    <3>3. Range(<<>>) = Range(<<>>) \cup {Buffer(k)'.frame : k \in {}} OBVIOUS
    <3> QED BY <1>11, <2>2, <3>1, <3>2, <3>3 DEF Kept
  <2>4. RxInOrder'
    <3>1. DOMAIN accepted' = {} BY <1>11, SMT
    <3> QED BY <1>11, <2>1, <2>2, <3>1 DEF RxInOrder
  <2>5. 0..0 + RxSize - 1 \subseteq Nat /\ 0 <= 0 /\ 0 <= 0 + RxSize /\ 0 <= RxSize /\ 0 + 0 = 0
    BY <1>5, SMT
  <2>6. Buffers' BY <1>4, <1>5, <1>10, <1>11, <2>3, <2>5 DEF Buffers
  <2>7. Passed' = 0 BY <1>11 DEF Passed
  <2>8. rx'.index = 0 BY <1>7
  <2> QED BY <1>4, <1>5, <1>11, <2>4, <2>5, <2>6, <2>7, <2>8 DEF InOrder
<1>13. Window'
  <2>1. Done' = 0
    <3>1. 0 - 0 = 0 BY SMT
    <3> QED BY <1>11, <3>1 DEF Done
  <2>2. /\ 0..0 + TxSize - 1 \subseteq Nat /\ 0 <= 0 /\ 0 <= 0 + TxSize /\ 0..0 - 1 = {}
        /\ \A k : ~(0 <= k /\ k < 0) \/ k \notin 0..0 + TxSize - 1
    BY <1>5, SMT
  <2> QED BY <1>4, <1>5, <1>10, <2>1, <2>2 DEF Window
<1>14. Sending'
  <2>1. tx'.index = 0 BY <1>7
  <2> QED BY <1>4, <1>11, <2>1 DEF Sending, AtIdle
<1>15. TxInOrder'
  <2>1. DOMAIN sent' = {} BY <1>11, SMT
  <2> QED BY <2>1 DEF TxInOrder
<1> QED BY <1>8, <1>9, <1>12, <1>13, <1>14, <1>15 DEF IInv

LEMMA KickStep ==
  ASSUME IInv, Kick
  PROVE  IInv'
<1>1. TypeOK /\ Live BY RunDriver DEF Kick
<1>2. /\ sending = Idle /\ driver.frame \in {"complete", "none"} /\ driver.pc = "run"
      /\ sending' = [pc |-> "walk", i |-> 0, desc |-> 0, any |-> FALSE]
      /\ driver' = [driver EXCEPT !.frame = "none",
                               !.extras = IF driver.frame = "none" THEN @ + 1 ELSE @]
      /\ UNCHANGED <<plan, rxRing, txRing, rx, tx, status, receiving, arrived, accepted, seen,
                     sent, overrun, dmaBuf>>
  BY DEF Kick, MayAccess, GuestRuns
<1>3. /\ driver' \in Drivers /\ driver'.pc = "run" /\ driver'.take = driver.take
      /\ driver'.give = driver.give /\ driver'.queue = driver.queue
      /\ driver'.reclaim = driver.reclaim /\ driver'.frame = "none"
  <2>1. driver \in Drivers BY <1>1 DEF TypeOK
  <2>2. driver.extras + 1 \in Nat BY <1>1, DriverType, SMT
  <2> QED BY <1>2, <2>1, <2>2 DEF Drivers
<1>4. /\ sending' \in [pc : {"walk", "send", "sent", "end"}, i : Nat, desc : Nat, any : BOOLEAN]
      /\ sending'.pc = "walk" /\ sending'.i = 0
  <2>1. 0 \in Nat BY SMT
  <2> QED BY <1>2, <2>1
<1>5. TypeOK' BY <1>1, <1>2, <1>3, <1>4 DEF TypeOK
<1>6. PICK n \in Nat, q \in Nat, r \in Nat :
        n = Len(sent) /\ q = driver.queue /\ r = driver.reclaim
  BY <1>1, Histories, DriverType
<1>7. TxSize \in Int /\ TxSize > 0 /\ TxSize' = TxSize BY <1>1, <1>2, Sizes DEF TxSize
<1>8. sending.pc = "idle" /\ sending.pc # "sent" /\ Done = n
  BY <1>1, <1>2, <1>6, Walks, DoneIs
<1>9. r <= n /\ n <= q /\ q <= r + TxSize BY <1>1, <1>6, <1>8 DEF Live, Window
<1>10. AtIdle BY <1>1, <1>8 DEF Live, Sending, AtFull, AtEmpty, AtSend, AtSent, AtEnd
<1>11. (driver.frame = "none" <=> n = q) /\ tx.index % TxSize = n % TxSize
  BY <1>6, <1>10 DEF AtIdle
<1>12. Sending'
  <2>1. CASE n = q
    <3>1. n + 0 = n /\ 0 <= TxSize BY <1>7, SMT
    <3> QED BY <1>2, <1>3, <1>4, <1>6, <1>7, <1>11, <2>1, <3>1 DEF Sending, AtEmpty
  <2>2. CASE n # q
    <3>1. n < q /\ 0 + (q - n) <= TxSize BY <1>7, <1>9, <2>2, SMT
    <3> QED BY <1>2, <1>3, <1>4, <1>6, <1>7, <1>11, <3>1 DEF Sending, AtFull
  <2> QED BY <2>1, <2>2
<1>13. Window'
  <2>1. Done' = Done BY <1>2, <1>4, <1>8 DEF Done
  <2>2. \A k : Slot(k)' = Slot(k) BY <1>2, <1>7 DEF Slot
  <2>3. driver.frame # "partial" /\ driver'.frame # "partial" BY <1>2, <1>3
  <2> QED BY <1>1, <1>3, <1>7, <2>1, <2>2, <2>3 DEF Live, Window
<1>14. RxSame BY <1>2, <1>3 DEF RxSame
<1>15. Buffers' /\ InOrder' BY <1>1, <1>2, <1>14, TxOnly
<1>16. Rings' BY <1>1, <1>2, <1>3, <1>7 DEF Live, Rings, RxSize
<1>17. TxInOrder' BY <1>1, <1>2 DEF Live, TxInOrder
<1> QED BY <1>5, <1>12, <1>13, <1>15, <1>16, <1>17 DEF IInv

LEMMA QueueStep ==
  ASSUME IInv, NEW last \in BOOLEAN, Queue(last)
  PROVE  IInv'
<1>1. TypeOK /\ Live BY RunDriver DEF Queue
<1>2. PICK n \in Nat, q \in Nat, r \in Nat :
        n = Len(sent) /\ q = driver.queue /\ r = driver.reclaim
  BY <1>1, Histories, DriverType
<1>3. /\ sending = Idle /\ driver.frame # "complete" /\ driver.pc = "run"
      /\ q - r < TxSize - (IF last THEN 0 ELSE 1)
      /\ txRing' = [txRing EXCEPT ![q % TxSize] = TxDesc(TRUE, last, q + 1)]
      /\ driver' = [driver EXCEPT !.queue = q + 1,
                               !.frame = IF last THEN "complete" ELSE "partial"]
      /\ UNCHANGED <<plan, rxRing, rx, tx, status, receiving, sending, arrived, accepted, seen,
                     sent, overrun, dmaBuf>>
  BY <1>2 DEF Queue, GuestRuns, device
<1>4. /\ driver' \in Drivers /\ driver'.pc = "run" /\ driver'.take = driver.take
      /\ driver'.give = driver.give /\ driver'.queue = q + 1 /\ driver'.reclaim = r
      /\ driver'.frame = (IF last THEN "complete" ELSE "partial")
  <2>1. driver \in Drivers BY <1>1 DEF TypeOK
  <2>2. q + 1 \in Nat BY SMT
  <2> QED BY <1>2, <1>3, <2>1, <2>2 DEF Drivers
<1>5. TypeOK' BY <1>1, <1>3, <1>4 DEF TypeOK
<1>6. TxSize \in Int /\ TxSize > 0 /\ TxSize' = TxSize /\ txRing \in [0..plan.tx -> TxDescs]
  BY <1>1, <1>3, Sizes DEF Live, Rings, TxSize
<1>7. q - r < TxSize
  <2>1. CASE last BY <1>3, <1>6, <2>1, SMT
  <2>2. CASE ~last BY <1>3, <1>6, <2>2, SMT
  <2> QED BY <2>1, <2>2
<1>8. sending.pc = "idle" /\ sending.pc # "sent" /\ Done = n
  BY <1>1, <1>2, <1>3, Walks, DoneIs
<1>9. /\ r <= n /\ n <= q
      /\ \A k \in r .. r + TxSize - 1 : Slot(k).valid <=> n <= k /\ k < q
      /\ \A k \in n .. q - 1 :
           Slot(k).frag = k + 1 /\ (Slot(k).last <=> k = q - 1 /\ driver.frame # "partial")
  BY <1>1, <1>2, <1>8 DEF Live, Window
<1>10. AtIdle BY <1>1, <1>8 DEF Live, Sending, AtFull, AtEmpty, AtSend, AtSent, AtEnd
<1>11. (driver.frame = "none" <=> n = q) /\ tx.index % TxSize = n % TxSize
  BY <1>2, <1>10 DEF AtIdle
<1> DEFINE win == r .. r + TxSize - 1
<1>12. /\ q \in win /\ win \subseteq Nat /\ r \in Int
       /\ n .. q - 1 \subseteq win /\ n .. (q + 1) - 1 = (n .. q - 1) \cup {q}
       /\ q \notin n .. q - 1
  <2>1. q \in win /\ r \in Int BY <1>6, <1>7, <1>9, SMT
  <2>2. win \subseteq Nat BY <1>6, SMT
  <2>3. n .. q - 1 \subseteq win BY <1>6, <1>7, <1>9, SMT
  <2>4. n .. (q + 1) - 1 = (n .. q - 1) \cup {q} /\ q \notin n .. q - 1 BY <1>9, SMT
  <2> QED BY <2>1, <2>2, <2>3, <2>4
<1>13. \A k \in win : k % TxSize \in 0..plan.tx BY <1>1, <1>12, TxPlace
<1>14. \A k \in win : k # q => k % TxSize # q % TxSize BY <1>6, <1>12, OnePlace
<1>15. \A k \in win : k # q => Slot(k)' = Slot(k) BY <1>3, <1>6, <1>13, <1>14 DEF Slot
<1>16. /\ Slot(q)' = TxDesc(TRUE, last, q + 1) /\ Slot(q)'.valid /\ (Slot(q)'.last <=> last)
       /\ Slot(q)'.frag = q + 1 /\ txRing' \in [0..plan.tx -> TxDescs]
  <2> DEFINE t == TxDesc(TRUE, last, q + 1)
  <2>1. t \in TxDescs /\ t.valid = TRUE /\ t.last = last /\ t.frag = q + 1
    <3>1. q + 1 \in Nat BY SMT
    <3> QED BY <3>1 DEF TxDesc, TxDescs
  <2>2. txRing' = [txRing EXCEPT ![q % TxSize] = t] BY <1>3
  <2>3. Slot(q)' = t <=> Slot(q)' = TxDesc(TRUE, last, q + 1) OBVIOUS
  <2> HIDE DEF t
  <2>4. q % TxSize \in 0..plan.tx BY <1>12, <1>13
  <2>5. txRing'[q % TxSize] = t BY <1>6, <2>2, <2>4
  <2>6. Slot(q)' = t BY <1>6, <2>5 DEF Slot
  <2> QED BY <1>6, <2>1, <2>2, <2>3, <2>4, <2>6
<1>17. Done' = n
  <2>1. n - 0 = n BY SMT
  <2> QED BY <1>2, <1>3, <1>8, <2>1 DEF Done
<1>18. Window'
  <2>1. n <= q + 1 /\ q + 1 <= r + TxSize BY <1>6, <1>7, <1>9, SMT
  <2>2. ASSUME NEW k \in win PROVE Slot(k)'.valid <=> n <= k /\ k < q + 1
    <3>1. CASE k = q
      <4>1. n <= k /\ k < q + 1 BY <1>9, <3>1, SMT
      <4> QED BY <1>16, <3>1, <4>1
    <3>2. CASE k # q
      <4>1. k < q <=> k < q + 1
        <5>1. k \in Int BY <1>6, SMT
        <5> QED BY <3>2, <5>1, SMT
      <4> QED BY <1>9, <1>15, <3>2, <4>1
    <3> QED BY <3>1, <3>2
  <2>3. ASSUME NEW k \in n .. (q + 1) - 1
        PROVE  /\ Slot(k)'.frag = k + 1
               /\ Slot(k)'.last <=> k = (q + 1) - 1 /\ driver'.frame # "partial"
    <3>0. (q + 1) - 1 = q BY SMT
    <3>1. CASE k = q
      <4>1. last <=> driver'.frame # "partial" BY <1>4
      <4> QED BY <1>16, <3>0, <3>1, <4>1
    <3>2. CASE k # q
      <4>1. k \in n .. q - 1 /\ Slot(k)' = Slot(k) BY <1>12, <1>15, <3>2
      <4>2. n # q BY <4>1, SMT
      <4>3. driver.frame = "partial"
        <5>1. driver.frame \in {"none", "partial", "complete"} BY <1>1, DriverType
        <5> QED BY <1>3, <1>11, <4>2, <5>1
      <4>4. Slot(k).frag = k + 1 /\ ~Slot(k).last BY <1>9, <4>1, <4>3
      <4> QED BY <3>0, <3>2, <4>1, <4>4
    <3> QED BY <3>1, <3>2
  <2> QED BY <1>4, <1>6, <1>9, <1>17, <2>1, <2>2, <2>3 DEF Window
<1>19. Sending'
  <2>1. n # q + 1 BY <1>9, SMT
  <2>2. driver'.frame # "none" BY <1>4
  <2> QED BY <1>2, <1>3, <1>4, <1>6, <1>11, <2>1, <2>2 DEF Sending, AtIdle
<1>20. RxSame BY <1>3, <1>4 DEF RxSame
<1>21. Buffers' /\ InOrder' BY <1>1, <1>3, <1>20, TxOnly
<1>22. Rings' BY <1>1, <1>3, <1>4, <1>6, <1>16 DEF Live, Rings, RxSize
<1>23. TxInOrder' BY <1>1, <1>3 DEF Live, TxInOrder
<1> QED BY <1>5, <1>18, <1>19, <1>21, <1>22, <1>23 DEF IInv

LEMMA ReclaimStep ==
  ASSUME IInv, Reclaim
  PROVE  IInv'
<1>1. TypeOK /\ Live BY RunDriver DEF Reclaim
<1>2. PICK q \in Nat, r \in Nat : q = driver.queue /\ r = driver.reclaim BY <1>1, DriverType
<1>3. /\ sending = Idle /\ r < q /\ ~Slot(r).valid /\ driver.pc = "serve"
      /\ driver' = [driver EXCEPT !.reclaim = r + 1]
      /\ UNCHANGED <<plan, rxRing, txRing, rx, tx, status, receiving, sending, arrived, accepted,
                     seen, sent, overrun, dmaBuf>>
  BY <1>2 DEF Reclaim, HasSent, GuestRuns, device, Slot
<1>4. /\ driver' \in Drivers /\ driver'.pc = "serve" /\ driver'.take = driver.take
      /\ driver'.give = driver.give /\ driver'.queue = q /\ driver'.reclaim = r + 1
      /\ driver'.frame = driver.frame
  <2>1. driver \in Drivers BY <1>1 DEF TypeOK
  <2>2. r + 1 \in Nat BY SMT
  <2> QED BY <1>2, <1>3, <2>1, <2>2 DEF Drivers
<1>5. TypeOK' BY <1>1, <1>3, <1>4 DEF TypeOK
<1>6. TxSize \in Int /\ TxSize > 0 /\ TxSize' = TxSize BY <1>1, <1>3, Sizes DEF TxSize
<1>7. PICK n \in Nat : n = Done /\ n = Len(sent) BY <1>1, <1>3, Walks, DoneIs, Histories
<1>8. /\ r <= n /\ n <= q /\ q <= r + TxSize
      /\ \A k \in r .. r + TxSize - 1 : Slot(k).valid <=> n <= k /\ k < q
      /\ \A k \in n .. q - 1 :
           Slot(k).frag = k + 1 /\ (Slot(k).last <=> k = q - 1 /\ driver.frame # "partial")
  BY <1>1, <1>2, <1>7 DEF Live, Window
<1>9. \A k : Slot(k)' = Slot(k) BY <1>3, <1>6 DEF Slot
<1>10. r + 1 <= n
  <2>1. r \in r .. r + TxSize - 1 BY <1>6, SMT
  <2>2. ~(n <= r) BY <1>3, <1>8, <2>1
  <2> QED BY <2>2, SMT
<1>11. Window'
  <2>1. Done' = n BY <1>3, <1>7 DEF Done
  <2>2. /\ (r + 1) .. (r + 1) + TxSize - 1 \subseteq (r .. r + TxSize - 1) \cup {r + TxSize}
        /\ q <= (r + 1) + TxSize /\ r \in Int /\ ~(r + TxSize < q)
    <3>1. (r + 1) .. (r + 1) + TxSize - 1 \subseteq (r .. r + TxSize - 1) \cup {r + TxSize}
      BY <1>6, SMT
    <3> QED BY <1>6, <1>8, <3>1, SMT
  <2>3. \A k : k = r + TxSize => (Slot(k).valid <=> n <= k /\ k < q)
    <3>1. (r + TxSize) % TxSize = r % TxSize BY <1>6, <2>2, RoundLater
    <3>2. ASSUME NEW k, k = r + TxSize PROVE ~Slot(k).valid
      BY <1>3, <3>1, <3>2 DEF Slot
    <3> QED BY <2>2, <3>2
  <2>4. \A k \in (r + 1) .. (r + 1) + TxSize - 1 : Slot(k)'.valid <=> n <= k /\ k < q
    BY <1>8, <1>9, <2>2, <2>3
  <2>5. \A k \in n .. q - 1 : /\ Slot(k)'.frag = k + 1
                              /\ Slot(k)'.last <=> k = q - 1 /\ driver'.frame # "partial"
    BY <1>4, <1>8, <1>9
  <2> QED BY <1>4, <1>6, <1>8, <1>10, <2>1, <2>2, <2>4, <2>5 DEF Window
<1>12. Sending'
  <2>1. AtIdle BY <1>1, <1>3, Walks DEF Live, Sending, AtFull, AtEmpty, AtSend, AtSent, AtEnd
  <2> QED BY <1>2, <1>3, <1>4, <1>6, <2>1 DEF Sending, AtIdle
<1>13. RxSame BY <1>3, <1>4 DEF RxSame
<1>14. Buffers' /\ InOrder' BY <1>1, <1>3, <1>13, TxOnly
<1>15. Rings' BY <1>1, <1>3, <1>4, <1>6 DEF Live, Rings, RxSize
<1>16. TxInOrder' BY <1>1, <1>3 DEF Live, TxInOrder
<1> QED BY <1>5, <1>11, <1>12, <1>14, <1>15, <1>16 DEF IInv

(* What is left moves neither ring *)
LEMMA DriverOnly ==
  ASSUME TypeOK, Live, driver' \in Drivers, driver'.pc # "setup",
         driver'.take = driver.take, driver'.give = driver.give, driver'.queue = driver.queue,
         driver'.reclaim = driver.reclaim, driver'.frame = driver.frame,
         status' \subseteq Bits,
         UNCHANGED <<plan, rxRing, txRing, rx, tx, receiving, sending, arrived, accepted, seen,
                     sent, overrun, dmaBuf>>
  PROVE  IInv'
<1>1. TypeOK' BY DEF TypeOK
<1>2. RxSame /\ TxSame BY DEF RxSame, TxSame
<1>3. Passed' = Passed BY DEF Passed
<1>4. Rings' BY DEF Live, Rings, RxSize, TxSize
<1> QED BY <1>1, <1>2, <1>3, <1>4, RxFrame, TxFrame DEF Live, IInv

LEMMA WriteIrqMaskStep ==
  ASSUME IInv, NEW m \in BOOLEAN, WriteIrqMask(m)
  PROVE  IInv'
<1>1. TypeOK /\ Live BY RunDriver DEF WriteIrqMask
<1>2. driver.pc = "run" /\ driver' = [driver EXCEPT !.extras = IF m THEN @ ELSE @ + 1]
  BY DEF WriteIrqMask
<1>3. driver \in Drivers /\ status \subseteq Bits BY <1>1 DEF TypeOK
<1>4. driver.extras + 1 \in Nat BY <1>1, DriverType, SMT
<1>5. /\ driver' \in Drivers /\ driver'.pc = "run"
      /\ driver'.take = driver.take /\ driver'.give = driver.give /\ driver'.queue = driver.queue
      /\ driver'.reclaim = driver.reclaim /\ driver'.frame = driver.frame
  BY <1>2, <1>3, <1>4 DEF Drivers
<1> QED BY <1>1, <1>3, <1>5, DriverOnly DEF WriteIrqMask

LEMMA WriteControlBit1Step ==
  ASSUME IInv, WriteControlBit1
  PROVE  IInv'
<1>1. TypeOK /\ Live BY RunDriver DEF WriteControlBit1
<1>2. driver' = [driver EXCEPT !.pc = "serve", !.extras = @ + 1, !.cleared = TRUE]
  BY DEF WriteControlBit1
<1>3. driver \in Drivers /\ {} \subseteq Bits BY <1>1 DEF TypeOK
<1>4. driver.extras + 1 \in Nat BY <1>1, DriverType, SMT
<1>5. /\ driver' \in Drivers /\ driver'.pc = "serve"
      /\ driver'.take = driver.take /\ driver'.give = driver.give /\ driver'.queue = driver.queue
      /\ driver'.reclaim = driver.reclaim /\ driver'.frame = driver.frame
  BY <1>2, <1>3, <1>4 DEF Drivers
<1> QED BY <1>1, <1>3, <1>5, DriverOnly DEF WriteControlBit1

LEMMA WriteIrqStatusStep ==
  ASSUME IInv, WriteIrqStatus
  PROVE  IInv'
<1>1. TypeOK /\ Live BY RunDriver DEF WriteIrqStatus
<1>2. driver' = [driver EXCEPT !.pc = "serve"] BY DEF WriteIrqStatus
<1>3. driver \in Drivers /\ status \ driver.events \subseteq Bits BY <1>1 DEF TypeOK
<1>4. /\ driver' \in Drivers /\ driver'.pc = "serve"
      /\ driver'.take = driver.take /\ driver'.give = driver.give /\ driver'.queue = driver.queue
      /\ driver'.reclaim = driver.reclaim /\ driver'.frame = driver.frame
  BY <1>2, <1>3 DEF Drivers
<1> QED BY <1>1, <1>3, <1>4, DriverOnly DEF WriteIrqStatus, Ack

LEMMA InterruptStep ==
  ASSUME IInv, Interrupt
  PROVE  IInv'
<1>1. TypeOK /\ Live BY RunDriver DEF Interrupt
<1>2. driver' = [driver EXCEPT !.pc = "read"] BY DEF Interrupt
<1>3. driver \in Drivers /\ status \subseteq Bits BY <1>1 DEF TypeOK
<1>4. /\ driver' \in Drivers /\ driver'.pc = "read"
      /\ driver'.take = driver.take /\ driver'.give = driver.give /\ driver'.queue = driver.queue
      /\ driver'.reclaim = driver.reclaim /\ driver'.frame = driver.frame
  BY <1>2, <1>3 DEF Drivers
<1> QED BY <1>1, <1>3, <1>4, DriverOnly DEF Interrupt, device

LEMMA ReadIrqStatusStep ==
  ASSUME IInv, ReadIrqStatus
  PROVE  IInv'
<1>1. TypeOK /\ Live BY RunDriver DEF ReadIrqStatus
<1>2. driver' = [driver EXCEPT !.events = status, !.pc = IF status = {} THEN "run" ELSE "ack"]
  BY DEF ReadIrqStatus
<1>3. driver \in Drivers /\ status \subseteq Bits BY <1>1 DEF TypeOK
<1>4. /\ driver' \in Drivers /\ driver'.pc \in {"run", "ack"}
      /\ driver'.take = driver.take /\ driver'.give = driver.give /\ driver'.queue = driver.queue
      /\ driver'.reclaim = driver.reclaim /\ driver'.frame = driver.frame
  BY <1>2, <1>3 DEF Drivers
<1>5. driver'.pc # "setup" BY <1>4
<1> QED BY <1>1, <1>3, <1>4, <1>5, DriverOnly DEF ReadIrqStatus, device

LEMMA ReturnStep ==
  ASSUME IInv, Return
  PROVE  IInv'
<1>1. TypeOK /\ Live BY RunDriver DEF Return
<1>2. driver' = [driver EXCEPT !.pc = "run", !.events = {}] BY DEF Return
<1>3. driver \in Drivers /\ status \subseteq Bits BY <1>1 DEF TypeOK
<1>4. /\ driver' \in Drivers /\ driver'.pc = "run"
      /\ driver'.take = driver.take /\ driver'.give = driver.give /\ driver'.queue = driver.queue
      /\ driver'.reclaim = driver.reclaim /\ driver'.frame = driver.frame
  BY <1>2, <1>3 DEF Drivers
<1> QED BY <1>1, <1>3, <1>4, DriverOnly DEF Return, device

---------------------------------------------------------------------------
LEMMA InitIInv ==
  ASSUME Init
  PROVE  IInv
<1>1. Setup BY DEF Init, Setup
<1>2. TypeOK
  <2>1. 0 \in Nat BY SMT
  <2>2. plan \in [rx : 0..IndexRange - 2, tx : 0..IndexRange - 2,
                  frames : Nat, queued : Nat, extras : Nat]
    BY NvNetAssumption DEF Init
  <2>3. rx \in [index : Nat, size : Nat] /\ tx \in [index : Nat, size : Nat] BY <2>1 DEF Init
  <2>4. driver \in Drivers BY <2>1 DEF Init, Drivers
  <2>5. accepted \in Seq(Nat) /\ seen \in Seq(Nat) /\ sent \in Seq(Nat) BY SMT DEF Init
  <2>6. dmaBuf \in [frame : Nat, frag : Nat] BY <2>1 DEF Init, Holding
  <2> QED BY <2>1, <2>2, <2>3, <2>4, <2>5, <2>6 DEF Init, TypeOK
<1> QED BY <1>1, <1>2 DEF IInv

LEMMA StutterStep ==
  ASSUME IInv, UNCHANGED vars
  PROVE  IInv'
<1>1. UNCHANGED <<plan, rxRing, txRing, rx, tx, status, receiving, sending, driver, arrived,
                  accepted, seen, sent, overrun, dmaBuf>>
  BY DEF vars, device
<1>2. TypeOK /\ TypeOK' BY <1>1 DEF IInv, TypeOK
<1>3. CASE Setup
  <2>1. Setup' BY <1>1, <1>3 DEF Setup
  <2> QED BY <1>2, <2>1 DEF IInv
<1>4. CASE Live
  <2>1. RxSame /\ TxSame BY <1>1 DEF RxSame, TxSame
  <2>2. Passed' = Passed BY <1>1 DEF Passed
  <2>3. Rings' BY <1>1, <1>4 DEF Live, Rings, RxSize, TxSize
  <2> QED BY <1>1, <1>2, <1>4, <2>1, <2>2, <2>3, RxFrame, TxFrame DEF Live, IInv
<1> QED BY <1>3, <1>4 DEF IInv, Live

LEMMA NextIInv ==
  ASSUME IInv, [Next]_vars
  PROVE  IInv'
<1>1. CASE \E fits \in BOOLEAN : nvnet_receive(fits) BY <1>1, ReceiveStep
<1>2. CASE Device BY <1>2, RxWalkStep, RxRaiseStep, RxDropStep, TxWalkStep, TxSendStep,
                     TxUpdateStep, TxEndStep DEF Device
<1>3. CASE WriteRingSizes \/ Kick \/ WriteControlBit1 \/ Give
  BY <1>3, WriteRingSizesStep, KickStep, WriteControlBit1Step, GiveStep
<1>4. CASE \E m \in BOOLEAN : WriteIrqMask(m) BY <1>4, WriteIrqMaskStep
<1>5. CASE \E last \in BOOLEAN : Queue(last) BY <1>5, QueueStep
<1>6. CASE Handler BY <1>6, InterruptStep, ReadIrqStatusStep, WriteIrqStatusStep, TakeStep,
                      ReclaimStep, ReturnStep DEF Handler
<1>7. CASE UNCHANGED vars BY <1>7, StutterStep
<1> QED BY <1>1, <1>2, <1>3, <1>4, <1>5, <1>6, <1>7 DEF Next

LEMMA Holds ==
  ASSUME IInv
  PROVE  Kept /\ RxInOrder /\ TxInOrder
<1>1. TypeOK BY DEF IInv
<1>2. CASE Live
  <2>1. Kept /\ TxInOrder BY <1>2 DEF Live, Buffers
  <2>2. RxInOrder BY <1>2 DEF Live, InOrder, RxInOrder
  <2> QED BY <2>1, <2>2
<1>3. CASE Setup
  <2>1. /\ accepted = <<>> /\ seen = <<>> /\ sent = <<>> /\ driver.take = 0 /\ driver.give = 0
    BY <1>3 DEF Setup
  <2>2. Given = 0..0 - 1 /\ 0..0 - 1 = {} BY <2>1, SMT DEF Given
  <2>3. Waiting = {} BY <2>2 DEF Waiting
  <2>4. Len(<<>>) = 0 /\ 0 = 0 + 0 BY SMT
  <2>5. Cardinality({}) = 0 BY FS_EmptySet
  <2>6. DOMAIN accepted = {} /\ DOMAIN sent = {} BY <2>1, SMT
  <2>7. Range(<<>>) = Range(<<>>) \cup {Buffer(k).frame : k \in {}} OBVIOUS
  <2>8. Kept BY <2>1, <2>3, <2>4, <2>5, <2>7 DEF Kept
  <2>9. RxInOrder BY <2>1, <2>2, <2>3, <2>4, <2>6 DEF RxInOrder
  <2>10. TxInOrder BY <2>6 DEF TxInOrder
  <2> QED BY <2>8, <2>9, <2>10
<1> QED BY <1>2, <1>3 DEF IInv, Live

---------------------------------------------------------------------------
(* The buffer that the two directions share *)

LEMMA InitBuffered ==
  ASSUME Init
  PROVE  Buffered
<1>1. DOMAIN accepted = {} BY SMT DEF Init
<1>2. receiving.pc = "idle" /\ sending.pc = "idle" BY DEF Init, Idle
<1> QED BY <1>1, <1>2 DEF Buffered, Ascends, Below

(* It holds a frame as long as the transmission leaves it alone *)
LEMMA BufferFrame ==
  ASSUME Buffered, UNCHANGED <<accepted, arrived, receiving>>,
         receiving.pc = "walk" => dmaBuf' = dmaBuf,
         sending'.pc \in {"walk", "send", "end"} => receiving = Idle
  PROVE  Buffered'
<1>1. Ascends' /\ Below(arrived)' /\ Below(arrived - 1)' <=> Ascends /\ Below(arrived) /\ Below(arrived - 1)
  BY DEF Ascends, Below
<1> QED BY <1>1 DEF Buffered, Ascends, Below

LEMMA Members ==
  ASSUME NEW s \in Seq(Nat)
  PROVE  \A j \in DOMAIN s : s[j] \in Nat
BY SMT

LEMMA ArrivalBuffered ==
  ASSUME IInv, Buffered, NEW fits \in BOOLEAN, nvnet_receive(fits)
  PROVE  Buffered'
<1>1. TypeOK BY DEF IInv
<1>2. /\ arrived' = arrived + 1 /\ dmaBuf' = Holding(arrived + 1, 0)
      /\ sending' = sending /\ sending.pc \notin {"walk", "send", "end"} /\ accepted' = accepted
  BY DEF nvnet_receive
<1>3. PICK n \in Nat : n = arrived BY <1>1 DEF TypeOK
<1>4. 0 < n + 1 /\ (n + 1) - 1 = n BY SMT
<1>5. dmaBuf'.frame = n + 1 BY <1>2, <1>3 DEF Holding
<1>6. Below(n) BY <1>3 DEF Buffered
<1>7. Below(n + 1)
  <2>1. ASSUME NEW k \in DOMAIN accepted PROVE accepted[k] <= n + 1
    <3>1. accepted[k] \in Nat BY <1>1, Histories, Members
    <3>2. accepted[k] <= n BY <1>6 DEF Below
    <3> QED BY <3>1, <3>2, SMT
  <2> QED BY <2>1 DEF Below
<1>8. Ascends' /\ Below(arrived)' /\ Below(arrived - 1)'
  BY <1>2, <1>3, <1>4, <1>6, <1>7 DEF Buffered, Ascends, Below
<1> QED BY <1>2, <1>3, <1>4, <1>5, <1>8 DEF Buffered

LEMMA FillBuffered ==
  ASSUME IInv, Buffered, receiving.pc = "walk", receiving'.pc # "walk",
         accepted' = Append(accepted, dmaBuf.frame), UNCHANGED <<arrived, sending>>
  PROVE  Buffered'
<1>1. TypeOK BY DEF IInv
<1>2. PICK n \in Nat, f \in Nat : n = Len(accepted) /\ f = arrived
  BY <1>1, Histories DEF TypeOK
<1>3. dmaBuf.frame = f /\ 0 < f /\ Below(f - 1) /\ Ascends BY <1>2 DEF Buffered
<1>4. receiving # Idle BY <1>1, Walks
<1>5. /\ DOMAIN accepted' = 1..(n + 1) /\ DOMAIN accepted = 1..n /\ accepted'[n + 1] = f
      /\ \A j \in 1..n : accepted'[j] = accepted[j]
  <2> DEFINE t == Append(accepted, f)
  <2>1. /\ DOMAIN t = 1..(Len(accepted) + 1) /\ DOMAIN accepted = 1..Len(accepted)
        /\ t[Len(accepted) + 1] = f /\ \A j \in 1..Len(accepted) : t[j] = accepted[j]
    BY <1>1, Histories, AppendOne
  <2>2. accepted' = t BY <1>3
  <2> HIDE DEF t
  <2> QED BY <1>2, <2>1, <2>2
<1>6. ASSUME NEW k \in 1..(n + 1)
      PROVE  accepted'[k] <= f /\ accepted'[k] > IF k = 1 THEN 0 ELSE accepted'[k - 1]
  <2>1. \A j \in 1..n : accepted[j] \in Nat /\ accepted[j] <= f - 1
    <3>1. \A j \in DOMAIN accepted : accepted[j] \in Nat BY <1>1, Histories, Members
    <3> QED BY <1>3, <1>5, <3>1 DEF Below
  <2>2. CASE k = n + 1
    <3>1. CASE k = 1 BY <1>3, <1>5, <2>2, <3>1, SMT
    <3>2. CASE k # 1
      <4>1. k - 1 \in 1..n BY <3>2, <2>2, SMT
      <4>2. accepted'[k - 1] = accepted[k - 1] /\ accepted[k - 1] \in Nat /\ accepted[k - 1] <= f - 1
        BY <1>5, <2>1, <4>1
      <4>3. accepted'[k] > accepted'[k - 1] /\ f <= f BY <1>5, <2>2, <4>2, SMT
      <4> QED BY <1>5, <2>2, <3>2, <4>3
    <3> QED BY <3>1, <3>2
  <2>3. CASE k # n + 1
    <3>1. k \in 1..n /\ (k # 1 => k - 1 \in 1..n) BY <2>3, SMT
    <3>2. accepted[k] > IF k = 1 THEN 0 ELSE accepted[k - 1] BY <1>3, <1>5, <3>1 DEF Ascends
    <3>3. accepted[k] <= f
      <4>1. accepted[k] \in Nat /\ accepted[k] <= f - 1 BY <2>1, <3>1
      <4> QED BY <4>1, SMT
    <3> QED BY <1>5, <3>1, <3>2, <3>3
  <2> QED BY <2>2, <2>3
<1>7. Ascends' /\ Below(arrived)' BY <1>2, <1>5, <1>6 DEF Ascends, Below
<1>8. sending'.pc \notin {"walk", "send", "end"} BY <1>4 DEF Buffered
<1> QED BY <1>7, <1>8 DEF Buffered

LEMMA NextBuffered ==
  ASSUME IInv, Buffered, [Next]_vars
  PROVE  Buffered'
<1>1. TypeOK BY DEF IInv
<1>2. Idle.pc = "idle" BY DEF Idle
<1>3. CASE \E fits \in BOOLEAN : nvnet_receive(fits) BY <1>3, ArrivalBuffered
<1>4. CASE RxWalk
  <2>1. receiving.pc = "walk" /\ UNCHANGED <<arrived, sending, dmaBuf>> BY <1>4 DEF RxWalk
  <2>2. receiving \in [pc : {"walk", "raise"}, i : Nat, fits : BOOLEAN] BY <1>1, <2>1, Walks
  <2>3. CASE Usable(rxRing[Position(rx)], receiving.fits)
    <3>1. /\ accepted' = Append(accepted, dmaBuf.frame)
          /\ receiving' = [receiving EXCEPT !.pc = "raise"]
      BY <1>4, <2>3 DEF RxWalk
    <3>2. receiving'.pc = "raise" BY <2>2, <3>1
    <3> QED BY <2>1, <3>1, <3>2, FillBuffered
  <2>4. CASE ~Usable(rxRing[Position(rx)], receiving.fits)
    <3>1. accepted' = accepted BY <1>4, <2>4 DEF RxWalk
    <3>2. sending'.pc \notin {"walk", "send", "end"} BY <1>1, <2>1, Walks DEF Buffered
    <3>3. Ascends' /\ Below(arrived)' /\ Below(arrived - 1)'
      BY <2>1, <3>1 DEF Buffered, Ascends, Below
    <3> QED BY <2>1, <3>2, <3>3 DEF Buffered
  <2> QED BY <2>3, <2>4
<1>5. CASE RxRaise \/ RxDrop
  <2>1. receiving' = Idle /\ UNCHANGED <<accepted, arrived, sending>> BY <1>5 DEF RxRaise, RxDrop
  <2>2. Ascends' /\ Below(arrived)' BY <2>1 DEF Buffered, Ascends, Below
  <2> QED BY <1>2, <2>1, <2>2 DEF Buffered
<1>6. CASE TxWalk
  <2>1. sending.pc = "walk" /\ UNCHANGED <<accepted, arrived, receiving>> BY <1>6 DEF TxWalk
  <2>2. receiving = Idle BY <2>1 DEF Buffered
  <2> QED BY <1>2, <2>1, <2>2, BufferFrame
<1>7. CASE TxSend
  <2>1. sending.pc = "send" /\ UNCHANGED <<accepted, arrived, receiving>> BY <1>7 DEF TxSend
  <2>2. receiving = Idle BY <2>1 DEF Buffered
  <2> QED BY <1>2, <2>1, <2>2, BufferFrame
<1>8. CASE TxUpdate \/ Kick
  <2>1. receiving = Idle /\ UNCHANGED <<accepted, arrived, receiving>>
    BY <1>8 DEF TxUpdate, Kick, MayAccess
  <2> QED BY <1>2, <2>1, BufferFrame
<1>9. CASE TxEnd
  <2>1. sending' = Idle /\ UNCHANGED <<accepted, arrived, receiving, dmaBuf>> BY <1>9 DEF TxEnd
  <2> QED BY <1>2, <2>1, BufferFrame
<1>10. ASSUME UNCHANGED <<accepted, arrived, receiving, sending, dmaBuf>> PROVE Buffered'
  BY <1>10, BufferFrame DEF Buffered
<1>11. CASE WriteRingSizes \/ WriteControlBit1 \/ Give BY <1>10, <1>11
  DEF WriteRingSizes, WriteControlBit1, Give, device
<1>12. CASE \E m \in BOOLEAN : WriteIrqMask(m) BY <1>10, <1>12 DEF WriteIrqMask
<1>13. CASE \E last \in BOOLEAN : Queue(last) BY <1>10, <1>13 DEF Queue, device
<1>14. CASE Handler BY <1>10, <1>14
  DEF Handler, Interrupt, ReadIrqStatus, WriteIrqStatus, Ack, Take, Reclaim, Return, device
<1>15. CASE UNCHANGED vars BY <1>10, <1>15 DEF vars, device
<1> QED BY <1>3, <1>4, <1>5, <1>6, <1>7, <1>8, <1>9, <1>11, <1>12, <1>13, <1>14, <1>15
    DEF Next, Device

---------------------------------------------------------------------------
(* The driver's windows and the device's indices agree in every state. *)
THEOREM Invariance == Spec => []IInv
<1>1. Init => IInv BY InitIInv
<1>2. IInv /\ [Next]_vars => IInv' BY NextIInv
<1> QED BY <1>1, <1>2, PTL DEF Spec

(* No frame that nvnet_dma_packet_to_guest put into the receive ring is      *)
(* overwritten or given to the driver twice, for every size of the ring,     *)
(* wherever the driver takes and gives buffers while a walk is on, and       *)
(* whatever is sent meanwhile from the buffer that the two directions share. *)
THEOREM FramesKept == Spec => []NoFrameLost
<1>1. Init => Buffered BY InitBuffered
<1>2. IInv /\ Buffered /\ [Next]_vars => Buffered' BY NextBuffered
<1>3. IInv /\ Buffered => NoFrameLost BY Holds DEF Kept, Buffered, Ascends, NoFrameLost
<1> QED BY <1>1, <1>2, <1>3, Invariance, PTL DEF Spec

(* The driver gets the frames in the order in which they arrived as long as  *)
(* none met a full ring: the walk of nvnet_dma_packet_to_guest then finds the *)
(* buffer that the driver will look at next, too long a frame taking the     *)
(* index once round the ring.                                                *)
THEOREM ReceivedInOrder == Spec => []RxInOrder
<1>1. IInv => RxInOrder BY Holds
<1> QED BY <1>1, Invariance, PTL

(* nvnet_dma_packet_from_guest sends the driver's descriptors once each and  *)
(* in order, though its walk may stop anywhere in the ring and goes on there *)
(* at the next kick.                                                         *)
THEOREM SentInOrder == Spec => []TxInOrder
<1>1. IInv => TxInOrder BY Holds
<1> QED BY <1>1, Invariance, PTL
=============================================================================
