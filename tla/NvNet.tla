------------------------------- MODULE NvNet -------------------------------
(***************************************************************************)
(* The Ethernet controller of the Xbox (hw/xbox/nvnet.c) and a driver.       *)
(*                                                                         *)
(* The two descriptor rings are guest memory.  The device walks a ring one   *)
(* descriptor per step with the global lock held: the receive ring in the    *)
(* I/O thread, while the guest's processor runs on and may use its memory     *)
(* but no register; the transmit ring in the processor's own thread, inside  *)
(* its write to NvRegTxRxControl.  A network backend may answer a frame       *)
(* inside qemu_send_packet, so nvnet_receive may run within a transmission,   *)
(* and overwrites then the buffer from which the frame was sent.             *)
(*                                                                         *)
(* The driver, which is guest code, uses each ring in order, has receive      *)
(* buffers of one length, kicks once per frame and not within one, and when   *)
(* interrupted clears the status it read and then looks at both rings.        *)
(***************************************************************************)
EXTENDS Integers, Sequences, FiniteSets, Functions

CONSTANTS
  Plans,        \* what the driver does in a run, and what arrives: see plan
  IndexRange    \* 2^8: ring sizes and indices are of type uint8_t

ASSUME NvNetAssumption ==
  /\ IndexRange \in Nat
  /\ Plans \subseteq [rx : 0..IndexRange - 2, tx : 0..IndexRange - 2,
                     frames : Nat, queued : Nat, extras : Nat]

VARIABLES
  rxRing, txRing,           \* guest memory
  rx, tx,                   \* rx_ring_index, rx_ring_size; tx_...
  status, mask, line,       \* NvRegIrqStatus, NvRegIrqMask, the PCI interrupt
  receiving, sending,       \* the device's walks of the two rings
  plan,                     \* rx, tx: the sizes written to NvRegRingSizes, less
                            \*   one; and three bounds: on the frames that arrive,
                            \*   on the descriptors queued for transmission, on the
                            \*   times it masks or clears the interrupt, or kicks for
                            \*   nothing
  driver,
  arrived, accepted, seen,  \* frames that came in; that were put in the ring;
                            \*   that the driver took out of it
  sent,                     \* descriptors whose data were sent
  overrun,                  \* a frame that would fit met a buffer that was not free
  dmaBuf                    \* txrx_dma_buf: the frame that is being received, or the
                            \*   data that are being sent; 0 for the one it does not hold

device == <<rx, tx, status, mask, line, receiving, sending>>
vars == <<plan, rxRing, txRing, device, driver, arrived, accepted, seen, sent, overrun, dmaBuf>>

Idle == [pc |-> "idle"]
Holding(frame, frag) == [frame |-> frame, frag |-> frag]
RxDesc(avail, frame) == [avail |-> avail, frame |-> frame]
TxDesc(valid, last, frag) == [valid |-> valid, last |-> last, frag |-> frag]

(* nvnet_realize, and a driver that has not yet programmed the device *)
Init ==
  /\ plan \in Plans
  /\ rxRing = <<>> /\ txRing = <<>>
  /\ rx = [index |-> 0, size |-> 0] /\ tx = [index |-> 0, size |-> 0]
  /\ status = {} /\ mask = FALSE /\ line = FALSE
  /\ receiving = Idle /\ sending = Idle
  /\ driver = [pc |-> "setup", events |-> {}, take |-> 0, give |-> 0, queue |-> 0,
               reclaim |-> 0, frame |-> "none", extras |-> 0, cleared |-> FALSE]
  /\ arrived = 0 /\ accepted = <<>> /\ seen = <<>> /\ sent = <<>>
  /\ overrun = FALSE /\ dmaBuf = Holding(0, 0)

(* nvnet_update_irq *)
nvnet_update_irq(s, m) == line' = (m /\ s # {})

(* Mutant: the status is set, and the interrupt left as it is *)
RaiseSilently(bit) ==
  /\ status' = {bit}
  /\ UNCHANGED line

(* The status is set, not added to: a bit not yet read is lost *)
Raise(bit) ==
  /\ status' = {bit}
  /\ nvnet_update_irq({bit}, mask)

(* The head of both loops: the index is brought into the ring, then moved on *)
Position(ring) == ring.index % ring.size
NextInRing(ring) == [ring EXCEPT !.index = (Position(ring) + 1) % IndexRange]

---------------------------------------------------------------------------
(* nvnet_receive, nvnet_dma_packet_to_guest *)

(* The lock is free, or the network backend answers within qemu_send_packet. *)
(* The frame is copied to the buffer that transmissions use too, and is not  *)
(* longer than it: a longer one fails the assertion and ends the emulator    *)
nvnet_receive(fits) ==
  /\ receiving = Idle /\ sending.pc \in {"idle", "sent"}
  /\ arrived < plan.frames
  /\ arrived' = arrived + 1
  /\ dmaBuf' = Holding(arrived + 1, 0)
  /\ receiving' = [pc |-> "walk", i |-> 0, fits |-> fits]
  /\ UNCHANGED <<plan, rxRing, txRing, rx, tx, status, mask, line, sending, driver,
                 accepted, seen, sent, overrun>>

(* Mutant: a buffer that was filled and not yet emptied is filled again *)
AnyBuffer(desc, fits) == fits

Usable(desc, fits) == desc.avail /\ fits

RxWalk ==
  /\ receiving.pc = "walk" /\ receiving.i < rx.size
  /\ rx' = NextInRing(rx)
  /\ LET d == Position(rx)
         desc == rxRing[d]
     IN \/ /\ Usable(desc, receiving.fits)
           /\ rxRing' = [rxRing EXCEPT ![d] = RxDesc(FALSE, dmaBuf.frame)]
           /\ accepted' = Append(accepted, dmaBuf.frame)
           /\ receiving' = [receiving EXCEPT !.pc = "raise"]
           /\ UNCHANGED overrun
        \/ /\ ~Usable(desc, receiving.fits)
           /\ receiving' = [receiving EXCEPT !.i = @ + 1]
           /\ overrun' = (overrun \/ (receiving.fits /\ ~desc.avail))
           /\ UNCHANGED <<rxRing, accepted>>
  /\ UNCHANGED <<plan, txRing, tx, status, mask, line, sending, driver, arrived, seen, sent,
                 dmaBuf>>

RxRaise ==
  /\ receiving.pc = "raise"
  /\ Raise("RX")
  /\ receiving' = Idle
  /\ UNCHANGED <<plan, rxRing, txRing, rx, tx, mask, sending, driver, arrived, accepted,
                 seen, sent, overrun, dmaBuf>>

(* The frame is dropped: no free buffer, or none that is long enough *)
RxDrop ==
  /\ receiving.pc = "walk" /\ receiving.i >= rx.size
  /\ receiving' = Idle
  /\ UNCHANGED <<plan, rxRing, txRing, rx, tx, status, mask, line, sending, driver,
                 arrived, accepted, seen, sent, overrun, dmaBuf>>

---------------------------------------------------------------------------
(* nvnet_dma_packet_from_guest *)

TxWalk ==
  /\ sending.pc = "walk" /\ sending.i < tx.size
  /\ tx' = NextInRing(tx)
  /\ LET d == Position(tx)
     IN \/ /\ txRing[d].valid
           /\ dmaBuf' = Holding(0, txRing[d].frag)
           /\ sending' = [sending EXCEPT !.pc = "send", !.desc = d, !.any = TRUE]
        \/ /\ ~txRing[d].valid
           /\ sending' = [sending EXCEPT !.i = @ + 1]
           /\ UNCHANGED dmaBuf
  /\ UNCHANGED <<plan, rxRing, txRing, rx, status, mask, line, receiving, driver, arrived,
                 accepted, seen, sent, overrun>>

(* qemu_send_packet: the backend takes what the buffer holds, and may answer *)
TxSend ==
  /\ sending.pc = "send"
  /\ sent' = Append(sent, dmaBuf.frag)
  /\ sending' = [sending EXCEPT !.pc = "sent"]
  /\ UNCHANGED <<plan, rxRing, txRing, rx, tx, status, mask, line, receiving, driver,
                 arrived, accepted, seen, overrun, dmaBuf>>

Stops(desc) == desc.last

(* After qemu_send_packet, and what it led to, returned *)
TxUpdate ==
  /\ sending.pc = "sent" /\ receiving = Idle
  /\ txRing' = [txRing EXCEPT ![sending.desc] = [@ EXCEPT !.valid = FALSE]]
  /\ sending' = IF Stops(txRing[sending.desc]) THEN [sending EXCEPT !.pc = "end"]
                ELSE [sending EXCEPT !.pc = "walk", !.i = @ + 1]
  /\ UNCHANGED <<plan, rxRing, rx, tx, status, mask, line, receiving, driver, arrived,
                 accepted, seen, sent, overrun, dmaBuf>>

TxEnd ==
  /\ \/ sending.pc = "end"
     \/ sending.pc = "walk" /\ sending.i >= tx.size
  /\ IF sending.any THEN Raise("TX") ELSE UNCHANGED <<status, line>>
  /\ sending' = Idle
  /\ UNCHANGED <<plan, rxRing, txRing, rx, tx, mask, receiving, driver, arrived, accepted,
                 seen, sent, overrun, dmaBuf>>

---------------------------------------------------------------------------
(* nvnet_mmio_write: the processor has the lock *)

GuestRuns == sending = Idle
MayAccess == GuestRuns /\ receiving = Idle

(* NvRegRingSizes.  The rings hold as many descriptors as the driver says   *)
WriteRingSizes ==
  /\ MayAccess /\ driver.pc = "setup"
  /\ rx' = [rx EXCEPT !.size = (plan.rx + 1) % IndexRange]
  /\ tx' = [tx EXCEPT !.size = (plan.tx + 1) % IndexRange]
  /\ rxRing' = [d \in 0..plan.rx |-> RxDesc(FALSE, 0)]
  /\ txRing' = [d \in 0..plan.tx |-> TxDesc(FALSE, FALSE, 0)]
  /\ driver' = [driver EXCEPT !.pc = "run"]
  /\ UNCHANGED <<plan, status, mask, line, receiving, sending, arrived, accepted, seen,
                 sent, overrun, dmaBuf>>

(* Mutant: every kick starts at the first descriptor *)
KickFromFirst ==
  /\ MayAccess /\ driver.pc = "run"
  /\ \/ driver.frame = "complete"
     \/ driver.frame = "none" /\ driver.extras < plan.extras
  /\ tx' = [tx EXCEPT !.index = 0]
  /\ sending' = [pc |-> "walk", i |-> 0, desc |-> 0, any |-> FALSE]
  /\ driver' = [driver EXCEPT !.frame = "none",
                           !.extras = IF driver.frame = "none" THEN @ + 1 ELSE @]
  /\ UNCHANGED <<plan, rxRing, txRing, rx, status, mask, line, receiving, arrived,
                 accepted, seen, sent, overrun, dmaBuf>>

(* NvRegTxRxControl = NVREG_TXRXCTL_KICK *)
Kick ==
  /\ MayAccess /\ driver.pc = "run"
  /\ \/ driver.frame = "complete"
     \/ driver.frame = "none" /\ driver.extras < plan.extras
  /\ sending' = [pc |-> "walk", i |-> 0, desc |-> 0, any |-> FALSE]
  /\ driver' = [driver EXCEPT !.frame = "none",
                           !.extras = IF driver.frame = "none" THEN @ + 1 ELSE @]
  /\ UNCHANGED <<plan, rxRing, txRing, rx, tx, status, mask, line, receiving, arrived,
                 accepted, seen, sent, overrun, dmaBuf>>

(* NvRegIrqMask *)
WriteIrqMask(m) ==
  /\ MayAccess /\ driver.pc = "run" /\ mask # m
  /\ m \/ driver.extras < plan.extras
  /\ mask' = m
  /\ nvnet_update_irq(status, m)
  /\ driver' = [driver EXCEPT !.extras = IF m THEN @ ELSE @ + 1]
  /\ UNCHANGED <<plan, rxRing, txRing, rx, tx, status, receiving, sending, arrived,
                 accepted, seen, sent, overrun, dmaBuf>>

(* NvRegTxRxControl = NVREG_TXRXCTL_BIT1: the status is cleared and the        *)
(* interrupt stays as it is.  The driver looks at both rings after it.        *)
WriteControlBit1 ==
  /\ MayAccess /\ driver.pc = "run" /\ driver.extras < plan.extras
  /\ status' = {}
  /\ driver' = [driver EXCEPT !.pc = "serve", !.extras = @ + 1, !.cleared = TRUE]
  /\ UNCHANGED <<plan, rxRing, txRing, rx, tx, mask, line, receiving, sending, arrived,
                 accepted, seen, sent, overrun, dmaBuf>>

(* Mutant: the interrupt is not looked at again *)
AckSilently ==
  /\ status' = status \ driver.events
  /\ UNCHANGED line

Ack ==
  /\ status' = status \ driver.events
  /\ nvnet_update_irq(status \ driver.events, mask)

(* NvRegIrqStatus: the bits that are written are cleared *)
WriteIrqStatus ==
  /\ MayAccess /\ driver.pc = "ack"
  /\ Ack
  /\ driver' = [driver EXCEPT !.pc = "serve"]
  /\ UNCHANGED <<plan, rxRing, txRing, rx, tx, mask, receiving, sending, arrived, accepted,
                 seen, sent, overrun, dmaBuf>>

---------------------------------------------------------------------------
(* The driver: memory of the guest, and its interrupt handler *)

RxSize == plan.rx + 1
TxSize == plan.tx + 1

Give ==
  /\ GuestRuns /\ driver.pc = "run" /\ driver.give - driver.take < RxSize
  /\ rxRing' = [rxRing EXCEPT ![driver.give % RxSize] = RxDesc(TRUE, 0)]
  /\ driver' = [driver EXCEPT !.give = @ + 1]
  /\ UNCHANGED <<plan, txRing, device, arrived, accepted, seen, sent, overrun, dmaBuf>>

Queue(last) ==
  /\ GuestRuns /\ driver.pc = "run" /\ driver.frame # "complete" /\ driver.queue < plan.queued
  /\ driver.queue - driver.reclaim < TxSize - (IF last THEN 0 ELSE 1)
  /\ txRing' = [txRing EXCEPT ![driver.queue % TxSize]
                  = TxDesc(TRUE, last, driver.queue + 1)]
  /\ driver' = [driver EXCEPT !.queue = @ + 1, !.frame = IF last THEN "complete" ELSE "partial"]
  /\ UNCHANGED <<plan, rxRing, device, arrived, accepted, seen, sent, overrun, dmaBuf>>

Interrupt ==
  /\ GuestRuns /\ driver.pc = "run" /\ line
  /\ driver' = [driver EXCEPT !.pc = "read"]
  /\ UNCHANGED <<plan, rxRing, txRing, device, arrived, accepted, seen, sent, overrun, dmaBuf>>

(* nvnet_mmio_read of NvRegIrqStatus *)
ReadIrqStatus ==
  /\ MayAccess /\ driver.pc = "read"
  /\ driver' = [driver EXCEPT !.events = status, !.pc = IF status = {} THEN "run" ELSE "ack"]
  /\ UNCHANGED <<plan, rxRing, txRing, device, arrived, accepted, seen, sent, overrun, dmaBuf>>

(* The next receive buffer, and the next descriptor of the transmit ring,     *)
(* when the device is done with it                                           *)
HasFrame == driver.take < driver.give /\ ~rxRing[driver.take % RxSize].avail
HasSent == driver.reclaim < driver.queue
           /\ ~txRing[driver.reclaim % TxSize].valid

Take ==
  /\ GuestRuns /\ driver.pc = "serve" /\ HasFrame
  /\ seen' = Append(seen, rxRing[driver.take % RxSize].frame)
  /\ rxRing' = [rxRing EXCEPT ![driver.take % RxSize] = RxDesc(FALSE, 0)]
  /\ driver' = [driver EXCEPT !.take = @ + 1]
  /\ UNCHANGED <<plan, txRing, device, arrived, accepted, sent, overrun, dmaBuf>>

Reclaim ==
  /\ GuestRuns /\ driver.pc = "serve" /\ ~HasFrame /\ HasSent
  /\ driver' = [driver EXCEPT !.reclaim = @ + 1]
  /\ UNCHANGED <<plan, rxRing, txRing, device, arrived, accepted, seen, sent, overrun, dmaBuf>>

Return ==
  /\ GuestRuns /\ driver.pc = "serve" /\ ~HasFrame /\ ~HasSent
  /\ driver' = [driver EXCEPT !.pc = "run", !.events = {}]
  /\ UNCHANGED <<plan, rxRing, txRing, device, arrived, accepted, seen, sent, overrun, dmaBuf>>

---------------------------------------------------------------------------
Device == RxWalk \/ RxRaise \/ RxDrop \/ TxWalk \/ TxSend \/ TxUpdate \/ TxEnd
Handler == Interrupt \/ ReadIrqStatus \/ WriteIrqStatus \/ Take \/ Reclaim \/ Return

Next ==
  \/ \E fits \in BOOLEAN : nvnet_receive(fits)
  \/ Device
  \/ WriteRingSizes
  \/ Kick
  \/ \E m \in BOOLEAN : WriteIrqMask(m)
  \/ WriteControlBit1
  \/ Give
  \/ \E last \in BOOLEAN : Queue(last)
  \/ Handler

Spec == Init /\ [][Next]_vars

(* The I/O thread and the processor keep running; the driver kicks what it   *)
(* queued and does not leave its interrupt masked                            *)
FairSpec ==
  /\ Spec
  /\ WF_vars(Device)
  /\ WF_vars(Interrupt) /\ WF_vars(Handler)
  /\ WF_vars(driver.frame = "complete" /\ Kick) /\ WF_vars(WriteIrqMask(TRUE))

---------------------------------------------------------------------------
(* Properties *)

(* Receive buffers are numbered in the order in which the driver gives and   *)
(* takes them: these are with the device, or hold a frame it has not taken    *)
Given == driver.take .. driver.give - 1
Buffer(k) == rxRing[k % RxSize]
Waiting == {k \in Given : ~Buffer(k).avail}

(* Every frame that nvnet_dma_packet_to_guest put into the ring is there, or  *)
(* was taken by the driver, once: a walk never fills a buffer that still       *)
(* holds a frame, even one that the driver empties while the walk is on.      *)
(* And it is that frame, later than the ones before it: no transmission uses   *)
(* txrx_dma_buf between the arrival of a frame and the write to its buffer.    *)
NoFrameLost ==
  /\ Len(accepted) = Len(seen) + Cardinality(Waiting)
  /\ Range(accepted) = Range(seen) \cup {Buffer(k).frame : k \in Waiting}
  /\ \A k \in DOMAIN accepted : accepted[k] > IF k = 1 THEN 0 ELSE accepted[k - 1]

(* As long as no frame that would fit met a full ring, the driver gets the     *)
(* frames in the order in which they arrived, those too long being dropped     *)
(* however full the ring is: what it took are the first, and the next are in   *)
(* the next buffers.  A walk that skips a buffer in use and finds one that was *)
(* emptied since puts its frame out of order.                                 *)
RxInOrder ==
  ~overrun => /\ Waiting = Len(seen) .. Len(accepted) - 1
              /\ \A k \in DOMAIN accepted :
                   accepted[k] = IF k <= Len(seen) THEN seen[k] ELSE Buffer(k - 1).frame

(* The descriptors' data are sent once each and in the order in which the     *)
(* driver queued them, whatever is received between: no frame takes their      *)
(* place in txrx_dma_buf before the backend has them.                         *)
TxInOrder == \A k \in DOMAIN sent : sent[k] = k

(* An interrupt ends: the driver's write to NvRegIrqStatus lowers the line,     *)
(* or an event it has not seen keeps it up.  The exception is a line that       *)
(* was up when NVREG_TXRXCTL_BIT1 cleared the status.                        *)
InterruptEnds == []~driver.cleared => (line ~> ~line)

(* A driver that acts on interrupts alone misses nothing, though a            *)
(* transmission overwrites the status bit of a reception, and a reception,     *)
(* even one within the transmission, that of a transmission: it catches up     *)
(* with the frames in its ring, as long as none met a full ring, and each      *)
(* descriptor of a frame that it completed is sent and comes back to it, as    *)
(* long as InterruptEnds: a line stuck up keeps the driver from its kick.      *)
DriverCatchesUp ==
  /\ []~overrun => (Len(seen) < Len(accepted) ~> Len(seen) = Len(accepted))
  /\ []~driver.cleared => (driver.reclaim < driver.queue ~>
                              driver.frame = "partial" \/ driver.reclaim = driver.queue)
=============================================================================
