------------------------------ MODULE NicRing ------------------------------
(***************************************************************************)
(* The Ethernet drivers behind AnyNic (kernel/src/nic, virtio_net.rs,      *)
(* virtio_mmio_net.rs, e1000.rs, rtl8168.rs, pcnet.rs, rtl8139.rs,         *)
(* vmxnet3.rs): AnyNic::probe picks a driver, and from then on the stack   *)
(* calls poll_rx_packet and transmit while the device works on the same    *)
(* descriptors.                                                            *)
(*                                                                         *)
(* A descriptor and its buffer are one slot.  A frame is the number it has *)
(* in its direction: the k-th frame received, the k-th frame submitted.    *)
(* The device is external.  It serves its slots in order; receiving takes  *)
(* two steps, the buffer is written (RxWrite) and handed over (RxDone).    *)
(* A wait of a driver ends when what it waits for happens, or runs out; it *)
(* may run out as often as it likes when nothing can answer it.            *)
(***************************************************************************)
EXTENDS Naturals, FiniteSets

CONSTANTS
    NRx,         \* NUM_RX, RX_RING_SIZE: receive slots of a descriptor ring
    NTx,         \* NUM_TX, TX_RING_SIZE: transmit slots
    NUnits,      \* RX_BUF_SIZE of the RTL8139, in units of four bytes
    Widths,      \* lengths of received frames in such units, header included
    StallLimit,  \* TX_STALL_TICKS
    MaxRx,       \* bound: frames received
    MaxTx,       \* bound: frames submitted
    MaxOut,      \* bound: waits that run out though the device would answer
    Machines     \* the machines looked at: what each kind of NIC answers

ASSUME RingAssumption ==
    /\ NRx \in Nat /\ NRx > 1 /\ NTx \in Nat /\ NTx > 1 /\ NUnits \in Nat
    /\ Widths \subseteq 3 .. NUnits - 1
    /\ MaxRx \in Nat /\ MaxTx \in Nat /\ MaxOut \in Nat /\ StallLimit \in Nat

VARIABLES
    machine,   \* [kind -> "absent" | "nobar" | "dead" | "ok"]
    nic,       \* the driver in use; "unprobed", "none"
    rx,        \* receive slots of a descriptor ring: [own, frame, good]
    ring,      \* the byte ring of the RTL8139, by units
    rxi,       \* the slot the driver looks at next
    rxdev,     \* the slot the device fills next
    rdt,       \* REG_RDT of the e1000
    writing,   \* the device is writing into slot rxdev
    arrived,   \* frames handed over by the device
    taken,     \* frames the driver has consumed
    tx,        \* transmit slots: [own, dd, cmd, frame]
    txi,       \* the slot the driver fills next (REG_TDT of the e1000)
    txdev,     \* the slot the device sends next
    txhead,    \* vmxnet3: oldest slot not reaped
    owed,      \* VirtIO: entries published and not used yet
    unseen,    \* VirtIO: used.idx - tx_last_used
    tx_wait,   \* e1000: the slot of the previous transmit, or NoSlot
    stall,     \* vmxnet3: tx_stall_ticks
    ready,     \* vmxnet3: queues_ready
    pc,        \* where the transmit call in progress stands
    ret,       \* what the last transmit returned
    sub,       \* frames submitted
    aired,     \* frames the device sent
    outs,      \* waits that ran out though the device would have answered
    slip       \* what went wrong for good, by name

rxVars == <<rx, ring, rxi, rxdev, rdt, writing, arrived, taken>>
txVars == <<tx, txi, txdev, txhead, owed, unseen, tx_wait, stall, sub, aired>>
vars == <<machine, nic, rxVars, txVars, ready, pc, ret, outs, slip>>

NoSlot == NTx
Virtio == {"virtio", "virtio-mmio"}
OwnBit == {"rtl8168", "pcnet"}

(* The order of AnyNic::probe.  The MMIO driver is the only one on AArch64, *)
(* where no PCI NIC is present.                                            *)
ProbeOrder ==
    <<"virtio-mmio", "virtio", "rtl8139", "rtl8168", "e1000", "vmxnet3", "bge", "pcnet">>

Kinds == {ProbeOrder[i] : i \in DOMAIN ProbeOrder}

RxSlots(n) == IF n \in Virtio THEN 0 .. 0 ELSE 0 .. NRx - 1

TxSlots(n) == IF n \in Virtio THEN 0 .. 0 ELSE 0 .. NTx - 1

RxNext(n, s) == IF s + 1 \in RxSlots(n) THEN s + 1 ELSE 0
TxNext(n, s) == IF s + 1 \in TxSlots(n) THEN s + 1 ELSE 0

RxSlot(o) == [own |-> o, frame |-> 0, good |-> TRUE]
FreeTx == [own |-> FALSE, dd |-> FALSE, cmd |-> FALSE, frame |-> 0]

----------------------------------------------------------------------------
(* Probing.  A probe gives the owner its receive slots start with, or      *)
(* "refused".  "nobar": no usable BAR or capability; "dead": the registers *)
(* do not answer.  Only some drivers notice a dead device.                 *)

VirtioProbe(d)  == IF d = "ok" THEN "dev" ELSE "refused"
MmioProbe(d)    == IF d = "ok" THEN "dev" ELSE "refused"
Rtl8139Probe(d) == IF d \in {"ok", "dead"} THEN "dev" ELSE "refused"
Rtl8168Probe(d) == IF d = "ok" THEN "dev" ELSE "refused"
E1000Probe(d)   == IF d = "ok" THEN "dev" ELSE "refused"
Vmxnet3Probe(d) == IF d = "ok" THEN "unseeded" ELSE "refused"
BgeProbe(d)     == "refused"
PcnetProbe(d)   == IF d \in {"ok", "dead"} THEN "dev" ELSE "refused"

ProbeOf(n) ==
    LET d == machine[n]
    IN CASE n = "virtio"      -> VirtioProbe(d)
         [] n = "virtio-mmio" -> MmioProbe(d)
         [] n = "rtl8139"     -> Rtl8139Probe(d)
         [] n = "rtl8168"     -> Rtl8168Probe(d)
         [] n = "e1000"       -> E1000Probe(d)
         [] n = "vmxnet3"     -> Vmxnet3Probe(d)
         [] n = "bge"         -> BgeProbe(d)
         [] n = "pcnet"       -> PcnetProbe(d)

Accepts(i) == ProbeOf(ProbeOrder[i]) # "refused"

(* The first driver whose probe succeeds owns the network from now on.     *)
Probe ==
    /\ nic = "unprobed"
    /\ \/ \E i \in DOMAIN ProbeOrder :
              /\ Accepts(i)
              /\ \A j \in 1 .. i - 1 : ~Accepts(j)
              /\ LET n == ProbeOrder[i]
                 IN /\ nic' = n
                    /\ rx' = [s \in RxSlots(n) |-> RxSlot(ProbeOf(n))]
                    /\ tx' = [s \in TxSlots(n) |-> FreeTx]
       \/ /\ \A i \in DOMAIN ProbeOrder : ~Accepts(i)
          /\ nic' = "none"
          /\ UNCHANGED <<rx, tx>>
    /\ UNCHANGED <<machine, ring, rxi, rxdev, rdt, writing, arrived, taken, txi, txdev, txhead,
                   owed, unseen, tx_wait, stall, ready, pc, ret, sub, aired, outs, slip>>

Works == nic \in Kinds /\ machine[nic] = "ok"

----------------------------------------------------------------------------
(* Receiving, descriptor rings.                                            *)

(* The device may fill slot rxdev: of the e1000, up to RDT; of the others, *)
(* if the slot was given to it.                                            *)
DeviceMayFill ==
    IF nic = "e1000" THEN rxdev # rdt ELSE rx[rxdev].own = "dev"

(* External: the device writes the next frame into the buffer, one with    *)
(* data or one that is in error or of length 0.                            *)
RxWrite ==
    /\ Works /\ nic # "rtl8139" /\ ~writing /\ arrived < MaxRx
    /\ DeviceMayFill
    /\ \E g \in BOOLEAN :
          rx' = [rx EXCEPT ![rxdev].frame = arrived + 1, ![rxdev].good = g]
    /\ writing' = TRUE
    /\ UNCHANGED <<machine, nic, ring, rxi, rxdev, rdt, arrived, taken, txVars, ready, pc, ret,
                   outs, slip>>

(* External: and hands it over (used.idx, DD, OWN cleared, DONE).          *)
RxDone ==
    /\ writing
    /\ rx' = [rx EXCEPT ![rxdev].own = "drv"]
    /\ rxdev' = RxNext(nic, rxdev)
    /\ arrived' = arrived + 1
    /\ writing' = FALSE
    /\ UNCHANGED <<machine, nic, ring, rxi, rdt, taken, txVars, ready, pc, ret, outs, slip>>

(* The driver sees a frame in the slot it looks at.                        *)
FrameReady == rx[rxi].own = "drv"

Mut_ConsumedIfGood(r) == IF r[rxi].good THEN [r EXCEPT ![rxi].own = "dev"] ELSE r

(* A frame that is empty, too long for the caller or in error is consumed  *)
(* like the others, and not delivered.                                     *)
Consumed(r) == [r EXCEPT ![rxi].own = "dev"]

(* virtio_net.rs, virtio_mmio_net.rs: the one buffer is posted again.      *)
RequeueRxOnly == rx' = Consumed(rx) /\ rxi' = rxi /\ taken' = taken + 1

VirtioPollRx ==
    /\ nic = "virtio" /\ FrameReady
    /\ RequeueRxOnly
    /\ UNCHANGED <<rdt, slip>>

MmioPollRx ==
    /\ nic = "virtio-mmio" /\ FrameReady
    /\ RequeueRxOnly
    /\ UNCHANGED <<rdt, slip>>

(* The tail register names the slot just emptied: one slot always stays    *)
(* out of the device's reach.                                              *)
E1000PollRx ==
    /\ nic = "e1000" /\ FrameReady
    /\ rx' = Consumed(rx)
    /\ rdt' = rxi
    /\ rxi' = RxNext(nic, rxi)
    /\ taken' = taken + 1
    /\ UNCHANGED slip

Rtl8168PollRx ==
    /\ nic = "rtl8168" /\ FrameReady
    /\ rx' = Consumed(rx)
    /\ rxi' = RxNext(nic, rxi)
    /\ taken' = taken + 1
    /\ UNCHANGED <<rdt, slip>>

Mut_PcnetStopsAtError ==
    /\ nic = "pcnet" /\ FrameReady /\ rx[rxi].good
    /\ rx' = Consumed(rx)
    /\ rxi' = RxNext(nic, rxi)
    /\ taken' = taken + 1
    /\ UNCHANGED <<rdt, slip>>

PcnetPollRx ==
    /\ nic = "pcnet" /\ FrameReady
    /\ rx' = Consumed(rx)
    /\ rxi' = RxNext(nic, rxi)
    /\ taken' = taken + 1
    /\ UNCHANGED <<rdt, slip>>

----------------------------------------------------------------------------
(* Receiving, the RTL8139: a ring of bytes, in units of four.  A frame is  *)
(* a header unit, the data, a unit of CRC.  Headers are never cleared.     *)

Unit(k, f, w, g) == [kind |-> k, frame |-> f, width |-> w, good |-> g]

(* What the device may still write before it meets cur_rx.                 *)
RingFree == NUnits - ((rxdev + NUnits - rxi) % NUnits)

(* External.  The WRAP bit is set: a frame that reaches the end of the     *)
(* ring is written on beyond it, where the transmit buffers lie; the next  *)
(* frame starts at the wrapped offset.                                     *)
RtlArrive ==
    /\ Works /\ nic = "rtl8139" /\ arrived < MaxRx
    /\ \E w \in Widths, g \in BOOLEAN :
          /\ w < RingFree
          /\ ring' = [u \in DOMAIN ring |->
                         IF u = rxdev THEN Unit("hdr", arrived + 1, w, g)
                         ELSE IF u \in rxdev + 1 .. rxdev + w - 1 THEN Unit("data", 0, 0, TRUE)
                         ELSE ring[u]]
          /\ rxdev' = (rxdev + w) % NUnits
          /\ tx' = IF rxdev + w > NUnits THEN [tx EXCEPT ![0].frame = 0] ELSE tx
          /\ slip' = IF rxdev + w >= NUnits THEN slip \cup {"ring_end"} ELSE slip
    /\ arrived' = arrived + 1
    /\ UNCHANGED <<machine, nic, rx, rxi, rdt, writing, taken, txi, txdev, txhead, owed,
                   unseen, tx_wait, stall, ready, pc, ret, sub, aired, outs>>

(* A header is looked at only if two units fit before the end, and a frame *)
(* that is not rejected is read only if it ends before it (its CRC aside). *)
HeaderFits == rxi + 2 <= NUnits
FrameFits == rxi + ring[rxi].width - 1 <= NUnits

(* cur_rx moves past the frame.  After the first lap an old header may     *)
(* lie there: it is read again.                                            *)
RtlPollRx ==
    /\ nic = "rtl8139" /\ HeaderFits
    /\ ring[rxi].kind = "hdr"
    /\ ring[rxi].good => FrameFits
    /\ rxi' = (rxi + ring[rxi].width) % NUnits
    /\ IF ring[rxi].frame = taken + 1
       THEN taken' = taken + 1 /\ UNCHANGED slip
       ELSE UNCHANGED taken /\ slip' = slip \cup {"stale"}
    /\ UNCHANGED <<rx, rdt>>

(* Or the middle of an old frame: its bytes are taken for a header, with   *)
(* any length.                                                             *)
RtlPollData ==
    /\ nic = "rtl8139" /\ HeaderFits
    /\ ring[rxi].kind = "data"
    /\ \E w \in 1 .. NUnits : rxi' = (rxi + w) % NUnits
    /\ slip' = slip \cup {"stale"}
    /\ UNCHANGED <<rx, rdt, taken>>

(* One call of poll_rx_packet that changes anything; AnyNic dispatches.    *)
PollRxPacket ==
    /\ pc = "idle"
    /\ \/ VirtioPollRx \/ MmioPollRx \/ E1000PollRx \/ Rtl8168PollRx \/ PcnetPollRx
       \/ RtlPollRx \/ RtlPollData
    /\ UNCHANGED <<machine, nic, ring, rxdev, writing, arrived, txVars, ready, pc, ret, outs>>

----------------------------------------------------------------------------
(* Sending.                                                                *)

(* The device has something to send.  The e1000 compares head and tail.    *)
DeviceMaySend ==
    CASE nic \in Virtio  -> owed > 0
      [] nic = "e1000"   -> txdev # txi
      [] OTHER           -> tx[txdev].own

(* External: the device sends what the buffer holds now and says so.       *)
Air ==
    /\ Works /\ DeviceMaySend
    /\ tx' = [tx EXCEPT ![txdev].own = FALSE, ![txdev].dd = TRUE]
    /\ txdev' = TxNext(nic, txdev)
    /\ aired' = aired + 1
    /\ IF nic \in Virtio
       THEN owed' = owed - 1 /\ unseen' = unseen + 1
       ELSE UNCHANGED <<owed, unseen>>
    /\ UNCHANGED <<machine, nic, rxVars, txi, txhead, tx_wait, stall, ready, pc, ret, sub,
                   outs, slip>>

(* The frame is copied into slot txi and handed to the device.             *)
Submit ==
    /\ sub < MaxTx
    /\ sub' = sub + 1
    /\ tx' = [tx EXCEPT ![txi] = [own |-> TRUE, dd |-> FALSE, cmd |-> TRUE, frame |-> sub + 1]]
    /\ txi' = TxNext(nic, txi)

Returns(v) == pc' = "idle" /\ ret' = v

(* A wait that runs out.  It may always do so when nothing will answer it. *)
RunsOut(why) ==
    /\ IF Works /\ DeviceMaySend THEN outs < MaxOut /\ outs' = outs + 1 ELSE UNCHANGED outs
    /\ slip' = slip \cup {why}

(* virtio_net.rs, virtio_mmio_net.rs: one buffer; the call publishes it    *)
(* and waits for used.idx to move.  tx_inflight is false between calls.    *)
VirtioTransmit ==
    /\ nic = "virtio" /\ pc = "idle"
    /\ Submit /\ owed' = owed + 1
    /\ pc' = "used"
    /\ UNCHANGED <<txdev, txhead, unseen, tx_wait, stall, aired, ret, outs, slip>>

MmioTransmit ==
    /\ nic = "virtio-mmio" /\ pc = "idle"
    /\ Submit /\ owed' = owed + 1
    /\ pc' = "used"
    /\ UNCHANGED <<txdev, txhead, unseen, tx_wait, stall, aired, ret, outs, slip>>

Mut_UsedStaysUnseen ==
    /\ pc = "used" /\ unseen > 0
    /\ Returns(TRUE)
    /\ UNCHANGED <<tx, txi, txdev, txhead, owed, unseen, tx_wait, stall, sub, aired, outs, slip>>

UsedSeen ==
    /\ pc = "used" /\ unseen > 0
    /\ unseen' = 0
    /\ Returns(TRUE)
    /\ UNCHANGED <<tx, txi, txdev, txhead, owed, tx_wait, stall, sub, aired, outs, slip>>

UsedRunsOut ==
    /\ pc = "used" /\ unseen = 0
    /\ RunsOut("used")
    /\ Returns(FALSE)
    /\ UNCHANGED txVars

(* e1000.rs: first the slot of the previous call ...                       *)
E1000Transmit ==
    /\ nic = "e1000" /\ pc = "idle" /\ sub < MaxTx
    /\ pc' = IF tx_wait = NoSlot THEN "tail" ELSE "previous"
    /\ UNCHANGED <<txVars, ret, outs, slip>>

(* ... whose status is cleared whether it was seen or not ...              *)
PreviousDone ==
    /\ pc = "previous"
    /\ IF tx[tx_wait].dd THEN UNCHANGED <<outs, slip>> ELSE RunsOut("previous")
    /\ tx' = [tx EXCEPT ![tx_wait].dd = FALSE]
    /\ tx_wait' = NoSlot
    /\ pc' = "tail"
    /\ UNCHANGED <<txi, txdev, txhead, owed, unseen, stall, sub, aired, ret>>

Mut_TailNotMoved ==
    /\ pc = "tail" /\ sub < MaxTx
    /\ tx' = [tx EXCEPT ![txi] = [own |-> TRUE, dd |-> FALSE, cmd |-> TRUE, frame |-> sub + 1]]
    /\ sub' = sub + 1
    /\ tx_wait' = txi
    /\ Returns(TRUE)
    /\ UNCHANGED <<txi, txdev, txhead, owed, unseen, stall, aired, outs, slip>>

(* ... then the slot at the tail, if it was used before and its status is  *)
(* clear.  That wait only ever runs out: a slot the device has not sent is *)
(* at the tail only when head and tail have met, and then the device takes *)
(* the ring for empty.  The slot is filled in any case.                    *)
TailDone ==
    /\ pc = "tail"
    /\ Submit
    /\ tx_wait' = txi
    /\ Returns(TRUE)
    /\ UNCHANGED <<txdev, txhead, owed, unseen, stall, aired, outs, slip>>

(* rtl8139.rs: the slot must be the host's; own is the TX_HOST_OWNS bit,   *)
(* negated.                                                                *)
RtlTransmit ==
    /\ nic = "rtl8139" /\ pc = "idle" /\ sub < MaxTx
    /\ pc' = "host"
    /\ UNCHANGED <<txVars, ret, outs, slip>>

HostOwns ==
    /\ pc = "host" /\ ~tx[txi].own
    /\ Submit
    /\ Returns(TRUE)
    /\ UNCHANGED <<txdev, txhead, owed, unseen, tx_wait, stall, aired, outs, slip>>

Mut_HostWaitsForEver ==
    /\ pc = "host" /\ tx[txi].own /\ Works
    /\ RunsOut("host")
    /\ Returns(FALSE)
    /\ UNCHANGED txVars

HostRunsOut ==
    /\ pc = "host" /\ tx[txi].own
    /\ RunsOut("host")
    /\ Returns(FALSE)
    /\ UNCHANGED txVars

Mut_Rtl8168IgnoresOwner ==
    /\ nic = "rtl8168" /\ pc = "idle"
    /\ Submit /\ Returns(TRUE)
    /\ UNCHANGED <<txdev, txhead, owed, unseen, tx_wait, stall, aired, outs, slip>>

(* rtl8168.rs: a slot the device still owns refuses the frame.  What the   *)
(* call waits for after that has no effect on it.                          *)
Rtl8168Transmit ==
    /\ nic = "rtl8168" /\ pc = "idle"
    /\ IF tx[txi].own
       THEN sub < MaxTx /\ Returns(FALSE) /\ UNCHANGED <<tx, txi, sub>>
       ELSE Submit /\ Returns(TRUE)
    /\ UNCHANGED <<txdev, txhead, owed, unseen, tx_wait, stall, aired, outs, slip>>

PcnetTransmit ==
    /\ nic = "pcnet" /\ pc = "idle"
    /\ IF tx[txi].own
       THEN sub < MaxTx /\ Returns(FALSE) /\ UNCHANGED <<tx, txi, sub>>
       ELSE Submit /\ Returns(TRUE)
    /\ UNCHANGED <<txdev, txhead, owed, unseen, tx_wait, stall, aired, outs, slip>>

----------------------------------------------------------------------------
(* vmxnet3.rs.                                                             *)

(* The first poll or transmit arms the rings, and does nothing else.       *)
SeedQueueState ==
    /\ nic = "vmxnet3" /\ pc = "idle" /\ ~ready
    /\ ready' = TRUE
    /\ rx' = [s \in RxSlots(nic) |-> RxSlot("dev")]
    /\ UNCHANGED <<machine, nic, ring, rxi, rxdev, rdt, writing, arrived, taken, txVars, pc,
                   ret, outs, slip>>

(* The slots from a up to, not including, b.                               *)
Between(a, b) == IF a <= b THEN a .. b - 1 ELSE (a .. NTx - 1) \cup (0 .. b - 1)

(* reap_tx_completions: the head moves over every slot that came back, in  *)
(* order.                                                                  *)
ReapedHead ==
    CHOOSE h \in Between(txhead, txi) \cup {txi} :
        /\ \A s \in Between(txhead, h) : ~tx[s].own
        /\ h # txi => tx[h].own

ReapedStall == IF ReapedHead # txhead THEN 0 ELSE stall

(* A completion of length 0 is neither taken nor armed again: the driver   *)
(* looks at it for ever.                                                   *)
Vmxnet3Blocked == nic = "vmxnet3" /\ FrameReady /\ ~rx[rxi].good

(* The slot emptied goes back to the device, and the one after it is armed *)
(* too, whatever it holds.                                                 *)
Vmxnet3PollRx ==
    LET next == RxNext(nic, rxi)
    IN /\ nic = "vmxnet3" /\ pc = "idle" /\ ready
       /\ txhead' = ReapedHead /\ stall' = ReapedStall
       /\ IF FrameReady /\ ~Vmxnet3Blocked
          THEN /\ rx' = [Consumed(rx) EXCEPT ![next].own = "dev"]
               /\ rxi' = next
               /\ taken' = taken + 1
               /\ slip' = IF rx[next].own = "drv" THEN slip \cup {"rearmed"} ELSE slip
          ELSE UNCHANGED <<rx, rxi, taken, slip>>
       /\ UNCHANGED <<machine, nic, ring, rxdev, rdt, writing, arrived, tx, txi, txdev, owed,
                      unseen, tx_wait, sub, aired, ready, pc, ret, outs>>

(* All descriptors are cleared and both ends set to slot 0; where the      *)
(* device stands is not known to change.                                   *)
RecoverTxRing ==
    /\ tx' = [s \in DOMAIN tx |-> FreeTx]
    /\ txi' = 0 /\ txhead' = 0 /\ stall' = 0
    /\ slip' = slip \cup {"recovered"}

TxFull == Cardinality(Between(ReapedHead, txi)) >= NTx - 1

Vmxnet3Transmit ==
    /\ nic = "vmxnet3" /\ pc = "idle" /\ ready /\ sub < MaxTx
    /\ IF TxFull
       THEN /\ Returns(FALSE)
            /\ IF ReapedStall + 1 > StallLimit
               THEN RecoverTxRing
               ELSE /\ txhead' = ReapedHead /\ stall' = ReapedStall + 1
                    /\ UNCHANGED <<tx, txi, slip>>
            /\ UNCHANGED sub
       ELSE /\ Submit /\ Returns(TRUE)
            /\ txhead' = ReapedHead /\ stall' = 0
            /\ UNCHANGED slip
    /\ UNCHANGED <<txdev, owed, unseen, tx_wait, aired, outs>>

----------------------------------------------------------------------------
TransmitCall ==
    \/ VirtioTransmit \/ MmioTransmit \/ E1000Transmit \/ RtlTransmit \/ Rtl8168Transmit
    \/ PcnetTransmit \/ Vmxnet3Transmit

TransmitStep ==
    UsedSeen \/ UsedRunsOut \/ PreviousDone \/ TailDone \/ HostOwns \/ HostRunsOut

(* AnyNic::transmit.  The length checks never fail: net.rs hands over      *)
(* frames of a header and at most a segment.                               *)
Transmit == (TransmitCall \/ TransmitStep) /\ UNCHANGED <<machine, nic, rxVars, ready>>

Init ==
    /\ machine \in Machines
    /\ nic = "unprobed"
    /\ rx = [s \in {0} |-> RxSlot("dev")] /\ rxi = 0 /\ rxdev = 0 /\ rdt = NRx - 1
    /\ ring = [u \in 0 .. NUnits - 1 |-> Unit("zero", 0, 0, TRUE)]
    /\ writing = FALSE /\ arrived = 0 /\ taken = 0
    /\ tx = [s \in {0} |-> FreeTx] /\ txi = 0 /\ txdev = 0 /\ txhead = 0
    /\ owed = 0 /\ unseen = 0 /\ tx_wait = NoSlot /\ stall = 0 /\ sub = 0 /\ aired = 0
    /\ ready = FALSE /\ pc = "idle" /\ ret = FALSE /\ outs = 0 /\ slip = {}

Device == RxWrite \/ RxDone \/ RtlArrive \/ Air

Driver == Probe \/ PollRxPacket \/ Vmxnet3PollRx \/ SeedQueueState \/ Transmit

Next == Device \/ Driver

(* The frame loop polls for ever and finishes the call it is in; a device  *)
(* that works finishes what it began.  Nobody has to send or receive.      *)
Fairness ==
    /\ WF_vars(Probe) /\ WF_vars(PollRxPacket) /\ WF_vars(Vmxnet3PollRx)
    /\ WF_vars(SeedQueueState)
    /\ WF_vars(TransmitStep /\ UNCHANGED <<machine, nic, rxVars, ready>>)
    /\ WF_vars(RxDone) /\ WF_vars(Air)

Spec == Init /\ [][Next]_vars /\ Fairness

----------------------------------------------------------------------------
SlotType == [own : {"dev", "drv", "unseeded"}, frame : Nat, good : BOOLEAN]

(* The variables stay in their types, and indices inside the rings of the  *)
(* driver in use.                                                          *)
TypeOK ==
    /\ nic \in Kinds \cup {"unprobed", "none"}
    /\ rx \in [DOMAIN rx -> SlotType] /\ DOMAIN rx \in {0 .. 0, 0 .. NRx - 1}
    /\ nic \in Kinds => DOMAIN rx = RxSlots(nic) /\ DOMAIN tx = TxSlots(nic)
    /\ nic # "rtl8139" => rxi \in DOMAIN rx /\ rxdev \in DOMAIN rx
    /\ rxi \in Nat /\ rxdev \in Nat /\ rdt \in 0 .. NRx - 1
    /\ writing \in BOOLEAN /\ arrived \in Nat /\ taken \in Nat
    /\ tx \in [DOMAIN tx -> [own : BOOLEAN, dd : BOOLEAN, cmd : BOOLEAN, frame : Nat]]
    /\ txi \in DOMAIN tx /\ txdev \in DOMAIN tx
    /\ owed \in Nat /\ unseen \in Nat /\ sub \in Nat /\ aired \in Nat
    /\ pc \in {"idle", "used", "previous", "tail", "host"} /\ ready \in BOOLEAN

(* While the vmxnet3 driver has not armed over a full slot and the RTL8139 *)
(* has not reached the end of its ring.                                    *)
RxSound == slip \cap {"rearmed", "ring_end"} = {}

(* The frame a driver is about to take is the one after the last it took:  *)
(* no frame is delivered twice, out of order, or lost in the ring, and no  *)
(* slot is read before the device handed it over (poll_rx_packet of every  *)
(* driver).                                                                *)
RxInOrder ==
    RxSound =>
        IF nic = "rtl8139"
        THEN ring[rxi].kind = "hdr" /\ rxi # rxdev => ring[rxi].frame = taken + 1
        ELSE FrameReady => rx[rxi].frame = taken + 1 /\ arrived > taken

TxSound == slip \cap {"used", "previous", "recovered", "ring_end"} = {}

(* What the device sends next is the frame submitted after the last one it *)
(* sent: no buffer is refilled while the device has yet to read it, and    *)
(* nothing is sent twice (transmit of every driver).  For the VirtIO       *)
(* drivers and the e1000 only until one of their waits runs out.           *)
TxInOrder ==
    TxSound /\ nic \in Kinds /\ DeviceMaySend => tx[txdev].frame = aired + 1

(* When a VirtIO transmit reports success, the device has sent the frame   *)
(* ("Blocks for completion", virtio_net.rs:454), until a wait runs out.    *)
OkMeansSent ==
    TxSound /\ nic \in Virtio /\ pc = "idle" => aired = sub

(* Every frame the device hands over is taken from the ring, a faulty one  *)
(* too.  Not so with vmxnet3, whose receive path is incomplete: behind a   *)
(* completion of length 0 nothing is received any more.                    *)
RxDrains ==
    \A k \in 1 .. MaxRx : arrived >= k ~> taken >= k \/ ~RxSound \/ Vmxnet3Blocked

(* Every frame submitted to a device that works goes out, unless a wait    *)
(* ran out or the ring was recovered.                                      *)
TxDrains == \A k \in 1 .. MaxTx : Works /\ sub >= k ~> aired >= k \/ ~TxSound

(* Every transmit returns.                                                 *)
TransmitReturns == pc # "idle" ~> pc = "idle"

(* Frames leave as they were submitted, and a success is the truth.        *)
TxFaithful == TxInOrder /\ OkMeansSent

(* Neither direction of a ring gets stuck, but for the vmxnet3's receive   *)
(* ring, and no call hangs.                                                *)
RingsMoveOn == RxDrains /\ TxDrains /\ TransmitReturns
============================================================================
