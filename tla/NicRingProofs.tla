--------------------------- MODULE NicRingProofs ---------------------------
(***************************************************************************)
(* Proofs about NicRing, for rings of every size and every driver: frames  *)
(* come out of a receive ring in the order they went in, and a transmit    *)
(* buffer is not refilled before the device has sent it.                   *)
(***************************************************************************)
EXTENDS NicRing, FiniteSetTheorems, TLAPS

----------------------------------------------------------------------------
(* Rings of slots.  A ring of n slots is filled at slot d and emptied at   *)
(* slot i; of a entries put in, t were taken out.  O is the set of slots   *)
(* that are full and F what each of them holds: the number it has among    *)
(* the entries.                                                            *)

Ahead(n, i, s) == IF s >= i THEN s - i ELSE s + n - i
After(n, s) == IF s + 1 < n THEN s + 1 ELSE 0

RingOk(O, F, n, i, d, t, a) ==
    /\ t \in Nat /\ a \in Nat /\ t <= a /\ a - t <= n
    /\ i \in 0 .. n - 1 /\ d \in 0 .. n - 1
    /\ Ahead(n, i, d) = IF a - t = n THEN 0 ELSE a - t
    /\ \A s \in 0 .. n - 1 :
          /\ s \in O <=> Ahead(n, i, s) < a - t
          /\ s \in O => F[s] = t + 1 + Ahead(n, i, s)

\* Distances in a ring.
LEMMA AheadFacts ==
    ASSUME NEW n \in Nat, NEW i \in 0 .. n - 1, NEW s \in 0 .. n - 1
    PROVE  /\ Ahead(n, i, s) \in 0 .. n - 1
           /\ Ahead(n, i, s) = 0 <=> s = i
           /\ After(n, i) \in 0 .. n - 1
           /\ Ahead(n, After(n, i), s) = IF s = i THEN n - 1 ELSE Ahead(n, i, s) - 1
           /\ Ahead(n, i, After(n, s)) = IF Ahead(n, i, s) = n - 1 THEN 0 ELSE Ahead(n, i, s) + 1
  BY DEF Ahead, After

LEMMA AheadInjective ==
    ASSUME NEW n \in Nat, NEW i \in 0 .. n - 1, NEW s \in 0 .. n - 1, NEW u \in 0 .. n - 1,
           Ahead(n, i, s) = Ahead(n, i, u)
    PROVE  s = u
  BY DEF Ahead

\* A sum that stays inside the ring does not wrap.
LEMMA NoWrap == ASSUME NEW x \in Nat, NEW n \in Nat, x < n PROVE x % n = x
  OBVIOUS

\* Distances add up along the ring.
LEMMA AheadSum ==
    ASSUME NEW n \in Nat, NEW a \in 0 .. n - 1, NEW b \in 0 .. n - 1, NEW c \in 0 .. n - 1
    PROVE  Ahead(n, b, c) = IF Ahead(n, a, b) <= Ahead(n, a, c) THEN Ahead(n, a, c) - Ahead(n, a, b)
                                                                ELSE Ahead(n, a, c) + n - Ahead(n, a, b)
  BY DEF Ahead

\* The slot looked at next, if it is full, holds the frame after the last taken.
LEMMA RingHead ==
    ASSUME NEW n \in Nat, NEW O, NEW F, NEW i, NEW d, NEW t, NEW a, RingOk(O, F, n, i, d, t, a), i \in O
    PROVE  F[i] = t + 1 /\ a > t
<1>1. i \in 0 .. n - 1 /\ t \in Nat /\ a \in Nat
  BY DEF RingOk
<1>2. Ahead(n, i, i) = 0
  BY <1>1 DEF Ahead
<1> QED
  BY <1>1, <1>2 DEF RingOk

\* The slot filled next is empty exactly when the ring is not full.
LEMMA RingTail ==
    ASSUME NEW n \in Nat, NEW O, NEW F, NEW i, NEW d, NEW t, NEW a, RingOk(O, F, n, i, d, t, a)
    PROVE  (d \in O <=> a - t = n) /\ (i \in O <=> a > t) /\ (d = i <=> (a = t \/ a - t = n))
<1>1. n \in Nat /\ i \in 0 .. n - 1 /\ d \in 0 .. n - 1 /\ t \in Nat /\ a \in Nat /\ t <= a /\ a - t <= n
  BY DEF RingOk
<1>2. Ahead(n, i, i) = 0 /\ Ahead(n, i, d) \in 0 .. n - 1 /\ (Ahead(n, i, d) = 0 <=> d = i)
  BY <1>1, AheadFacts
<1> QED
  BY <1>1, <1>2 DEF RingOk

\* The first full slot is emptied.
LEMMA RingTake ==
    ASSUME NEW n \in Nat, NEW O, NEW F, NEW i, NEW d, NEW t, NEW a, RingOk(O, F, n, i, d, t, a), i \in O,
           NEW P, NEW G, i \notin P,
           \A s \in 0 .. n - 1 : s # i => (s \in P <=> s \in O) /\ (s \in O => G[s] = F[s])
    PROVE  RingOk(P, G, n, After(n, i), d, t + 1, a)
<1>0. i \in 0 .. n - 1 /\ d \in 0 .. n - 1 /\ t \in Nat /\ a \in Nat /\ a - t <= n
  BY DEF RingOk
<1>h. a > t
  BY RingHead
<1>1. n \in Nat /\ i \in 0 .. n - 1 /\ d \in 0 .. n - 1 /\ t \in Nat /\ a \in Nat /\ a > t /\ a - t <= n
  BY <1>0, <1>h
<1>2. After(n, i) \in 0 .. n - 1
  BY <1>1, AheadFacts
<1>3. \A s \in 0 .. n - 1 :
        /\ Ahead(n, i, s) \in 0 .. n - 1 /\ (Ahead(n, i, s) = 0 <=> s = i)
        /\ Ahead(n, After(n, i), s) = IF s = i THEN n - 1 ELSE Ahead(n, i, s) - 1
  BY <1>1, AheadFacts DEF Ahead, After
<1>4. Ahead(n, After(n, i), d) = IF a - (t + 1) = n THEN 0 ELSE a - (t + 1)
  BY <1>1, <1>3 DEF RingOk
<1>5. ASSUME NEW s \in 0 .. n - 1
      PROVE  /\ s \in P <=> Ahead(n, After(n, i), s) < a - (t + 1)
             /\ s \in P => G[s] = t + 1 + 1 + Ahead(n, After(n, i), s)
  <2>1. CASE s = i
    BY <1>1, <1>3, <2>1
  <2>2. CASE s # i
    BY <1>1, <1>3, <2>2 DEF RingOk
  <2> QED
    BY <2>1, <2>2
<1> QED
  BY <1>1, <1>2, <1>4, <1>5 DEF RingOk

\* The next slot is filled, which was empty.
LEMMA RingPut ==
    ASSUME NEW n \in Nat, NEW O, NEW F, NEW i, NEW d, NEW t, NEW a, RingOk(O, F, n, i, d, t, a), d \notin O,
           NEW P, NEW G, d \in P, G[d] = a + 1,
           \A s \in 0 .. n - 1 : s # d => (s \in P <=> s \in O) /\ (s \in O => G[s] = F[s])
    PROVE  RingOk(P, G, n, i, After(n, d), t, a + 1)
<1>0. i \in 0 .. n - 1 /\ d \in 0 .. n - 1 /\ t \in Nat /\ a \in Nat /\ a >= t /\ a - t <= n
  BY DEF RingOk
<1>h. a - t # n
  BY RingTail
<1>1. n \in Nat /\ i \in 0 .. n - 1 /\ d \in 0 .. n - 1 /\ t \in Nat /\ a \in Nat /\ a >= t /\ a - t < n
  BY <1>0, <1>h
<1>2. /\ After(n, d) \in 0 .. n - 1
      /\ Ahead(n, i, After(n, d)) = IF Ahead(n, i, d) = n - 1 THEN 0 ELSE Ahead(n, i, d) + 1
  BY <1>1, AheadFacts
<1>3. \A s \in 0 .. n - 1 : Ahead(n, i, s) \in 0 .. n - 1 /\ (Ahead(n, i, s) = Ahead(n, i, d) => s = d)
  BY <1>1 DEF Ahead
<1>4. Ahead(n, i, d) = a - t
  BY <1>1 DEF RingOk
<1>5. Ahead(n, i, After(n, d)) = IF a + 1 - t = n THEN 0 ELSE a + 1 - t
  BY <1>1, <1>2, <1>4
<1>6. ASSUME NEW s \in 0 .. n - 1
      PROVE  /\ s \in P <=> Ahead(n, i, s) < a + 1 - t
             /\ s \in P => G[s] = t + 1 + Ahead(n, i, s)
  <2>1. CASE s = d
    BY <1>1, <1>4, <2>1
  <2>2. CASE s # d
    BY <1>1, <1>3, <1>4, <2>2 DEF RingOk
  <2> QED
    BY <2>1, <2>2
<1> QED
  BY <1>1, <1>2, <1>5, <1>6 DEF RingOk

\* An empty ring.
LEMMA RingEmpty ==
    ASSUME NEW n \in Nat, n > 0, NEW O, NEW F, \A s \in 0 .. n - 1 : s \notin O,
           NEW i \in 0 .. n - 1, NEW t \in Nat
    PROVE  RingOk(O, F, n, i, i, t, t)
<1>1. \A s \in 0 .. n - 1 : Ahead(n, i, s) \in 0 .. n - 1 /\ Ahead(n, i, i) = 0
  BY DEF Ahead
<1> QED
  BY <1>1 DEF RingOk

\* Only the full slots matter.
LEMMA RingSame ==
    ASSUME NEW n, NEW O, NEW F, NEW i, NEW d, NEW t, NEW a, RingOk(O, F, n, i, d, t, a), NEW P, NEW G,
           \A s \in 0 .. n - 1 : (s \in P <=> s \in O) /\ (s \in O => G[s] = F[s])
    PROVE  RingOk(P, G, n, i, d, t, a)
  BY DEF RingOk

----------------------------------------------------------------------------
(* Receiving: the invariant.  Up to a slip, the slots of a descriptor ring *)
(* that hold a frame are a run that starts where the driver looks and ends *)
(* where the device writes; and the frames of the RTL8139 lie one behind   *)
(* the other, the first not taken where the driver looks.                  *)

RxN(n) == IF n \in Virtio THEN 1 ELSE NRx
NR == RxN(nic)
FullRx == {s \in 0 .. NR - 1 : rx[s].own = "drv"}
HoldRx == [s \in 0 .. NR - 1 |-> rx[s].frame]

RxUnused ==
    /\ rx = [s \in {0} |-> RxSlot("dev")] /\ rxi = 0 /\ rxdev = 0 /\ rdt = NRx - 1
    /\ ring = [u \in 0 .. NUnits - 1 |-> Unit("zero", 0, 0, TRUE)]
    /\ ~writing /\ arrived = 0 /\ taken = 0 /\ ~ready

DescInv ==
    /\ RingOk(FullRx, HoldRx, NR, rxi, rxdev, taken, arrived)
    /\ writing => rxdev \notin FullRx /\ rx[rxdev].frame = arrived + 1
    /\ nic = "e1000" => /\ rdt \in 0 .. NR - 1 /\ Ahead(NR, rxi, rdt) = NR - 1
                        /\ arrived - taken < NR /\ (writing => arrived - taken < NR - 1)
    /\ nic = "vmxnet3" /\ ~ready => ~writing /\ \A s \in 0 .. NR - 1 : rx[s].own = "unseeded"

HeaderOk(u) ==
    LET f == ring[u].frame
        v == u + ring[u].width
    IN /\ f \in 1 .. arrived /\ ring[u].width \in Nat /\ v <= rxdev
       /\ f = arrived => v = rxdev
       /\ f < arrived => ring[v].kind = "hdr" /\ ring[v].frame = f + 1

ChainInv ==
    /\ rxi \in Nat /\ rxdev \in Nat /\ taken \in Nat /\ arrived \in Nat /\ taken <= arrived
    /\ arrived > 0 => rxdev < NUnits
    /\ ring = [u \in 0 .. NUnits - 1 |-> ring[u]]
    /\ \A u \in 0 .. NUnits - 1 : u >= rxdev => ring[u].kind = "zero"
    /\ \A u \in 0 .. NUnits - 1 : ring[u].kind = "hdr" => HeaderOk(u)
    /\ taken = arrived => rxi = rxdev
    /\ taken < arrived => rxi < NUnits /\ ring[rxi].kind = "hdr" /\ ring[rxi].frame = taken + 1

RxInv ==
    /\ nic \in Kinds \cup {"unprobed", "none"} /\ arrived \in Nat
    /\ nic \notin Kinds => RxUnused
    /\ nic \in Kinds => rx \in [0 .. NR - 1 -> SlotType]
    /\ nic \in Kinds \ {"rtl8139"} /\ RxSound => DescInv
    /\ nic = "rtl8139" => ~writing /\ (RxSound => ChainInv)

\* The eight kinds that are probed, and what a probe that succeeds leaves in the slots.
LEMMA KindFacts ==
    /\ Kinds = {"virtio-mmio", "virtio", "rtl8139", "rtl8168", "e1000", "vmxnet3", "bge", "pcnet"}
    /\ \A i \in DOMAIN ProbeOrder : ProbeOrder[i] \in Kinds
    /\ "unprobed" \notin Kinds /\ "none" \notin Kinds
<1>1. DOMAIN ProbeOrder = 1 .. 8
  BY DEF ProbeOrder
<1>2. \A x : x \in Kinds <=> \E i \in 1 .. 8 : x = ProbeOrder[i]
  BY <1>1 DEF Kinds
<1>3. /\ ProbeOrder[1] = "virtio-mmio" /\ ProbeOrder[2] = "virtio" /\ ProbeOrder[3] = "rtl8139"
      /\ ProbeOrder[4] = "rtl8168" /\ ProbeOrder[5] = "e1000" /\ ProbeOrder[6] = "vmxnet3"
      /\ ProbeOrder[7] = "bge" /\ ProbeOrder[8] = "pcnet"
  BY DEF ProbeOrder
<1>4. \A i \in 1 .. 8 : i = 1 \/ i = 2 \/ i = 3 \/ i = 4 \/ i = 5 \/ i = 6 \/ i = 7 \/ i = 8
  OBVIOUS
<1>5. \A x : x \in Kinds <=>
        x \in {"virtio-mmio", "virtio", "rtl8139", "rtl8168", "e1000", "vmxnet3", "bge", "pcnet"}
  BY <1>2, <1>3, <1>4
<1>6. Kinds = {"virtio-mmio", "virtio", "rtl8139", "rtl8168", "e1000", "vmxnet3", "bge", "pcnet"}
  BY <1>5
<1> QED
  BY <1>1, <1>2, <1>6

LEMMA ProbeFacts ==
    ASSUME NEW n \in Kinds, ProbeOf(n) # "refused"
    PROVE  ProbeOf(n) = IF n = "vmxnet3" THEN "unseeded" ELSE "dev"
  BY KindFacts
     DEF ProbeOf, VirtioProbe, MmioProbe, Rtl8139Probe, Rtl8168Probe, E1000Probe, Vmxnet3Probe,
         BgeProbe, PcnetProbe

\* The size of the receive ring.
LEMMA RxSizes ==
    ASSUME NEW n
    PROVE  /\ RxN(n) \in Nat /\ RxN(n) > 0 /\ NRx \in Nat /\ NRx > 1 /\ RxSlots(n) = 0 .. RxN(n) - 1
           /\ (n \notin Virtio => RxN(n) = NRx)
           /\ \A s \in Nat : RxNext(n, s) = After(RxN(n), s)
<1>1. RxN(n) \in Nat /\ RxN(n) > 0 /\ NRx \in Nat /\ NRx > 1 /\ (n \notin Virtio => RxN(n) = NRx)
  BY RingAssumption DEF RxN
<1>2. RxSlots(n) = 0 .. RxN(n) - 1
  BY <1>1 DEF RxN, RxSlots
<1>3. \A s \in Nat : RxNext(n, s) = After(RxN(n), s)
  BY <1>1, <1>2 DEF RxNext, After
<1> QED
  BY <1>1, <1>2, <1>3

LEMMA RxSize ==
    /\ NR \in Nat /\ NR > 0 /\ NRx \in Nat /\ NRx > 1 /\ RxSlots(nic) = 0 .. NR - 1
    /\ (nic \notin Virtio => NR = NRx)
    /\ \A s \in Nat : RxNext(nic, s) = After(NR, s)
  BY RxSizes DEF NR

\* What went wrong is not forgotten.
LEMMA SlipGrows == [Next]_vars => slip \subseteq slip'
  BY DEF Next, vars, Device, Driver, RxWrite, RxDone, RtlArrive, Air, Probe, PollRxPacket, VirtioPollRx,
         MmioPollRx, E1000PollRx, Rtl8168PollRx, PcnetPollRx, RtlPollRx, RtlPollData, Vmxnet3PollRx,
         SeedQueueState, Transmit, TransmitCall, TransmitStep, VirtioTransmit, MmioTransmit, E1000Transmit,
         RtlTransmit, Rtl8168Transmit, PcnetTransmit, Vmxnet3Transmit, RecoverTxRing, UsedSeen, UsedRunsOut,
         PreviousDone, TailDone, HostOwns, HostRunsOut, RunsOut

LEMMA RxInit == Init => RxInv
  BY KindFacts DEF Init, RxInv, RxUnused

\* The invariant gives the property.
LEMMA RxInvGives == RxInv => RxInOrder
<1> SUFFICES ASSUME RxInv, RxSound PROVE RxInOrder
  BY DEF RxInOrder
<1>1. CASE nic = "rtl8139"
  <2>1. ChainInv
    BY <1>1 DEF RxInv
  <2>2. ASSUME ring[rxi].kind = "hdr", rxi # rxdev PROVE ring[rxi].frame = taken + 1
    BY <2>1, <2>2 DEF ChainInv
  <2> QED
    BY <1>1, <2>2 DEF RxInOrder
<1>2. CASE nic \in Kinds \ {"rtl8139"}
  <2>1. DescInv
    BY <1>2 DEF RxInv
  <2>2. ASSUME FrameReady PROVE rx[rxi].frame = taken + 1 /\ arrived > taken
    <3>1. rxi \in 0 .. NR - 1 /\ RingOk(FullRx, HoldRx, NR, rxi, rxdev, taken, arrived)
      BY <2>1 DEF DescInv, RingOk
    <3>2. rxi \in FullRx
      BY <2>2, <3>1 DEF FullRx, FrameReady
    <3>3. HoldRx[rxi] = taken + 1 /\ arrived > taken
      BY <3>1, <3>2, RingHead, RxSize
    <3> QED
      BY <3>1, <3>3 DEF HoldRx
  <2> QED
    BY <1>2, <2>2 DEF RxInOrder
<1>3. CASE nic \notin Kinds
  BY <1>3, KindFacts DEF RxInv, RxUnused, RxInOrder, FrameReady, RxSlot
<1> QED
  BY <1>1, <1>2, <1>3

----------------------------------------------------------------------------
(* Receiving: the steps.                                                   *)

\* Steps that touch no receive slot.
LEMMA RxKept ==
    ASSUME RxInv, UNCHANGED <<nic, rxVars, ready>>, slip \subseteq slip'
    PROVE  RxInv'
<1>1. RxSound' => RxSound
  BY DEF RxSound
<1>2. NR' = NR /\ FullRx' = FullRx /\ HoldRx' = HoldRx
  BY DEF NR, FullRx, HoldRx, rxVars
<1>3. DescInv => DescInv'
  BY <1>2 DEF DescInv, rxVars
<1>4. ChainInv => ChainInv'
  BY DEF ChainInv, HeaderOk, rxVars
<1> QED
  BY <1>1, <1>2, <1>3, <1>4 DEF RxInv, RxUnused, rxVars

LEMMA RxProbe == ASSUME RxInv, Probe PROVE RxInv'
<1>0. RxUnused /\ UNCHANGED <<ring, rxi, rxdev, rdt, writing, arrived, taken, ready, slip>>
  BY KindFacts DEF RxInv, Probe
<1>1. CASE nic' = "none"
  <2>1. UNCHANGED rx
    BY <1>1, KindFacts DEF Probe
  <2> QED
    BY <1>0, <1>1, <2>1, KindFacts DEF RxInv, RxUnused
<1>2. CASE nic' # "none"
  <2>1. PICK i \in DOMAIN ProbeOrder :
          /\ Accepts(i) /\ nic' = ProbeOrder[i]
          /\ rx' = [s \in RxSlots(ProbeOrder[i]) |-> RxSlot(ProbeOf(ProbeOrder[i]))]
    BY <1>2 DEF Probe
  <2> DEFINE n == ProbeOrder[i]
             o == ProbeOf(n)
             m == RxN(n)
  <2>2. n \in Kinds /\ o = IF n = "vmxnet3" THEN "unseeded" ELSE "dev"
    BY <2>1, KindFacts, ProbeFacts DEF Accepts
  <2>3. m \in Nat /\ m > 0 /\ RxSlots(n) = 0 .. m - 1 /\ (n \notin Virtio => m = NRx) /\ NRx \in Nat /\ NRx > 1
    BY RxSizes
  <2>4. rx' = [s \in 0 .. m - 1 |-> RxSlot(o)]
    BY <2>1, <2>3
  <2>a. nic' = n /\ NR' = m
    BY <2>1 DEF NR
  <2> HIDE DEF n, o, m
  <2>5. \A s \in 0 .. m - 1 : rx'[s].own = o /\ o # "drv"
    BY <2>2, <2>4 DEF RxSlot
  <2>6. rx' \in [0 .. m - 1 -> SlotType]
    BY <2>2, <2>4 DEF RxSlot, SlotType
  <2>7. ASSUME n # "rtl8139" PROVE DescInv'
    <3>1. \A s \in 0 .. m - 1 : s \notin FullRx'
      BY <2>5, <2>a DEF FullRx
    <3>2. 0 \in 0 .. m - 1 /\ 0 \in Nat /\ m \in Nat /\ m > 0
      BY <2>3
    <3>3. RingOk(FullRx', HoldRx', m, 0, 0, 0, 0)
      BY <3>1, <3>2, RingEmpty
    <3>4. n = "e1000" => m = NRx
      BY <2>3 DEF Virtio
    <3>5. Ahead(NRx, 0, NRx - 1) = NRx - 1
      BY <2>3 DEF Ahead
    <3>6. rxi' = 0 /\ rxdev' = 0 /\ taken' = 0 /\ arrived' = 0 /\ ~writing' /\ ~ready' /\ rdt' = NRx - 1
      BY <1>0 DEF RxUnused
    <3>7. n = "e1000" => rdt' \in 0 .. m - 1 /\ Ahead(m, 0, rdt') = m - 1 /\ 0 < m
      BY <2>3, <3>4, <3>5, <3>6
    <3>8. nic' = "vmxnet3" => \A s \in 0 .. m - 1 : rx'[s].own = "unseeded"
      BY <2>2, <2>5, <2>a
    <3> QED
      BY <2>a, <3>3, <3>6, <3>7, <3>8 DEF DescInv
  <2>8. ASSUME n = "rtl8139" PROVE ChainInv'
    <3>1. ring' = [u \in 0 .. NUnits - 1 |-> Unit("zero", 0, 0, TRUE)]
      BY <1>0 DEF RxUnused
    <3>2. \A u \in 0 .. NUnits - 1 : ring'[u].kind = "zero"
      BY <3>1 DEF Unit
    <3>3. ring' = [u \in 0 .. NUnits - 1 |-> ring'[u]]
      BY <3>1
    <3>4. rxi' = 0 /\ rxdev' = 0 /\ taken' = 0 /\ arrived' = 0
      BY <1>0 DEF RxUnused
    <3> QED
      BY <3>2, <3>3, <3>4 DEF ChainInv
  <2>9. ~writing' /\ arrived' \in Nat
    BY <1>0 DEF RxUnused
  <2> QED
    BY <2>2, <2>a, <2>6, <2>7, <2>8, <2>9 DEF RxInv
<1> QED
  BY <1>1, <1>2

\* A descriptor ring with what the device or the driver did to one slot.
LEMMA RxWriteStep == ASSUME RxInv, RxWrite PROVE RxInv'
<1>0. UNCHANGED <<nic, ring, rxi, rxdev, rdt, arrived, taken, ready, slip>> /\ writing'
      /\ nic \in Kinds /\ nic # "rtl8139" /\ DeviceMayFill
  BY DEF RxWrite, Works
<1>1. PICK g \in BOOLEAN : rx' = [rx EXCEPT ![rxdev].frame = arrived + 1, ![rxdev].good = g]
  BY DEF RxWrite
<1>2. NR' = NR /\ (RxSound' <=> RxSound)
  BY <1>0 DEF NR, RxSound
<1>3. rx \in [0 .. NR - 1 -> SlotType]
  BY <1>0 DEF RxInv
<1>4. /\ \A s \in 0 .. NR - 1 : rx'[s].own = rx[s].own /\ (s # rxdev => rx'[s] = rx[s])
      /\ rxdev \in 0 .. NR - 1 => rx'[rxdev].frame = arrived + 1
  BY <1>1, <1>3 DEF SlotType
<1>5. rx' \in [0 .. NR - 1 -> SlotType]
  <2>1. arrived + 1 \in Nat
    BY DEF RxInv
  <2>2. rxdev \in 0 .. NR - 1 => rx[rxdev] \in SlotType
    BY <1>3
  <2>3. rxdev \in 0 .. NR - 1 => rx'[rxdev] = [rx[rxdev] EXCEPT !.frame = arrived + 1, !.good = g]
    BY <1>1, <1>3
  <2>4. rxdev \in 0 .. NR - 1 => rx'[rxdev] \in SlotType
    BY <2>1, <2>2, <2>3 DEF SlotType
  <2>5. \A s \in 0 .. NR - 1 : rx'[s] \in SlotType
    BY <1>3, <1>4, <2>4
  <2>6. rx' = [s \in 0 .. NR - 1 |-> rx'[s]]
    BY <1>1, <1>3
  <2> QED
    BY <2>5, <2>6
<1>6. ASSUME RxSound PROVE DescInv'
  <2>1. DescInv
    BY <1>0, <1>6 DEF RxInv
  <2>2. RingOk(FullRx, HoldRx, NR, rxi, rxdev, taken, arrived) /\ rxdev \in 0 .. NR - 1
    BY <2>1 DEF DescInv, RingOk
  <2>3. FullRx' = FullRx
    BY <1>2, <1>4 DEF FullRx
  <2>4. nic = "e1000" => arrived - taken < NR - 1
    <3>1. ASSUME nic = "e1000", arrived - taken = NR - 1 PROVE FALSE
      <4>1. rxdev # rdt /\ rdt \in 0 .. NR - 1 /\ Ahead(NR, rxi, rdt) = NR - 1
        BY <1>0, <2>1, <3>1 DEF DeviceMayFill, DescInv
      <4>2. Ahead(NR, rxi, rxdev) = NR - 1 /\ rxi \in 0 .. NR - 1
        BY <2>2, <3>1, RxSize DEF RingOk
      <4> QED
        BY <2>2, <4>1, <4>2, RxSize, AheadInjective
    <3> QED
      BY <2>1, <2>2, <3>1, RxSize DEF DescInv, RingOk
  <2>5. rxdev \notin FullRx
    <3>1. CASE nic = "e1000"
      BY <2>2, <2>4, <3>1, RingTail, RxSize DEF RingOk
    <3>2. CASE nic # "e1000"
      BY <1>0, <2>2, <3>2 DEF DeviceMayFill, FullRx
    <3> QED
      BY <3>1, <3>2
  <2>6. \A s \in 0 .. NR - 1 : s \in FullRx => HoldRx'[s] = HoldRx[s]
    BY <1>2, <1>4, <2>5 DEF HoldRx
  <2>7. RingOk(FullRx', HoldRx', NR, rxi, rxdev, taken, arrived)
    BY <2>2, <2>3, <2>6, RingSame
  <2>8. nic = "vmxnet3" => ready
    BY <1>0, <2>1, <2>2 DEF DescInv, DeviceMayFill
  <2> QED
    BY <1>0, <1>2, <1>4, <2>1, <2>2, <2>3, <2>4, <2>5, <2>7, <2>8 DEF DescInv
<1> QED
  BY <1>0, <1>2, <1>5, <1>6 DEF RxInv

LEMMA RxDoneStep == ASSUME RxInv, RxDone PROVE RxInv'
<1>0. UNCHANGED <<nic, ring, rxi, rdt, taken, ready, slip>> /\ ~writing' /\ writing
      /\ arrived' = arrived + 1 /\ rxdev' = RxNext(nic, rxdev) /\ nic \in Kinds /\ nic # "rtl8139"
  BY KindFacts DEF RxDone, RxInv, RxUnused
<1>1. rx' = [rx EXCEPT ![rxdev].own = "drv"]
  BY DEF RxDone
<1>2. NR' = NR /\ (RxSound' <=> RxSound)
  BY <1>0 DEF NR, RxSound
<1>3. rx \in [0 .. NR - 1 -> SlotType]
  BY <1>0 DEF RxInv
<1>4. /\ \A s \in 0 .. NR - 1 : rx'[s].frame = rx[s].frame /\ (s # rxdev => rx'[s] = rx[s])
      /\ rxdev \in 0 .. NR - 1 => rx'[rxdev].own = "drv"
  BY <1>1, <1>3 DEF SlotType
<1>5. rx' \in [0 .. NR - 1 -> SlotType]
  BY <1>1, <1>3 DEF SlotType
<1>6. ASSUME RxSound PROVE DescInv'
  <2>1. DescInv
    BY <1>0, <1>6 DEF RxInv
  <2>2. /\ RingOk(FullRx, HoldRx, NR, rxi, rxdev, taken, arrived) /\ rxdev \in 0 .. NR - 1
        /\ taken \in Nat /\ arrived \in Nat
    BY <2>1 DEF DescInv, RingOk
  <2>3. rxdev \notin FullRx /\ rx[rxdev].frame = arrived + 1
    BY <1>0, <2>1 DEF DescInv
  <2>4. rxdev \in FullRx' /\ HoldRx'[rxdev] = arrived + 1
    BY <1>2, <1>4, <2>2, <2>3 DEF FullRx, HoldRx
  <2>5. \A s \in 0 .. NR - 1 : s # rxdev => (s \in FullRx' <=> s \in FullRx) /\ HoldRx'[s] = HoldRx[s]
    BY <1>2, <1>4 DEF FullRx, HoldRx
  <2>6. RingOk(FullRx', HoldRx', NR, rxi, After(NR, rxdev), taken, arrived + 1)
    BY <2>2, <2>3, <2>4, <2>5, RingPut, RxSize
  <2>7. rxdev' = After(NR, rxdev)
    BY <1>0, <2>2, RxSize
  <2>8. nic = "vmxnet3" => ready
    BY <1>0, <2>1 DEF DescInv
  <2> QED
    BY <1>0, <1>2, <2>1, <2>2, <2>6, <2>7, <2>8, RxSize DEF DescInv
<1> QED
  BY <1>0, <1>2, <1>5, <1>6 DEF RxInv

LEMMA RtlArriveStep == ASSUME RxInv, RtlArrive PROVE RxInv'
<1>0. /\ UNCHANGED <<nic, rx, rxi, rdt, writing, taken, ready>>
      /\ arrived' = arrived + 1 /\ nic = "rtl8139" /\ ~writing /\ arrived \in Nat
      /\ nic \in Kinds /\ rx \in [0 .. NR - 1 -> SlotType]
  BY KindFacts DEF RtlArrive, Works, RxInv
<1>1. PICK w \in Widths, g \in BOOLEAN :
        /\ ring' = [u \in DOMAIN ring |->
                         IF u = rxdev THEN Unit("hdr", arrived + 1, w, g)
                         ELSE IF u \in rxdev + 1 .. rxdev + w - 1 THEN Unit("data", 0, 0, TRUE)
                         ELSE ring[u]]
        /\ rxdev' = (rxdev + w) % NUnits
        /\ slip' = IF rxdev + w >= NUnits THEN slip \cup {"ring_end"} ELSE slip
  BY DEF RtlArrive
<1>2. NR' = NR
  BY <1>0 DEF NR
<1>3. ASSUME RxSound' PROVE ChainInv'
  <2>1. RxSound /\ ~(rxdev + w >= NUnits)
    BY <1>1, <1>3 DEF RxSound
  <2>2. ChainInv
    BY <1>0, <2>1 DEF RxInv
  <2>3. /\ rxdev \in Nat /\ w \in Nat /\ w >= 3 /\ NUnits \in Nat /\ rxdev + w < NUnits
        /\ taken \in Nat /\ arrived \in Nat /\ taken <= arrived /\ rxi \in Nat
    BY <2>1, <2>2, RingAssumption DEF ChainInv
  <2>4. rxdev' = rxdev + w
    BY <1>1, <2>3, NoWrap
  <2>5. DOMAIN ring = 0 .. NUnits - 1
    BY <2>2 DEF ChainInv
  <2>6. ring' = [u \in 0 .. NUnits - 1 |-> ring'[u]]
    BY <1>1, <2>5
  <2>7. ASSUME NEW u \in 0 .. NUnits - 1
        PROVE  /\ u < rxdev => ring'[u] = ring[u]
               /\ u = rxdev => ring'[u].kind = "hdr" /\ ring'[u].frame = arrived + 1 /\ ring'[u].width = w
               /\ u > rxdev /\ u < rxdev + w => ring'[u].kind = "data"
               /\ u >= rxdev + w => ring'[u].kind = "zero"
    <3>1. CASE u < rxdev
      <4>1. u # rxdev /\ u \notin rxdev + 1 .. rxdev + w - 1 /\ ~(u > rxdev) /\ ~(u >= rxdev + w)
        BY <2>3, <3>1
      <4>2. ring'[u] = ring[u]
        BY <1>1, <2>5, <4>1
      <4> QED
        BY <4>1, <4>2
    <3>2. CASE u = rxdev
      BY <1>1, <2>3, <2>5, <3>2 DEF Unit
    <3>3. CASE u > rxdev /\ u < rxdev + w
      BY <1>1, <2>3, <2>5, <3>3 DEF Unit
    <3>4. CASE u >= rxdev + w
      <4>1. u # rxdev /\ u \notin rxdev + 1 .. rxdev + w - 1 /\ ~(u < rxdev) /\ ~(u < rxdev + w) /\ u >= rxdev
        BY <2>3, <3>4
      <4>2. ring'[u] = ring[u]
        BY <1>1, <2>5, <4>1
      <4>3. ring[u].kind = "zero"
        BY <2>2, <4>1 DEF ChainInv
      <4> QED
        BY <4>1, <4>2, <4>3
    <3> QED
      BY <2>3, <3>1, <3>2, <3>3, <3>4
  <2>8. rxdev \in 0 .. NUnits - 1 /\ arrived' = arrived + 1
    BY <1>0, <2>3
  <2>9. ASSUME NEW u \in 0 .. NUnits - 1, ring'[u].kind = "hdr" PROVE HeaderOk(u)'
    <3>1. CASE u = rxdev
      BY <2>3, <2>4, <2>7, <2>8, <3>1 DEF HeaderOk
    <3>2. CASE u # rxdev
      <4>1. u < rxdev /\ ring'[u] = ring[u]
        BY <2>3, <2>7, <2>9, <3>2
      <4>2. HeaderOk(u)
        BY <2>2, <2>9, <4>1 DEF ChainInv
      <4> DEFINE f == ring[u].frame
                 v == u + ring[u].width
      <4>3. /\ f \in 1 .. arrived /\ ring[u].width \in Nat /\ v <= rxdev
            /\ f = arrived => v = rxdev
            /\ f < arrived => ring[v].kind = "hdr" /\ ring[v].frame = f + 1
        BY <4>2 DEF HeaderOk
      <4>4. v \in 0 .. NUnits - 1 /\ f \in Nat
        BY <2>3, <4>3
      <4>5. ring'[v].kind = "hdr" /\ ring'[v].frame = f + 1
        <5>1. CASE f = arrived
          BY <2>7, <2>8, <4>3, <5>1
        <5>2. CASE f < arrived
          <6>1. ring[v].kind = "hdr" /\ ring[v].frame = f + 1
            BY <4>3, <5>2
          <6>2. v < rxdev
            BY <2>2, <2>3, <4>4, <6>1 DEF ChainInv
          <6> QED
            BY <2>7, <4>4, <6>1, <6>2
        <5> QED
          BY <2>3, <4>3, <5>1, <5>2
      <4>6. f \in 1 .. arrived' /\ v <= rxdev' /\ f # arrived'
        BY <2>3, <2>4, <2>8, <4>3
      <4> QED
        BY <4>1, <4>3, <4>5, <4>6 DEF HeaderOk
    <3> QED
      BY <3>1, <3>2
  <2>10. rxi' = rxi /\ rxi < NUnits /\ ring'[rxi].kind = "hdr" /\ ring'[rxi].frame = taken + 1
    <3>1. CASE taken = arrived
      BY <1>0, <2>2, <2>3, <2>7, <2>8, <3>1 DEF ChainInv
    <3>2. CASE taken < arrived
      <4>1. rxi \in 0 .. NUnits - 1 /\ ring[rxi].kind = "hdr" /\ ring[rxi].frame = taken + 1
        BY <2>2, <2>3, <3>2 DEF ChainInv
      <4>2. rxi < rxdev
        BY <2>2, <2>3, <4>1 DEF ChainInv
      <4>3. ring'[rxi] = ring[rxi]
        BY <2>7, <4>1, <4>2
      <4> QED
        BY <1>0, <2>3, <4>1, <4>3
    <3> QED
      BY <2>3, <3>1, <3>2
  <2>11. \A u \in 0 .. NUnits - 1 : u >= rxdev' => ring'[u].kind = "zero"
    BY <2>3, <2>4, <2>7
  <2>12. rxdev' \in Nat /\ rxdev' < NUnits /\ taken' \in Nat /\ taken' = taken /\ taken' < arrived' /\ arrived' \in Nat
    BY <1>0, <2>3, <2>4, <2>8
  <2> QED
    BY <1>0, <2>3, <2>6, <2>9, <2>10, <2>11, <2>12 DEF ChainInv
<1> QED
  BY <1>0, <1>2, <1>3 DEF RxInv

LEMMA RtlPollStep ==
    ASSUME RxInv, RtlPollRx \/ RtlPollData, UNCHANGED <<nic, ring, rxdev, writing, arrived, ready>>
    PROVE  RxInv'
<1>0. /\ nic = "rtl8139" /\ UNCHANGED <<rx, rdt>> /\ ~writing /\ arrived \in Nat
      /\ nic \in Kinds /\ rx \in [0 .. NR - 1 -> SlotType] /\ HeaderFits
  BY KindFacts DEF RtlPollRx, RtlPollData, RxInv
<1>1. NR' = NR
  BY DEF NR
<1>2. RxSound' => RxSound
  BY DEF RtlPollRx, RtlPollData, RxSound
<1>3. ASSUME RxSound PROVE ChainInv'
  <2>1. ChainInv
    BY <1>0, <1>3 DEF RxInv
  <2>2. /\ rxdev \in Nat /\ NUnits \in Nat /\ rxi \in 0 .. NUnits - 1
        /\ taken \in Nat /\ arrived \in Nat /\ taken <= arrived
    BY <1>0, <2>1, RingAssumption DEF ChainInv, HeaderFits
  <2>3. ring[rxi].kind # "zero"
    BY DEF RtlPollRx, RtlPollData
  <2>4. taken < arrived /\ ring[rxi].kind = "hdr" /\ ring[rxi].frame = taken + 1
    BY <2>1, <2>2, <2>3 DEF ChainInv
  <2>5. rxi' = (rxi + ring[rxi].width) % NUnits /\ taken' = taken + 1
    BY <2>4 DEF RtlPollRx, RtlPollData
  <2> DEFINE v == rxi + ring[rxi].width
  <2>6. /\ v \in Nat /\ v <= rxdev
        /\ taken + 1 = arrived => v = rxdev
        /\ taken + 1 < arrived => ring[v].kind = "hdr" /\ ring[v].frame = taken + 1 + 1
    BY <2>1, <2>2, <2>4 DEF ChainInv, HeaderOk
  <2>7. v < NUnits
    BY <2>1, <2>2, <2>4, <2>6 DEF ChainInv
  <2>8. rxi' = v
    BY <2>2, <2>5, <2>6, <2>7, NoWrap
  <2> HIDE DEF v
  <2>9. taken' \in Nat /\ taken' <= arrived' /\ rxi' \in Nat /\ arrived' = arrived /\ rxi' < NUnits
    BY <2>2, <2>4, <2>5, <2>6, <2>7, <2>8
  <2>10. /\ taken' = arrived' => rxi' = rxdev'
         /\ taken' < arrived' => ring'[rxi'].kind = "hdr" /\ ring'[rxi'].frame = taken' + 1
    BY <2>5, <2>6, <2>8, <2>9
  <2>11. \A u \in 0 .. NUnits - 1 : HeaderOk(u) => HeaderOk(u)'
    BY DEF HeaderOk
  <2> QED
    BY <2>1, <2>9, <2>10, <2>11 DEF ChainInv
<1> QED
  BY <1>0, <1>1, <1>2, <1>3 DEF RxInv

\* A descriptor driver empties the slot it looks at.
LEMMA DescTake ==
    ASSUME DescInv, nic \in Kinds, FrameReady, rx \in [0 .. NR - 1 -> SlotType],
           UNCHANGED <<nic, rxdev, writing, arrived, ready>>,
           nic = "vmxnet3" => ready, nic = "e1000" => rdt' = rxi,
           taken' = taken + 1, rxi' = After(NR, rxi), rx'[rxi].own = "dev",
           \A s \in 0 .. NR - 1 : /\ rx'[s].frame = rx[s].frame
                                  /\ s # rxi => (rx'[s].own = "drv" <=> rx[s].own = "drv")
    PROVE  DescInv'
<1>1. NR' = NR /\ NR \in Nat /\ NR > 0
  BY RxSize DEF NR
<1>2. /\ RingOk(FullRx, HoldRx, NR, rxi, rxdev, taken, arrived) /\ rxdev \in 0 .. NR - 1
      /\ rxi \in 0 .. NR - 1 /\ taken \in Nat /\ arrived \in Nat
  BY DEF DescInv, RingOk
<1>3. rxi \in FullRx /\ rxi \notin FullRx'
  BY <1>1, <1>2 DEF FullRx, FrameReady
<1>4. \A s \in 0 .. NR - 1 : s # rxi => (s \in FullRx' <=> s \in FullRx) /\ (s \in FullRx => HoldRx'[s] = HoldRx[s])
  BY <1>1 DEF FullRx, HoldRx
<1>5. RingOk(FullRx', HoldRx', NR, After(NR, rxi), rxdev, taken + 1, arrived)
  BY <1>1, <1>2, <1>3, <1>4, RingTake
<1>6. writing => rxdev \notin FullRx' /\ rx'[rxdev].frame = arrived + 1
  BY <1>2, <1>3, <1>4 DEF DescInv
<1>7. ASSUME nic = "e1000"
      PROVE  /\ rdt' \in 0 .. NR - 1 /\ Ahead(NR, rxi', rdt') = NR - 1
             /\ arrived - taken' < NR /\ (writing => arrived - taken' < NR - 1)
  <2>1. Ahead(NR, After(NR, rxi), rxi) = NR - 1
    BY <1>1, <1>2, AheadFacts
  <2> QED
    BY <1>1, <1>2, <1>7, <2>1 DEF DescInv
<1> QED
  BY <1>1, <1>5, <1>6, <1>7 DEF DescInv

\* What emptying a slot does to the slots.
LEMMA ConsumedFacts ==
    ASSUME NEW n \in Nat, rx \in [0 .. n - 1 -> SlotType]
    PROVE  /\ Consumed(rx) \in [0 .. n - 1 -> SlotType]
           /\ rxi \in 0 .. n - 1 => Consumed(rx)[rxi].own = "dev"
           /\ \A s \in 0 .. n - 1 : /\ Consumed(rx)[s].frame = rx[s].frame
                                    /\ s # rxi => Consumed(rx)[s] = rx[s]
  BY DEF Consumed, SlotType

LEMMA DescPollStep ==
    ASSUME RxInv, UNCHANGED <<nic, ring, rxdev, writing, arrived, ready>>,
           VirtioPollRx \/ MmioPollRx \/ E1000PollRx \/ Rtl8168PollRx \/ PcnetPollRx
    PROVE  RxInv'
<1>0. /\ nic \in {"virtio", "virtio-mmio", "e1000", "rtl8168", "pcnet"} /\ nic \in Kinds /\ FrameReady
      /\ rx' = Consumed(rx) /\ taken' = taken + 1 /\ slip' = slip
      /\ (nic = "e1000" => rdt' = rxi)
      /\ (nic \in Virtio => rxi' = rxi) /\ (nic \notin Virtio => rxi' = RxNext(nic, rxi))
  BY KindFacts DEF VirtioPollRx, MmioPollRx, E1000PollRx, Rtl8168PollRx, PcnetPollRx, RequeueRxOnly, Virtio
<1>1. rx \in [0 .. NR - 1 -> SlotType] /\ arrived \in Nat /\ NR \in Nat /\ NR' = NR
  BY <1>0, RxSize DEF RxInv, NR
<1>2. rx' \in [0 .. NR - 1 -> SlotType]
  BY <1>0, <1>1, ConsumedFacts
<1>3. ASSUME RxSound PROVE DescInv'
  <2>1. DescInv
    BY <1>0, <1>3 DEF RxInv
  <2>2. rxi \in 0 .. NR - 1 /\ rxi \in Nat
    BY <1>1, <2>1 DEF DescInv, RingOk
  <2>3. rxi' = After(NR, rxi)
    <3>1. CASE nic \in Virtio
      <4>1. NR = 1
        BY <3>1 DEF NR, RxN
      <4>2. rxi = 0 /\ After(1, 0) = 0
        BY <2>2, <4>1 DEF After
      <4> QED
        BY <1>0, <3>1, <4>1, <4>2
    <3>2. CASE nic \notin Virtio
      BY <1>0, <2>2, <3>2, RxSize
    <3> QED
      BY <3>1, <3>2
  <2>4. /\ rx'[rxi].own = "dev"
        /\ \A s \in 0 .. NR - 1 : /\ rx'[s].frame = rx[s].frame
                                  /\ s # rxi => (rx'[s].own = "drv" <=> rx[s].own = "drv")
    BY <1>0, <1>1, <2>2, ConsumedFacts
  <2> QED
    BY <1>0, <1>1, <2>1, <2>3, <2>4, DescTake
<1>4. RxSound' <=> RxSound
  BY <1>0 DEF RxSound
<1> QED
  BY <1>0, <1>1, <1>2, <1>3, <1>4 DEF RxInv

LEMMA VmxPollStep == ASSUME RxInv, Vmxnet3PollRx PROVE RxInv'
<1> DEFINE next == RxNext(nic, rxi)
<1>0. /\ nic = "vmxnet3" /\ nic \in Kinds /\ ready
      /\ UNCHANGED <<nic, ring, rxdev, rdt, writing, arrived, ready>>
  BY KindFacts DEF Vmxnet3PollRx
<1>1. CASE ~(FrameReady /\ ~Vmxnet3Blocked)
  <2>1. UNCHANGED <<rx, rxi, taken, slip>>
    BY <1>1 DEF Vmxnet3PollRx
  <2> QED
    BY <1>0, <2>1, RxKept DEF rxVars
<1>2. CASE FrameReady /\ ~Vmxnet3Blocked
  <2>1. /\ rx' = [Consumed(rx) EXCEPT ![next].own = "dev"] /\ rxi' = next /\ taken' = taken + 1
        /\ slip' = IF rx[next].own = "drv" THEN slip \cup {"rearmed"} ELSE slip
    BY <1>2 DEF Vmxnet3PollRx
  <2> HIDE DEF next
  <2>2. rx \in [0 .. NR - 1 -> SlotType] /\ arrived \in Nat /\ NR \in Nat /\ NR' = NR
    BY <1>0, RxSize DEF RxInv, NR
  <2>3. Consumed(rx) \in [0 .. NR - 1 -> SlotType]
    BY <2>2, ConsumedFacts
  <2>4. rx' \in [0 .. NR - 1 -> SlotType]
    BY <2>1, <2>3 DEF SlotType
  <2>5. ASSUME RxSound' PROVE DescInv'
    <3>1. RxSound /\ rx[next].own # "drv"
      BY <2>1, <2>5 DEF RxSound
    <3>2. DescInv
      BY <1>0, <3>1 DEF RxInv
    <3>3. rxi \in 0 .. NR - 1 /\ rxi \in Nat
      BY <2>2, <3>2 DEF DescInv, RingOk
    <3>4. rxi' = After(NR, rxi)
      BY <2>1, <3>3, RxSize DEF next
    <3>5. \A s \in 0 .. NR - 1 : /\ rx'[s].frame = Consumed(rx)[s].frame
                                 /\ rx'[s].own = IF s = next THEN "dev" ELSE Consumed(rx)[s].own
      BY <2>1, <2>3 DEF SlotType
    <3>6. /\ Consumed(rx)[rxi].own = "dev"
          /\ \A s \in 0 .. NR - 1 : /\ Consumed(rx)[s].frame = rx[s].frame
                                    /\ s # rxi => Consumed(rx)[s] = rx[s]
      BY <2>2, <3>3, ConsumedFacts
    <3>7. /\ rx'[rxi].own = "dev"
          /\ \A s \in 0 .. NR - 1 : /\ rx'[s].frame = rx[s].frame
                                    /\ s # rxi => (rx'[s].own = "drv" <=> rx[s].own = "drv")
      BY <3>1, <3>3, <3>5, <3>6
    <3> QED
      BY <1>0, <1>2, <2>1, <2>2, <3>2, <3>4, <3>7, DescTake
  <2> QED
    BY <1>0, <2>2, <2>4, <2>5 DEF RxInv
<1> QED
  BY <1>1, <1>2

LEMMA SeedStep == ASSUME RxInv, SeedQueueState PROVE RxInv'
<1>0. /\ nic = "vmxnet3" /\ nic \in Kinds /\ ~ready /\ ready'
      /\ UNCHANGED <<nic, ring, rxi, rxdev, rdt, writing, arrived, taken, slip>>
      /\ rx' = [s \in RxSlots(nic) |-> RxSlot("dev")]
  BY KindFacts DEF SeedQueueState
<1>1. NR \in Nat /\ NR > 0 /\ NR' = NR /\ rx' = [s \in 0 .. NR - 1 |-> RxSlot("dev")] /\ arrived \in Nat
  BY <1>0, RxSize DEF NR, RxInv
<1>2. rx' \in [0 .. NR - 1 -> SlotType] /\ \A s \in 0 .. NR - 1 : rx'[s].own = "dev"
  BY <1>1 DEF RxSlot, SlotType
<1>3. ASSUME RxSound PROVE DescInv'
  <2>1. DescInv
    BY <1>0, <1>3 DEF RxInv
  <2>2. \A s \in 0 .. NR - 1 : s \notin FullRx /\ s \notin FullRx'
    BY <1>0, <1>1, <1>2, <2>1 DEF FullRx, DescInv
  <2>3. RingOk(FullRx, HoldRx, NR, rxi, rxdev, taken, arrived)
    BY <2>1 DEF DescInv
  <2>4. RingOk(FullRx', HoldRx', NR, rxi, rxdev, taken, arrived)
    BY <2>2, <2>3, RingSame
  <2> QED
    BY <1>0, <1>1, <2>1, <2>4 DEF DescInv
<1>4. RxSound' <=> RxSound
  BY <1>0 DEF RxSound
<1> QED
  BY <1>0, <1>1, <1>2, <1>3, <1>4 DEF RxInv

LEMMA RxStep == RxInv /\ [Next]_vars => RxInv'
<1> SUFFICES ASSUME RxInv, [Next]_vars PROVE RxInv'
  OBVIOUS
<1>0. slip \subseteq slip'
  BY SlipGrows
<1>1. CASE PollRxPacket
  <2>1. UNCHANGED <<nic, ring, rxdev, writing, arrived, ready>>
    BY <1>1 DEF PollRxPacket
  <2> QED
    BY <1>1, <2>1, RtlPollStep, DescPollStep DEF PollRxPacket
<1>2. CASE Air \/ Transmit \/ UNCHANGED vars
  <2>1. UNCHANGED <<nic, rxVars, ready>>
    BY <1>2 DEF Air, Transmit, vars
  <2> QED
    BY <1>0, <2>1, RxKept
<1> QED
  BY <1>1, <1>2, RxProbe, RxWriteStep, RxDoneStep, RtlArriveStep, VmxPollStep, SeedStep
     DEF Next, Device, Driver

\* Every driver takes the frames in the order the device handed them over, each once and none before
\* it is complete, until the RTL8139 reaches the end of its ring or vmxnet3 arms a full slot:
\* poll_rx_packet of the seven drivers, rings of every size, any number of frames.
THEOREM RxOrdered == Spec => []RxInOrder
<1>1. Spec => []RxInv
  BY RxInit, RxStep, PTL DEF Spec
<1> QED
  BY <1>1, RxInvGives, PTL

----------------------------------------------------------------------------
(* Sending: the invariant.  Up to a slip, the slots the device has yet to  *)
(* send are a run that starts where the device stands and ends where the   *)
(* driver fills next.  What keeps it from running full is a matter of the  *)
(* driver: one frame at a time (VirtIO, e1000), the slot's owner, or, for  *)
(* vmxnet3, a head that never passes the device.                           *)

TxN(n) == IF n \in Virtio THEN 1 ELSE NTx
NT == TxN(nic)
FullTx == {s \in 0 .. NT - 1 : tx[s].own}
HoldTx == [s \in 0 .. NT - 1 |-> tx[s].frame]

TxSlotType == [own : BOOLEAN, dd : BOOLEAN, cmd : BOOLEAN, frame : Nat]

TxUnused ==
    /\ tx = [s \in {0} |-> FreeTx] /\ txi = 0 /\ txdev = 0 /\ txhead = 0
    /\ owed = 0 /\ unseen = 0 /\ tx_wait = NoSlot /\ sub = 0 /\ aired = 0 /\ pc = "idle"

VirtioSend ==
    /\ owed \in Nat /\ unseen \in Nat /\ owed = sub - aired
    /\ pc = "idle" => owed = 0 /\ unseen = 0
    /\ pc = "used" => owed + unseen = 1

E1000Send ==
    /\ sub - aired <= 1
    /\ pc = "tail" => tx_wait = NoSlot
    /\ pc = "previous" => tx_wait # NoSlot
    /\ tx_wait = NoSlot => aired = sub
    /\ tx_wait # NoSlot => /\ tx_wait \in 0 .. NT - 1 /\ After(NT, tx_wait) = txi
                           /\ tx[tx_wait].dd => aired = sub

Vmxnet3Send == txhead \in 0 .. NT - 1 /\ sub - aired <= Ahead(NT, txhead, txi)

SendInv ==
    /\ RingOk(FullTx, HoldTx, NT, txdev, txi, aired, sub)
    /\ nic \in Virtio => VirtioSend
    /\ nic = "e1000" => E1000Send
    /\ nic = "vmxnet3" => Vmxnet3Send

PcInv ==
    /\ pc \in {"idle", "used", "previous", "tail", "host"}
    /\ pc = "used" => nic \in Virtio
    /\ pc \in {"previous", "tail"} => nic = "e1000"
    /\ pc = "host" => nic = "rtl8139"

TxInv ==
    /\ nic \in Kinds \cup {"unprobed", "none"} /\ sub \in Nat /\ PcInv
    /\ nic \notin Kinds => TxUnused
    /\ nic \in Kinds => tx \in [0 .. NT - 1 -> TxSlotType]
    /\ nic \in Kinds /\ TxSound => SendInv

\* The size of the transmit ring.
LEMMA TxSizes ==
    ASSUME NEW n
    PROVE  /\ TxN(n) \in Nat /\ TxN(n) > 0 /\ NTx \in Nat /\ NTx > 1 /\ TxSlots(n) = 0 .. TxN(n) - 1
           /\ (n \notin Virtio => TxN(n) = NTx)
           /\ \A s \in Nat : TxNext(n, s) = After(TxN(n), s)
<1>1. TxN(n) \in Nat /\ TxN(n) > 0 /\ NTx \in Nat /\ NTx > 1 /\ (n \notin Virtio => TxN(n) = NTx)
  BY RingAssumption DEF TxN
<1>2. TxSlots(n) = 0 .. TxN(n) - 1
  BY <1>1 DEF TxN, TxSlots
<1>3. \A s \in Nat : TxNext(n, s) = After(TxN(n), s)
  BY <1>1, <1>2 DEF TxNext, After
<1> QED
  BY <1>1, <1>2, <1>3

LEMMA TxSize ==
    /\ NT \in Nat /\ NT > 0 /\ NTx \in Nat /\ NTx > 1 /\ TxSlots(nic) = 0 .. NT - 1
    /\ (nic \notin Virtio => NT = NTx)
    /\ \A s \in Nat : TxNext(nic, s) = After(NT, s)
  BY TxSizes DEF NT

LEMMA TxInit == Init => TxInv
  BY KindFacts DEF Init, TxInv, TxUnused, PcInv

\* The device has something to send exactly when a frame is outstanding, and it is in its slot.
LEMMA MaySend ==
    ASSUME TxInv, nic \in Kinds, TxSound, DeviceMaySend
    PROVE  txdev \in FullTx /\ sub > aired
<1>1. SendInv
  BY DEF TxInv
<1>2. RingOk(FullTx, HoldTx, NT, txdev, txi, aired, sub)
  BY <1>1 DEF SendInv
<1>3. sub \in Nat /\ aired \in Nat /\ sub >= aired /\ txdev \in 0 .. NT - 1 /\ NT \in Nat
  BY <1>2, TxSize DEF RingOk
<1>4. (txdev \in FullTx <=> sub > aired) /\ (sub = aired => txi = txdev)
  BY <1>2, <1>3, RingTail
<1>5. CASE nic \in Virtio
  <2>a. nic # "e1000"
    BY <1>5 DEF Virtio
  <2>0. owed > 0
    BY <1>5, <2>a, Zenon DEF DeviceMaySend
  <2>1. owed > 0 /\ owed = sub - aired
    BY <1>1, <1>5, <2>0 DEF SendInv, VirtioSend
  <2> QED
    BY <1>3, <1>4, <2>1
<1>6. CASE nic = "e1000"
  <2>1. txdev # txi
    BY <1>6 DEF DeviceMaySend, Virtio
  <2> QED
    BY <1>3, <1>4, <2>1
<1>7. CASE nic \notin Virtio /\ nic # "e1000"
  <2>1. tx[txdev].own
    BY <1>7 DEF DeviceMaySend
  <2> QED
    BY <1>3, <1>4, <2>1 DEF FullTx
<1> QED
  BY <1>5, <1>6, <1>7

\* The invariant gives the property.
LEMMA TxInvGives == TxInv => TxFaithful
<1> SUFFICES ASSUME TxInv PROVE TxInOrder /\ OkMeansSent
  BY DEF TxFaithful
<1>1. ASSUME TxSound, nic \in Kinds, DeviceMaySend PROVE tx[txdev].frame = aired + 1
  <2>1. txdev \in FullTx
    BY <1>1, MaySend
  <2>2. RingOk(FullTx, HoldTx, NT, txdev, txi, aired, sub)
    BY <1>1 DEF TxInv, SendInv
  <2>3. HoldTx[txdev] = aired + 1
    BY <2>1, <2>2, RingHead, TxSize
  <2> QED
    BY <2>1, <2>3 DEF HoldTx, FullTx
<1>2. ASSUME TxSound, nic \in Virtio, pc = "idle" PROVE aired = sub
  <2>1. nic \in Kinds
    BY <1>2, KindFacts DEF Virtio
  <2>2. SendInv
    BY <1>2, <2>1 DEF TxInv
  <2>3. sub - aired = 0 /\ sub \in Nat /\ aired \in Nat
    BY <1>2, <2>2 DEF SendInv, VirtioSend, RingOk
  <2> QED
    BY <2>3
<1> QED
  BY <1>1, <1>2 DEF TxInOrder, OkMeansSent

\* Steps that touch nothing of the transmit side.
LEMMA TxKept ==
    ASSUME TxInv, UNCHANGED <<nic, tx, txi, txdev, txhead, owed, unseen, tx_wait, sub, aired, pc>>,
           slip \subseteq slip'
    PROVE  TxInv'
<1>1. TxSound' => TxSound
  BY DEF TxSound
<1>2. NT' = NT /\ FullTx' = FullTx /\ HoldTx' = HoldTx
  BY DEF NT, FullTx, HoldTx
<1>3. SendInv => SendInv'
  BY <1>2 DEF SendInv, VirtioSend, E1000Send, Vmxnet3Send
<1> QED
  BY <1>1, <1>2, <1>3 DEF TxInv, TxUnused, PcInv

LEMMA TxProbe == ASSUME TxInv, Probe PROVE TxInv'
<1>0. TxUnused /\ UNCHANGED <<txi, txdev, txhead, owed, unseen, tx_wait, sub, aired, pc, slip>>
  BY KindFacts DEF TxInv, Probe
<1>1. CASE nic' = "none"
  <2>1. UNCHANGED tx
    BY <1>1, KindFacts DEF Probe
  <2> QED
    BY <1>0, <1>1, <2>1, KindFacts DEF TxInv, TxUnused, PcInv
<1>2. CASE nic' # "none"
  <2>1. PICK i \in DOMAIN ProbeOrder : nic' = ProbeOrder[i] /\ tx' = [s \in TxSlots(ProbeOrder[i]) |-> FreeTx]
    BY <1>2 DEF Probe
  <2> DEFINE n == ProbeOrder[i]
             m == TxN(n)
  <2>2. n \in Kinds /\ nic' = n /\ NT' = m
    BY <2>1, KindFacts DEF NT
  <2>3. m \in Nat /\ m > 0 /\ TxSlots(n) = 0 .. m - 1
    BY TxSizes
  <2>4. tx' = [s \in 0 .. m - 1 |-> FreeTx]
    BY <2>1, <2>3
  <2> HIDE DEF n, m
  <2>5. tx' \in [0 .. m - 1 -> TxSlotType] /\ \A s \in 0 .. m - 1 : tx'[s].own = FALSE
    BY <2>4 DEF FreeTx, TxSlotType
  <2>6. \A s \in 0 .. m - 1 : s \notin FullTx'
    BY <2>5, <2>2 DEF FullTx
  <2>7. 0 \in 0 .. m - 1 /\ 0 \in Nat /\ m \in Nat /\ m > 0
    BY <2>3
  <2>8. RingOk(FullTx', HoldTx', m, 0, 0, 0, 0)
    BY <2>6, <2>7, RingEmpty
  <2>9. /\ txi' = 0 /\ txdev' = 0 /\ txhead' = 0 /\ owed' = 0 /\ unseen' = 0 /\ tx_wait' = NoSlot
        /\ sub' = 0 /\ aired' = 0 /\ pc' = "idle"
    BY <1>0 DEF TxUnused
  <2>10. Ahead(m, 0, 0) = 0
    BY <2>3 DEF Ahead
  <2>11. SendInv'
    BY <2>2, <2>7, <2>8, <2>9, <2>10 DEF SendInv, VirtioSend, E1000Send, Vmxnet3Send
  <2> QED
    BY <2>2, <2>5, <2>9, <2>11 DEF TxInv, PcInv
<1> QED
  BY <1>1, <1>2

\* The frame copied into the next slot.
Filled(f) == [own |-> TRUE, dd |-> FALSE, cmd |-> TRUE, frame |-> f]

LEMMA SubmitFacts ==
    ASSUME TxInv, nic \in Kinds, Submit, UNCHANGED nic
    PROVE  /\ tx' \in [0 .. NT - 1 -> TxSlotType] /\ sub' \in Nat /\ sub' = sub + 1 /\ NT' = NT
           /\ txi \in 0 .. NT - 1 => txi' = After(NT, txi) /\ tx'[txi] = Filled(sub + 1)
           /\ \A s \in 0 .. NT - 1 : s # txi => tx'[s] = tx[s]
<1>1. tx \in [0 .. NT - 1 -> TxSlotType] /\ sub \in Nat /\ NT' = NT /\ NT \in Nat
  BY TxSize DEF TxInv, NT
<1>2. tx' = [tx EXCEPT ![txi] = Filled(sub + 1)] /\ sub' = sub + 1 /\ txi' = TxNext(nic, txi)
  BY DEF Submit, Filled
<1>3. Filled(sub + 1) \in TxSlotType
  BY <1>1 DEF Filled, TxSlotType
<1>4. txi \in 0 .. NT - 1 => txi' = After(NT, txi)
  BY <1>1, <1>2, TxSize
<1> HIDE DEF Filled
<1>5. tx' \in [0 .. NT - 1 -> TxSlotType]
  BY <1>1, <1>2, <1>3
<1>6. (txi \in 0 .. NT - 1 => tx'[txi] = Filled(sub + 1)) /\ \A s \in 0 .. NT - 1 : s # txi => tx'[s] = tx[s]
  BY <1>1, <1>2
<1>7. sub' \in Nat
  BY <1>1, <1>2
<1> QED
  BY <1>1, <1>2, <1>4, <1>5, <1>6, <1>7

LEMMA SubmitRing ==
    ASSUME TxInv, nic \in Kinds, Submit, UNCHANGED <<nic, txdev, aired>>,
           RingOk(FullTx, HoldTx, NT, txdev, txi, aired, sub), txi \notin FullTx
    PROVE  RingOk(FullTx', HoldTx', NT, txdev, After(NT, txi), aired, sub + 1)
<1>1. txi \in 0 .. NT - 1 /\ NT \in Nat /\ NT' = NT
  BY TxSize, SubmitFacts DEF RingOk
<1>2. tx'[txi] = Filled(sub + 1) /\ \A s \in 0 .. NT - 1 : s # txi => tx'[s] = tx[s]
  BY <1>1, SubmitFacts
<1>3. txi \in FullTx' /\ HoldTx'[txi] = sub + 1
  BY <1>1, <1>2 DEF FullTx, HoldTx, Filled
<1>4. \A s \in 0 .. NT - 1 : s # txi => (s \in FullTx' <=> s \in FullTx) /\ (s \in FullTx => HoldTx'[s] = HoldTx[s])
  BY <1>1, <1>2 DEF FullTx, HoldTx
<1> QED
  BY <1>1, <1>3, <1>4, RingPut

LEMMA AirStep == ASSUME TxInv, Air PROVE TxInv'
<1>0. /\ nic \in Kinds /\ DeviceMaySend /\ tx \in [0 .. NT - 1 -> TxSlotType]
      /\ tx' = [tx EXCEPT ![txdev].own = FALSE, ![txdev].dd = TRUE]
      /\ txdev' = TxNext(nic, txdev) /\ aired' = aired + 1
      /\ UNCHANGED <<nic, txi, txhead, tx_wait, pc, sub, slip>>
  BY DEF Air, Works, TxInv
<1>1. NT \in Nat /\ NT' = NT /\ (TxSound' <=> TxSound)
  BY <1>0, TxSize DEF NT, TxSound
<1>2. tx' \in [0 .. NT - 1 -> TxSlotType]
  BY <1>0 DEF TxSlotType
<1>3. ASSUME TxSound PROVE SendInv'
  <2>1. SendInv /\ txdev \in FullTx /\ sub > aired
    BY <1>0, <1>3, MaySend DEF TxInv
  <2>2. RingOk(FullTx, HoldTx, NT, txdev, txi, aired, sub)
    BY <2>1 DEF SendInv
  <2>3. txdev \in 0 .. NT - 1 /\ txi \in 0 .. NT - 1 /\ aired \in Nat /\ sub \in Nat
    BY <2>2 DEF RingOk
  <2>4. /\ ~tx'[txdev].own /\ \A s \in 0 .. NT - 1 : s # txdev => tx'[s] = tx[s]
    BY <1>0, <2>3 DEF TxSlotType
  <2>5. txdev \notin FullTx'
    BY <2>4 DEF FullTx
  <2>6. \A s \in 0 .. NT - 1 : s # txdev => (s \in FullTx' <=> s \in FullTx) /\ (s \in FullTx => HoldTx'[s] = HoldTx[s])
    BY <1>1, <2>4 DEF FullTx, HoldTx
  <2>7. RingOk(FullTx', HoldTx', NT, After(NT, txdev), txi, aired + 1, sub)
    BY <1>1, <2>1, <2>2, <2>5, <2>6, RingTake
  <2>8. txdev' = After(NT, txdev)
    BY <1>0, <2>3, TxSize
  <2>9. ASSUME nic \in Virtio PROVE VirtioSend'
    <3>1. owed' = owed - 1 /\ unseen' = unseen + 1
      BY <2>9 DEF Air
    <3>2. VirtioSend
      BY <2>1, <2>9 DEF SendInv
    <3> QED
      BY <1>0, <2>1, <2>3, <3>1, <3>2 DEF VirtioSend
  <2>10. ASSUME nic = "e1000" PROVE E1000Send'
    <3>1. E1000Send
      BY <2>1, <2>10 DEF SendInv
    <3>2. sub = aired + 1 /\ tx_wait # NoSlot
      BY <2>1, <2>3, <3>1 DEF E1000Send
    <3> QED
      BY <1>0, <1>1, <2>3, <3>1, <3>2 DEF E1000Send
  <2>11. ASSUME nic = "vmxnet3" PROVE Vmxnet3Send'
    <3>1. txhead \in 0 .. NT - 1 /\ sub - aired <= Ahead(NT, txhead, txi) /\ Ahead(NT, txhead, txi) \in 0 .. NT - 1
      BY <1>1, <2>1, <2>3, <2>11, AheadFacts DEF SendInv, Vmxnet3Send
    <3> QED
      BY <1>0, <1>1, <2>3, <3>1 DEF Vmxnet3Send
  <2> QED
    BY <1>0, <1>1, <2>7, <2>8, <2>9, <2>10, <2>11 DEF SendInv
<1> QED
  BY <1>0, <1>1, <1>2, <1>3 DEF TxInv, PcInv

RxdevType == rxdev \in Nat

LEMMA RxdevStep == RxdevType /\ [Next]_vars => RxdevType'
<1> SUFFICES ASSUME rxdev \in Nat, [Next]_vars, rxdev' # rxdev PROVE rxdev' \in Nat
  BY DEF RxdevType
<1>1. RxDone \/ RtlArrive
  BY DEF Next, vars, rxVars, Device, Driver, RxWrite, Air, Probe, PollRxPacket, Vmxnet3PollRx, SeedQueueState,
         Transmit
<1>2. CASE RxDone
  BY <1>2 DEF RxDone, RxNext
<1>3. CASE RtlArrive
  <2>1. PICK w \in Widths : rxdev' = (rxdev + w) % NUnits
    BY <1>3 DEF RtlArrive
  <2>2. NUnits \in Nat /\ NUnits > 0 /\ w \in Nat
    BY RingAssumption
  <2> QED
    BY <2>1, <2>2
<1> QED
  BY <1>1, <1>2, <1>3

LEMMA RtlArriveTx == ASSUME TxInv, RtlArrive, rxdev \in Nat PROVE TxInv'
<1>0. /\ nic \in Kinds /\ tx \in [0 .. NT - 1 -> TxSlotType] /\ slip \subseteq slip'
      /\ UNCHANGED <<nic, txi, txdev, txhead, owed, unseen, tx_wait, sub, aired, pc>>
  BY DEF RtlArrive, Works, TxInv
<1>1. PICK w \in Widths :
        /\ tx' = IF rxdev + w > NUnits THEN [tx EXCEPT ![0].frame = 0] ELSE tx
        /\ slip' = IF rxdev + w >= NUnits THEN slip \cup {"ring_end"} ELSE slip
  BY DEF RtlArrive
<1>2. CASE tx' = tx
  BY <1>0, <1>2, TxKept
<1>3. CASE tx' # tx
  <2>1. rxdev + w > NUnits /\ tx' = [tx EXCEPT ![0].frame = 0]
    BY <1>1, <1>3
  <2>2. rxdev + w >= NUnits
    BY <2>1, RingAssumption
  <2>3. ~TxSound'
    BY <1>1, <2>2 DEF TxSound
  <2>4. NT' = NT
    BY <1>0 DEF NT
  <2>5. tx' \in [0 .. NT - 1 -> TxSlotType]
    BY <1>0, <2>1 DEF TxSlotType
  <2> QED
    BY <1>0, <2>3, <2>4, <2>5 DEF TxInv, PcInv
<1> QED
  BY <1>2, <1>3

\* A slot a driver fills only when it is its own.
LEMMA OwnedSubmit ==
    ASSUME TxInv, nic \in {"rtl8139", "rtl8168", "pcnet"}, ~tx[txi].own, Submit, pc' = "idle",
           UNCHANGED <<nic, txdev, aired, slip>>
    PROVE  TxInv'
<1>1. nic \in Kinds /\ nic \notin Virtio /\ (TxSound' <=> TxSound)
  BY KindFacts DEF Virtio, TxSound
<1>2. tx' \in [0 .. NT - 1 -> TxSlotType] /\ sub' \in Nat /\ sub' = sub + 1 /\ NT' = NT
  BY <1>1, SubmitFacts
<1>3. ASSUME TxSound PROVE SendInv'
  <2>1. RingOk(FullTx, HoldTx, NT, txdev, txi, aired, sub)
    BY <1>1, <1>3 DEF TxInv, SendInv
  <2>2. txi \notin FullTx /\ txi \in 0 .. NT - 1
    BY <2>1 DEF FullTx, RingOk
  <2>3. RingOk(FullTx', HoldTx', NT, txdev, After(NT, txi), aired, sub + 1) /\ txi' = After(NT, txi)
    BY <1>1, <2>1, <2>2, SubmitRing, SubmitFacts
  <2> QED
    BY <1>1, <1>2, <2>3 DEF SendInv
<1> QED
  BY <1>1, <1>2, <1>3 DEF TxInv, PcInv

LEMMA VirtioStep == ASSUME TxInv, VirtioTransmit \/ MmioTransmit, UNCHANGED nic PROVE TxInv'
<1>0. nic \in Virtio /\ nic \in Kinds /\ pc = "idle" /\ Submit /\ owed' = owed + 1 /\ pc' = "used"
      /\ UNCHANGED <<txdev, unseen, aired, slip>>
  BY KindFacts DEF VirtioTransmit, MmioTransmit, Virtio
<1>1. tx' \in [0 .. NT - 1 -> TxSlotType] /\ sub' \in Nat /\ sub' = sub + 1 /\ NT' = NT
  BY <1>0, SubmitFacts
<1>2. ASSUME TxSound PROVE SendInv'
  <2>1. RingOk(FullTx, HoldTx, NT, txdev, txi, aired, sub) /\ VirtioSend
    BY <1>0, <1>2 DEF TxInv, SendInv
  <2>2. txi \in 0 .. NT - 1 /\ sub \in Nat /\ aired \in Nat /\ owed = 0 /\ unseen = 0 /\ sub = aired
    BY <1>0, <2>1 DEF RingOk, VirtioSend
  <2>3. txi \notin FullTx
    <3>1. sub - aired # NT
      BY <2>2, TxSize
    <3> QED
      BY <2>1, <3>1, RingTail, TxSize
  <2>4. RingOk(FullTx', HoldTx', NT, txdev, After(NT, txi), aired, sub + 1) /\ txi' = After(NT, txi)
    BY <1>0, <2>1, <2>2, <2>3, SubmitRing, SubmitFacts
  <2>5. VirtioSend'
    BY <1>0, <1>1, <2>2 DEF VirtioSend
  <2>6. nic # "e1000" /\ nic # "vmxnet3"
    BY <1>0 DEF Virtio
  <2> QED
    BY <1>0, <1>1, <2>4, <2>5, <2>6 DEF SendInv
<1>3. TxSound' <=> TxSound
  BY <1>0 DEF TxSound
<1> QED
  BY <1>0, <1>1, <1>2, <1>3 DEF TxInv, PcInv

\* Steps of a call that move no frame.
LEMMA UsedStep == ASSUME TxInv, UsedSeen \/ UsedRunsOut, UNCHANGED nic PROVE TxInv'
<1>0. /\ pc = "used" /\ nic \in Virtio /\ nic \in Kinds /\ pc' = "idle"
      /\ UNCHANGED <<tx, txi, txdev, txhead, owed, tx_wait, sub, aired>>
  BY KindFacts DEF UsedSeen, UsedRunsOut, Returns, TxInv, PcInv, Virtio, txVars
<1>1. NT' = NT /\ FullTx' = FullTx /\ HoldTx' = HoldTx
  BY <1>0 DEF NT, FullTx, HoldTx
<1>2. ASSUME TxSound' PROVE SendInv'
  <2>1. UsedSeen
    BY <1>2 DEF UsedRunsOut, RunsOut, TxSound
  <2>2. TxSound /\ unseen > 0 /\ unseen' = 0
    BY <1>2, <2>1 DEF UsedSeen, TxSound
  <2>3. SendInv
    BY <1>0, <2>2 DEF TxInv
  <2>4. VirtioSend'
    BY <1>0, <2>2, <2>3 DEF SendInv, VirtioSend
  <2>5. nic # "e1000" /\ nic # "vmxnet3"
    BY <1>0 DEF Virtio
  <2> QED
    BY <1>0, <1>1, <2>3, <2>4, <2>5 DEF SendInv
<1> QED
  BY <1>0, <1>1, <1>2 DEF TxInv, PcInv

LEMMA HostStep ==
    ASSUME TxInv, UNCHANGED <<nic, txVars>>, slip \subseteq slip', nic \in {"rtl8139", "rtl8168", "pcnet"},
           pc' = "idle" \/ (pc' = "host" /\ nic = "rtl8139")
    PROVE  TxInv'
<1>0. UNCHANGED <<tx, txi, txdev, txhead, owed, unseen, tx_wait, sub, aired>> /\ nic \in Kinds
  BY KindFacts DEF txVars
<1>1. NT' = NT /\ FullTx' = FullTx /\ HoldTx' = HoldTx /\ (TxSound' => TxSound)
  BY <1>0 DEF NT, FullTx, HoldTx, TxSound
<1>2. nic \notin Virtio /\ nic # "e1000" /\ nic # "vmxnet3"
  BY DEF Virtio
<1>3. SendInv => SendInv'
  BY <1>0, <1>1, <1>2 DEF SendInv
<1> QED
  BY <1>0, <1>1, <1>2, <1>3 DEF TxInv, PcInv

LEMMA E1000Call == ASSUME TxInv, E1000Transmit \/ PreviousDone, UNCHANGED nic PROVE TxInv'
<1>0. /\ nic = "e1000" /\ nic \in Kinds /\ nic \notin Virtio /\ tx \in [0 .. NT - 1 -> TxSlotType]
      /\ UNCHANGED <<txi, txdev, sub, aired>> /\ pc' \in {"tail", "previous"} /\ NT' = NT /\ NT = NTx
  BY KindFacts, TxSize DEF E1000Transmit, PreviousDone, TxInv, PcInv, Virtio, txVars, NT
<1>1. tx' \in [0 .. NT - 1 -> TxSlotType] /\ \A s \in 0 .. NT - 1 : tx'[s].own = tx[s].own /\ tx'[s].frame = tx[s].frame
  <2>1. CASE E1000Transmit
    BY <1>0, <2>1 DEF E1000Transmit, txVars
  <2>2. CASE PreviousDone
    <3>1. tx' = [tx EXCEPT ![tx_wait].dd = FALSE]
      BY <2>2 DEF PreviousDone
    <3> QED
      BY <1>0, <3>1 DEF TxSlotType
  <2> QED
    BY <2>1, <2>2
<1>2. ASSUME TxSound' PROVE SendInv'
  <2>1. TxSound
    BY <1>2 DEF TxSound, E1000Transmit, PreviousDone, RunsOut
  <2>2. RingOk(FullTx, HoldTx, NT, txdev, txi, aired, sub) /\ E1000Send
    BY <1>0, <2>1 DEF TxInv, SendInv
  <2>3. RingOk(FullTx', HoldTx', NT, txdev, txi, aired, sub)
    <3>1. \A s \in 0 .. NT - 1 : (s \in FullTx' <=> s \in FullTx) /\ (s \in FullTx => HoldTx'[s] = HoldTx[s])
      BY <1>0, <1>1 DEF FullTx, HoldTx
    <3> QED
      BY <2>2, <3>1, RingSame
  <2>4. E1000Send'
    <3>1. CASE E1000Transmit
      <4>1. UNCHANGED <<tx, tx_wait>> /\ pc' = IF tx_wait = NoSlot THEN "tail" ELSE "previous"
        BY <3>1 DEF E1000Transmit, txVars
      <4> QED
        BY <1>0, <2>2, <4>1 DEF E1000Send, NoSlot
    <3>2. CASE PreviousDone
      <4>1. pc = "previous" /\ pc' = "tail" /\ tx_wait' = NoSlot
        BY <3>2 DEF PreviousDone
      <4>2. tx[tx_wait].dd
        BY <1>2, <3>2 DEF PreviousDone, RunsOut, TxSound
      <4>3. aired = sub
        BY <2>2, <4>1, <4>2 DEF E1000Send
      <4> QED
        BY <1>0, <2>2, <4>1, <4>3 DEF E1000Send, NoSlot
    <3> QED
      BY <3>1, <3>2
  <2> QED
    BY <1>0, <2>3, <2>4 DEF SendInv
<1> QED
  BY <1>0, <1>1, <1>2 DEF TxInv, PcInv

LEMMA TailStep == ASSUME TxInv, TailDone, UNCHANGED nic PROVE TxInv'
<1>0. /\ nic = "e1000" /\ nic \in Kinds /\ nic \notin Virtio /\ pc = "tail" /\ pc' = "idle" /\ Submit
      /\ tx_wait' = txi /\ UNCHANGED <<txdev, aired, slip>> /\ NT = NTx /\ NTx > 1 /\ NTx \in Nat
  BY KindFacts, TxSize DEF TailDone, Returns, TxInv, PcInv, Virtio
<1>1. tx' \in [0 .. NT - 1 -> TxSlotType] /\ sub' \in Nat /\ sub' = sub + 1 /\ NT' = NT
  BY <1>0, SubmitFacts
<1>2. ASSUME TxSound PROVE SendInv'
  <2>1. RingOk(FullTx, HoldTx, NT, txdev, txi, aired, sub) /\ E1000Send
    BY <1>0, <1>2 DEF TxInv, SendInv
  <2>2. txi \in 0 .. NT - 1 /\ sub \in Nat /\ aired \in Nat /\ sub = aired
    BY <1>0, <2>1 DEF RingOk, E1000Send
  <2>3. txi \notin FullTx
    <3>1. sub - aired # NT
      BY <1>0, <2>2
    <3> QED
      BY <2>1, <3>1, RingTail, TxSize
  <2>4. RingOk(FullTx', HoldTx', NT, txdev, After(NT, txi), aired, sub + 1)
    BY <1>0, <2>1, <2>2, <2>3, SubmitRing
  <2>5. txi' = After(NT, txi) /\ tx'[txi] = Filled(sub + 1)
    BY <1>0, <2>2, SubmitFacts
  <2>6. tx'[txi].dd = FALSE
    BY <2>5 DEF Filled
  <2>7. txi # NoSlot /\ sub' - aired <= 1
    BY <1>0, <1>1, <2>2 DEF NoSlot
  <2>8. E1000Send'
    BY <1>0, <1>1, <2>2, <2>5, <2>6, <2>7 DEF E1000Send, NoSlot
  <2> QED
    BY <1>0, <1>1, <2>4, <2>5, <2>8 DEF SendInv
<1>3. TxSound' <=> TxSound
  BY <1>0 DEF TxSound
<1> QED
  BY <1>0, <1>1, <1>2, <1>3 DEF TxInv, PcInv

----------------------------------------------------------------------------
(* vmxnet3: the head that is reaped never passes the device.               *)

\* The slots between two places are those nearer than the second, and their number is the distance.
LEMMA BetweenSlots ==
    ASSUME NEW a \in 0 .. NTx - 1, NEW b \in 0 .. NTx - 1, NEW s
    PROVE  s \in Between(a, b) <=> s \in 0 .. NTx - 1 /\ Ahead(NTx, a, s) < Ahead(NTx, a, b)
<1>1. NTx \in Nat
  BY RingAssumption
<1>2. s \in Between(a, b) => s \in 0 .. NTx - 1
  BY <1>1 DEF Between
<1>3. ASSUME s \in 0 .. NTx - 1 PROVE s \in Between(a, b) <=> Ahead(NTx, a, s) < Ahead(NTx, a, b)
  BY <1>1, <1>3 DEF Between, Ahead
<1> QED
  BY <1>2, <1>3

LEMMA BetweenSize ==
    ASSUME NEW a \in 0 .. NTx - 1, NEW b \in 0 .. NTx - 1
    PROVE  Cardinality(Between(a, b)) = Ahead(NTx, a, b)
<1>1. NTx \in Nat
  BY RingAssumption
<1>2. \A x, y \in Int : IsFiniteSet(x .. y) /\ Cardinality(x .. y) = IF x > y THEN 0 ELSE y - x + 1
  BY FS_Interval
<1>3. CASE a <= b
  <2>0. a \in Int /\ b - 1 \in Int
    BY <1>1
  <2>a. Cardinality(a .. b - 1) = IF a > b - 1 THEN 0 ELSE b - 1 - a + 1
    BY <1>2, <2>0
  <2>1. Cardinality(a .. b - 1) = b - a
    BY <1>3, <2>a
  <2> QED
    BY <1>3, <2>1 DEF Between, Ahead
<1>4. CASE ~(a <= b)
  <2> DEFINE X == a .. NTx - 1
             Y == 0 .. b - 1
  <2>1. IsFiniteSet(X) /\ IsFiniteSet(Y) /\ Cardinality(X) = NTx - a /\ Cardinality(Y) = b
    <3>1. a \in Int /\ NTx - 1 \in Int /\ 0 \in Int /\ b - 1 \in Int
      BY <1>1
    <3>2. /\ IsFiniteSet(X) /\ IsFiniteSet(Y) /\ Cardinality(X) = (IF a > NTx - 1 THEN 0 ELSE NTx - 1 - a + 1)
          /\ Cardinality(Y) = IF 0 > b - 1 THEN 0 ELSE b - 1 - 0 + 1
      BY <1>2, <3>1
    <3> QED
      BY <1>1, <3>2
  <2>2. X \cap Y = {}
    BY <1>1, <1>4
  <2>3. Cardinality(X \cap Y) = 0
    BY <2>2, FS_EmptySet
  <2>4. Cardinality(X \cup Y) = Cardinality(X) + Cardinality(Y) - Cardinality(X \cap Y)
    BY <2>1, FS_Union
  <2>5. Between(a, b) = X \cup Y
    BY <1>4 DEF Between
  <2>6. Ahead(NTx, a, b) = b + NTx - a
    BY <1>4 DEF Ahead
  <2> QED
    BY <1>1, <2>1, <2>3, <2>4, <2>5, <2>6
<1> QED
  BY <1>3, <1>4

\* reap_tx_completions stops at the first slot the device has yet to send, at the latest where the
\* driver fills next.
LEMMA ReapedOk ==
    ASSUME nic = "vmxnet3", SendInv
    PROVE  ReapedHead \in 0 .. NT - 1 /\ sub - aired <= Ahead(NT, ReapedHead, txi)
<1>0. NT = NTx /\ NTx \in Nat /\ NTx > 1
  BY TxSize DEF Virtio
<1>1. /\ RingOk(FullTx, HoldTx, NTx, txdev, txi, aired, sub) /\ txhead \in 0 .. NTx - 1
      /\ sub - aired <= Ahead(NTx, txhead, txi)
  BY <1>0 DEF SendInv, Vmxnet3Send
<1>2. txi \in 0 .. NTx - 1 /\ txdev \in 0 .. NTx - 1 /\ sub \in Nat /\ aired \in Nat /\ sub >= aired
  BY <1>1 DEF RingOk
<1> DEFINE T == Ahead(NTx, txhead, txi)
           D == Ahead(NTx, txhead, txdev)
           G(h) == /\ \A s \in Between(txhead, h) : ~tx[s].own
                   /\ h # txi => tx[h].own
<1>3. T \in 0 .. NTx - 1 /\ D \in 0 .. NTx - 1
  BY <1>0, <1>1, <1>2, AheadFacts
<1>4. \A s \in 0 .. NTx - 1 : tx[s].own <=> Ahead(NTx, txdev, s) < sub - aired
  BY <1>0, <1>1 DEF RingOk, FullTx
<1>5. Ahead(NTx, txdev, txi) = sub - aired
  BY <1>0, <1>1, <1>2, <1>3 DEF RingOk
<1>6. \A h \in 0 .. NTx - 1 : \A s : s \in Between(txhead, h) <=> s \in 0 .. NTx - 1 /\ Ahead(NTx, txhead, s) < Ahead(NTx, txhead, h)
  BY <1>1, BetweenSlots
<1>7. ASSUME sub > aired PROVE D < T /\ T - D = sub - aired
  <2>1. Ahead(NTx, txdev, txi) = IF D <= T THEN T - D ELSE T + NTx - D
    BY <1>0, <1>1, <1>2, AheadSum
  <2> QED
    BY <1>0, <1>1, <1>2, <1>3, <1>5, <1>7, <2>1
<1>8. \E h \in Between(txhead, txi) \cup {txi} : G(h)
  <2>1. CASE sub = aired
    <3>1. \A s \in Between(txhead, txi) : ~tx[s].own
      <4> SUFFICES ASSUME NEW s \in 0 .. NTx - 1 PROVE ~tx[s].own
        BY <1>2, <1>6
      <4>1. Ahead(NTx, txdev, s) \in Nat
        BY <1>0, <1>2, AheadFacts
      <4> QED
        BY <1>2, <1>4, <2>1, <4>1
    <3> QED
      BY <3>1
  <2>2. CASE sub > aired
    <3>1. txdev \in Between(txhead, txi)
      BY <1>2, <1>6, <1>7, <2>2
    <3>2. ASSUME NEW s \in Between(txhead, txdev) PROVE ~tx[s].own
      <4>1. s \in 0 .. NTx - 1 /\ Ahead(NTx, txhead, s) < D
        BY <1>2, <1>6, <3>2
      <4>2. Ahead(NTx, txhead, s) \in 0 .. NTx - 1
        BY <1>0, <1>1, <4>1, AheadFacts
      <4>3. Ahead(NTx, txdev, s) = Ahead(NTx, txhead, s) + NTx - D
        <5>1. Ahead(NTx, txdev, s) = IF D <= Ahead(NTx, txhead, s) THEN Ahead(NTx, txhead, s) - D
                                                                  ELSE Ahead(NTx, txhead, s) + NTx - D
          BY <1>0, <1>1, <1>2, <4>1, AheadSum
        <5> QED
          BY <1>3, <4>1, <4>2, <5>1
      <4>4. ~(Ahead(NTx, txdev, s) < sub - aired)
        BY <1>0, <1>2, <1>3, <1>7, <2>2, <4>2, <4>3
      <4> QED
        BY <1>4, <4>1, <4>4
    <3>3. tx[txdev].own
      <4>1. Ahead(NTx, txdev, txdev) = 0
        BY <1>2 DEF Ahead
      <4> QED
        BY <1>2, <1>4, <2>2, <4>1
    <3> QED
      BY <3>1, <3>2, <3>3
  <2> QED
    BY <1>2, <2>1, <2>2
<1>9. ReapedHead \in Between(txhead, txi) \cup {txi} /\ G(ReapedHead)
  BY <1>8 DEF ReapedHead
<1> DEFINE h == ReapedHead
<1>10. h \in 0 .. NTx - 1 /\ Ahead(NTx, txhead, h) \in 0 .. NTx - 1 /\ Ahead(NTx, txhead, h) <= T
  <2>1. h \in 0 .. NTx - 1 /\ (h = txi \/ Ahead(NTx, txhead, h) < T)
    BY <1>2, <1>6, <1>9
  <2>2. Ahead(NTx, txhead, h) \in 0 .. NTx - 1
    BY <1>0, <1>1, <2>1, AheadFacts
  <2> QED
    BY <1>3, <2>1, <2>2
<1>11. \A s \in Between(txhead, h) : ~tx[s].own
  BY <1>9
<1> HIDE DEF h
<1>12. Ahead(NTx, h, txi) = T - Ahead(NTx, txhead, h)
  <2>1. Ahead(NTx, h, txi) = IF Ahead(NTx, txhead, h) <= T THEN T - Ahead(NTx, txhead, h) ELSE T + NTx - Ahead(NTx, txhead, h)
    BY <1>0, <1>1, <1>2, <1>10, AheadSum
  <2> QED
    BY <1>10, <2>1
<1>13. CASE sub = aired
  BY <1>0, <1>2, <1>3, <1>10, <1>12, <1>13 DEF h
<1>14. CASE sub > aired
  <2>1. tx[txdev].own
    <3>1. Ahead(NTx, txdev, txdev) = 0
      BY <1>2 DEF Ahead
    <3> QED
      BY <1>2, <1>4, <1>14, <3>1
  <2>2. ~(D < Ahead(NTx, txhead, h))
    BY <1>2, <1>6, <1>10, <1>11, <2>1
  <2>3. sub - aired <= Ahead(NTx, h, txi)
    BY <1>2, <1>3, <1>7, <1>10, <1>12, <1>14, <2>2
  <2> QED
    BY <1>0, <1>10, <2>3 DEF h
<1> QED
  BY <1>2, <1>13, <1>14

LEMMA Vmxnet3TransmitStep == ASSUME TxInv, Vmxnet3Transmit, UNCHANGED nic PROVE TxInv'
<1>0. /\ nic = "vmxnet3" /\ nic \in Kinds /\ nic \notin Virtio /\ pc = "idle" /\ pc' = "idle"
      /\ UNCHANGED <<txdev, aired>> /\ tx \in [0 .. NT - 1 -> TxSlotType] /\ sub \in Nat
      /\ NT = NTx /\ NT' = NT /\ NTx \in Nat /\ NTx > 1
  BY KindFacts, TxSize DEF Vmxnet3Transmit, Returns, TxInv, Virtio, NT
<1>1. CASE TxFull /\ ReapedStall + 1 > StallLimit
  <2>1. tx' = [s \in DOMAIN tx |-> FreeTx] /\ "recovered" \in slip' /\ sub' = sub
    BY <1>1 DEF Vmxnet3Transmit, RecoverTxRing
  <2>2. tx' \in [0 .. NT - 1 -> TxSlotType]
    BY <1>0, <2>1 DEF FreeTx, TxSlotType
  <2>3. ~TxSound'
    BY <2>1 DEF TxSound
  <2> QED
    BY <1>0, <2>1, <2>2, <2>3 DEF TxInv, PcInv
<1>2. CASE TxFull /\ ~(ReapedStall + 1 > StallLimit)
  <2>1. txhead' = ReapedHead /\ UNCHANGED <<tx, txi, slip, sub>>
    BY <1>2 DEF Vmxnet3Transmit
  <2>2. FullTx' = FullTx /\ HoldTx' = HoldTx /\ (TxSound' <=> TxSound)
    BY <1>0, <2>1 DEF FullTx, HoldTx, TxSound
  <2>3. ASSUME TxSound PROVE SendInv'
    <3>1. SendInv
      BY <1>0, <2>3 DEF TxInv
    <3>2. Vmxnet3Send'
      BY <1>0, <2>1, <3>1, ReapedOk DEF Vmxnet3Send
    <3> QED
      BY <1>0, <2>1, <2>2, <3>1, <3>2 DEF SendInv
  <2> QED
    BY <1>0, <2>1, <2>2, <2>3 DEF TxInv, PcInv
<1>3. CASE ~TxFull
  <2>1. txhead' = ReapedHead /\ Submit /\ UNCHANGED slip
    BY <1>3 DEF Vmxnet3Transmit
  <2>2. tx' \in [0 .. NT - 1 -> TxSlotType] /\ sub' \in Nat /\ sub' = sub + 1
    BY <1>0, <2>1, SubmitFacts
  <2>3. ASSUME TxSound PROVE SendInv'
    <3>1. SendInv
      BY <1>0, <2>3 DEF TxInv
    <3>2. RingOk(FullTx, HoldTx, NT, txdev, txi, aired, sub) /\ txi \in 0 .. NT - 1 /\ aired \in Nat
      BY <3>1 DEF SendInv, RingOk
    <3> DEFINE h == ReapedHead
    <3>3. h \in 0 .. NT - 1 /\ sub - aired <= Ahead(NT, h, txi)
      BY <1>0, <3>1, ReapedOk
    <3>4. Cardinality(Between(h, txi)) = Ahead(NT, h, txi)
      BY <1>0, <3>2, <3>3, BetweenSize
    <3>5. ~(Cardinality(Between(h, txi)) >= NTx - 1)
      BY <1>3 DEF TxFull
    <3> HIDE DEF h
    <3>6. /\ Ahead(NT, h, txi) \in 0 .. NT - 1
          /\ Ahead(NT, h, After(NT, txi)) = IF Ahead(NT, h, txi) = NT - 1 THEN 0 ELSE Ahead(NT, h, txi) + 1
      BY <1>0, <3>2, <3>3, AheadFacts
    <3>7. sub - aired # NT /\ sub + 1 - aired <= Ahead(NT, h, After(NT, txi))
      BY <1>0, <3>2, <3>3, <3>4, <3>5, <3>6
    <3>8. txi \notin FullTx
      BY <1>0, <3>2, <3>7, RingTail
    <3>9. RingOk(FullTx', HoldTx', NT, txdev, After(NT, txi), aired, sub + 1) /\ txi' = After(NT, txi)
      BY <1>0, <2>1, <3>2, <3>8, SubmitRing, SubmitFacts
    <3>a. txhead' = h
      BY <2>1 DEF h
    <3>b. sub' = sub + 1 /\ aired' = aired /\ NT' = NT /\ txi' = After(NT, txi)
      BY <1>0, <2>2, <3>9
    <3>c. sub' - aired' <= Ahead(NT', txhead', txi')
      <4>1. sub \in Nat /\ aired \in Nat /\ Ahead(NT, h, After(NT, txi)) \in Int
        BY <1>0, <3>2, <3>6
      <4> QED
        BY <3>7, <3>a, <3>b, <4>1
    <3>d. txhead' \in 0 .. NT' - 1
      BY <3>3, <3>a, <3>b
    <3>10. Vmxnet3Send'
      BY <3>c, <3>d DEF Vmxnet3Send
    <3> QED
      BY <1>0, <2>2, <3>9, <3>10 DEF SendInv
  <2>4. TxSound' <=> TxSound
    BY <2>1 DEF TxSound
  <2> QED
    BY <1>0, <2>2, <2>3, <2>4 DEF TxInv, PcInv
<1> QED
  BY <1>1, <1>2, <1>3

LEMMA VmxPollTx == ASSUME TxInv, Vmxnet3PollRx PROVE TxInv'
<1>0. /\ nic = "vmxnet3" /\ nic \in Kinds /\ nic \notin Virtio /\ txhead' = ReapedHead
      /\ UNCHANGED <<nic, tx, txi, txdev, sub, aired, pc>> /\ NT' = NT
      /\ (TxSound' <=> TxSound)
  BY KindFacts DEF Vmxnet3PollRx, Virtio, NT, TxSound
<1>1. FullTx' = FullTx /\ HoldTx' = HoldTx
  BY <1>0 DEF FullTx, HoldTx
<1>2. ASSUME TxSound PROVE SendInv'
  <2>1. SendInv
    BY <1>0, <1>2 DEF TxInv
  <2>2. Vmxnet3Send'
    BY <1>0, <2>1, ReapedOk DEF Vmxnet3Send
  <2> QED
    BY <1>0, <1>1, <2>1, <2>2 DEF SendInv
<1> QED
  BY <1>0, <1>2 DEF TxInv, PcInv

LEMMA TransmitTx == ASSUME TxInv, Transmit PROVE TxInv'
<1>0. UNCHANGED nic /\ (TransmitCall \/ TransmitStep)
  BY DEF Transmit
<1>1. ASSUME RtlTransmit \/ HostRunsOut PROVE TxInv'
  <2>1. /\ UNCHANGED txVars /\ slip \subseteq slip' /\ nic = "rtl8139" /\ pc' \in {"idle", "host"}
    BY <1>1 DEF RtlTransmit, HostRunsOut, RunsOut, Returns, TxInv, PcInv
  <2> QED
    BY <1>0, <2>1, HostStep
<1>2. ASSUME HostOwns PROVE TxInv'
  <2>1. nic = "rtl8139" /\ ~tx[txi].own /\ Submit /\ pc' = "idle" /\ UNCHANGED <<txdev, aired, slip>>
    BY <1>2 DEF HostOwns, Returns, TxInv, PcInv
  <2> QED
    BY <1>0, <2>1, OwnedSubmit
<1>3. ASSUME Rtl8168Transmit \/ PcnetTransmit PROVE TxInv'
  <2>0. nic \in {"rtl8168", "pcnet"} /\ UNCHANGED <<txdev, txhead, owed, unseen, tx_wait, stall, aired, slip>>
    BY <1>3 DEF Rtl8168Transmit, PcnetTransmit
  <2>1. CASE tx[txi].own
    <3>1. pc' = "idle" /\ UNCHANGED <<tx, txi, sub>>
      BY <1>3, <2>1 DEF Rtl8168Transmit, PcnetTransmit, Returns
    <3> QED
      BY <1>0, <2>0, <3>1, HostStep DEF txVars
  <2>2. CASE ~tx[txi].own
    <3>1. pc' = "idle" /\ Submit
      BY <1>3, <2>2 DEF Rtl8168Transmit, PcnetTransmit, Returns
    <3> QED
      BY <1>0, <2>0, <2>2, <3>1, OwnedSubmit
  <2> QED
    BY <2>1, <2>2
<1> QED
  BY <1>0, <1>1, <1>2, <1>3, VirtioStep, UsedStep, E1000Call, TailStep, Vmxnet3TransmitStep
     DEF TransmitCall, TransmitStep

LEMMA TxStep == TxInv /\ RxdevType /\ [Next]_vars => TxInv'
<1> SUFFICES ASSUME TxInv, rxdev \in Nat, [Next]_vars PROVE TxInv'
  BY DEF RxdevType
<1>0. slip \subseteq slip'
  BY SlipGrows
<1>1. CASE RxWrite \/ RxDone \/ PollRxPacket \/ SeedQueueState \/ UNCHANGED vars
  <2>1. UNCHANGED <<nic, txVars, pc>>
    BY <1>1 DEF RxWrite, RxDone, PollRxPacket, SeedQueueState, vars
  <2> QED
    BY <1>0, <2>1, TxKept DEF txVars
<1> QED
  BY <1>1, TxProbe, AirStep, RtlArriveTx, VmxPollTx, TransmitTx DEF Next, Device, Driver

\* Frames leave in the order they were submitted, none from a buffer that was refilled first, and a VirtIO
\* transmit reports success only for a frame that was sent, until a wait runs out, vmxnet3 clears its ring
\* or the RTL8139 writes past its own: transmit of the seven drivers, rings of every size.
THEOREM TxOrdered == Spec => []TxFaithful
<1>1. Init => RxdevType
  BY DEF Init, RxdevType
<1>2. Spec => []TxInv
  BY <1>1, TxInit, TxStep, RxdevStep, PTL DEF Spec
<1> QED
  BY <1>2, TxInvGives, PTL
============================================================================
