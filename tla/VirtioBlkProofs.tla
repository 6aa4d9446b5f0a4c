-------------------------- MODULE VirtioBlkProofs ---------------------------
(***************************************************************************)
(* Proofs about VirtioBlk: type correctness always, and, up to the first   *)
(* poll that runs out (Prompt), that the driver and the device hand the    *)
(* single request buffer over cleanly (HandOver), that a call returning    *)
(* true tells the truth about the medium, and that the whole implements    *)
(* SectorDisk.                                                             *)
(***************************************************************************)
EXTENDS VirtioBlk, TLAPS

\* The ring index stays in its range and always moves.
LEMMA IncFacts == \A i \in Idx : Inc(i) \in Idx /\ Inc(i) # i
  BY IdxAssumption DEF Idx, Inc

\* Records of different kinds of outcome are different.
LEMMA KindFacts ==
  /\ NoResult.kind = "none" /\ FailedResult.kind = "failed"
  /\ \A s \in Sectors, v \in Values :
       OkResult(s, v).kind = "ok" /\ OkResult(s, v).sector = s /\ OkResult(s, v).val = v
  BY DEF NoResult, FailedResult, OkResult

\* A step keeps every variable in its type, whatever the device does.
LEMMA TypeStep == TypeOK /\ [Next]_vars => TypeOK'
<1> SUFFICES ASSUME TypeOK, [Next]_vars PROVE TypeOK'
  OBVIOUS
<1>a. NoResult \in Results /\ FailedResult \in Results
  BY DEF Results
<1> USE <1>a, IncFacts, CapacityAssumption, TimeoutAssumption
<1>0. CASE UNCHANGED vars
  BY <1>0 DEF TypeOK, vars
<1>1. CASE Refuse
  BY <1>1 DEF TypeOK, Refuse
<1>2. CASE Publish
  BY <1>2 DEF TypeOK, Publish
<1>3. CASE PollSeen
  BY <1>3 DEF TypeOK, PollSeen
<1>4. CASE PollTimeout
  BY <1>4 DEF TypeOK, PollTimeout
<1>5. CASE Return
  <2>1. Outcome \in Results
    BY DEF TypeOK, Outcome, Results
  <2> QED
    BY <1>5, <2>1 DEF TypeOK, Return
<1>6. CASE \E op \in Ops, s \in Sectors, v \in Values : Fill(op, s, v)
  <2> PICK op \in Ops, s \in Sectors, v \in Values : Fill(op, s, v)
    BY <1>6
  <2> QED
    BY DEF TypeOK, Fill, FilledPages, Header
<1>7. CASE DevFetch
  BY <1>7 DEF TypeOK, DevFetch, Header
<1>8. CASE \E ok \in BOOLEAN : DevMove(ok)
  <2> PICK ok \in BOOLEAN : DevMove(ok)
    BY <1>8
  <2>1. dev' = [dev EXCEPT !.pc = "moved", !.ok = ok]
    BY DEF DevMove
  <2>2. media' \in [Sectors -> Values]
    BY DEF TypeOK, DevMove
  <2>3. pages' = pages \/ pages' = [pages EXCEPT !.data = media[dev.sector]]
    BY DEF DevMove
  <2>4. UNCHANGED <<drv, result, timeouts>>
    BY DEF DevMove
  <2> QED
    BY <2>1, <2>2, <2>3, <2>4 DEF TypeOK
<1>9. CASE DevStatus
  BY <1>9 DEF TypeOK, DevStatus
<1>10. CASE DevUsed
  BY <1>10 DEF TypeOK, DevUsed
<1> QED
  BY <1>0, <1>1, <1>2, <1>3, <1>4, <1>5, <1>6, <1>7, <1>8, <1>9, <1>10
     DEF Next, Driver, Device

LEMMA TypeInit == Init => TypeOK
  BY CapacityAssumption, IdxAssumption, TimeoutAssumption
     DEF Init, TypeOK, Header, Ops, Sectors, Idx, Results

\* The shared pages, the call, the device and the answer keep their types, and
\* the ring indices wrap, whatever the timing of the device.
THEOREM BlkTypeCorrect == Spec => []TypeOK
  BY TypeInit, TypeStep, PTL DEF Spec

-----------------------------------------------------------------------------
\* The hand-over invariant, with what it says of the last answer.
BlkInv == TypeOK /\ HandOver /\ OkMeansOnDisk

LEMMA BlkInit == Init => BlkInv
<1> SUFFICES ASSUME Init PROVE BlkInv
  OBVIOUS
<1>1. TypeOK
  BY TypeInit
<1>2. HandOver
  BY DEF Init, HandOver, PagesQuiet, Prompt
<1>3. OkMeansOnDisk
  BY KindFacts DEF Init, OkMeansOnDisk
<1> QED
  BY <1>1, <1>2, <1>3 DEF BlkInv

\* A step that does not run a poll out hands the request on: every step of either side hands the request on.
LEMMA HandOverStep ==
  ASSUME BlkInv, Prompt', [Next]_vars
  PROVE  HandOver'
<1> USE DEF BlkInv
<1>t. TypeOK /\ TypeOK' /\ HandOver
  BY TypeStep
<1>i. Inc(drv.lu) # drv.lu /\ drv.lu \in Idx
  BY <1>t, IncFacts DEF TypeOK
<1>0. CASE UNCHANGED vars
  BY <1>0, <1>t
     DEF vars, HandOver, PagesQuiet, Prompt, Filled, NotTaken, InHand, Answered, Served
<1>1. CASE Refuse
  BY <1>1, <1>t DEF Refuse, HandOver, PagesQuiet
<1>2. CASE Publish
  <2>1. drv.lu = pages.avail_idx /\ Filled /\ result = NoResult
    BY <1>2, <1>t DEF Publish, HandOver, PagesQuiet
  <2>2. Filled' /\ drv'.lu = pages'.vq_last_seen /\ pages'.avail_idx = Inc(drv'.lu)
    BY <1>2, <1>t, <2>1 DEF Publish, HandOver, Filled, TypeOK
  <2>3. NotTaken'
    BY <1>2, <1>t, <2>1 DEF Publish, HandOver, PagesQuiet, NotTaken, TypeOK
  <2> QED
    BY <1>2, <1>t, <2>1, <2>2, <2>3 DEF Publish, HandOver, PagesQuiet, TypeOK
<1>3. CASE PollSeen
  <2>1. Answered
    BY <1>3, <1>t DEF PollSeen, HandOver, NotTaken, InHand
  <2>2. Answered' /\ pages'.vq_last_seen = pages'.used_idx
    BY <1>3, <1>t, <2>1 DEF PollSeen, Answered, Served, TypeOK
  <2> QED
    BY <1>3, <1>t, <2>2 DEF PollSeen, HandOver, PagesQuiet, TypeOK
<1>4. CASE PollTimeout
  BY <1>4, <1>t DEF PollTimeout, HandOver, Prompt
<1>5. CASE Return
  BY <1>5, <1>t DEF Return, HandOver, PagesQuiet, Answered, TypeOK
<1>6. CASE \E op \in Ops, s \in Sectors, v \in Values : Fill(op, s, v)
  <2> PICK op \in Ops, s \in Sectors, v \in Values : Fill(op, s, v)
    BY <1>6
  <2>1. Filled'
    BY <1>t DEF Fill, FilledPages, Filled, TypeOK
  <2>2. PagesQuiet'
    BY <1>t DEF Fill, FilledPages, HandOver, PagesQuiet, TypeOK
  <2> QED
    BY <1>t, <2>1, <2>2 DEF Fill, FilledPages, HandOver, TypeOK
<1>7. CASE DevFetch
  <2>1. drv.pc = "polling" /\ NotTaken
    BY <1>7, <1>t DEF DevFetch, HandOver, PagesQuiet, InHand, Answered, TypeOK
  <2>2. InHand'
    BY <1>7, <1>t, <2>1 DEF DevFetch, HandOver, NotTaken, InHand, Filled, TypeOK
  <2> QED
    BY <1>7, <1>t, <2>1, <2>2 DEF DevFetch, HandOver, PagesQuiet, Filled
<1>8. CASE \E ok \in BOOLEAN : DevMove(ok)
  <2> PICK ok \in BOOLEAN : DevMove(ok)
    BY <1>8
  <2>1. drv.pc = "polling" /\ InHand
    BY <1>t DEF DevMove, HandOver, PagesQuiet, NotTaken, Answered, TypeOK
  <2>2. UNCHANGED <<drv, result, timeouts>>
    BY DEF DevMove
  <2>3. ok => Served'
    <3> SUFFICES ASSUME ok PROVE Served'
      OBVIOUS
    <3>1. CASE drv.op = "OUT"
      <4>1. media' = [media EXCEPT ![drv.sector] = drv.val]
        BY <1>t, <2>1, <3>1 DEF DevMove, HandOver, InHand, Filled
      <4> QED
        BY <1>t, <2>2, <3>1, <4>1 DEF Served, TypeOK
    <3>2. CASE drv.op = "IN"
      <4>1. pages' = [pages EXCEPT !.data = media[drv.sector]] /\ media' = media
        BY <2>1, <3>2 DEF DevMove, InHand
      <4> QED
        BY <1>t, <2>2, <3>2, <4>1 DEF Served, TypeOK
    <3> QED
      BY <1>t, <3>1, <3>2 DEF TypeOK, Ops
  <2>4. /\ pages'.avail_idx = pages.avail_idx /\ pages'.used_idx = pages.used_idx
        /\ dev'.pc = "moved" /\ dev'.ok = ok /\ dev'.op = dev.op
        /\ dev'.sector = dev.sector /\ dev'.taken = dev.taken
    BY <1>t DEF DevMove, TypeOK
  <2>5. InHand'
    BY <1>t, <2>1, <2>3, <2>2, <2>4 DEF InHand
  <2>6. Filled'
    BY <1>t, <2>1 DEF DevMove, HandOver, InHand, Filled, TypeOK
  <2>7. pages'.avail_idx = pages.avail_idx /\ pages'.vq_last_seen = pages.vq_last_seen
    BY <1>t DEF DevMove, TypeOK
  <2> QED
    BY <1>t, <2>1, <2>5, <2>6, <2>7, <2>2 DEF HandOver, PagesQuiet
<1>9. CASE DevStatus
  <2>1. drv.pc = "polling" /\ InHand
    BY <1>9, <1>t DEF DevStatus, HandOver, PagesQuiet, NotTaken, Answered, TypeOK
  <2>2. InHand' /\ Filled'
    BY <1>9, <1>t, <2>1 DEF DevStatus, HandOver, InHand, Filled, Served, TypeOK
  <2> QED
    BY <1>9, <1>t, <2>1, <2>2 DEF DevStatus, HandOver, PagesQuiet, TypeOK
<1>10. CASE DevUsed
  <2>1. drv.pc = "polling" /\ InHand
    BY <1>10, <1>t DEF DevUsed, HandOver, PagesQuiet, NotTaken, Answered, TypeOK
  <2>2. Answered' /\ Filled'
    BY <1>10, <1>t, <2>1 DEF DevUsed, HandOver, InHand, Answered, Filled, Served, TypeOK
  <2> QED
    BY <1>10, <1>t, <2>1, <2>2 DEF DevUsed, HandOver, PagesQuiet, TypeOK
<1> QED
  BY <1>0, <1>1, <1>2, <1>3, <1>4, <1>5, <1>6, <1>7, <1>8, <1>9, <1>10
     DEF Next, Driver, Device

\* Only the device changes the medium, and then no answer is standing.
LEMMA OkStep ==
  ASSUME BlkInv, [Next]_vars
  PROVE  OkMeansOnDisk'
<1> USE DEF BlkInv
<1>0. CASE UNCHANGED vars
  BY <1>0 DEF vars, OkMeansOnDisk
<1>1. CASE UNCHANGED <<media, result>>
  BY <1>1 DEF OkMeansOnDisk
<1>2. CASE result' = FailedResult \/ result' = NoResult
  BY <1>2, KindFacts DEF OkMeansOnDisk
<1>3. CASE Return
  <2>1. pages.status = "OK" => Served
    BY <1>3 DEF Return, HandOver, Answered
  <2>2. CASE pages.status # "OK"
    BY <1>2, <1>3, <2>2 DEF Return, Outcome
  <2>3. CASE pages.status = "OK"
    <3>1. result' = OkResult(drv.sector, media[drv.sector])
      BY <1>3, <2>1, <2>3 DEF Return, Outcome, Served
    <3>2. drv.sector \in Sectors /\ media[drv.sector] \in Values
      BY DEF TypeOK
    <3> QED
      BY <1>3, <3>1, <3>2, KindFacts DEF Return, OkMeansOnDisk
  <2> QED
    BY <2>2, <2>3
<1>4. CASE \E ok \in BOOLEAN : DevMove(ok)
  <2> PICK ok \in BOOLEAN : DevMove(ok)
    BY <1>4
  <2>1. drv.pc # "idle"
    BY DEF DevMove, HandOver, PagesQuiet
  <2>2. result' = NoResult
    BY <2>1 DEF DevMove, HandOver
  <2> QED
    BY <1>2, <2>2
<1> QED
  BY <1>0, <1>1, <1>2, <1>3, <1>4
     DEF Next, Driver, Device, Refuse, Fill, Publish, PollSeen, PollTimeout,
         DevFetch, DevStatus, DevUsed

\* The inductive invariant: types always, a clean hand-over while prompt.
PromptInv == TypeOK /\ (Prompt => BlkInv)

\* A poll that ran out is never forgotten.
LEMMA PromptBefore ==
  ASSUME TypeOK, [Next]_vars, Prompt'
  PROVE  Prompt
<1>1. timeouts' = timeouts \/ PollTimeout
  BY DEF Next, Driver, Device, vars, Refuse, Fill, Publish, PollSeen, Return,
         DevFetch, DevMove, DevStatus, DevUsed
<1> QED
  BY <1>1, TimeoutAssumption DEF PollTimeout, Prompt, TypeOK

LEMMA BlkInvariant == Spec => []PromptInv
<1>1. Init => PromptInv
  BY BlkInit, TypeInit DEF PromptInv
<1>2. ASSUME PromptInv, [Next]_vars PROVE PromptInv'
  <2>1. TypeOK'
    BY <1>2, TypeStep DEF PromptInv
  <2>2. ASSUME Prompt' PROVE BlkInv'
    <3>1. BlkInv
      BY <1>2, <2>2, PromptBefore DEF PromptInv
    <3> QED
      BY <1>2, <2>1, <2>2, <3>1, HandOverStep, OkStep DEF BlkInv
  <2> QED
    BY <2>1, <2>2 DEF PromptInv
<1> QED
  BY <1>1, <1>2, PTL DEF Spec

\* Up to the first poll that runs out, the device is done with the shared pages
\* whenever read_sector or write_sector refills them.
THEOREM QuietBetweenCalls == Spec => []IdleMeansQuiet
<1>1. PromptInv => IdleMeansQuiet
  BY DEF PromptInv, BlkInv, HandOver, IdleMeansQuiet
<1> QED
  BY BlkInvariant, <1>1, PTL

\* Up to the first poll that runs out, what a call of read_sector or write_sector
\* that returned true reported is on the medium.
THEOREM OkIsOnDisk == Spec => []PromptOkOnDisk
<1>1. PromptInv => PromptOkOnDisk
  BY DEF PromptInv, BlkInv, PromptOkOnDisk
<1> QED
  BY BlkInvariant, <1>1, PTL

-----------------------------------------------------------------------------
(***************************************************************************)
(* Refinement: the call the abstract disk sees is the driver's, in         *)
(* progress from Fill to Return.                                           *)
(***************************************************************************)
AbsCall == [pc |-> IF drv.pc = "idle" THEN "idle" ELSE "busy",
            op |-> drv.op, sector |-> drv.sector, val |-> drv.val]

\* A step that changes neither the medium, the answer nor the abstract call.
LEMMA AbsStutter ==
  ASSUME UNCHANGED <<media, result, AbsCall>>
  PROVE  UNCHANGED Disk!dvars
  BY DEF AbsCall, Disk!dvars

LEMMA AbsInit == Init => Disk!DInit
  BY DEF Init, Disk!DInit, Disk!Sectors, Sectors, NoResult

\* Every step of driver or device is a step of the abstract disk or none.
LEMMA AbsStep ==
  ASSUME BlkInv, Prompt', [Next]_vars
  PROVE  [Disk!DNext]_(Disk!dvars)
<1> USE DEF BlkInv
<1>a. Disk!Sectors = Sectors
  BY DEF Disk!Sectors, Sectors
<1>0. CASE UNCHANGED vars
  BY <1>0 DEF vars, Disk!dvars
<1>1. CASE Refuse
  <2>1. Disk!Reject
    BY <1>1 DEF Refuse, Disk!Reject, FailedResult
  <2> QED
    BY <2>1 DEF Disk!DNext
<1>2. CASE Publish
  BY <1>2, AbsStutter DEF Publish, AbsCall, TypeOK
<1>3. CASE PollSeen
  BY <1>3, AbsStutter DEF PollSeen, AbsCall, TypeOK
<1>4. CASE PollTimeout
  BY <1>4 DEF PollTimeout, HandOver, Prompt
<1>5. CASE Return
  <2>1. drv'.pc = "idle" /\ drv'.op = drv.op /\ drv'.sector = drv.sector
        /\ drv'.val = drv.val /\ drv.pc # "idle" /\ UNCHANGED media
    BY <1>5 DEF Return, TypeOK
  <2>2. CASE pages.status # "OK"
    <3>1. result' = [kind |-> "failed"]
      BY <1>5, <2>2 DEF Return, Outcome, FailedResult
    <3>2. Disk!AnswerFailed
      BY <2>1, <3>1 DEF Disk!AnswerFailed
    <3> QED
      BY <3>2 DEF Disk!DNext
  <2>3. CASE pages.status = "OK"
    <3>1. Served
      BY <1>5, <2>3 DEF Return, HandOver, Answered
    <3>2. drv.op = "OUT" => media[drv.sector] = drv.val
      BY <3>1 DEF Served
    <3>3. result' = [kind |-> "ok", sector |-> drv.sector, val |-> media[drv.sector]]
      BY <1>5, <2>3, <3>1 DEF Return, Outcome, OkResult, Served
    <3>4. Disk!AnswerOk
      BY <2>1, <3>2, <3>3 DEF Disk!AnswerOk
    <3> QED
      BY <3>4 DEF Disk!DNext
  <2> QED
    BY <2>2, <2>3
<1>6. CASE \E op \in Ops, s \in Sectors, v \in Values : Fill(op, s, v)
  <2> PICK op \in Ops, s \in Sectors, v \in Values : Fill(op, s, v)
    BY <1>6
  <2>1. Disk!Ask(op, s, v)
    BY DEF Fill, Disk!Ask, NoResult
  <2> QED
    BY <1>a, <2>1 DEF Disk!DNext, Ops
<1>7. CASE DevFetch
  BY <1>7, AbsStutter DEF DevFetch, AbsCall
<1>8. CASE \E ok \in BOOLEAN : DevMove(ok)
  <2> PICK ok \in BOOLEAN : DevMove(ok)
    BY <1>8
  <2>1. drv.pc = "polling" /\ InHand /\ Filled
    BY DEF DevMove, HandOver, PagesQuiet, NotTaken, Answered, TypeOK
  <2>2. UNCHANGED <<drv, result>>
    BY DEF DevMove
  <2>3. CASE media' = media
    BY <2>2, <2>3, AbsStutter DEF AbsCall
  <2>4. CASE media' # media
    <3>1. drv.op = "OUT" /\ media' = [media EXCEPT ![drv.sector] = drv.val]
      BY <2>1, <2>4 DEF DevMove, InHand, Filled
    <3>2. Disk!Serve
      BY <2>1, <2>2, <3>1 DEF Disk!Serve
    <3> QED
      BY <3>2 DEF Disk!DNext
  <2> QED
    BY <2>3, <2>4
<1>9. CASE DevStatus
  BY <1>9, AbsStutter DEF DevStatus, AbsCall
<1>10. CASE DevUsed
  BY <1>10, AbsStutter DEF DevUsed, AbsCall
<1> QED
  BY <1>0, <1>1, <1>2, <1>3, <1>4, <1>5, <1>6, <1>7, <1>8, <1>9, <1>10
     DEF Next, Driver, Device

\* Up to the first poll that runs out, driver and device together are a disk that
\* serves one sector request at a time (virtio_blk.rs read_sector, write_sector).
THEOREM BlkRefinesDisk == Spec => ImplementsSectorDisk
<1>1. PromptInv /\ [Next]_vars => [Disk!DNext \/ ~Prompt']_(Disk!dvars)
  BY AbsStep, PromptBefore DEF PromptInv
<1> QED
  BY BlkInvariant, AbsInit, <1>1, PTL DEF Spec, ImplementsSectorDisk
=============================================================================
