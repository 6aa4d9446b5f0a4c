----------------------------- MODULE VirtioBlk ------------------------------
(***************************************************************************)
(* The VirtIO block driver (virtio_blk.rs) and the device that shares its  *)
(* pages.  The driver keeps ONE request header, ONE data buffer, ONE       *)
(* status byte and always publishes descriptor 0; read_sector and          *)
(* write_sector fill them, publish, poll used.idx a bounded number of      *)
(* times and then look at the status byte, whether or not the poll saw a   *)
(* completion.  The device reads and writes the same pages in its own      *)
(* time.                                                                   *)
(*                                                                         *)
(* A sector's contents are one value of Values.  The ring indices wrap at  *)
(* IdxMod (2^16 in the code).  MaxTimeouts bounds how often the poll loop  *)
(* may run out (2 000 000 iterations, virtio_blk.rs:422) while the device  *)
(* still works on the request.                                             *)
(***************************************************************************)
EXTENDS Integers

CONSTANTS Capacity, Values, IdxMod, MaxTimeouts

ASSUME CapacityAssumption == Capacity \in Nat \ {0}
ASSUME ValuesAssumption   == Values # {}
ASSUME IdxAssumption      == IdxMod \in Nat /\ IdxMod >= 2
ASSUME TimeoutAssumption  == MaxTimeouts \in Nat

VARIABLES
  media,     \* what the device stores: [sector -> value]
  pages,     \* BlkPages: req header, data, status, avail.idx, used.idx, vq_last_seen
  drv,       \* the call in progress: its arguments, its local lu, where it is
  dev,       \* the device: the request it took and how far it is
  result,    \* what the last call returned
  timeouts   \* polls that ran out so far

vars == <<media, pages, drv, dev, result, timeouts>>

Sectors == 0 .. Capacity - 1
Idx     == 0 .. IdxMod - 1
Inc(i) == IF i = IdxMod - 1 THEN 0 ELSE i + 1      \* wrapping_add(1)
Ops     == {"IN", "OUT"}
Header  == [op : Ops, sector : Sectors]

NoResult     == [kind |-> "none"]
FailedResult == [kind |-> "failed"]
OkResult(s, v) == [kind |-> "ok", sector |-> s, val |-> v]
Results == {NoResult, FailedResult} \cup {OkResult(s, v) : s \in Sectors, v \in Values}

(***************************************************************************)
(* init: the device is reset, the indices are zeroed, capacity is read     *)
(* from its configuration.  Header and data are whatever the static held.  *)
(***************************************************************************)
Init ==
  /\ media \in [Sectors -> Values]
  /\ \E v \in Values :
       /\ pages = [req |-> [op |-> "IN", sector |-> 0], data |-> v, status |-> "OK",
                   avail_idx |-> 0, used_idx |-> 0, vq_last_seen |-> 0]
       /\ drv = [pc |-> "idle", op |-> "IN", sector |-> 0, val |-> v, lu |-> 0]
  /\ dev = [pc |-> "idle", op |-> "IN", sector |-> 0, ok |-> TRUE, taken |-> 0]
  /\ result = NoResult
  /\ timeouts = 0

-----------------------------------------------------------------------------
(***************************************************************************)
(* The driver.                                                             *)
(***************************************************************************)

\* read_sector / write_sector: sector >= capacity returns false at once.
Refuse ==
  /\ drv.pc = "idle"
  /\ result' = FailedResult
  /\ UNCHANGED <<media, pages, drv, dev, timeouts>>

\* Mutant: the header keeps the sector of the request before.
Mut_FilledKeepsSector(op, s, v) ==
  [pages EXCEPT !.req = [op |-> op, sector |-> pages.req.sector],
                !.data = IF op = "OUT" THEN v ELSE @,
                !.status = "none"]

FilledPages(op, s, v) ==
  [pages EXCEPT !.req = [op |-> op, sector |-> s],
                !.data = IF op = "OUT" THEN v ELSE @,
                !.status = "none"]

\* The header, the data of a write, status = 0xFF and the three descriptors.
Fill(op, s, v) ==
  /\ drv.pc = "idle"
  /\ pages' = FilledPages(op, s, v)
  /\ drv' = [pc |-> "filled", op |-> op, sector |-> s, val |-> v, lu |-> pages.vq_last_seen]
  /\ result' = NoResult
  /\ UNCHANGED <<media, dev, timeouts>>

\* avail.idx moves and the queue is notified.
Publish ==
  /\ drv.pc = "filled"
  /\ pages' = [pages EXCEPT !.avail_idx = Inc(@)]
  /\ drv' = [drv EXCEPT !.pc = "polling"]
  /\ UNCHANGED <<media, dev, result, timeouts>>

\* Mutant: vq_last_seen is not stored after the poll.
Mut_PollForgetsIndex ==
  /\ drv.pc = "polling"
  /\ pages.used_idx # drv.lu
  /\ drv' = [drv EXCEPT !.pc = "check", !.lu = pages.used_idx]
  /\ UNCHANGED <<media, pages, dev, result, timeouts>>

\* The poll loop sees used.idx differ from the last index seen.
PollSeen ==
  /\ drv.pc = "polling"
  /\ pages.used_idx # drv.lu
  /\ pages' = [pages EXCEPT !.vq_last_seen = pages.used_idx]
  /\ drv' = [drv EXCEPT !.pc = "check", !.lu = pages.used_idx]
  /\ UNCHANGED <<media, dev, result, timeouts>>

\* The poll loop runs out: the code goes on to the status byte all the same.
PollTimeout ==
  /\ drv.pc = "polling"
  /\ pages.used_idx = drv.lu
  /\ timeouts < MaxTimeouts
  /\ timeouts' = timeouts + 1
  /\ pages' = [pages EXCEPT !.vq_last_seen = drv.lu]
  /\ drv' = [drv EXCEPT !.pc = "check"]
  /\ UNCHANGED <<media, dev, result>>

\* Mutant: the status byte is not looked at.
Mut_OutcomeIgnoresStatus ==
  OkResult(drv.sector, IF drv.op = "IN" THEN pages.data ELSE drv.val)

Outcome ==
  IF pages.status # "OK" THEN FailedResult
  ELSE OkResult(drv.sector, IF drv.op = "IN" THEN pages.data ELSE drv.val)

\* A read copies the data buffer out; both report the status byte.
Return ==
  /\ drv.pc = "check"
  /\ drv' = [drv EXCEPT !.pc = "idle"]
  /\ result' = Outcome
  /\ UNCHANGED <<media, pages, dev, timeouts>>

-----------------------------------------------------------------------------
(***************************************************************************)
(* The device (external: modelled from how the driver uses it, one request *)
(* at a time).  It reads the header when it takes an available entry, and  *)
(* finds whatever header is there THEN.                                    *)
(***************************************************************************)
DevFetch ==
  /\ dev.pc = "idle"
  /\ dev.taken # pages.avail_idx
  /\ dev' = [pc |-> "fetched", op |-> pages.req.op, sector |-> pages.req.sector,
             ok |-> FALSE, taken |-> Inc(dev.taken)]
  /\ UNCHANGED <<media, pages, drv, result, timeouts>>

\* The data moves, completely for a good request, perhaps for a failing one.
DevMove(ok) ==
  /\ dev.pc = "fetched"
  /\ IF dev.op = "OUT"
     THEN /\ media' \in {[media EXCEPT ![dev.sector] = pages.data]}
                        \cup (IF ok THEN {} ELSE {media})
          /\ UNCHANGED pages
     ELSE /\ pages' \in {[pages EXCEPT !.data = media[dev.sector]]}
                        \cup (IF ok THEN {} ELSE {pages})
          /\ UNCHANGED media
  /\ dev' = [dev EXCEPT !.pc = "moved", !.ok = ok]
  /\ UNCHANGED <<drv, result, timeouts>>

DevStatus ==
  /\ dev.pc = "moved"
  /\ pages' = [pages EXCEPT !.status = IF dev.ok THEN "OK" ELSE "IOERR"]
  /\ dev' = [dev EXCEPT !.pc = "answered"]
  /\ UNCHANGED <<media, drv, result, timeouts>>

DevUsed ==
  /\ dev.pc = "answered"
  /\ pages' = [pages EXCEPT !.used_idx = Inc(@)]
  /\ dev' = [dev EXCEPT !.pc = "idle"]
  /\ UNCHANGED <<media, drv, result, timeouts>>

-----------------------------------------------------------------------------
Driver ==
  \/ Refuse \/ Publish \/ PollSeen \/ PollTimeout \/ Return
  \/ \E op \in Ops, s \in Sectors, v \in Values : Fill(op, s, v)

Device ==
  \/ DevFetch \/ DevStatus \/ DevUsed
  \/ \E ok \in BOOLEAN : DevMove(ok)

Next == Driver \/ Device

Spec == Init /\ [][Next]_vars

-----------------------------------------------------------------------------
(***************************************************************************)
(* Properties.                                                             *)
(***************************************************************************)

\* The variables stay in their types; the ring indices wrap instead of growing.
TypeOK ==
  /\ media \in [Sectors -> Values]
  /\ pages \in [req : Header, data : Values, status : {"none", "OK", "IOERR"},
                avail_idx : Idx, used_idx : Idx, vq_last_seen : Idx]
  /\ drv \in [pc : {"idle", "filled", "polling", "check"}, op : Ops, sector : Sectors,
              val : Values, lu : Idx]
  /\ dev \in [pc : {"idle", "fetched", "moved", "answered"}, op : Ops, sector : Sectors,
              ok : BOOLEAN, taken : Idx]
  /\ result \in Results
  /\ timeouts \in 0 .. MaxTimeouts

\* Every poll so far has seen its answer.
Prompt == timeouts = 0

\* read_sector and write_sector: until the next call, what a call that returned
\* true reported for its sector is what the medium holds there.
OkMeansOnDisk == result.kind = "ok" => media[result.sector] = result.val

\* Up to the first poll that runs out, a call that returned true told the truth.
PromptOkOnDisk == Prompt => OkMeansOnDisk

\* The device has taken and answered every published entry and the driver has
\* seen the answer.
PagesQuiet ==
  drv.pc \in {"idle", "filled"} =>
    /\ dev.pc = "idle"
    /\ dev.taken = pages.avail_idx
    /\ pages.used_idx = pages.avail_idx
    /\ pages.vq_last_seen = pages.used_idx

\* Up to the first poll that runs out, the shared pages are the driver's alone
\* between two calls: refilling the one header and the one buffer of read_sector
\* and write_sector disturbs nothing the device is still working on.
IdleMeansQuiet == Prompt => PagesQuiet

(***************************************************************************)
(* Why: as long as no poll runs out, the one header and the one buffer     *)
(* belong to exactly one side.  HandOver says whose turn it is.            *)
(***************************************************************************)

\* The pages hold the request of the call in progress.
Filled ==
  /\ pages.req = [op |-> drv.op, sector |-> drv.sector]
  /\ drv.op = "OUT" => pages.data = drv.val

\* The request of the call in progress has been carried out.
Served == IF drv.op = "IN" THEN pages.data = media[drv.sector]
                           ELSE media[drv.sector] = drv.val

NotTaken == dev.pc = "idle" /\ dev.taken = drv.lu /\ pages.used_idx = drv.lu

InHand ==
  /\ dev.pc # "idle" /\ dev.taken = pages.avail_idx /\ pages.used_idx = drv.lu
  /\ dev.op = drv.op /\ dev.sector = drv.sector
  /\ dev.pc # "fetched" /\ dev.ok => Served
  /\ dev.pc = "answered" /\ pages.status = "OK" => dev.ok

Answered ==
  /\ dev.pc = "idle" /\ dev.taken = pages.avail_idx /\ pages.used_idx = pages.avail_idx
  /\ pages.status = "OK" => Served

\* Where the request is, by where the driver is.
HandOver ==
  /\ Prompt
  /\ PagesQuiet
  /\ drv.pc \in {"filled", "polling"} => Filled /\ drv.lu = pages.vq_last_seen
  /\ drv.pc = "polling" =>
       pages.avail_idx = Inc(drv.lu) /\ (NotTaken \/ InHand \/ Answered)
  /\ drv.pc = "check" => Answered /\ pages.vq_last_seen = pages.used_idx
  /\ drv.pc # "idle" => result = NoResult

Disk == INSTANCE SectorDisk
          WITH call <- [pc |-> IF drv.pc = "idle" THEN "idle" ELSE "busy",
                        op |-> drv.op, sector |-> drv.sector, val |-> drv.val]

\* Up to the first poll that runs out, the driver and its device together behave
\* as a disk that serves one sector request at a time: a step writes no sector but
\* the one asked for, and a call returns true only for a request carried out.
ImplementsSectorDisk == Disk!DInit /\ [][Disk!DNext \/ ~Prompt']_(Disk!dvars)
=============================================================================
