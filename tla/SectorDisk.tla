----------------------------- MODULE SectorDisk -----------------------------
(***************************************************************************)
(* What a block driver promises its callers (the installer's copy loop,    *)
(* the GPT patch and the settings store): one request at a time, each one  *)
(* about one sector.  A request answered "ok" has read what the medium     *)
(* holds, or has left its value there; a refused or failed write changed   *)
(* its own sector or nothing.                                              *)
(***************************************************************************)
EXTENDS Integers

CONSTANTS Capacity, \* sectors of the disk; requests beyond are refused
          Values    \* contents of a sector

VARIABLES media,    \* [sector -> value]
          call,     \* the request being served
          result    \* what the last call returned

dvars == <<media, call, result>>

Sectors == 0 .. Capacity - 1

DInit ==
  /\ media \in [Sectors -> Values]
  /\ \E v \in Values : call = [pc |-> "idle", op |-> "IN", sector |-> 0, val |-> v]
  /\ result = [kind |-> "none"]

\* A request for a sector the disk does not have fails at once.
Reject ==
  /\ call.pc = "idle"
  /\ result' = [kind |-> "failed"]
  /\ UNCHANGED <<media, call>>

Ask(op, s, v) ==
  /\ call.pc = "idle"
  /\ call' = [pc |-> "busy", op |-> op, sector |-> s, val |-> v]
  /\ result' = [kind |-> "none"]
  /\ UNCHANGED media

\* The medium changes only here, only at the sector asked for.
Serve ==
  /\ call.pc = "busy" /\ call.op = "OUT"
  /\ media' = [media EXCEPT ![call.sector] = call.val]
  /\ UNCHANGED <<call, result>>

AnswerOk ==
  /\ call.pc = "busy"
  /\ call.op = "OUT" => media[call.sector] = call.val
  /\ call' = [call EXCEPT !.pc = "idle"]
  /\ result' = [kind |-> "ok", sector |-> call.sector, val |-> media[call.sector]]
  /\ UNCHANGED media

AnswerFailed ==
  /\ call.pc = "busy"
  /\ call' = [call EXCEPT !.pc = "idle"]
  /\ result' = [kind |-> "failed"]
  /\ UNCHANGED media

DNext ==
  \/ Reject \/ Serve \/ AnswerOk \/ AnswerFailed
  \/ \E op \in {"IN", "OUT"}, s \in Sectors, v \in Values : Ask(op, s, v)

DSpec == DInit /\ [][DNext]_dvars
=============================================================================
