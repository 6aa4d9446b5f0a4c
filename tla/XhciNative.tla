----------------------------- MODULE XhciNative -----------------------------
(***************************************************************************)
(* The native xHCI driver (kernel/src/xhci_native.rs): up to eight         *)
(* requests for each port, every one followed by a wait for an event, and  *)
(* the same wait in every poll afterwards.                                 *)
(*                                                                         *)
(* The controller is external, and so is what the driver reads from the    *)
(* event ring.  Trb is 64 bytes wide (repr(align(64))) where the           *)
(* controller's entries and the dequeue pointer pop_event writes back are  *)
(* 16, and wait_event takes the first event of the right type whichever    *)
(* request it answers.  So a wait may end in any way: with an answer that  *)
(* says yes, names any slot and says nothing about this request, with one  *)
(* that says no, or with none.                                             *)
(***************************************************************************)
EXTENDS Naturals, Sequences, FiniteSets

CONSTANTS
    NatSlots,    \* bound: slots the controller has
    NatReports   \* bound: reports of one endpoint

ASSUME NatAssumption == NatSlots \in Nat \ {0} /\ NatReports \in Nat

VARIABLES
    ports,       \* ports still to try, each the set of HID kinds found on it
    stage,       \* the request try_hid_on_port makes next; "port" between ports
    slot,        \* the slot of the device on the present port
    place,       \* by slot: device context DCBAAP points to (1, 2; 0: none), USB address
    nat,         \* by "kbd", "mouse": the slot found, 0 if none (KBD_READY, KBD_SLOT)
    kbd_first,   \* history: the keyboard was found, and after it the mouse
    nmade,       \* by endpoint: reports produced
    nsent        \* by endpoint: the last report written to IRQ_KBD, IRQ_MOUSE

natVars == <<ports, stage, slot, place, nat, kbd_first, nmade, nsent>>

Eps == {"kbd", "mouse"}
Stages == <<"enable", "address", "set_address", "fetch_config9", "fetch_config",
            "set_configuration", "kbd", "mouse">>

----------------------------------------------------------------------------
(* Enumeration.                                                            *)

NatIdle ==
    /\ ports = <<>> /\ stage = "port" /\ slot = 0
    /\ place = [s \in 1 .. NatSlots |-> [ctx |-> 0, addr |-> 0]]
    /\ nat = [e \in Eps |-> 0] /\ kbd_first = FALSE
    /\ nmade = [e \in Eps |-> 0] /\ nsent = [e \in Eps |-> 0]

(* hc_reset and rings_init went well; the ports come next.                 *)
NatBegin(p) ==
    /\ ports' = p
    /\ UNCHANGED <<stage, slot, place, nat, kbd_first, nmade, nsent>>

BothReady == \A e \in Eps : nat[e] # 0
NatDone == stage = "port" /\ (ports = <<>> \/ BothReady)

(* port_reset: one without a device is passed over.                        *)
PortReset ==
    /\ stage = "port" /\ ~NatDone
    /\ IF Head(ports) = {} THEN ports' = Tail(ports) /\ UNCHANGED stage
       ELSE stage' = Stages[1] /\ UNCHANGED ports
    /\ UNCHANGED <<slot, place, nat, kbd_first, nmade, nsent>>

PortOver == ports' = Tail(ports) /\ stage' = "port"

NextStage ==
    IF stage = "mouse" THEN PortOver
    ELSE /\ stage' = Stages[1 + CHOOSE i \in DOMAIN Stages : Stages[i] = stage]
         /\ UNCHANGED ports

(* A kind found before, or one this device does not offer.                 *)
NotWanted == stage \in Eps /\ (nat[stage] # 0 \/ stage \notin Head(ports))

Skip ==
    /\ stage # "port" /\ NotWanted
    /\ NextStage
    /\ UNCHANGED <<slot, place, nat, kbd_first, nmade, nsent>>

Mut_CtxAlwaysFirst(s) == 1

(* Every device gets the first context until the keyboard is found.        *)
CtxForSlot(s) == IF nat["kbd"] = 0 \/ s = nat["kbd"] THEN 1 ELSE 2

(* What a request does whatever is read for its answer: address_device     *)
(* writes DCBAAP before it posts the command, and set_address asks every   *)
(* device to take address 1, which happens or not.                         *)
Effects ==
    CASE stage = "address"     -> {[place EXCEPT ![slot].ctx = CtxForSlot(slot)]}
      [] stage = "set_address" -> {place, [place EXCEPT ![slot].addr = 1]}
      [] OTHER                 -> {place}

(* The answer read says yes.  The slot of enable_slot is the one it names, *)
(* this device's or another's.                                             *)
RequestAnswered ==
    /\ stage # "port" /\ ~NotWanted
    /\ place' \in Effects
    /\ IF stage = "enable" THEN slot' \in 1 .. NatSlots ELSE UNCHANGED slot
    /\ IF stage \in Eps THEN nat' = [nat EXCEPT ![stage] = slot] ELSE UNCHANGED nat
    /\ IF stage = "mouse" THEN kbd_first' = (nat["kbd"] # 0) ELSE UNCHANGED kbd_first
    /\ NextStage
    /\ UNCHANGED <<nmade, nsent>>

(* It says no, or none came: the port is given up; but the two interrupt   *)
(* endpoints are tried one after the other.                                *)
RequestRefused ==
    /\ stage # "port" /\ ~NotWanted
    /\ place' \in Effects
    /\ IF stage = "kbd" THEN NextStage ELSE PortOver
    /\ UNCHANGED <<slot, nat, kbd_first, nmade, nsent>>

NatStep == PortReset \/ Skip \/ RequestAnswered \/ RequestRefused

----------------------------------------------------------------------------
(* Reports.  Every transfer block of an endpoint points at its one buffer. *)

(* External: the controller writes a report between two polls; the next    *)
(* poll clears it.                                                         *)
HcReports(e) ==
    /\ nat[e] # 0 /\ nsent[e] < nmade[e]
    /\ nsent' = [nsent EXCEPT ![e] = @ + 1]
    /\ UNCHANGED <<ports, stage, slot, place, nat, kbd_first, nmade>>

(* poll_interrupt: the buffer is cleared, a block is queued and the wait   *)
(* ends well or not; meanwhile some of the reports that wait are written,  *)
(* each over the one before.                                               *)
NatPoll(e) ==
    /\ \E n \in nsent[e] .. nmade[e] : nsent' = [nsent EXCEPT ![e] = n]
    /\ UNCHANGED <<ports, stage, slot, place, nat, kbd_first, nmade>>

(* What is in the buffer after that: a report, or 0 for all zeros.         *)
Buffer(e) == IF nsent'[e] = nsent[e] THEN 0 ELSE nsent'[e]

NatProduce(e) ==
    /\ nmade[e] < NatReports /\ nat[e] # 0
    /\ nmade' = [nmade EXCEPT ![e] = @ + 1]
    /\ UNCHANGED <<ports, stage, slot, place, nat, kbd_first, nsent>>

----------------------------------------------------------------------------
(* A mouse found after the keyboard, in a slot of its own, does not share  *)
(* the keyboard's device context, whatever was refused, answered late or   *)
(* answered for another on the way (ctx_for_slot, address_device).  One    *)
(* found before it does.                                                   *)
KbdContextKept ==
    kbd_first /\ nat["mouse"] # nat["kbd"] =>
        place[nat["kbd"]].ctx = 1 /\ place[nat["mouse"]].ctx = 2
============================================================================
