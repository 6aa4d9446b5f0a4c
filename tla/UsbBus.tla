------------------------------- MODULE UsbBus -------------------------------
(***************************************************************************)
(* The UHCI and OHCI drivers (kernel/src/uhci.rs, ohci.rs): enumeration of *)
(* a tree of hubs and HID boot devices over the default address, and the   *)
(* interrupt transfers that read reports afterwards, with the data toggle  *)
(* both ends keep.  The two files are the same program but for what an     *)
(* interrupt transfer that times out leaves behind: UHCI unlinks its       *)
(* descriptor, OHCI leaves it on the schedule until the next transfer.     *)
(*                                                                         *)
(* Devices are external.  A report is the number it has among those of its *)
(* device.  A transfer whose toggle does not match is acknowledged and     *)
(* thrown away, as USB prescribes for a retransmission.                    *)
(***************************************************************************)
EXTENDS Naturals, Sequences, FiniteSets

CONSTANTS
    Devices,     \* every USB device of the machines looked at
    MaxAddr,     \* 127: the last address given out
    MaxMice,     \* MAX_USB_MICE
    StallLimit,  \* USB_STALL_BEFORE_PS2
    FailMax,     \* u16::MAX, where the failure counters saturate
    MaxFaults,   \* bound: control transfers, resets and reports gone wrong
    MaxReports   \* bound: reports of one device

ASSUME BusAssumption ==
    /\ MaxAddr \in Nat /\ MaxMice \in Nat /\ MaxFaults \in Nat /\ MaxReports \in Nat
    /\ StallLimit \in Nat /\ FailMax \in Nat \ {0} /\ StallLimit <= FailMax

VARIABLES
    host,       \* the controller being driven: "none", "uhci", "ohci", "native"
    bus,        \* its wiring: [root, kids, class9, cfg], or NoBus
    walk,       \* ports still to visit, innermost hub last
    next_free,  \* the next address
    addr,       \* what each device answers to; NoAddr before its reset
    strays,     \* devices left behind at the default address
    mice,       \* MICE[.. MOUSE_COUNT]: [dev, addr, toggle]
    kbd,        \* KBD_*: [ready, dev, addr, toggle]
    okay,       \* HID_KBD_XFER_OK, HID_MOUSE_XFER_OK, by "kbd" and "mouse"
    fails,      \* KBD_USB_FAILS, MOUSE_USB_FAILS
    left,       \* OHCI: the device and toggle of a descriptor left scheduled
    dtog,       \* devices: toggle of the next report
    made,       \* devices: reports produced
    sent,       \* devices: reports acknowledged by the controller
    lost,       \* of these, thrown away by the controller or a dead poll
    slipped,    \* history: UHCI transfers that came about after the last look
    gone,       \* devices unplugged
    faults

busVars == <<bus, walk, next_free, addr, strays, mice, kbd, okay, fails, left>>
devVars == <<dtog, made, sent, lost, slipped, gone, faults>>

NoAddr == MaxAddr + 1
NoDev == "nodev"
NoBus == [root |-> <<>>]
NoKbd == [ready |-> FALSE, dev |-> NoDev, addr |-> 0, toggle |-> FALSE]
Nothing == [dev |-> NoDev, toggle |-> FALSE]

----------------------------------------------------------------------------
(* Configuration descriptors (usb_common.rs): a sequence of interfaces     *)
(* [t |-> "iface", class, proto] and endpoints [t |-> "ep", intr_in].      *)

LastIface(cfg, e) ==
    LET I == {i \in 1 .. e - 1 : cfg[i].t = "iface"}
    IN IF I = {} THEN 0 ELSE CHOOSE i \in I : \A j \in I : j <= i

(* An endpoint that precedes every interface counts as one of interface 0. *)
FindHidBootEps(cfg, protocol) ==
    \E e \in DOMAIN cfg :
        /\ cfg[e].t = "ep" /\ cfg[e].intr_in
        /\ LET i == LastIface(cfg, e)
           IN i # 0 => cfg[i].class = "hidboot" /\ cfg[i].proto = protocol

ConfigHasHubInterface(cfg) == \E i \in DOMAIN cfg : cfg[i].t = "iface" /\ cfg[i].class = "hub"

(* load_config_tuple: a hub is walked as a hub whatever else it offers, and *)
(* of a keyboard with a mouse interface only the keyboard is used.         *)
LoadConfigTuple(d) ==
    CASE bus.class9[d] \/ ConfigHasHubInterface(bus.cfg[d]) -> "hub"
      [] OTHER -> IF FindHidBootEps(bus.cfg[d], "kbd") THEN "kbd"
                  ELSE IF FindHidBootEps(bus.cfg[d], "mouse") THEN "mouse" ELSE "other"

----------------------------------------------------------------------------
(* Enumeration.  enumerate_device_at_zero calls itself for the ports of a  *)
(* hub; walk is its stack.  Every result but the keyboard's and the mice's *)
(* slots is dropped by the callers.                                        *)

Fault == faults < MaxFaults /\ faults' = faults + 1

Visiting == host \in {"uhci", "ohci"} /\ walk # <<>> /\ walk[Len(walk)] # <<>>
Port == Head(walk[Len(walk)])
PortDone == [walk EXCEPT ![Len(walk)] = Tail(@)]

(* uhci::init, ohci::init: everything is reset, the root ports come next.  *)
HostInit(h, b) ==
    /\ host' = h /\ bus' = b
    /\ walk' = IF b = NoBus THEN <<>> ELSE <<b.root>>
    /\ next_free' = 1 /\ addr' = [d \in Devices |-> NoAddr] /\ strays' = {}
    /\ mice' = <<>> /\ kbd' = NoKbd /\ left' = Nothing
    /\ okay' = [k \in {"kbd", "mouse"} |-> FALSE] /\ fails' = [k \in {"kbd", "mouse"} |-> 0]

(* A reset puts the device at address 0 and its toggles at DATA0.          *)
Reset(a) == [a EXCEPT ![Port] = 0]

(* Whoever answers at address 0 takes the new address.                     *)
Taken(a) == [d \in Devices |-> IF Reset(a)[d] = 0 THEN next_free ELSE a[d]]

ResetToggle == dtog' = [dtog EXCEPT ![Port] = FALSE]

(* A port that cannot be read or reset is skipped.  The reset may have     *)
(* reached the device even so.                                             *)
PortResetFails ==
    /\ Visiting /\ Fault
    /\ \/ addr' = addr /\ strays' = strays
       \/ addr' = Reset(addr) /\ strays' = strays \cup {Port}
    /\ walk' = PortDone
    /\ ResetToggle
    /\ UNCHANGED <<host, bus, next_free, mice, kbd, okay, fails, left, made, sent, lost, slipped, gone>>

(* Out of addresses: the other ports of this hub are not visited.  On the  *)
(* root ports of UHCI alone the test comes before the reset.               *)
AddressesUsedUp ==
    /\ Visiting /\ next_free > MaxAddr
    /\ IF host = "uhci" /\ Len(walk) = 1
       THEN UNCHANGED <<addr, strays, dtog>>
       ELSE addr' = Reset(addr) /\ strays' = strays \cup {Port} /\ ResetToggle
    /\ walk' = [walk EXCEPT ![Len(walk)] = <<>>]
    /\ UNCHANGED <<host, bus, next_free, mice, kbd, okay, fails, left, made, sent, lost, slipped, gone,
                   faults>>

(* SET_ADDRESS fails: the device stays where it is, or has the address and *)
(* only the answer was lost.                                               *)
SetAddressFails ==
    /\ Visiting /\ next_free <= MaxAddr /\ Fault
    /\ \/ addr' = Reset(addr) /\ strays' = strays \cup {Port}
       \/ addr' = Taken(addr) /\ strays' = strays
    /\ next_free' = next_free + 1
    /\ walk' = PortDone
    /\ ResetToggle
    /\ UNCHANGED <<host, bus, mice, kbd, okay, fails, left, made, sent, lost, slipped, gone>>

(* A descriptor or the configuration fails after that.                     *)
ConfigurationFails ==
    /\ Visiting /\ next_free <= MaxAddr /\ Fault
    /\ addr' = Taken(addr)
    /\ next_free' = next_free + 1
    /\ walk' = PortDone
    /\ ResetToggle
    /\ UNCHANGED <<host, bus, strays, mice, kbd, okay, fails, left, made, sent, lost, slipped, gone>>

Mut_AddMouseAtNextFree(d) ==
    IF Len(mice) < MaxMice
    THEN Append(mice, [dev |-> d, addr |-> next_free + 1, toggle |-> FALSE]) ELSE mice

AddMouseSlot(d) ==
    IF Len(mice) < MaxMice
    THEN Append(mice, [dev |-> d, addr |-> next_free, toggle |-> FALSE]) ELSE mice

(* Only the first keyboard is kept.                                        *)
ConfigureHidBoot(d) ==
    CASE LoadConfigTuple(d) = "mouse" -> mice' = AddMouseSlot(d) /\ UNCHANGED kbd
      [] LoadConfigTuple(d) = "kbd" ->
            /\ kbd' = IF kbd.ready THEN kbd
                      ELSE [ready |-> TRUE, dev |-> d, addr |-> next_free, toggle |-> FALSE]
            /\ UNCHANGED mice
      [] OTHER -> UNCHANGED <<mice, kbd>>

Mut_ChildrenShareAddress ==
    /\ Visiting /\ next_free <= MaxAddr
    /\ addr' = Taken(addr)
    /\ IF LoadConfigTuple(Port) = "hub"
       THEN walk' = Append(PortDone, bus.kids[Port]) /\ UNCHANGED <<mice, kbd, next_free>>
       ELSE walk' = PortDone /\ ConfigureHidBoot(Port) /\ next_free' = next_free + 1
    /\ ResetToggle
    /\ UNCHANGED <<host, bus, strays, okay, fails, left, made, sent, lost, slipped, gone, faults>>

(* The address is counted before the device is spoken to: the ports of a   *)
(* hub go on from there.                                                   *)
EnumerateDeviceAtZero ==
    /\ Visiting /\ next_free <= MaxAddr
    /\ addr' = Taken(addr)
    /\ next_free' = next_free + 1
    /\ IF LoadConfigTuple(Port) = "hub"
       THEN walk' = Append(PortDone, bus.kids[Port]) /\ UNCHANGED <<mice, kbd>>
       ELSE walk' = PortDone /\ ConfigureHidBoot(Port)
    /\ ResetToggle
    /\ UNCHANGED <<host, bus, strays, okay, fails, left, made, sent, lost, slipped, gone, faults>>

(* The last port of a hub was visited.                                     *)
HubDone ==
    /\ host \in {"uhci", "ohci"} /\ walk # <<>> /\ walk[Len(walk)] = <<>>
    /\ walk' = SubSeq(walk, 1, Len(walk) - 1)
    /\ UNCHANGED <<host, bus, next_free, addr, strays, mice, kbd, okay, fails, left, devVars>>

EnumerationStep ==
    \/ PortResetFails \/ AddressesUsedUp \/ SetAddressFails \/ ConfigurationFails
    \/ EnumerateDeviceAtZero \/ HubDone

(* init reports success.                                                   *)
Attached == mice # <<>> \/ kbd.ready

----------------------------------------------------------------------------
(* Reports.                                                                *)

Waiting(d) == IF d \in gone THEN 0 ELSE made[d] - sent[d]

(* interrupt_in on device d with toggle t.  What becomes of it: a report   *)
(* ("ok", with its number), one too short to use ("short", UHCI only), or  *)
(* nothing until the wait runs out or the device stalls ("err").  skip is  *)
(* the number of reports thrown away on the way: one if the toggle is off. *)
(* On UHCI the transfer may also come about after wait_td_done has looked  *)
(* for the last time and before the descriptor is unlinked ("slip").       *)
InOutcomes(d, t) ==
    LET skip == IF Waiting(d) > 0 /\ dtog[d] # t THEN 1 ELSE 0
    IN {[r |-> "err", skip |-> 0]}
       \cup (IF Waiting(d) > skip THEN {[r |-> "ok", skip |-> skip]} ELSE {[r |-> "err", skip |-> skip]})
       \cup (IF Waiting(d) > skip /\ host = "uhci"
             THEN {[r |-> "short", skip |-> skip], [r |-> "slip", skip |-> skip]} ELSE {})

(* The call returns a length; a slip is an error to it.                    *)
Returns(o) == o.r \in {"ok", "short"}

(* An error although the device would answer, a slip and a short report    *)
(* are faults.                                                             *)
IsFault(d, t, o) ==
    o.r \in {"short", "slip"} \/ (o.r = "err" /\ Waiting(d) > IF dtog[d] # t THEN 1 ELSE 0)

(* What a slip takes is lost as well.                                      *)
InterruptIn(d, t, o) ==
    LET n == IF o.r = "err" THEN o.skip ELSE o.skip + 1
    IN /\ sent' = [sent EXCEPT ![d] = @ + n]
       /\ lost' = [lost EXCEPT ![d] = @ + IF o.r = "slip" THEN n ELSE o.skip]
       /\ slipped' = IF o.r = "slip" THEN [slipped EXCEPT ![d] = @ + 1] ELSE slipped
       /\ dtog' = IF n = 1 THEN [dtog EXCEPT ![d] = ~@] ELSE dtog
       /\ left' = IF host = "ohci" /\ o.r = "err" THEN [dev |-> d, toggle |-> t] ELSE Nothing
       /\ IF IsFault(d, t, o) THEN Fault ELSE UNCHANGED faults

Failed(k) ==
    /\ fails' = [fails EXCEPT ![k] = IF @ < FailMax THEN @ + 1 ELSE @]
    /\ UNCHANGED okay

Succeeded(k) == fails' = [fails EXCEPT ![k] = 0] /\ okay' = [okay EXCEPT ![k] = TRUE]

Mut_PollMouseAlwaysFlips(i) ==
    \E o \in InOutcomes(mice[i].dev, mice[i].toggle) :
        /\ InterruptIn(mice[i].dev, mice[i].toggle, o)
        /\ mice' = [mice EXCEPT ![i].toggle = ~@]
        /\ IF o.r = "ok" THEN Succeeded("mouse") ELSE Failed("mouse")
        /\ UNCHANGED <<host, bus, walk, next_free, addr, strays, kbd, made, gone>>

(* poll_mouse_slot: the flipped toggle is kept only if the call returned a *)
(* length.                                                                 *)
BusPollMouse(i) ==
    \E o \in InOutcomes(mice[i].dev, mice[i].toggle) :
        /\ InterruptIn(mice[i].dev, mice[i].toggle, o)
        /\ mice' = IF Returns(o) THEN [mice EXCEPT ![i].toggle = ~@] ELSE mice
        /\ IF o.r = "ok" THEN Succeeded("mouse") ELSE Failed("mouse")
        /\ UNCHANGED <<host, bus, walk, next_free, addr, strays, kbd, made, gone>>

Mut_PollKeyboardKeepsToggle(r) ==
    \E o \in InOutcomes(kbd.dev, kbd.toggle) :
        /\ InterruptIn(kbd.dev, kbd.toggle, o)
        /\ r = IF o.r = "ok" THEN sent[kbd.dev] + o.skip + 1 ELSE 0
        /\ IF o.r = "ok" THEN Succeeded("kbd") ELSE Failed("kbd")
        /\ UNCHANGED <<kbd, host, bus, walk, next_free, addr, strays, mice, made, gone>>

(* poll_keyboard_report returns report r, or 0 for None: the toggle is     *)
(* flipped in any case.                                                    *)
BusPollKeyboard(r) ==
    \E o \in InOutcomes(kbd.dev, kbd.toggle) :
        /\ InterruptIn(kbd.dev, kbd.toggle, o)
        /\ r = IF o.r = "ok" THEN sent[kbd.dev] + o.skip + 1 ELSE 0
        /\ kbd' = [kbd EXCEPT !.toggle = ~@]
        /\ IF o.r = "ok" THEN Succeeded("kbd") ELSE Failed("kbd")
        /\ UNCHANGED <<host, bus, walk, next_free, addr, strays, mice, made, gone>>

(* External: a descriptor OHCI left on the schedule takes a report that    *)
(* nobody reads.                                                           *)
LateIn ==
    /\ left # Nothing /\ Waiting(left.dev) > 0
    /\ sent' = [sent EXCEPT ![left.dev] = @ + 1]
    /\ lost' = [lost EXCEPT ![left.dev] = @ + 1]
    /\ dtog' = [dtog EXCEPT ![left.dev] = ~@]
    /\ left' = IF dtog[left.dev] = left.toggle THEN Nothing ELSE left
    /\ UNCHANGED <<host, bus, walk, next_free, addr, strays, mice, kbd, okay, fails, made, slipped,
                   gone, faults>>

(* External: a key or a mouse is moved; a device is pulled out.            *)
Produce(d) ==
    /\ made[d] < MaxReports /\ d \notin gone
    /\ made' = [made EXCEPT ![d] = @ + 1]
    /\ UNCHANGED <<host, busVars, dtog, sent, lost, slipped, gone, faults>>

Unplug(d) ==
    /\ d \notin gone /\ gone' = gone \cup {d}
    /\ UNCHANGED <<host, busVars, dtog, made, sent, lost, slipped, faults>>

Mut_HealthyForEver(k) == okay[k]

(* mouse_ready, hid_kbd_suppresses_ps2                                     *)
Healthy(k) == okay[k] /\ fails[k] < StallLimit

----------------------------------------------------------------------------
Slots == [i \in 1 .. Len(mice) |-> mice[i].addr] \o (IF kbd.ready THEN <<kbd.addr>> ELSE <<>>)

(* No two slots have the same address, whatever failed on the way and      *)
(* however the hubs are nested, and every address is one a device can have *)
(* (enumerate_device_at_zero, next_free).                                  *)
SlotAddressesUnique ==
    /\ \A i \in DOMAIN Slots : Slots[i] \in 1 .. MaxAddr
    /\ \A i, j \in DOMAIN Slots : Slots[i] = Slots[j] => i = j

(* Two devices answer to one address only if one of them was left behind   *)
(* at address 0 by a reset or SET_ADDRESS that failed, or by the end of    *)
(* the addresses: the drivers do not disable such a port.                  *)
SharedOnlyByStrays ==
    \A d, e \in Devices :
        d # e /\ addr[d] = addr[e] /\ addr[d] # NoAddr => {d, e} \cap strays # {}

(* Through idle polls, errors and short reports the toggle of a mouse on   *)
(* UHCI stays in step with the device.  A transfer that slips puts it out  *)
(* of step: its report is lost, and of the reports after it one more is    *)
(* thrown away, which puts it in step again; no other report is lost       *)
(* (poll_mouse_slot, wait_td_done, wait_chain_last).                       *)
MiceLoseBySlips ==
    host = "uhci" =>
        \A i \in DOMAIN mice :
            LET d == mice[i].dev
            IN lost[d] + (IF mice[i].toggle = dtog[d] THEN 0 ELSE 1) = 2 * slipped[d]

(* A good report puts the keyboard's toggle in step again, however far off *)
(* the failed polls before had put it (poll_keyboard_report).              *)
GoodReportResyncs ==
    kbd.ready /\ okay["kbd"] /\ fails["kbd"] = 0 => kbd.toggle = dtog[kbd.dev]
============================================================================
