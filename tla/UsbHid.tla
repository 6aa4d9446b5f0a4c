------------------------------- MODULE UsbHid -------------------------------
(***************************************************************************)
(* USB input as the rest of the kernel sees it (kernel/src/usb_hid/x86.rs, *)
(* xhci.rs, ehci.rs): the search for a controller that has a HID device,   *)
(* then, in every frame, one poll of each mouse and polls of the keyboard  *)
(* until no key is new.  The drivers below are UsbBus and XhciNative.  USB *)
(* polling is on: with the settings row off nothing here moves and PS/2 is *)
(* never ignored.                                                          *)
(***************************************************************************)
EXTENDS UsbBus, XhciNative, Functions

CONSTANTS
    Machines,    \* [uhci, ohci : wiring or NoBus, xhci : BOOLEAN, ports]
    Reports,     \* what the keyboard reports, in order: [shift, keys]
    KeySlots,    \* 6: keys in one report
    QCap         \* KBD_Q_CAP: the key ring holds one less

ASSUME QueueAssumption ==
    /\ KeySlots \in Nat /\ QCap \in Nat /\ KeySlots < QCap
    /\ \A r \in DOMAIN Reports : \E n \in 0 .. KeySlots : DOMAIN Reports[r].keys = 1 .. n

(* A wiring gives every device one place: below names what can be reached  *)
(* through a device, and the devices at the ports of one hub reach nothing *)
(* in common.                                                              *)
Within(below, d) == {d} \cup below[d]

Apart(p, below) ==
    \A i, j \in DOMAIN p : i # j => Within(below, p[i]) \cap Within(below, p[j]) = {}

WiredBy(b, below) ==
    /\ b.root \in Seq(Devices) /\ b.kids \in [Devices -> Seq(Devices)]
    /\ Apart(b.root, below)
    /\ \A d \in Devices :
          /\ Apart(b.kids[d], below)
          /\ \A i \in DOMAIN b.kids[d] : Within(below, b.kids[d][i]) \subseteq below[d]

ASSUME WiringAssumption ==
    \A m \in Machines : \A h \in {"uhci", "ohci"} :
        m[h] # NoBus => \E below \in [Devices -> SUBSET Devices] : WiredBy(m[h], below)

VARIABLES
    machine,
    plan,      \* attempts of usb_hid::init still to come
    label,     \* who makes the present attempt
    active,    \* ACTIVE
    prev,      \* PREV_KBD_REPORT
    queue,     \* KBD_QUEUE
    news,      \* history: what was new in each report taken, in order
    given      \* history: number of keys handed to the loop

hidVars == <<machine, plan, label, active>>
keyVars == <<prev, queue, news, given>>
vars == <<host, busVars, devVars, natVars, hidVars, keyVars>>

Zeros == [shift |-> FALSE, keys |-> <<>>]
None == [shift |-> FALSE, keys |-> <<"none">>]

----------------------------------------------------------------------------
(* The order of usb_hid::init and, when an xHCI function is there,         *)
(* xhci::init: its companions first, the native driver last.  ehci::init   *)
(* never attaches.                                                         *)
Attempts == <<<<"uhci", "uhci">>, <<"xhci", "ohci">>, <<"xhci", "uhci">>, <<"xhci", "ehci">>,
              <<"xhci", "native">>, <<"ohci", "ohci">>, <<"ehci", "ehci">>>>

EhciInit == FALSE

Present(a) ==
    /\ a[1] = "xhci" => machine.xhci
    /\ CASE a[2] = "uhci" -> machine.uhci # NoBus
         [] a[2] = "ohci" -> machine.ohci # NoBus
         [] a[2] = "native" -> TRUE
         [] OTHER -> EhciInit

TryHost ==
    /\ active = "none" /\ host = "none" /\ plan # <<>>
    /\ plan' = Tail(plan)
    /\ IF ~Present(Head(plan))
       THEN UNCHANGED <<host, busVars, natVars, label>>
       ELSE /\ label' = Head(plan)[1]
            /\ IF Head(plan)[2] = "native"
               THEN HostInit("native", NoBus) /\ NatBegin(machine.ports)
               ELSE HostInit(Head(plan)[2], machine[Head(plan)[2]]) /\ UNCHANGED natVars
    /\ UNCHANGED <<machine, active, devVars, keyVars>>

Enumerate ==
    /\ active = "none"
    /\ \/ EnumerationStep /\ UNCHANGED natVars
       \/ host = "native" /\ NatStep /\ UNCHANGED <<host, busVars, devVars>>
    /\ UNCHANGED <<hidVars, keyVars>>

Mut_HostKept ==
    /\ active = "none" /\ host # "none"
    /\ IF host = "native" THEN NatDone ELSE walk = <<>>
    /\ (IF host = "native" THEN nat["kbd"] # 0 ELSE Attached) /\ active' = label
    /\ UNCHANGED <<host, busVars, devVars, natVars, machine, plan, label, keyVars>>

(* An attempt that found no device leaves the field to the next; the       *)
(* native driver insists on a keyboard.                                    *)
HostSettles ==
    /\ active = "none" /\ host # "none"
    /\ IF host = "native" THEN NatDone ELSE walk = <<>>
    /\ IF (IF host = "native" THEN nat["kbd"] # 0 ELSE Attached)
       THEN active' = label /\ UNCHANGED host
       ELSE host' = "none" /\ UNCHANGED active
    /\ UNCHANGED <<busVars, devVars, natVars, machine, plan, label, keyVars>>

----------------------------------------------------------------------------
MouseCount == IF active = "none" THEN 0
              ELSE IF host = "native" THEN IF nat["mouse"] # 0 THEN 1 ELSE 0 ELSE Len(mice)

KeyboardReady == active # "none" /\ IF host = "native" THEN nat["kbd"] # 0 ELSE kbd.ready

BusKept == UNCHANGED <<host, bus, walk, next_free, addr, strays, mice, kbd, left, devVars>>

(* xhci_native::poll_mouse_slot, poll_keyboard_report (the report, or      *)
(* None).                                                                  *)
NatPollMouse ==
    /\ NatPoll("mouse") /\ (Succeeded("mouse") \/ Failed("mouse"))
    /\ BusKept

NatPollKeyboard(rep) ==
    /\ NatPoll("kbd")
    /\ \/ Succeeded("kbd") /\ rep = IF Buffer("kbd") = 0 THEN Zeros ELSE Reports[Buffer("kbd")]
       \/ Failed("kbd") /\ rep = None
    /\ BusKept

PollHidSlot ==
    /\ \E i \in 1 .. MouseCount :
          IF host = "native" THEN NatPollMouse ELSE BusPollMouse(i) /\ UNCHANGED natVars
    /\ UNCHANGED <<hidVars, keyVars>>

PollKeyboardReportAny(rep) ==
    IF host = "native" THEN NatPollKeyboard(rep)
    ELSE /\ \E r \in 0 .. MaxReports :
              BusPollKeyboard(r) /\ rep = IF r = 0 THEN None ELSE Reports[r]
         /\ UNCHANGED natVars

(* Where this report names a key that was not down in the last one, and    *)
(* those keys in their order, with the shift of this report.               *)
FreshAt(rep) == {i \in DOMAIN rep.keys : \A j \in DOMAIN prev.keys : prev.keys[j] # rep.keys[i]}

NewKeys(rep) ==
    LET At(n) == CHOOSE i \in FreshAt(rep) : Cardinality({j \in FreshAt(rep) : j < i}) = n - 1
    IN [n \in 1 .. Cardinality(FreshAt(rep)) |-> <<rep.keys[At(n)], rep.shift>>]

(* kbd_q_push, once for each key: a full ring drops it.                    *)
Pushed(q, keys) ==
    LET room == QCap - 1 - Len(q)
    IN q \o SubSeq(keys, 1, IF Len(keys) < room THEN Len(keys) ELSE room)

Popped(q) == /\ queue' = IF q = <<>> THEN q ELSE Tail(q)
             /\ given' = IF q = <<>> THEN given ELSE given + 1

Mut_PollBeforePop ==
    /\ KeyboardReady
    /\ \E rep \in Range(Reports) \cup {Zeros, None} :
          /\ PollKeyboardReportAny(rep)
          /\ IF rep = None
             THEN UNCHANGED <<prev, news>> /\ Popped(queue)
             ELSE /\ news' = news \o NewKeys(rep) /\ prev' = rep
                  /\ Popped(Pushed(queue, NewKeys(rep)))
    /\ UNCHANGED hidVars

(* poll_usb_key_press: a key from the ring, or else those of a new report. *)
PollUsbKeyPress ==
    /\ KeyboardReady
    /\ IF queue # <<>>
       THEN Popped(queue) /\ UNCHANGED <<prev, news, host, busVars, devVars, natVars>>
       ELSE \E rep \in Range(Reports) \cup {Zeros, None} :
               /\ PollKeyboardReportAny(rep)
               /\ IF rep = None
                  THEN UNCHANGED <<prev, news, queue, given>>
                  ELSE /\ news' = news \o NewKeys(rep) /\ prev' = rep
                       /\ Popped(Pushed(queue, NewKeys(rep)))
    /\ UNCHANGED hidVars

----------------------------------------------------------------------------
(* External: hands on the devices, and the controller on its own.          *)

Press ==
    /\ KeyboardReady
    /\ IF host = "native"
       THEN NatProduce("kbd") /\ UNCHANGED <<host, busVars, devVars>>
       ELSE Produce(kbd.dev) /\ UNCHANGED natVars
    /\ UNCHANGED <<hidVars, keyVars>>

MoveMouse ==
    /\ \E i \in 1 .. MouseCount :
          IF host = "native"
          THEN NatProduce("mouse") /\ UNCHANGED <<host, busVars, devVars>>
          ELSE Produce(mice[i].dev) /\ UNCHANGED natVars
    /\ UNCHANGED <<hidVars, keyVars>>

PullOut ==
    /\ active # "none" /\ host # "native"
    /\ \E d \in {kbd.dev} \ {NoDev} : Unplug(d)
    /\ UNCHANGED <<natVars, hidVars, keyVars>>

Controller ==
    /\ \/ LateIn /\ UNCHANGED natVars
       \/ /\ host = "native" /\ \E e \in Eps : HcReports(e)
          /\ UNCHANGED <<host, busVars, devVars>>
    /\ UNCHANGED <<hidVars, keyVars>>

Init ==
    /\ machine \in Machines /\ plan = Attempts /\ label = "none" /\ active = "none"
    /\ host = "none" /\ bus = NoBus /\ walk = <<>> /\ next_free = 1
    /\ addr = [d \in Devices |-> NoAddr] /\ strays = {} /\ mice = <<>> /\ kbd = NoKbd
    /\ okay = [k \in Eps |-> FALSE] /\ fails = [k \in Eps |-> 0] /\ left = Nothing
    /\ dtog = [d \in Devices |-> FALSE] /\ made = [d \in Devices |-> 0]
    /\ sent = [d \in Devices |-> 0] /\ lost = [d \in Devices |-> 0]
    /\ slipped = [d \in Devices |-> 0] /\ gone = {} /\ faults = 0
    /\ NatIdle
    /\ prev = Zeros /\ queue = <<>> /\ news = <<>> /\ given = 0

Next ==
    \/ TryHost \/ Enumerate \/ HostSettles \/ PollHidSlot \/ PollUsbKeyPress
    \/ Press \/ MoveMouse \/ PullOut \/ Controller

(* kernel_main runs init to its end and then polls in every frame.         *)
Fairness ==
    /\ WF_vars(TryHost) /\ WF_vars(Enumerate) /\ WF_vars(HostSettles)
    /\ WF_vars(PollHidSlot) /\ WF_vars(PollUsbKeyPress)

Spec == Init /\ [][Next]_vars /\ Fairness

----------------------------------------------------------------------------
(* usb_ps2_kbd_should_ignore, as the loop uses it: PS/2 keys are dropped.  *)
Ps2Ignored == KeyboardReady /\ Healthy("kbd")

(* usb_mouse_active: USB mice take the lower cursors, PS/2 the next.       *)
UsbPointers == IF MouseCount > 0 /\ Healthy("mouse") THEN MouseCount ELSE 0

(* The variables stay in their types.                                      *)
TypeOK ==
    /\ host \in {"none", "uhci", "ohci", "native"} /\ active \in {"none", "uhci", "ohci", "xhci"}
    /\ next_free \in 1 .. MaxAddr + 1 /\ addr \in [Devices -> 0 .. NoAddr]
    /\ Len(mice) <= MaxMice /\ \A i \in DOMAIN mice : mice[i].dev \in Devices
    /\ kbd.ready => kbd.dev \in Devices
    /\ fails \in [Eps -> 0 .. FailMax] /\ okay \in [Eps -> BOOLEAN]
    /\ \A d \in Devices : sent[d] <= made[d] /\ lost[d] <= sent[d]
    /\ nat \in [Eps -> 0 .. NatSlots] /\ \A e \in Eps : nsent[e] <= nmade[e]
    /\ slipped \in [Devices -> 0 .. MaxFaults]
    /\ Len(queue) < QCap

(* Every key that was new in a report reaches the loop, in order and once: *)
(* the ring of eight never drops one, because it is empty whenever a       *)
(* report is asked for (poll_usb_key_press, kbd_q_push).                   *)
KeysReachLoop == SubSeq(news, given + 1, Len(news)) = queue

(* A keyboard that was pulled out does not shut out the PS/2 keyboard for  *)
(* ever (hid_kbd_suppresses_ps2).                                          *)
Ps2ComesBack == kbd.ready /\ kbd.dev \in gone ~> ~Ps2Ignored

(* init comes to an end, whatever fails.                                   *)
SearchEnds == <>(active # "none" \/ (plan = <<>> /\ host = "none"))

(* "a ghost-enumerated mouse does not reserve cursor slot 0" (uhci.rs):    *)
(* the mouse in the first slot has delivered a report.                     *)
GhostKeepsOffSlot0 ==
    UsbPointers > 0 => IF host = "native" THEN nsent["mouse"] > 0
                       ELSE sent[mice[1].dev] > lost[mice[1].dev]

(* Devices are told apart.  On UHCI and OHCI no two that were found share  *)
(* an address (enumerate_device_at_zero).  The native driver gives every   *)
(* device address 1; there a mouse found after the keyboard has a context  *)
(* of its own (ctx_for_slot).                                              *)
NothingShared == SlotAddressesUnique /\ SharedOnlyByStrays /\ KbdContextKept

(* The data toggles of driver and device: a mouse gets out of step only by *)
(* a transfer that slips, and a keyboard gets back in step                 *)
(* (poll_mouse_slot, poll_keyboard_report).                                *)
TogglesInStep == MiceLoseBySlips /\ GoodReportResyncs

(* The machine is not left without a keyboard: the search for a USB host   *)
(* ends, and a USB keyboard that is gone gives PS/2 back (init,            *)
(* hid_kbd_suppresses_ps2).                                                *)
KeyboardAvailable == SearchEnds /\ Ps2ComesBack
============================================================================
