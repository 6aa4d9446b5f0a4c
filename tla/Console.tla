------------------------------ MODULE Console ------------------------------
(***************************************************************************)
(* The main loop (kernel_main in main.rs, main_step in arm_run.rs): one    *)
(* frame polls the input devices, hands clicks and keys to the screens,    *)
(* serves the requests the screens left behind, drives the network and     *)
(* draws.  Composes Ps2, Screens and LogRing; USB devices (UsbHid), the    *)
(* fetch (NetStack) and the installer (DiskInstall) appear by what they    *)
(* hand to the loop.                                                       *)
(*                                                                         *)
(* Mouse 0 is the PS/2 mouse, or the pointer of the ARM firmware; mice     *)
(* 1 .. scene.mice are the USB mice.                                       *)
(***************************************************************************)
EXTENDS Ps2, Screens, Integers

CONSTANTS
    Scenes,      \* bound: what is plugged in and touched, and where it starts
    MaxCursors,  \* MAX_CURSORS
    Heights      \* heights a click can have

ASSUME ConsoleAssumption ==
    MaxCursors \in Nat \ {0} /\ Heights \subseteq Nat

VARIABLES
    scene,     \* the scene played
    stage,     \* where in its frame the loop is
    cur,       \* cursors below cur have had their click
    usbok,     \* usb_mouse_active
    nusb,      \* n_usb
    btn, prev, \* cursor_btn, prev_cursor_btn: the left buttons
    touched,   \* keys and reports of devices other than the PS/2 ones
    uleft,     \* the left button of each mouse, as it was last reported
    owed,      \* history: presses of each mouse that had no click yet
    steady     \* history: no button was down while n_usb changed

frameVars == <<scene, stage, cur, usbok, nusb, btn, prev, touched, uleft, owed, steady>>
vars == <<kbdVars, auxVars, logVars, ui, disk, frameVars>>

Cursors == 0 .. MaxCursors - 1
Arm == scene.arch = "arm"
Least(a, b) == IF a < b THEN a ELSE b

(* cursor_active, and the cursor of the PS/2 mouse if one is left for it.  *)
Active ==
    IF nusb = 0 THEN {0} ELSE 0 .. Least(nusb, MaxCursors - 1)
Ps2Slot == IF nusb < MaxCursors THEN {nusb} ELSE {}
MouseAt(c) == IF c < nusb THEN c + 1 ELSE 0

(* Bound: what is left of the keys, packets and reports of the scene.      *)
Room == scene.touches - strokes - packets - touched

(* The screens become u, and the lines written on the way are one line.    *)
Says(u) == u.say /\ written < MaxLines
Logged(u) == IF Says(u) /\ u.screen = "log" THEN [u EXCEPT !.stale = @ \cup {"body"}] ELSE u
Becomes(u) ==
    /\ ui' = [Logged(u) EXCEPT !.say = FALSE]
    /\ IF Says(u) THEN PushLine ELSE UNCHANGED logVars

----------------------------------------------------------------------------
(* External: keys, mice and lost bytes.  A byte that comes elsewhere in a  *)
(* frame is read no earlier than by the next poll loop, so all come there. *)

Device ==
    /\ stage = "ps2" /\ UNCHANGED <<logVars, ui, disk>>
    /\ \/ /\ UNCHANGED frameVars
          /\ \/ Room > 0 /\ \E k \in scene.kbd : KeyDown(k) \/ KeyUp(k)
             \/ scene.lossy /\ (LoseKbdByte \/ LoseAuxByte)
       \/ /\ scene.aux /\ Room > 0
          /\ \E l \in BOOLEAN, d \in {FALSE, scene.lossy} :
                /\ SendPacket(l, d)
                /\ owed' = IF l /\ ~mleft THEN [owed EXCEPT ![0] = @ + 1] ELSE owed
          /\ UNCHANGED <<scene, stage, cur, usbok, nusb, btn, prev, touched, uleft, steady>>

----------------------------------------------------------------------------
(* The frame.                                                              *)

Held == mleft \/ (\E i \in DOMAIN uleft : uleft[i]) \/ (\E c \in Cursors : btn[c])

(* inet_on, the home page, and which mouse has which cursor.  On ARM there *)
(* is one pointer, and no key left from the last frame.                    *)
Top ==
    /\ stage = "top"
    /\ stage' = IF Arm THEN "keys" ELSE "ps2"
    /\ nusb' = IF ui.polling /\ usbok /\ ~Arm THEN Least(scene.mice, MaxCursors) ELSE 0
    /\ steady' = (steady /\ (nusb' = nusb \/ ~Held))
    /\ Becomes(BootFetch([ui EXCEPT !.online = scene.nic /\ ui.inet, !.asked = FALSE]))
    /\ UNCHANGED <<scene, cur, usbok, btn, prev, touched, uleft, owed, disk, kbdVars, auxVars>>

Mut_LoopGoesOn(ev) == IF kq = <<>> /\ mq = <<>> THEN "usb" ELSE "ps2"

(* "while let Some(ev) = poll_event()": a byte that makes no event ends    *)
(* the loop of this frame.                                                 *)
AfterPoll(ev) == IF ev = NoEvent THEN "usb" ELSE "ps2"

(* usb_ps2_kbd_should_ignore comes and goes while a USB keyboard is there. *)
Ps2Ignored == IF scene.usbkbd /\ ui.polling THEN BOOLEAN ELSE {FALSE}

PollKbd ==
    /\ stage = "ps2" /\ kq # <<>>
    /\ LET ev == KbdEvent(Head(kq))
       IN /\ ReadKbdByte(ev)
          /\ stage' = AfterPoll(ev)
          /\ \E ignore \in Ps2Ignored :
                Becomes(IF ev = NoEvent \/ (ev.t = "key" /\ ignore) THEN ui
                        ELSE KeyPressed(ui, ev.k, "ps2"))
    /\ UNCHANGED <<scene, cur, usbok, nusb, btn, prev, touched, uleft, owed, steady, disk>>

Mut_AuxOnlyWithoutUsb == nusb = 0 /\ mq # <<>>

(* The status byte says that a mouse byte waits.                           *)
AuxReady == mq # <<>>

PollAux ==
    /\ stage = "ps2" /\ AuxReady
    /\ LET ev == AuxEvent(Head(mq))
       IN /\ ReadAuxByte(ev)
          /\ stage' = AfterPoll(ev)
          /\ btn' = [c \in Cursors |-> IF c \in Ps2Slot /\ ev # NoEvent THEN ev.left ELSE btn[c]]
    /\ UNCHANGED <<scene, cur, usbok, nusb, prev, touched, uleft, owed, steady, disk, ui, logVars>>

PollNothing ==
    /\ stage = "ps2" /\ kq = <<>> /\ mq = <<>>
    /\ stage' = "usb"
    /\ UNCHANGED <<scene, cur, usbok, nusb, btn, prev, touched, uleft, owed, steady, disk, ui,
                   kbdVars, auxVars, logVars>>

(* Buttons of cursors that are not there are let go.                       *)
Kept(b) == [c \in Cursors |-> c \in Active /\ b[c]]

(* Every USB mouse is polled, r gives its report or none; what it says     *)
(* counts only if USB mice had cursors when the frame began.               *)
Reports == {r \in [1 .. scene.mice -> {"none", "down", "up"}] :
              Cardinality({i \in 1 .. scene.mice : r[i] # "none"}) <= Room}
Left(r, i) == IF r[i] = "none" THEN uleft[i] ELSE r[i] = "down"

PollUsbMice ==
    /\ stage = "usb" /\ ui.polling
    /\ \E r \in Reports :
          LET some == {i \in 1 .. scene.mice : r[i] # "none"}
              pressed == {i \in some : r[i] = "down" /\ ~uleft[i] /\ nusb > 0}
              b == [c \in Cursors |-> IF nusb > 0 /\ c + 1 \in some THEN r[c + 1] = "down" ELSE btn[c]]
          IN /\ usbok' \in IF some # {} THEN {TRUE} ELSE {usbok, FALSE}
             /\ uleft' = [i \in DOMAIN uleft |-> Left(r, i)]
             /\ owed' = [i \in DOMAIN owed |-> IF i \in pressed THEN owed[i] + 1 ELSE owed[i]]
             /\ touched' = touched + Cardinality(some)
             /\ btn' = IF scene.usbkbd THEN b ELSE Kept(b)
    /\ stage' = IF scene.usbkbd THEN "keys" ELSE "click"
    /\ UNCHANGED <<scene, cur, nusb, prev, steady, disk, ui, kbdVars, auxVars, logVars>>

UsbNotPolled ==
    /\ stage = "usb" /\ ~ui.polling
    /\ stage' = "click" /\ btn' = Kept(btn)
    /\ UNCHANGED <<scene, cur, usbok, nusb, prev, touched, uleft, owed, steady, disk, ui,
                   kbdVars, auxVars, logVars>>

KeyTaken(src) ==
    /\ stage = "keys" /\ Room > 0
    /\ \E k \in scene.keys : Becomes(KeyPressed(ui, k, src))
    /\ touched' = touched + 1
    /\ UNCHANGED <<scene, stage, cur, usbok, nusb, btn, prev, uleft, owed, steady, disk,
                   kbdVars, auxVars>>

(* A key of the USB keyboard's ring; the loop takes all there are.         *)
TakeUsbKey == ~Arm /\ KeyTaken("usb")

UsbKeysTaken ==
    /\ stage = "keys" /\ ~Arm /\ stage' = "click" /\ btn' = Kept(btn)
    /\ UNCHANGED <<scene, cur, usbok, nusb, prev, touched, uleft, owed, steady, disk, ui,
                   kbdVars, auxVars, logVars>>

(* process_arm_keys: the keys the firmware had since the last frame.       *)
TakeArmKey == Arm /\ KeyTaken("arm")

(* The pointer of the firmware, sampled once a frame, has cursor 0.        *)
SyncPrimaryCursor ==
    /\ stage = "keys" /\ Arm /\ stage' = "click"
    /\ \E b \in BOOLEAN :
          /\ b # btn[0] => Room > 0
          /\ btn' = [btn EXCEPT ![0] = b]
          /\ touched' = IF b # btn[0] THEN touched + 1 ELSE touched
          /\ owed' = IF b /\ ~btn[0] THEN [owed EXCEPT ![0] = @ + 1] ELSE owed
    /\ UNCHANGED <<scene, cur, usbok, nusb, prev, uleft, steady, disk, ui, kbdVars, auxVars, logVars>>

(* Cursors whose button went down since the last frame, in their order.    *)
Edges == {c \in Active : btn[c] /\ ~prev[c] /\ c >= cur}

Click ==
    /\ stage = "click"
    /\ \E c \in Edges :
          /\ \A d \in Edges : c <= d
          /\ cur' = c + 1
          /\ owed' = [owed EXCEPT ![MouseAt(c)] = @ - 1]
          /\ \E y \in Heights : \E h \in Hits(ui, y) \cap (scene.hits \cup {"miss", "dismiss"}) :
                Becomes(HandleClickAt(ui, h))
    /\ UNCHANGED <<scene, stage, usbok, nusb, btn, prev, touched, uleft, steady, disk,
                   kbdVars, auxVars>>

----------------------------------------------------------------------------
(* Requests the screens left behind.                                       *)

Power(u) == u.req \cap {"reboot", "shutdown"}

Mut_PowerWaits(u) ==
    IF Power(u) # {} /\ u.screen # "settings" THEN [u EXCEPT !.say = TRUE] ELSE u

(* A power request made where SYS is no longer shown is dropped.           *)
PowerIgnored(u) ==
    IF Power(u) = {} THEN u ELSE [u EXCEPT !.req = @ \ Power(u), !.say = TRUE]

ReloadServed(u) ==
    IF "reload" \in u.req THEN Reloaded([u EXCEPT !.req = @ \ {"reload"}]) ELSE u

(* The installer starts, takes a step or ends (DiskInstall).               *)
InstallPhases(u) ==
    CASE ~disk -> {u.install}
      [] disk /\ u.install = "idle" -> IF "install" \in u.req THEN {"running", "done", "failed"} ELSE {"idle"}
      [] disk /\ u.install = "running" -> {"running", "done", "failed"}
      [] OTHER -> {u.install}
InstallServed(u, ph) ==
    LET v == [u EXCEPT !.req = IF disk THEN @ \ {"install"} ELSE @, !.install = ph]
    IN IF u.install = "running" \/ ph # u.install THEN Repaint(v) ELSE v

PowerOff ==
    /\ stage = "click" /\ Edges = {}
    /\ Power(ui) # {} /\ ui.screen = "settings"
    /\ stage' = "off" /\ prev' = btn
    /\ Becomes([ui EXCEPT !.req = @ \ Power(ui), !.say = TRUE])
    /\ UNCHANGED <<scene, cur, usbok, nusb, btn, touched, uleft, owed, steady, disk, kbdVars, auxVars>>

Serve ==
    /\ stage = "click" /\ Edges = {}
    /\ Power(ui) = {} \/ ui.screen # "settings"
    /\ stage' = "drive" /\ prev' = btn /\ cur' = 0
    /\ LET u == ReloadServed(PowerIgnored(ui))
       IN \E ph \in InstallPhases(u) : Becomes(InstallServed(u, ph))
    /\ UNCHANGED <<scene, usbok, nusb, btn, touched, uleft, owed, steady, disk, kbdVars, auxVars>>

(* The network is driven: the fetch may settle, lines may be written, and  *)
(* what the status line shows may have changed.                            *)
Drive ==
    /\ stage = "drive" /\ stage' = "draw"
    /\ \E settle \in {FALSE, ui.fetching /\ ui.online}, changed \in {FALSE, scene.nic}, line \in {FALSE, ui.online} :
          LET u == IF settle THEN PageChanged([ui EXCEPT !.fetching = FALSE]) ELSE ui
              v == IF changed THEN StatusChanged(u) ELSE u
          IN Becomes([IF changed /\ v.screen = "log" THEN Repaint(v) ELSE v EXCEPT !.say = line])
    /\ UNCHANGED <<scene, cur, usbok, nusb, btn, prev, touched, uleft, owed, steady, disk,
                   kbdVars, auxVars>>

(* take_dirty, settings_save_requested, render_frame.  A save to disk that *)
(* succeeds writes a line after take_dirty.                                *)
Draw ==
    /\ stage = "draw" /\ stage' = "top"
    /\ \E line \in {FALSE, "save" \in ui.req /\ ~Arm} :
          LET u == IF fresh /\ ui.screen = "log" THEN Repaint(ui) ELSE ui
              v == [u EXCEPT !.req = @ \ {"save"}, !.say = line]
          IN /\ ui' = [RenderFrame(Logged(v)) EXCEPT !.say = FALSE]
             /\ IF Says(v) THEN PushLine
                ELSE fresh' = FALSE /\ UNCHANGED <<lines, begin, len, written>>
    /\ UNCHANGED <<scene, cur, usbok, nusb, btn, prev, touched, uleft, owed, steady, disk,
                   kbdVars, auxVars>>

----------------------------------------------------------------------------
(* new_with_settings, in front of the first notice; a scene may start      *)
(* where a user who went through them has got to, with nothing asked for   *)
(* and a screen that is painted or will be in full.                        *)
StartOk(u) ==
    /\ DOMAIN u = {"screen", "full", "focus", "url", "text", "num", "polling", "inet", "online", "fetching",
                   "pending", "install", "view", "req", "dirty", "stale", "over", "acks", "asked", "say"}
    /\ u.acks \in Nat
    /\ IF u.screen \in Notices THEN u.req = {} /\ u.pending /\ ~u.fetching ELSE u.acks >= 2
    /\ u.screen = "california" => u.acks >= 1
    /\ Power(u) = {} /\ u.view = EndOfLog
    /\ u.dirty \subseteq Parts \cup {"content"} /\ u.stale \subseteq Visible(u)
    /\ "content" \in u.dirty \/ u.stale = {}

ASSUME ScenesAssumption ==
    \A s \in Scenes :
        StartOk(s.ui) /\ s.mice \in Nat /\ s.lossy \in BOOLEAN /\ s.kbd \cap {"E0", "F0"} = {}

Init ==
    /\ scene \in Scenes
    /\ Ps2Init /\ LogInit
    /\ kset \in scene.ksets
    /\ wheel \/ mlost > 0 => scene.aux /\ scene.lossy
    /\ ui = scene.ui /\ disk = scene.disk
    /\ stage = "top" /\ cur = 0 /\ usbok = FALSE /\ nusb = 0
    /\ btn = [c \in Cursors |-> FALSE] /\ prev = btn
    /\ touched = 0 /\ uleft = [i \in 1 .. scene.mice |-> FALSE]
    /\ owed = [i \in 0 .. scene.mice |-> 0] /\ steady = TRUE

Frame ==
    \/ Top \/ PollKbd \/ PollAux \/ PollNothing \/ PollUsbMice \/ UsbNotPolled \/ TakeUsbKey \/ UsbKeysTaken
    \/ TakeArmKey \/ SyncPrimaryCursor \/ Click \/ PowerOff \/ Serve \/ Drive \/ Draw

Next == Device \/ Frame

(* The loop never blocks, and a key taken is one the bound allows.         *)
Fairness == WF_vars(Frame)

Spec == Init /\ [][Next]_vars /\ Fairness

----------------------------------------------------------------------------
(* Types; the URL keeps a byte free, and only parts that are visible can   *)
(* be stale.                                                               *)
TypeOK ==
    /\ stage \in {"top", "ps2", "usb", "keys", "click", "drive", "draw", "off"}
    /\ cur \in 0 .. MaxCursors /\ nusb \in 0 .. MaxCursors
    /\ btn \in [Cursors -> BOOLEAN] /\ prev \in [Cursors -> BOOLEAN]
    /\ owed \in [0 .. scene.mice -> Int] /\ uleft \in [1 .. scene.mice -> BOOLEAN]
    /\ ui.screen \in Notices \cup {"browser", "settings", "install", "log"}
    /\ ui.url \in 0 .. UrlCap - 1 /\ ui.text \in 0 .. TextCap /\ ui.num \in 0 .. NumCap
    /\ ui.stale \subseteq Visible(ui) /\ ui.dirty \subseteq Parts \cup {"content"}
    /\ len \in 0 .. Cap /\ begin \in 0 .. Cap - 1 /\ ui.view.scroll \in 0 .. Cap
    /\ Len(mbuf) < PktLen /\ kd.shift \subseteq Shifts

(* After every frame tabs, URL, page and status line show the present      *)
(* state, unless the page was painted over another screen; a line written  *)
(* after take_dirty waits for the next frame.  render_frame serves one     *)
(* dirty flag of several, and drops the rest.  Not covered: how < and >    *)
(* look, for a fetch changes the history and sets no flag for them, and    *)
(* old glyphs, for a status line painted with the chrome is not cleared.   *)
FrameShowsState ==
    stage = "top" /\ ~ui.over /\ "content" \notin ui.dirty =>
        ui.stale \subseteq Leftovers \cup IF fresh THEN {"body"} ELSE {}

(* Nobody gets past the two notices without acknowledging each, and until  *)
(* then nothing is typed, fetched, asked for or switched off, however many *)
(* keys and clicks one frame brings (dismiss_epilepsy_notice,              *)
(* dismiss_california_age_notice and the guards in front of them).         *)
NothingBehindNotices ==
    /\ ui.screen \notin Notices => ui.acks >= 2
    /\ ui.screen \in Notices =>
          /\ ui.req = {} /\ ui.pending /\ ~ui.fetching /\ stage # "off"
          /\ ui.url = scene.ui.url

(* The machine is only switched off in a frame in which a power button was *)
(* hit: a request that a second cursor's click made void is not kept for a *)
(* later visit to SYS (power_reboot_request).                              *)
PowerAsAsked == stage = "off" => ui.asked

(* Every press of a mouse button is one click, and there is no click       *)
(* without one, also when press and release are read together, as long as  *)
(* no byte is lost, the packet length is right, the PS/2 mouse has a       *)
(* cursor, and no button is down while cursors change hands (kernel_main,  *)
(* poll_event).                                                            *)
ClickPerPress ==
    steady /\ mlost = 0 /\ (wheel => pktlen = 4) /\ scene.mice < MaxCursors =>
        \A i \in DOMAIN owed :
            /\ owed[i] >= 0
            /\ stage = "top" /\ (i = 0 => mq = <<>>) => owed[i] = 0

(* A reader who has scrolled up in the LOG tab keeps his first line while  *)
(* new lines come, until the ring is full and drops it (draw_log_body,     *)
(* log_scroll_by_wheel, push_line).                                        *)
LogViewHeld ==
    [][~ui.view.stick /\ ui'.view = ui.view /\ len > 0 /\ len < Cap
          => LineAt(FirstRow(ui.view))' = LineAt(FirstRow(ui.view))]_vars

(* Input bytes are all read in the end: a mouse without a cursor and a     *)
(* keyboard that is ignored do not hold up the other (kernel_main).        *)
BytesDrain == []<>(stage = "off" \/ (kq = <<>> /\ mq = <<>>))

(* A browser that stays in front with a URL fetches it once, with or       *)
(* without a network (boot_home_fetch_pending).                            *)
HomeFetched == []<>~(ui.pending /\ ui.screen = "browser" /\ ui.url > 0)

(* "full framebuffer is the page" (bios_fullpage_browser): a click on a    *)
(* full page hits no tab.                                                  *)
ClicksStayOnPage == [][stage = "click" /\ Fullpage(ui) => ui'.screen = "browser"]_vars

(* The shift state follows the keyboard, and one tap mends a loss          *)
(* (poll_event).                                                           *)
ShiftFollowsKeys == KeyCarriesShift /\ TapHealsShift

(* Nothing happens that nobody asked for on the screen in front, however   *)
(* many keys and clicks one frame brings (kernel_main, handle_click_at).   *)
NothingUnasked == NothingBehindNotices /\ PowerAsAsked

(* The loop gets round to whatever waits: input bytes and the home page    *)
(* (kernel_main).                                                          *)
NothingStarves == BytesDrain /\ HomeFetched
============================================================================
