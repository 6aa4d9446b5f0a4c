-------------------------------- MODULE Ps2 --------------------------------
(***************************************************************************)
(* The PS/2 driver (kernel/src/ps2.rs): poll_event reads one byte of the   *)
(* i8042 and makes at most one event of it.  The keyboard's prefixes and   *)
(* the mouse's packets are put together over several calls, and the bytes  *)
(* of the two devices come in any order.                                   *)
(*                                                                         *)
(* External: the devices, and a controller that may lose a byte.  A        *)
(* keyboard byte is [c, brk, sh]: the make code c, brk if it has the top   *)
(* bit of a set 1 break code, sh the shift keys held when the key was      *)
(* struck.  A mouse byte is [pkt, pos, b3, left]: byte pos of packet pkt,  *)
(* with what its bits 3 and 0 say.  Movement is left out.                  *)
(***************************************************************************)
EXTENDS Naturals, Sequences, FiniteSets

CONSTANTS
    MaxStrokes,  \* bound: keys pressed and released
    MaxPackets,  \* bound: mouse packets
    MaxLost      \* bound: bytes lost on each side

ASSUME Ps2Assumption == MaxStrokes \in Nat /\ MaxPackets \in Nat /\ MaxLost \in Nat

VARIABLES
    kset,      \* break codes are "prefix" (F0 and the make code) or "set1"
    kq,        \* keyboard bytes not read yet
    kd,        \* [e0 KBD_E0_PREFIX, rel KBD_RELEASE, ext KBD_EXT_RELEASE, shift]
    held,      \* shift keys held
    strokes, klost,
    tapped,    \* shift key -> 0, 1 pressed, 2 and released, since the last loss
    badshift,  \* a key event had the wrong shift
    wheel,     \* the mouse sends packets of four bytes
    mq,        \* mouse bytes not read yet
    pktlen, mbuf,  \* MOUSE_PKT_LEN; MOUSE_BUF up to MOUSE_PHASE
    mleft,     \* the left button
    packets, mlost,
    b3seen,    \* a movement byte had bit 3 set
    wrong      \* mouse events made of the wrong bytes

kbdVars == <<kset, kq, kd, held, strokes, klost, tapped, badshift>>
auxVars == <<wheel, mq, pktlen, mbuf, mleft, packets, mlost, b3seen, wrong>>

Shifts == {"shl", "shr"}
NoEvent == [t |-> "none"]

----------------------------------------------------------------------------
(* External: a key goes down or up.                                        *)

Byte(c, brk) == [c |-> c, brk |-> brk, sh |-> held]
Prefix(k) == IF k \in {"up", "down"} THEN <<Byte("E0", FALSE)>> ELSE <<>>
MakeBytes(k) == Prefix(k) \o <<Byte(k, FALSE)>>
BreakBytes(k) == Prefix(k) \o IF kset = "set1" THEN <<Byte(k, TRUE)>>
                              ELSE <<Byte("F0", FALSE), Byte(k, FALSE)>>

KeyDown(k) ==
    /\ strokes < MaxStrokes /\ k \notin held
    /\ strokes' = strokes + 1
    /\ kq' = kq \o MakeBytes(k)
    /\ held' = IF k \in Shifts THEN held \cup {k} ELSE held
    /\ tapped' = IF k \in Shifts THEN [tapped EXCEPT ![k] = 1] ELSE tapped
    /\ UNCHANGED <<kset, kd, klost, badshift, auxVars>>

KeyUp(k) ==
    /\ strokes < MaxStrokes /\ (k \in Shifts => k \in held)
    /\ strokes' = strokes + 1
    /\ kq' = kq \o BreakBytes(k)
    /\ held' = held \ {k}
    /\ tapped' = IF k \in Shifts /\ tapped[k] = 1 THEN [tapped EXCEPT ![k] = 2] ELSE tapped
    /\ UNCHANGED <<kset, kd, klost, badshift, auxVars>>

LoseKbdByte ==
    /\ klost < MaxLost /\ kq # <<>>
    /\ kq' = Tail(kq) /\ klost' = klost + 1 /\ tapped' = [s \in Shifts |-> 0]
    /\ UNCHANGED <<kset, kd, held, strokes, badshift, auxVars>>

----------------------------------------------------------------------------
(* The keyboard half of poll_event.                                        *)

Mut_KbdStateKeepsRelease(b) ==
    LET plain == b.c \notin {"E0", "F0"} /\ ~kd.e0
    IN CASE b.c = "E0" -> [kd EXCEPT !.e0 = TRUE]
         [] b.c # "E0" /\ kd.e0 -> [kd EXCEPT !.e0 = FALSE, !.rel = @ \/ b.c = "F0"]
         [] b.c = "F0" /\ ~kd.e0 -> [kd EXCEPT !.rel = TRUE]
         [] plain /\ kd.rel -> [kd EXCEPT !.rel = FALSE, !.shift = {}]
         [] OTHER -> [kd EXCEPT !.shift = IF b.c \in Shifts /\ ~b.brk THEN @ \cup {b.c} ELSE @]

Mut_KbdStateRightSticks(b) ==
    LET plain == b.c \notin {"E0", "F0"} /\ ~kd.e0
    IN CASE b.c = "E0" -> [kd EXCEPT !.e0 = TRUE]
         [] b.c # "E0" /\ kd.e0 -> [kd EXCEPT !.e0 = FALSE, !.ext = @ \/ b.c = "F0"]
         [] b.c = "F0" /\ ~kd.e0 -> [kd EXCEPT !.rel = TRUE]
         [] plain /\ kd.rel -> [kd EXCEPT !.rel = FALSE, !.ext = FALSE,
                                          !.shift = IF b.c = "shl" THEN @ \ {b.c} ELSE @]
         [] plain /\ ~kd.rel /\ kd.ext -> [kd EXCEPT !.ext = FALSE]
         [] OTHER -> [kd EXCEPT !.shift = IF b.c \in Shifts /\ ~b.brk THEN @ \cup {b.c} ELSE @]

(* The flags after byte b.  A byte with the top bit is no shift code.      *)
KbdState(b) ==
    LET plain == b.c \notin {"E0", "F0"} /\ ~kd.e0
    IN CASE b.c = "E0" -> [kd EXCEPT !.e0 = TRUE]
         [] b.c # "E0" /\ kd.e0 -> [kd EXCEPT !.e0 = FALSE, !.ext = @ \/ b.c = "F0"]
         [] b.c = "F0" /\ ~kd.e0 -> [kd EXCEPT !.rel = TRUE]
         [] plain /\ kd.rel ->
              [kd EXCEPT !.rel = FALSE, !.ext = FALSE,
                         !.shift = IF kd.ext \/ b.brk THEN @ ELSE @ \ {b.c}]
         [] plain /\ ~kd.rel /\ kd.ext -> [kd EXCEPT !.ext = FALSE]
         [] OTHER -> [kd EXCEPT !.shift = IF b.c \in Shifts /\ ~b.brk THEN @ \cup {b.c} ELSE @]

(* What poll_event returns for it.  A set 1 break code is a key of its     *)
(* own, which no table maps.                                               *)
KbdEvent(b) ==
    CASE kd.e0 /\ b.c \in {"up", "down"} /\ ~b.brk -> [t |-> "scroll", k |-> b.c]
      [] ~kd.e0 /\ ~kd.rel /\ ~kd.ext /\ b.c \notin {"E0", "F0"} /\ (b.c \notin Shifts \/ b.brk) ->
            [t |-> "key", k |-> IF b.brk THEN "unmapped" ELSE b.c, shift |-> kd.shift # {}]
      [] OTHER -> NoEvent

ReadKbdByte(ev) ==
    /\ kq # <<>> /\ ev = KbdEvent(Head(kq))
    /\ kd' = KbdState(Head(kq)) /\ kq' = Tail(kq)
    /\ badshift' = (badshift \/ (ev.t = "key" /\ ev.k # "unmapped"
                                 /\ ev.shift # (Head(kq).sh # {})))
    /\ UNCHANGED <<kset, held, strokes, klost, tapped, auxVars>>

----------------------------------------------------------------------------
(* The mouse.  External: it moves, or its button does; every movement byte *)
(* of one packet says the same of bits 3 and 0.                            *)

Packet(l, d) ==
    [i \in 1 .. IF wheel THEN 4 ELSE 3 |->
        [pkt |-> packets + 1, pos |-> i, b3 |-> i = 1 \/ d, left |-> IF i = 1 THEN l ELSE d]]

SendPacket(l, d) ==
    /\ packets < MaxPackets
    /\ mq' = mq \o Packet(l, d)
    /\ packets' = packets + 1 /\ mleft' = l /\ b3seen' = (b3seen \/ d)
    /\ UNCHANGED <<wheel, pktlen, mbuf, mlost, wrong, kbdVars>>

LoseAuxByte ==
    /\ mlost < MaxLost /\ mq # <<>>
    /\ mq' = Tail(mq) /\ mlost' = mlost + 1
    /\ UNCHANGED <<wheel, pktlen, mbuf, mleft, packets, b3seen, wrong, kbdVars>>

PktLen == IF pktlen > 3 THEN 4 ELSE 3

Mut_AuxBufferUnsynced(b) == IF Len(mbuf) + 1 = PktLen THEN <<>> ELSE Append(mbuf, b)

(* A packet begins with a byte that has bit 3; all others are skipped.     *)
AuxBuffer(b) ==
    IF mbuf = <<>> /\ ~b.b3 THEN <<>>
    ELSE IF Len(mbuf) + 1 = PktLen THEN <<>> ELSE Append(mbuf, b)

(* finish_ps2_mouse_packet: the buttons are those of the first byte.       *)
AuxEvent(b) ==
    IF mbuf # <<>> /\ Len(mbuf) + 1 = PktLen THEN [t |-> "mouse", left |-> mbuf[1].left]
    ELSE NoEvent

OnePacket(bytes) ==
    \A i \in 1 .. 3 : bytes[i].pos = i /\ bytes[i].pkt = bytes[1].pkt

ReadAuxByte(ev) ==
    /\ mq # <<>> /\ ev = AuxEvent(Head(mq))
    /\ mbuf' = AuxBuffer(Head(mq)) /\ mq' = Tail(mq)
    /\ wrong' = IF ev.t = "mouse" /\ ~OnePacket(Append(mbuf, Head(mq))) THEN wrong + 1 ELSE wrong
    /\ UNCHANGED <<wheel, pktlen, mleft, packets, mlost, b3seen, kbdVars>>

----------------------------------------------------------------------------
(* init: four bytes only if every acknowledgement came from the mouse and  *)
(* its id says so; any other outcome, three.  Movement that was already    *)
(* streaming can be taken for an answer.                                   *)
PktLens == IF wheel THEN {3, 4} ELSE {3}

(* kernel_main calls init once.  The drain at its end may cut a packet,    *)
(* which leaves a movement byte at the front.                              *)
Ps2Init ==
    /\ kset \in {"prefix", "set1"} /\ kq = <<>> /\ held = {} /\ strokes = 0 /\ klost = 0
    /\ kd = [e0 |-> FALSE, rel |-> FALSE, ext |-> FALSE, shift |-> {}]
    /\ tapped = [s \in Shifts |-> 0] /\ badshift = FALSE
    /\ wheel \in BOOLEAN /\ pktlen \in PktLens /\ mbuf = <<>> /\ mleft = FALSE /\ packets = 0
    /\ \/ mq = <<>> /\ mlost = 0
       \/ /\ MaxLost > 0 /\ mlost = 1
          /\ mq = <<[pkt |-> 0, pos |-> 3, b3 |-> FALSE, left |-> FALSE]>>
    /\ b3seen = FALSE /\ wrong = 0

----------------------------------------------------------------------------
(* A typed key has the shift that was held when it was struck, if the      *)
(* keyboard sends F0 before a break code and no byte is lost: prefixes of  *)
(* extended keys, both shift keys and mouse bytes in between included      *)
(* (poll_event).                                                           *)
KeyCarriesShift == kset = "prefix" /\ klost = 0 => ~badshift

(* One lost byte, a break code's or a prefix, may leave a shift flag set,  *)
(* but pressing and releasing that key once clears it (poll_event).        *)
TapHealsShift ==
    kset = "prefix" /\ kq = <<>> /\ klost <= 1 =>
        \A s \in Shifts : tapped[s] = 2 => s \notin kd.shift

(* Every mouse event is made of the bytes of one packet, whatever keyboard *)
(* bytes come between, if none is lost and the packet length is right; and *)
(* while movement bytes have bit 3 clear, a lost byte or a wheel mouse     *)
(* taken for one without costs at most one wrong event for each byte lost  *)
(* (poll_event, init).                                                     *)
PacketsKeepStep ==
    /\ mlost = 0 /\ (wheel => pktlen = 4) => wrong = 0
    /\ ~b3seen => wrong <= mlost

(* "set 1 make codes with 0xF0 break prefix" (ps2.rs): a typed key has the *)
(* shift held when it was struck, on either kind of keyboard.              *)
ShiftAsHeld == klost = 0 => ~badshift
============================================================================
