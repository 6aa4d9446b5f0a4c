--------------------------- MODULE ConsoleProofs ---------------------------
(***************************************************************************)
(* What the loop and its parts promise, for every size of the log ring,    *)
(* every number of cursors, bytes and packets, and every scene.            *)
(***************************************************************************)
EXTENDS Console, SequenceTheorems, FiniteSetTheorems, TLAPS

----------------------------------------------------------------------------
(* Indices of a ring.                                                      *)

\* A sum that stays inside the ring does not wrap.
LEMMA NoWrap == ASSUME NEW x \in Nat, NEW n \in Nat, x < n PROVE x % n = x
  OBVIOUS

\* Indices of a ring wrap once.
LEMMA WrapOnce ==
    ASSUME NEW n \in Nat, NEW i \in 0 .. n - 1, NEW m \in 0 .. n
    PROVE  (i + m) % n = IF i + m < n THEN i + m ELSE i + m - n
  OBVIOUS

----------------------------------------------------------------------------
(* The log ring.  Until it is full it begins at its first entry.           *)

LogInv ==
    /\ lines \in [0 .. Cap - 1 -> Nat] /\ begin \in 0 .. Cap - 1 /\ len \in 0 .. Cap /\ written \in Nat
    /\ len < Cap => begin = 0 /\ written = len
    /\ LogKeepsNewest

LogKept == UNCHANGED <<lines, begin, len, written>>

LEMMA BecomesLog == ASSUME NEW u, Becomes(u) PROVE PushLine \/ LogKept
  BY DEF Becomes, LogKept, logVars

LEMMA LogActions == [Next]_vars => PushLine \/ LogKept
<1> SUFFICES ASSUME [Next]_vars PROVE PushLine \/ LogKept
  OBVIOUS
<1> USE DEF LogKept, logVars
<1>1. CASE Device
  BY <1>1 DEF Device
<1>2. CASE Top
  BY <1>2, BecomesLog DEF Top
<1>3. CASE PollKbd
  <2>1. \E u : Becomes(u)
    BY <1>3 DEF PollKbd
  <2> QED
    BY <2>1, BecomesLog
<1>4. CASE PollAux \/ PollNothing \/ PollUsbMice \/ UsbNotPolled \/ UsbKeysTaken \/ SyncPrimaryCursor
  BY <1>4 DEF PollAux, PollNothing, PollUsbMice, UsbNotPolled, UsbKeysTaken, SyncPrimaryCursor
<1>5. CASE TakeUsbKey \/ TakeArmKey
  <2>1. \E u : Becomes(u)
    BY <1>5 DEF TakeUsbKey, TakeArmKey, KeyTaken
  <2> QED
    BY <2>1, BecomesLog
<1>6. CASE Click
  <2>1. \E u : Becomes(u)
    BY <1>6 DEF Click
  <2> QED
    BY <2>1, BecomesLog
<1>7. CASE PowerOff \/ Serve \/ Drive
  <2>1. \E u : Becomes(u)
    BY <1>7 DEF PowerOff, Serve, Drive
  <2> QED
    BY <2>1, BecomesLog
<1>8. CASE Draw
  BY <1>8 DEF Draw
<1>9. CASE UNCHANGED vars
  BY <1>9 DEF vars
<1> QED
  BY <1>1, <1>2, <1>3, <1>4, <1>5, <1>6, <1>7, <1>8, <1>9 DEF Next, Frame

LEMMA PushStep == ASSUME LogInv, PushLine PROVE LogInv'
<1> DEFINE slot == IF len < Cap THEN (begin + len) % Cap ELSE begin
<1>0. Cap \in Nat /\ Cap > 0 /\ lines \in [0 .. Cap - 1 -> Nat] /\ begin \in 0 .. Cap - 1 /\ len \in 0 .. Cap /\ written \in Nat
  BY LogAssumption DEF LogInv
<1>1. lines' = [lines EXCEPT ![slot] = written + 1] /\ written' = written + 1
  BY DEF PushLine
<1>2. CASE len < Cap
  <2>1. begin = 0 /\ written = len
    BY <1>2 DEF LogInv
  <2>2. slot = len /\ \A i \in 0 .. len : (0 + i) % Cap = i
    <3>1. \A i \in 0 .. len : 0 + i = i /\ i \in Nat /\ i < Cap
      BY <1>0, <1>2
    <3>2. \A i \in 0 .. len : i % Cap = i
      BY <1>0, <3>1, NoWrap
    <3>3. len \in 0 .. len
      BY <1>0
    <3> QED
      BY <1>2, <2>1, <3>1, <3>2, <3>3
  <2>3. len' = len + 1 /\ begin' = 0
    BY <1>2, <2>1 DEF PushLine, NextBegin
  <2> HIDE DEF slot
  <2>4. lines' \in [0 .. Cap - 1 -> Nat] /\ lines'[len] = written + 1 /\ \A i \in 0 .. Cap - 1 : i # len => lines'[i] = lines[i]
    BY <1>0, <1>1, <1>2, <2>2
  <2>5. \A i \in 0 .. len - 1 : lines[i] = i + 1
    <3> SUFFICES ASSUME NEW i \in 0 .. len - 1 PROVE lines[i] = i + 1
      OBVIOUS
    <3>1. lines[(begin + i) % Cap] = written - len + 1 + i
      BY DEF LogInv, LogKeepsNewest, LineAt
    <3>2. i \in 0 .. len
      BY <1>0
    <3>3. (begin + i) % Cap = i
      BY <2>1, <2>2, <3>2
    <3> QED
      BY <1>0, <2>1, <3>1, <3>3
  <2>6. ASSUME NEW i \in 0 .. len' - 1 PROVE lines'[(begin' + i) % Cap] = written' - len' + 1 + i
    <3>1. i \in 0 .. len /\ i \in 0 .. Cap - 1
      BY <1>0, <1>2, <2>3
    <3>2. (begin' + i) % Cap = i
      BY <2>2, <2>3, <3>1
    <3>3. lines'[i] = i + 1
      <4>1. CASE i = len
        BY <2>1, <2>4, <4>1
      <4>2. CASE i # len
        <5>1. i \in 0 .. len - 1
          BY <1>0, <3>1, <4>2
        <5> QED
          BY <2>4, <2>5, <3>1, <4>2, <5>1
      <4> QED
        BY <4>1, <4>2
    <3> QED
      BY <1>0, <1>1, <2>1, <2>3, <3>1, <3>2, <3>3
  <2>7. LogKeepsNewest'
    BY <2>6 DEF LogKeepsNewest, LineAt
  <2>8. begin' \in 0 .. Cap - 1 /\ len' \in 0 .. Cap /\ written' \in Nat /\ written' = len'
    BY <1>0, <1>1, <1>2, <2>1, <2>3
  <2> QED
    BY <2>3, <2>4, <2>7, <2>8 DEF LogInv
<1>3. CASE ~(len < Cap)
  <2>1. len = Cap /\ len' = Cap /\ begin' = (begin + 1) % Cap /\ slot = begin
    BY <1>0, <1>3 DEF PushLine, NextBegin
  <2> HIDE DEF slot
  <2>2. begin' = IF begin + 1 < Cap THEN begin + 1 ELSE 0
    <3>1. 1 \in 0 .. Cap
      BY <1>0
    <3>2. (begin + 1) % Cap = IF begin + 1 < Cap THEN begin + 1 ELSE begin + 1 - Cap
      BY <1>0, <3>1, WrapOnce
    <3> QED
      BY <1>0, <2>1, <3>2
  <2>3. lines' \in [0 .. Cap - 1 -> Nat] /\ lines'[begin] = written + 1 /\ \A i \in 0 .. Cap - 1 : i # begin => lines'[i] = lines[i]
    BY <1>0, <1>1, <2>1
  <2>4. ASSUME NEW i \in 0 .. Cap - 1 PROVE lines'[(begin' + i) % Cap] = written' - Cap + 1 + i
    <3>1. begin' \in 0 .. Cap - 1
      BY <1>0, <2>2
    <3>2. (begin' + i) % Cap = IF begin' + i < Cap THEN begin' + i ELSE begin' + i - Cap
      <4>1. i \in 0 .. Cap
        BY <1>0
      <4> QED
        BY <1>0, <3>1, <4>1, WrapOnce
    <3>3. CASE i = Cap - 1
      <4>1. (begin' + i) % Cap = begin
        BY <1>0, <2>2, <3>2, <3>3
      <4> QED
        BY <1>0, <1>1, <2>3, <3>3, <4>1
    <3>4. CASE i # Cap - 1
      <4>1. i + 1 \in 0 .. Cap /\ i + 1 \in 0 .. len - 1
        BY <1>0, <2>1, <3>4
      <4>2. (begin + (i + 1)) % Cap = IF begin + (i + 1) < Cap THEN begin + (i + 1) ELSE begin + (i + 1) - Cap
        BY <1>0, <4>1, WrapOnce
      <4>3. (begin' + i) % Cap = (begin + (i + 1)) % Cap /\ (begin' + i) % Cap # begin /\ (begin' + i) % Cap \in 0 .. Cap - 1
        BY <1>0, <2>2, <3>2, <3>4, <4>2
      <4>4. lines[(begin + (i + 1)) % Cap] = written - len + 1 + (i + 1)
        BY <4>1 DEF LogInv, LogKeepsNewest, LineAt
      <4>5. lines'[(begin' + i) % Cap] = written - len + 1 + (i + 1)
        BY <2>3, <4>3, <4>4
      <4> QED
        BY <1>0, <1>1, <2>1, <4>5
    <3> QED
      BY <3>3, <3>4
  <2>5. LogKeepsNewest'
    BY <2>1, <2>4 DEF LogKeepsNewest, LineAt
  <2>6. begin' \in 0 .. Cap - 1 /\ written' \in Nat /\ len' \in 0 .. Cap /\ ~(len' < Cap)
    BY <1>0, <1>1, <2>1, <2>2
  <2> QED
    BY <2>3, <2>5, <2>6 DEF LogInv
<1> QED
  BY <1>2, <1>3

LEMMA LogStep == LogInv /\ [Next]_vars => LogInv'
<1> SUFFICES ASSUME LogInv, [Next]_vars PROVE LogInv'
  OBVIOUS
<1>1. CASE LogKept
  BY <1>1 DEF LogKept, LogInv, LogKeepsNewest, LineAt
<1> QED
  BY <1>1, PushStep, LogActions

LEMMA LogStart == Init => LogInv
<1> SUFFICES ASSUME Init PROVE LogInv
  OBVIOUS
<1>0. Cap \in Nat /\ Cap > 0
  BY LogAssumption
<1>1. lines = [i \in 0 .. Cap - 1 |-> 0] /\ begin = 0 /\ len = 0 /\ written = 0
  BY DEF Init, LogInit
<1> QED
  BY <1>0, <1>1 DEF LogInv, LogKeepsNewest

\* A log ring of any size holds the newest lines, oldest first, over every lap: push_line, line_at.
THEOREM LogNewest == Spec => []LogKeepsNewest
<1>1. LogInv => LogKeepsNewest
  BY DEF LogInv
<1> QED
  BY <1>1, LogStart, LogStep, PTL DEF Spec

----------------------------------------------------------------------------
(* The screens.  Sound: what nobody may get past, and a log view inside    *)
(* the log.  Shown: whatever part of the framebuffer is out of date has a  *)
(* flag that will see to it.  home: the URL the scene starts with.         *)

UiFields == {"screen", "full", "focus", "url", "text", "num", "polling", "inet", "online", "fetching",
             "pending", "install", "view", "req", "dirty", "stale", "over", "acks", "asked", "say"}

ViewOk(v, m) ==
    DOMAIN v = {"scroll", "stick"} /\ v.scroll \in Nat /\ v.scroll <= m /\ v.stick \in BOOLEAN

Noticed(u, home) ==
    /\ u.acks \in Nat
    /\ u.screen \notin Notices => u.acks >= 2
    /\ u.screen = "california" => u.acks >= 1
    /\ u.screen \in Notices => u.req = {} /\ u.pending /\ ~u.fetching /\ u.url = home

Sound(u, home, m) ==
    /\ DOMAIN u = UiFields
    /\ u.dirty \subseteq Parts \cup {"content"} /\ u.stale \subseteq Parts \cup Leftovers
    /\ Noticed(u, home)
    /\ Power(u) # {} => u.asked
    /\ ViewOk(u.view, m)

Covered(u, f) ==
    /\ "chrome" \in u.stale => "chrome" \in u.dirty
    /\ "status" \in u.stale => "status" \in u.dirty
    /\ "body" \in u.stale => (u.screen = "browser" /\ "body" \in u.dirty) \/ (u.screen = "log" /\ f)

Shown(u, f) == u.stale \subseteq Visible(u) /\ (u.over \/ "content" \in u.dirty \/ Covered(u, f))

\* v is u but for its flags and for fields that do not matter here.
Keeps(u, v) ==
    /\ DOMAIN v = DOMAIN u /\ v.screen = u.screen /\ v.full = u.full /\ v.acks = u.acks /\ v.req = u.req
    /\ v.pending = u.pending /\ v.fetching = u.fetching /\ v.url = u.url /\ v.view = u.view
    /\ v.asked = u.asked /\ v.over = u.over

LEMMA KeepsSound ==
    ASSUME NEW u, NEW v, NEW h, NEW m, Sound(u, h, m), Keeps(u, v),
           v.dirty \subseteq Parts \cup {"content"}, v.stale \subseteq Parts \cup Leftovers
    PROVE  Sound(v, h, m)
  BY DEF Sound, Keeps, Noticed, Power

LEMMA KeepsVisible == ASSUME NEW u, NEW v, Keeps(u, v) PROVE Visible(v) = Visible(u)
  BY DEF Keeps, Visible, Fullpage

LEMMA MarkIs ==
    ASSUME NEW u, DOMAIN u = UiFields, NEW d, NEW s
    PROVE  /\ Keeps(u, Mark(u, d, s)) /\ Mark(u, d, s).dirty = u.dirty \cup d
           /\ Mark(u, d, s).stale = (u.stale \cup s) \cap Visible(u)
<1> DEFINE v == [u EXCEPT !.dirty = @ \cup d, !.stale = @ \cup s]
           w == [v EXCEPT !.stale = @ \cap Visible(v)]
<1>1. Keeps(u, v) /\ v.dirty = u.dirty \cup d /\ v.stale = u.stale \cup s
  BY DEF Keeps, UiFields
<1>2. Visible(v) = Visible(u) /\ DOMAIN v = UiFields
  BY <1>1, KeepsVisible DEF Keeps
<1> HIDE DEF v
<1>3. Keeps(v, w) /\ w.dirty = v.dirty /\ w.stale = v.stale \cap Visible(v)
  BY <1>2 DEF Keeps, UiFields
<1>4. w = Mark(u, d, s)
  BY DEF Mark, v
<1> HIDE DEF w
<1>5. Keeps(u, w)
  BY <1>1, <1>3 DEF Keeps
<1> QED
  BY <1>1, <1>2, <1>3, <1>4, <1>5

LEMMA VisibleParts == ASSUME NEW u PROVE Visible(u) \subseteq Parts \cup Leftovers
  BY DEF Visible, Parts, Leftovers

LEMMA RepaintOk ==
    ASSUME NEW u, NEW h, NEW m, NEW f, Sound(u, h, m)
    PROVE  Sound(Repaint(u), h, m) /\ Shown(Repaint(u), f) /\ Keeps(u, Repaint(u))
<1> DEFINE v == Mark(u, {"content"}, Parts)
<1>1. Keeps(u, v) /\ v.dirty = u.dirty \cup {"content"} /\ v.stale = (u.stale \cup Parts) \cap Visible(u)
  BY MarkIs DEF Sound
<1> HIDE DEF v
<1>2. v.dirty \subseteq Parts \cup {"content"} /\ v.stale \subseteq Parts \cup Leftovers
  BY <1>1, VisibleParts DEF Sound
<1>3. Sound(v, h, m)
  BY <1>1, <1>2, KeepsSound
<1>4. v.stale \subseteq Visible(v) /\ "content" \in v.dirty
  BY <1>1, KeepsVisible
<1>5. Shown(v, f)
  BY <1>4 DEF Shown
<1> QED
  BY <1>1, <1>3, <1>5 DEF Repaint, v

LEMMA MarkOk ==
    ASSUME NEW u, NEW h, NEW m, NEW f, Sound(u, h, m), Shown(u, f), NEW d \in SUBSET Parts, NEW s \in SUBSET (d \cup Leftovers),
           "body" \in s => u.screen = "browser"
    PROVE  Sound(Mark(u, d, s), h, m) /\ Shown(Mark(u, d, s), f) /\ Keeps(u, Mark(u, d, s))
<1> DEFINE v == Mark(u, d, s)
<1>1. Keeps(u, v) /\ v.dirty = u.dirty \cup d /\ v.stale = (u.stale \cup s) \cap Visible(u)
  BY MarkIs DEF Sound
<1> HIDE DEF v
<1>2. v.dirty \subseteq Parts \cup {"content"} /\ v.stale \subseteq Parts \cup Leftovers
  BY <1>1, VisibleParts DEF Sound
<1>3. Sound(v, h, m)
  BY <1>1, <1>2, KeepsSound
<1>4. v.stale \subseteq Visible(v)
  BY <1>1, KeepsVisible
<1>5. v.over \/ "content" \in v.dirty \/ Covered(v, f)
  BY <1>1 DEF Shown, Covered, Keeps, Leftovers
<1>6. Shown(v, f)
  BY <1>4, <1>5 DEF Shown
<1> QED
  BY <1>1, <1>3, <1>6 DEF v

LEMMA StatusOk ==
    ASSUME NEW u, NEW h, NEW m, NEW f, Sound(u, h, m), Shown(u, f)
    PROVE  Sound(StatusChanged(u), h, m) /\ Shown(StatusChanged(u), f) /\ Keeps(u, StatusChanged(u))
  BY MarkOk DEF StatusChanged, Parts

LEMMA HistoryOk ==
    ASSUME NEW u, NEW h, NEW m, NEW f, Sound(u, h, m), Shown(u, f)
    PROVE  Sound(HistoryPushed(u), h, m) /\ Shown(HistoryPushed(u), f) /\ Keeps(u, HistoryPushed(u))
<1>1. {} \in SUBSET Parts /\ {"nav"} \in SUBSET ({} \cup Leftovers) /\ "body" \notin {"nav"}
  BY DEF Leftovers
<1> QED
  BY <1>1, MarkOk DEF HistoryPushed

LEMMA PageOk ==
    ASSUME NEW u, NEW h, NEW m, NEW f, Sound(u, h, m), Shown(u, f)
    PROVE  Sound(PageChanged(u), h, m) /\ Shown(PageChanged(u), f) /\ Keeps(u, PageChanged(u))
<1> DEFINE s == IF u.screen = "browser" THEN {"body"} ELSE {}
<1>1. s \in SUBSET {"body"} /\ {"body"} \in SUBSET Parts /\ ("body" \in s => u.screen = "browser")
  BY DEF Parts
<1> HIDE DEF s
<1>2. Sound(Mark(u, {"body"}, s), h, m) /\ Shown(Mark(u, {"body"}, s), f) /\ Keeps(u, Mark(u, {"body"}, s))
  BY <1>1, MarkOk
<1> QED
  BY <1>2 DEF PageChanged, s

\* Both at once, of a state that may follow u.
Fine(u, h, m, f) == Sound(u, h, m) /\ Shown(u, f)

\* v keeps the requests of u.
Asks(u, v) == v.req = u.req /\ v.asked = u.asked

\* A field that no flag depends on is changed behind the notices.
Behind(u, v) ==
    /\ DOMAIN v = DOMAIN u /\ v.screen = u.screen /\ v.full = u.full /\ v.acks = u.acks
    /\ v.dirty = u.dirty /\ v.stale = u.stale /\ v.over = u.over /\ v.view = u.view

LEMMA BehindOk ==
    ASSUME NEW u, NEW v, NEW h, NEW m, NEW f, Behind(u, v), u.screen \notin Notices, Power(v) # {} => v.asked
    PROVE  /\ Sound(u, h, m) => Sound(v, h, m)
           /\ Fine(u, h, m, f) => Fine(v, h, m, f)
<1>1. Sound(u, h, m) => Sound(v, h, m)
  BY DEF Behind, Sound, Noticed, Notices
<1>2. Shown(u, f) => Shown(v, f)
  BY DEF Behind, Shown, Covered, Visible, Fullpage
<1> QED
  BY <1>1, <1>2 DEF Fine

\* And in front of them, if it is none of those the notices guard.
LEMMA KeepsOk ==
    ASSUME NEW u, NEW v, NEW h, NEW m, NEW f, Keeps(u, v), v.dirty = u.dirty, v.stale = u.stale
    PROVE  /\ Sound(u, h, m) => Sound(v, h, m)
           /\ Fine(u, h, m, f) => Fine(v, h, m, f)
<1>1. Sound(u, h, m) => Sound(v, h, m)
  BY KeepsSound DEF Sound
<1>2. Shown(u, f) => Shown(v, f)
  BY DEF Keeps, Shown, Covered, Visible, Fullpage
<1> QED
  BY <1>1, <1>2 DEF Fine

LEMMA RepaintFine ==
    ASSUME NEW u, NEW h, NEW m, NEW f, Sound(u, h, m)
    PROVE  Fine(Repaint(u), h, m, f) /\ Asks(u, Repaint(u)) /\ Repaint(u).screen = u.screen
  BY RepaintOk DEF Fine, Asks, Keeps

LEMMA FetchOk ==
    ASSUME NEW u, NEW h, NEW m, NEW f, Fine(u, h, m, f), u.screen \notin Notices
    PROVE  /\ Fine(StartBrowserFetch(u), h, m, f) /\ Asks(u, StartBrowserFetch(u))
           /\ StartBrowserFetch(u).screen = u.screen
<1> DEFINE v == [u EXCEPT !.fetching = @ \/ u.online, !.say = @ \/ u.online]
<1>0. DOMAIN u = UiFields /\ (Power(u) # {} => u.asked)
  BY DEF Fine, Sound
<1>1. Behind(u, v) /\ Asks(u, v)
  BY <1>0 DEF Behind, Asks, UiFields
<1> HIDE DEF v
<1>2. Fine(v, h, m, f) /\ v.screen = u.screen
  BY <1>0, <1>1, BehindOk DEF Asks, Power, Behind
<1> DEFINE w == HistoryPushed(v)
<1>7. Fine(w, h, m, f) /\ Keeps(v, w)
  BY <1>2, HistoryOk DEF Fine
<1> HIDE DEF w
<1>3. Fine(PageChanged(w), h, m, f) /\ Keeps(w, PageChanged(w))
  BY <1>7, PageOk DEF Fine
<1>4. Fine(StatusChanged(PageChanged(w)), h, m, f) /\ Keeps(PageChanged(w), StatusChanged(PageChanged(w)))
  BY <1>3, StatusOk DEF Fine
<1>5. CASE u.url = 0
  BY <1>5 DEF StartBrowserFetch, Asks
<1>6. CASE u.url # 0
  <2>1. StartBrowserFetch(u) = StatusChanged(PageChanged(w))
    BY <1>6 DEF StartBrowserFetch, v, w
  <2> QED
    BY <1>1, <1>2, <1>3, <1>4, <1>7, <2>1 DEF Asks, Keeps
<1> QED
  BY <1>5, <1>6

LEMMA BootOk ==
    ASSUME NEW u, NEW h, NEW m, NEW f, Fine(u, h, m, f)
    PROVE  Fine(BootFetch(u), h, m, f) /\ Asks(u, BootFetch(u)) /\ BootFetch(u).screen = u.screen
<1>0. DOMAIN u = UiFields /\ (Power(u) # {} => u.asked)
  BY DEF Fine, Sound
<1>1. CASE u.pending /\ u.screen = "browser" /\ u.url > 0
  <2> DEFINE v == [u EXCEPT !.pending = FALSE]
  <2>1. Behind(u, v) /\ Asks(u, v) /\ u.screen \notin Notices
    BY <1>0, <1>1 DEF Behind, Asks, UiFields, Notices
  <2>2. BootFetch(u) = StartBrowserFetch(v)
    BY <1>1 DEF BootFetch
  <2> HIDE DEF v
  <2>3. Fine(v, h, m, f) /\ v.screen = u.screen
    BY <1>0, <2>1, BehindOk DEF Asks, Power, Behind
  <2> QED
    BY <2>1, <2>2, <2>3, FetchOk DEF Asks
<1>2. CASE ~(u.pending /\ u.screen = "browser" /\ u.url > 0)
  BY <1>2 DEF BootFetch, Asks
<1> QED
  BY <1>1, <1>2

LEMMA ReloadOk ==
    ASSUME NEW u, NEW h, NEW m, NEW f, Fine(u, h, m, f), u.screen \notin Notices
    PROVE  Fine(Reloaded(u), h, m, f) /\ Asks(u, Reloaded(u)) /\ Reloaded(u).screen = u.screen
<1>0. DOMAIN u = UiFields /\ (Power(u) # {} => u.asked)
  BY DEF Fine, Sound
<1>1. CASE u.url > 0
  <2>1. Reloaded(u) = StatusChanged(StartBrowserFetch(u))
    BY <1>1 DEF Reloaded
  <2>2. Fine(StartBrowserFetch(u), h, m, f) /\ Asks(u, StartBrowserFetch(u)) /\ StartBrowserFetch(u).screen = u.screen
    BY FetchOk
  <2>3. Fine(Reloaded(u), h, m, f) /\ Keeps(StartBrowserFetch(u), Reloaded(u))
    BY <2>1, <2>2, StatusOk DEF Fine
  <2> QED
    BY <2>2, <2>3 DEF Asks, Keeps
<1>2. CASE ~(u.url > 0)
  <2> DEFINE v == [u EXCEPT !.fetching = FALSE]
  <2>1. Reloaded(u) = StatusChanged(PageChanged(v))
    BY <1>2 DEF Reloaded
  <2>2. Behind(u, v) /\ Asks(u, v)
    BY <1>0 DEF Behind, Asks, UiFields
  <2> HIDE DEF v
  <2>3. Fine(v, h, m, f) /\ v.screen = u.screen
    BY <1>0, <2>2, BehindOk DEF Asks, Power, Behind
  <2>4. Fine(PageChanged(v), h, m, f) /\ Keeps(v, PageChanged(v))
    BY <2>3, PageOk DEF Fine
  <2>5. Fine(StatusChanged(PageChanged(v)), h, m, f) /\ Keeps(PageChanged(v), StatusChanged(PageChanged(v)))
    BY <2>4, StatusOk DEF Fine
  <2> QED
    BY <2>1, <2>2, <2>3, <2>4, <2>5 DEF Asks, Keeps
<1> QED
  BY <1>1, <1>2

LEMMA DismissOk ==
    ASSUME NEW u, NEW h, NEW m, NEW f, Sound(u, h, m), u.screen \in Notices
    PROVE  Fine(Dismiss(u), h, m, f) /\ Asks(u, Dismiss(u))
<1> DEFINE s == IF u.screen = "epilepsy" THEN "california" ELSE IF disk THEN "install" ELSE "browser"
           v == [u EXCEPT !.acks = @ + 1,
                          !.screen = IF @ = "epilepsy" THEN "california"
                                     ELSE IF disk THEN "install" ELSE "browser"]
<1>0. DOMAIN u = UiFields /\ u.acks \in Nat
  BY DEF Sound, Noticed
<1>1. /\ DOMAIN v = UiFields /\ v.acks = u.acks + 1 /\ v.screen = s /\ v.dirty = u.dirty /\ v.stale = u.stale
      /\ v.req = u.req /\ v.pending = u.pending /\ v.fetching = u.fetching /\ v.url = u.url /\ v.view = u.view
      /\ v.asked = u.asked
  BY <1>0 DEF UiFields
<1>2. Dismiss(u) = Repaint(v)
  BY DEF Dismiss
<1> HIDE DEF v
<1>3. Noticed(v, h)
  BY <1>0, <1>1 DEF Sound, Noticed, Notices
<1>4. Sound(v, h, m)
  BY <1>1, <1>3 DEF Sound, Power
<1> QED
  BY <1>1, <1>2, <1>4, RepaintFine DEF Asks

LEMMA ShowOk ==
    ASSUME NEW u, NEW h, NEW m, NEW f, Sound(u, h, m), u.screen \notin Notices, NEW s, s \notin Notices
    PROVE  Fine(Show(u, s), h, m, f) /\ Asks(u, Show(u, s))
<1> DEFINE v == [u EXCEPT !.screen = s]
<1>0. DOMAIN u = UiFields
  BY DEF Sound
<1>1. /\ DOMAIN v = UiFields /\ v.acks = u.acks /\ v.screen = s /\ v.dirty = u.dirty /\ v.stale = u.stale
      /\ v.req = u.req /\ v.view = u.view /\ v.asked = u.asked
  BY <1>0 DEF UiFields
<1> HIDE DEF v
<1>2. Sound(v, h, m)
  BY <1>1 DEF Sound, Noticed, Notices, Power
<1> QED
  BY <1>1, <1>2, RepaintFine DEF Show, v, Asks

LEMMA ScrollOk ==
    ASSUME LogInv, NEW v, ViewOk(v, MaxScroll), NEW n \in Nat, NEW up \in BOOLEAN
    PROVE  ViewOk(LogScroll(v, n, up), MaxScroll)
<1>0. MaxScroll \in Nat /\ FirstRow(v) \in Nat /\ FirstRow(v) <= MaxScroll
  BY LogAssumption DEF LogInv, MaxScroll, FirstRow, ViewOk
<1>1. CASE len = 0
  BY <1>1 DEF LogScroll
<1>2. CASE len > 0 /\ up
  <2> DEFINE a == IF FirstRow(v) < n THEN 0 ELSE FirstRow(v) - n
  <2>1. a \in Nat /\ a <= MaxScroll
    BY <1>0
  <2> HIDE DEF a
  <2>2. ViewOk([v EXCEPT !.stick = FALSE, !.scroll = a], MaxScroll)
    BY <2>1 DEF ViewOk
  <2>3. LogScroll(v, n, up) = [v EXCEPT !.stick = FALSE, !.scroll = a]
    <3>1. len # 0
      BY <1>2 DEF LogInv
    <3> QED
      BY <1>2, <3>1 DEF LogScroll, a
  <2> QED
    BY <2>2, <2>3
<1>3. CASE len > 0 /\ ~up
  <2> DEFINE a == IF FirstRow(v) + n > MaxScroll THEN MaxScroll ELSE FirstRow(v) + n
  <2>1. a \in Nat /\ a <= MaxScroll
    BY <1>0
  <2>3. LogScroll(v, n, up) = [v EXCEPT !.scroll = a, !.stick = @ \/ a >= MaxScroll]
    <3>1. len # 0
      BY <1>3 DEF LogInv
    <3> QED
      BY <1>3, <3>1 DEF LogScroll
  <2> HIDE DEF a
  <2>2. ViewOk([v EXCEPT !.scroll = a, !.stick = @ \/ a >= MaxScroll], MaxScroll)
    BY <2>1 DEF ViewOk
  <2> QED
    BY <2>2, <2>3
<1>4. len \in Nat
  BY LogAssumption DEF LogInv
<1> QED
  BY <1>1, <1>2, <1>3, <1>4

\* The view of the log is changed, and all is painted again.
LEMMA ViewedOk ==
    ASSUME NEW u, NEW h, NEW m, NEW f, Sound(u, h, m), NEW w, ViewOk(w, m)
    PROVE  Fine(Repaint([u EXCEPT !.view = w]), h, m, f) /\ Asks(u, Repaint([u EXCEPT !.view = w]))
<1> DEFINE v == [u EXCEPT !.view = w]
<1>0. DOMAIN u = UiFields
  BY DEF Sound
<1>1. /\ DOMAIN v = UiFields /\ v.acks = u.acks /\ v.screen = u.screen /\ v.dirty = u.dirty /\ v.stale = u.stale
      /\ v.req = u.req /\ v.pending = u.pending /\ v.fetching = u.fetching /\ v.url = u.url /\ v.view = w
      /\ v.asked = u.asked
  BY <1>0 DEF UiFields
<1> HIDE DEF v
<1>2. Sound(v, h, m)
  BY <1>1 DEF Sound, Noticed, Power
<1>3. Fine(Repaint(v), h, m, f) /\ Asks(u, Repaint(v))
  BY <1>1, <1>2, RepaintFine DEF Asks
<1> QED
  BY <1>3 DEF v

\* Some other field is, behind the notices.
LEMMA ChangedOk ==
    ASSUME NEW u, NEW h, NEW m, NEW f, Sound(u, h, m), u.screen \notin Notices, NEW v, Behind(u, v), Asks(u, v)
    PROVE  Fine(Repaint(v), h, m, f) /\ Asks(u, Repaint(v))
<1>1. Power(v) # {} => v.asked
  BY DEF Sound, Asks, Power
<1>2. Sound(v, h, m)
  BY <1>1, BehindOk
<1> QED
  BY <1>2, RepaintFine DEF Asks

LEMMA ViewEnds == ASSUME LogInv PROVE ViewOk(TopOfLog, MaxScroll) /\ ViewOk(EndOfLog, MaxScroll) /\ MaxScroll \in Nat
<1>1. MaxScroll \in Nat
  BY LogAssumption DEF LogInv, MaxScroll
<1> QED
  BY <1>1 DEF ViewOk, TopOfLog, EndOfLog

LEMMA TextOk ==
    ASSUME NEW u, NEW h, NEW m, NEW f, Fine(u, h, m, f), u.screen \notin Notices, NEW k
    PROVE  Fine(SettingsTextKey(u, k), h, m, f) /\ Asks(u, SettingsTextKey(u, k))
<1>0. Sound(u, h, m) /\ DOMAIN u = UiFields
  BY DEF Fine, Sound
<1>1. \A x : Behind(u, [u EXCEPT !.text = x]) /\ Asks(u, [u EXCEPT !.text = x])
  BY <1>0 DEF Behind, Asks, UiFields
<1>2. \A x : Behind(u, [u EXCEPT !.num = x]) /\ Asks(u, [u EXCEPT !.num = x])
  BY <1>0 DEF Behind, Asks, UiFields
<1>3. \A x : /\ Fine(Repaint([u EXCEPT !.text = x]), h, m, f) /\ Asks(u, Repaint([u EXCEPT !.text = x]))
             /\ Fine(Repaint([u EXCEPT !.num = x]), h, m, f) /\ Asks(u, Repaint([u EXCEPT !.num = x]))
  BY <1>0, <1>1, <1>2, ChangedOk
<1>4. Asks(u, u)
  BY DEF Asks
<1>5. \/ SettingsTextKey(u, k) = u
      \/ \E x : SettingsTextKey(u, k) = Repaint([u EXCEPT !.text = x]) \/ SettingsTextKey(u, k) = Repaint([u EXCEPT !.num = x])
  BY DEF SettingsTextKey
<1> QED
  BY <1>3, <1>4, <1>5

LEMMA UrlOk ==
    ASSUME NEW u, NEW h, NEW m, NEW f, Fine(u, h, m, f), u.screen = "browser", NEW k
    PROVE  Fine(UrlKey(u, k), h, m, f) /\ Asks(u, UrlKey(u, k))
<1>0. Sound(u, h, m) /\ DOMAIN u = UiFields /\ u.screen \notin Notices /\ (Power(u) # {} => u.asked)
  BY DEF Fine, Sound, Notices
<1>1. ASSUME NEW x PROVE /\ Fine(Mark([u EXCEPT !.url = x], {"chrome"}, {"chrome"}), h, m, f)
                         /\ Asks(u, Mark([u EXCEPT !.url = x], {"chrome"}, {"chrome"}))
  <2> DEFINE v == [u EXCEPT !.url = x]
  <2>1. Behind(u, v) /\ Asks(u, v)
    BY <1>0 DEF Behind, Asks, UiFields
  <2> HIDE DEF v
  <2>2. Fine(v, h, m, f)
    BY <1>0, <2>1, BehindOk DEF Asks, Power
  <2>3. Fine(Mark(v, {"chrome"}, {"chrome"}), h, m, f) /\ Keeps(v, Mark(v, {"chrome"}, {"chrome"}))
    BY <2>2, MarkOk DEF Fine, Parts
  <2>4. Asks(u, Mark(v, {"chrome"}, {"chrome"}))
    BY <2>1, <2>3 DEF Asks, Keeps
  <2> QED
    BY <2>3, <2>4 DEF v
<1>2. Asks(u, u)
  BY DEF Asks
<1>3. \/ UrlKey(u, k) = u \/ UrlKey(u, k) = StartBrowserFetch(u)
      \/ \E x : UrlKey(u, k) = Mark([u EXCEPT !.url = x], {"chrome"}, {"chrome"})
  BY DEF UrlKey
<1> QED
  BY <1>0, <1>1, <1>2, <1>3, FetchOk

LEMMA BodyMark ==
    ASSUME NEW u, NEW h, NEW m, NEW f, Fine(u, h, m, f), u.screen = "browser"
    PROVE  Fine(Mark(u, {"body"}, {"body"}), h, m, f) /\ Asks(u, Mark(u, {"body"}, {"body"}))
  BY MarkOk DEF Fine, Parts, Asks, Keeps

LEMMA KeyOk ==
    ASSUME LogInv, NEW u, NEW h, NEW f, Fine(u, h, MaxScroll, f), NEW k, NEW src
    PROVE  Fine(KeyPressed(u, k, src), h, MaxScroll, f) /\ Asks(u, KeyPressed(u, k, src))
<1> DEFINE m == MaxScroll
<1>0. Sound(u, h, m) /\ DOMAIN u = UiFields /\ Asks(u, u) /\ ViewOk(u.view, m)
  BY DEF Fine, Sound, Asks
<1>1. CASE u.screen \in Notices
  <2>1. Fine(Dismiss(u), h, m, f) /\ Asks(u, Dismiss(u))
    BY <1>0, <1>1, DismissOk
  <2>2. KeyPressed(u, k, src) \in {u, Dismiss(u)}
    BY <1>1 DEF KeyPressed, Notices
  <2> QED
    BY <1>0, <2>1, <2>2
<1>2. ASSUME u.screen \notin Notices PROVE Fine(FunctionKey(u, k, src), h, m, f) /\ Asks(u, FunctionKey(u, k, src))
  <2> DEFINE v == [u EXCEPT !.focus = "none"]
             w == [u EXCEPT !.full = ~@]
  <2>1. Keeps(u, v) /\ v.dirty = u.dirty /\ v.stale = u.stale
    BY <1>0 DEF Keeps, UiFields
  <2>2. Sound(v, h, m) /\ v.screen = u.screen /\ Asks(u, v)
    BY <1>0, <2>1, KeepsOk DEF Keeps, Asks
  <2>3. /\ DOMAIN w = UiFields /\ w.acks = u.acks /\ w.screen = u.screen /\ w.dirty = u.dirty /\ w.stale = u.stale
        /\ w.req = u.req /\ w.view = u.view /\ w.asked = u.asked
    BY <1>0 DEF UiFields
  <2> HIDE DEF v, w
  <2>4. Sound(w, h, m) /\ Asks(u, w)
    BY <1>0, <1>2, <2>3 DEF Sound, Noticed, Power, Asks
  <2>5. Fine(Repaint(w), h, m, f) /\ Asks(u, Repaint(w))
    BY <2>4, RepaintFine DEF Asks
  <2>6. \A s \in {"settings", "browser", "install", "log"} :
           Fine(Show(u, s), h, m, f) /\ Asks(u, Show(u, s)) /\ Fine(Show(v, s), h, m, f) /\ Asks(u, Show(v, s))
    BY <1>0, <1>2, <2>2, ShowOk DEF Notices, Asks
  <2>7. Fine(Repaint(u), h, m, f) /\ Asks(u, Repaint(u)) /\ Fine(SwapLog(u), h, m, f) /\ Asks(u, SwapLog(u))
    BY <1>0, RepaintFine, ViewedOk, ViewEnds DEF SwapLog
  <2>8. \/ FunctionKey(u, k, src) \in {u, Repaint(u), SwapLog(u), Repaint(w), Show(v, "browser")}
        \/ \E s \in {"settings", "browser", "install", "log"} : FunctionKey(u, k, src) = Show(u, s)
    BY DEF FunctionKey, v, w
  <2> QED
    BY <1>0, <2>5, <2>6, <2>7, <2>8
<1>3. ASSUME u.screen \notin Notices, NEW up \in BOOLEAN PROVE Fine(Scrolled(u, Wheel, up), h, m, f) /\ Asks(u, Scrolled(u, Wheel, up))
  <2>1. Wheel \in Nat
    BY ScreensAssumption
  <2>2. ViewOk(LogScroll(u.view, Wheel, up), m)
    BY <1>0, <2>1, ScrollOk
  <2>3. /\ Fine(Repaint([u EXCEPT !.view = LogScroll(u.view, Wheel, up)]), h, m, f)
        /\ Asks(u, Repaint([u EXCEPT !.view = LogScroll(u.view, Wheel, up)]))
    BY <1>0, <2>2, ViewedOk
  <2>4. Fine(Repaint(u), h, m, f) /\ Asks(u, Repaint(u))
    BY <1>0, RepaintFine
  <2> QED
    BY <1>0, <2>3, <2>4, BodyMark DEF Scrolled
<1>4. ASSUME u.screen \notin Notices, NEW up \in BOOLEAN PROVE Fine(Jumped(u, up), h, m, f) /\ Asks(u, Jumped(u, up))
  <2>1. ViewOk(IF up THEN TopOfLog ELSE EndOfLog, m)
    BY ViewEnds
  <2>2. /\ Fine(Repaint([u EXCEPT !.view = IF up THEN TopOfLog ELSE EndOfLog]), h, m, f)
        /\ Asks(u, Repaint([u EXCEPT !.view = IF up THEN TopOfLog ELSE EndOfLog]))
    BY <1>0, <2>1, ViewedOk
  <2>3. Fine(Repaint(u), h, m, f) /\ Asks(u, Repaint(u))
    BY <1>0, RepaintFine
  <2> QED
    BY <1>0, <2>2, <2>3, BodyMark DEF Jumped
<1>5. ASSUME u.screen \notin Notices
      PROVE  Fine(Repaint([u EXCEPT !.focus = "none"]), h, m, f) /\ Asks(u, Repaint([u EXCEPT !.focus = "none"]))
  <2> DEFINE v == [u EXCEPT !.focus = "none"]
  <2>1. Behind(u, v) /\ Asks(u, v)
    BY <1>0 DEF Behind, Asks, UiFields
  <2> HIDE DEF v
  <2>2. Fine(Repaint(v), h, m, f) /\ Asks(u, Repaint(v))
    BY <1>0, <1>5, <2>1, ChangedOk
  <2> QED
    BY <2>2 DEF v
<1>6. ASSUME u.screen \notin Notices PROVE Fine(TypedKey(u, k), h, m, f) /\ Asks(u, TypedKey(u, k))
  BY <1>0, <1>6, UrlOk, TextOk DEF TypedKey
<1>7. CASE u.screen \notin Notices
  BY <1>2, <1>3, <1>4, <1>5, <1>6, <1>7 DEF KeyPressed
<1> QED
  BY <1>1, <1>7

LEMMA ClickOk ==
    ASSUME LogInv, NEW u, NEW g, NEW f, Fine(u, g, MaxScroll, f), NEW y, NEW h \in Hits(u, y)
    PROVE  Fine(HandleClickAt(u, h), g, MaxScroll, f)
<1> DEFINE m == MaxScroll
<1>0. Sound(u, g, m) /\ DOMAIN u = UiFields /\ (Power(u) # {} => u.asked)
  BY DEF Fine, Sound
<1>1. CASE h = "miss"
  BY <1>1 DEF HandleClickAt
<1>2. CASE h # "miss" /\ u.screen \in Notices
  <2>1. h = "dismiss"
    BY <1>2 DEF Hits
  <2>2. HandleClickAt(u, h) = Repaint(Dismiss(u))
    BY <2>1 DEF HandleClickAt, Tabs
  <2>3. Sound(Dismiss(u), g, m)
    BY <1>0, <1>2, DismissOk DEF Fine
  <2> QED
    BY <2>2, <2>3, RepaintFine
<1>3. CASE h # "miss" /\ u.screen \notin Notices
  <2>0. h # "dismiss"
    BY <1>3 DEF Hits, TabHits, BodyHits
  <2>1. CASE h \in DOMAIN Tabs
    <3> DEFINE s == Tabs[h]
               v == [u EXCEPT !.screen = s, !.focus = IF h \in {"tab_eve", "tab_log"} THEN "none" ELSE @]
    <3>1. s \notin Notices
      BY <2>1 DEF Tabs, Notices
    <3>2. HandleClickAt(u, h) = Repaint(v)
      BY <1>3, <2>0, <2>1 DEF HandleClickAt, ClickTab, Tabs
    <3> HIDE DEF s
    <3>3. /\ DOMAIN v = UiFields /\ v.acks = u.acks /\ v.screen = s /\ v.dirty = u.dirty /\ v.stale = u.stale
          /\ v.req = u.req /\ v.view = u.view /\ v.asked = u.asked
      BY <1>0 DEF UiFields
    <3> HIDE DEF v
    <3>4. Sound(v, g, m)
      BY <1>0, <1>3, <3>1, <3>3 DEF Sound, Noticed, Notices, Power
    <3> QED
      BY <3>2, <3>4, RepaintFine
  <2>2. ASSUME NEW v, Behind(u, v), Power(v) # {} => v.asked PROVE Fine(Repaint(v), g, m, f)
    <3>1. Sound(v, g, m)
      BY <1>0, <1>3, <2>2, BehindOk
    <3> QED
      BY <3>1, RepaintFine
  <2>3. ASSUME NEW v, Behind(u, v), DOMAIN v = UiFields, Power(v) # {} => v.asked, NEW r, r \notin {"reboot", "shutdown"}
        PROVE  Behind(u, Ask(v, r)) /\ (Power(Ask(v, r)) # {} => Ask(v, r).asked)
    <3>1. Ask(v, r).req = v.req \cup {r} /\ Ask(v, r).asked = v.asked /\ Behind(v, Ask(v, r))
      BY <2>3 DEF Ask, Behind, UiFields
    <3>2. Power(Ask(v, r)) = Power(v)
      BY <2>3, <3>1 DEF Power
    <3> QED
      BY <2>3, <3>1, <3>2 DEF Behind
  <2>4. Behind(u, u)
    BY DEF Behind
  <2>5. ASSUME NEW x
        PROVE  LET v == [u EXCEPT !.url = x] IN Behind(u, v) /\ DOMAIN v = UiFields /\ (Power(v) # {} => v.asked)
    BY <1>0 DEF Behind, UiFields, Power
  <2>6. CASE h \in {"back", "home", "go"}
    <3>1. HandleClickAt(u, h) = Repaint(ClickBrowser(u, h))
      BY <1>3, <2>6 DEF HandleClickAt, Tabs
    <3>2. Behind(u, ClickBrowser(u, h)) /\ (Power(ClickBrowser(u, h)) # {} => ClickBrowser(u, h).asked)
      BY <1>0, <2>3, <2>4, <2>5 DEF ClickBrowser
    <3> QED
      BY <2>2, <3>1, <3>2
  <2>7. CASE h = "other_list"
    <3>1. HandleClickAt(u, h) = Repaint([u EXCEPT !.view = EndOfLog])
      BY <2>7 DEF HandleClickAt, Tabs
    <3> QED
      BY <1>0, <3>1, ViewedOk, ViewEnds
  <2>8. CASE h = "start"
    <3>1. HandleClickAt(u, h) = Repaint(Ask(u, "install"))
      BY <2>8 DEF HandleClickAt, Tabs
    <3>2. Behind(u, Ask(u, "install")) /\ (Power(Ask(u, "install")) # {} => Ask(u, "install").asked)
      BY <1>0, <2>3, <2>4
    <3> QED
      BY <2>2, <3>1, <3>2
  <2>9. CASE h \notin DOMAIN Tabs \cup {"back", "home", "go", "other_list", "start"}
    <3>1. HandleClickAt(u, h) = Repaint(ClickSettings(u, h))
      BY <1>3, <2>0, <2>9 DEF HandleClickAt
    <3> DEFINE a == ClickGeneral(u, h)
               b == ClickNetwork(a, h)
               c == ClickInput(b, h)
               d == ClickPower(c, h)
    <3>2. Behind(u, a) /\ DOMAIN a = UiFields /\ (Power(a) # {} => a.asked)
      <4>1. CASE a = u
        BY <1>0, <2>4, <4>1
      <4>2. CASE a = [u EXCEPT !.focus = h]
        <5>1. a.req = u.req /\ a.asked = u.asked /\ Behind(u, a)
          BY <1>0, <4>2 DEF Behind, UiFields
        <5> QED
          BY <1>0, <5>1 DEF Power, Behind
      <4>3. CASE a = Ask(u, "save") \/ a = Ask([u EXCEPT !.url = 1], "reload")
        <5>1. Behind(u, a) /\ (Power(a) # {} => a.asked)
          BY <1>0, <2>3, <2>4, <2>5, <4>3
        <5> QED
          BY <1>0, <5>1 DEF Behind
      <4> QED
        BY <4>1, <4>2, <4>3 DEF ClickGeneral
    <3> HIDE DEF a
    <3>3. Behind(a, b) /\ b.req = a.req /\ b.asked = a.asked
      BY <3>2 DEF ClickNetwork, Behind, UiFields
    <3>4. DOMAIN b = UiFields
      BY <3>2, <3>3 DEF Behind
    <3> HIDE DEF b
    <3>5. Behind(b, c) /\ c.req = b.req /\ c.asked = b.asked
      BY <3>4 DEF ClickInput, Behind, UiFields
    <3>6. DOMAIN c = UiFields /\ (Power(c) # {} => c.asked) /\ Behind(u, c)
      BY <3>2, <3>3, <3>4, <3>5 DEF Behind, Power
    <3> HIDE DEF c
    <3>7. Behind(c, d) /\ (Power(d) # {} => d.asked)
      <4>1. CASE h \in {"reboot", "shutdown"}
        <5>1. d = [[c EXCEPT !.req = @ \cup {h}] EXCEPT !.asked = TRUE]
          BY <4>1 DEF ClickPower, Ask
        <5> QED
          BY <3>6, <5>1 DEF Behind, UiFields
      <4>2. CASE h \notin {"reboot", "shutdown"}
        BY <3>6, <4>2 DEF ClickPower, Behind
      <4> QED
        BY <4>1, <4>2
    <3>8. Behind(u, d) /\ d = ClickSettings(u, h)
      BY <3>6, <3>7 DEF Behind, ClickSettings, a, b, c
    <3> HIDE DEF d
    <3> QED
      BY <2>2, <3>1, <3>7, <3>8
  <2> QED
    BY <2>1, <2>6, <2>7, <2>8, <2>9
<1> QED
  BY <1>1, <1>2, <1>3

\* Requests are taken off, or a fetch has ended.
Drops(u, v) ==
    /\ DOMAIN v = DOMAIN u /\ v.screen = u.screen /\ v.full = u.full /\ v.acks = u.acks /\ v.req \subseteq u.req
    /\ v.pending = u.pending /\ (v.fetching => u.fetching) /\ v.url = u.url /\ v.view = u.view
    /\ v.asked = u.asked /\ v.over = u.over /\ v.dirty = u.dirty /\ v.stale = u.stale

LEMMA DropsOk ==
    ASSUME NEW u, NEW v, NEW h, NEW m, NEW f, Drops(u, v), Fine(u, h, m, f)
    PROVE  Fine(v, h, m, f)
<1>1. Noticed(v, h)
  BY DEF Drops, Fine, Sound, Noticed
<1>2. Sound(v, h, m)
  BY <1>1 DEF Drops, Fine, Sound, Power
<1>3. Shown(v, f)
  BY DEF Drops, Fine, Shown, Covered, Visible, Fullpage
<1> QED
  BY <1>2, <1>3 DEF Fine

LEMMA LoggedOk ==
    ASSUME NEW u, NEW h, NEW m, NEW f, NEW g, Fine(u, h, m, f), IF Says(u) THEN g ELSE g = f
    PROVE  Fine(Logged(u), h, m, g) /\ Keeps(u, Logged(u)) /\ Logged(u).dirty = u.dirty
<1>0. DOMAIN u = UiFields
  BY DEF Fine, Sound
<1>1. CASE Says(u) /\ u.screen = "log"
  <2> DEFINE v == [u EXCEPT !.stale = @ \cup {"body"}]
  <2>1. Keeps(u, v) /\ v.dirty = u.dirty /\ v.stale = u.stale \cup {"body"}
    BY <1>0 DEF Keeps, UiFields
  <2>2. v = Logged(u)
    BY <1>1 DEF Logged
  <2> HIDE DEF v
  <2>3. Sound(v, h, m)
    BY <2>1, KeepsSound DEF Fine, Sound, Parts
  <2>4. "body" \in Visible(u) /\ Visible(v) = Visible(u)
    BY <2>1, KeepsVisible DEF Visible, Parts
  <2>5. Shown(v, g)
    BY <1>1, <2>1, <2>4 DEF Fine, Shown, Covered, Keeps
  <2> QED
    BY <2>1, <2>2, <2>3, <2>5 DEF Fine
<1>2. CASE ~(Says(u) /\ u.screen = "log")
  <2>1. Logged(u) = u
    BY <1>2 DEF Logged
  <2>2. Shown(u, g)
    BY <1>2 DEF Fine, Shown, Covered
  <2> QED
    BY <2>1, <2>2 DEF Fine, Keeps
<1> QED
  BY <1>1, <1>2

LEMMA SilentOk ==
    ASSUME NEW u, NEW h, NEW m, NEW f, Fine(u, h, m, f), NEW x
    PROVE  /\ Fine([u EXCEPT !.say = x], h, m, f) /\ Keeps(u, [u EXCEPT !.say = x])
           /\ [u EXCEPT !.say = x].stale = u.stale /\ [u EXCEPT !.say = x].dirty = u.dirty
<1> DEFINE v == [u EXCEPT !.say = x]
<1>0. DOMAIN u = UiFields
  BY DEF Fine, Sound
<1>1. Keeps(u, v) /\ v.dirty = u.dirty /\ v.stale = u.stale
  BY <1>0 DEF Keeps, UiFields
<1> HIDE DEF v
<1>2. Fine(v, h, m, f)
  BY <1>1, KeepsOk
<1> QED
  BY <1>1, <1>2 DEF v

LEMMA MoreLog ==
    ASSUME LogInv, PushLine \/ LogKept, NEW u, NEW h, NEW f, Fine(u, h, MaxScroll, f)
    PROVE  Fine(u, h, MaxScroll', f)
<1>1. MaxScroll \in Nat /\ MaxScroll' \in Nat /\ MaxScroll <= MaxScroll'
  BY LogAssumption DEF LogInv, MaxScroll, PushLine, LogKept
<1> DEFINE m == MaxScroll
           n == MaxScroll'
<1>2. ViewOk(u.view, m) => ViewOk(u.view, n)
  <2> HIDE DEF m, n
  <2>1. m \in Nat /\ n \in Nat /\ m <= n
    BY <1>1 DEF m, n
  <2> QED
    BY <2>1 DEF ViewOk
<1> HIDE DEF m, n
<1>3. Fine(u, h, m, f) => Fine(u, h, n, f)
  BY <1>2 DEF Fine, Sound
<1> QED
  BY <1>3 DEF m, n

LEMMA BecomesFine ==
    ASSUME LogInv, NEW u, NEW h, Fine(u, h, MaxScroll, fresh), Becomes(u)
    PROVE  Fine(ui', h, MaxScroll', fresh') /\ Keeps(u, ui')
<1>1. IF Says(u) THEN fresh' ELSE fresh' = fresh
  BY DEF Becomes, PushLine, logVars
<1>2. Fine(Logged(u), h, MaxScroll, fresh') /\ Keeps(u, Logged(u))
  BY <1>1, LoggedOk
<1>3. Fine(ui', h, MaxScroll, fresh') /\ Keeps(Logged(u), ui')
  BY <1>2, SilentOk DEF Becomes
<1>4. Fine(ui', h, MaxScroll', fresh')
  BY <1>3, BecomesLog, MoreLog
<1> QED
  BY <1>2, <1>3, <1>4 DEF Keeps

\* render_frame leaves nothing out of date but what a line written meanwhile has changed.
Clean(v, f) == v.stale \subseteq Leftovers \cup IF f THEN {"body"} ELSE {}

LEMMA RenderOk ==
    ASSUME NEW u, NEW h, NEW m, NEW f, Fine(u, h, m, f)
    PROVE  /\ Fine(RenderFrame(u), h, m, f) /\ RenderFrame(u).req = u.req
           /\ ~RenderFrame(u).over => Clean(RenderFrame(u), f)
<1> USE DEF Clean
<1> DEFINE r == RenderFrame(u)
           Same(v) == /\ DOMAIN v = UiFields /\ v.screen = u.screen /\ v.full = u.full /\ v.acks = u.acks /\ v.req = u.req
                      /\ v.pending = u.pending /\ v.fetching = u.fetching /\ v.url = u.url /\ v.view = u.view
                      /\ v.asked = u.asked
<1>0. DOMAIN u = UiFields /\ u.dirty \subseteq Parts \cup {"content"} /\ u.stale \subseteq Visible(u)
      /\ u.stale \subseteq Parts \cup Leftovers
  BY DEF Fine, Sound, Shown
<1>1. ASSUME NEW v, Same(v), v.dirty \subseteq u.dirty, v.stale \subseteq Visible(u),
             v.over \/ (Clean(v, f) /\ ("body" \in v.stale => u.screen = "log"))
      PROVE  Fine(v, h, m, f) /\ (~v.over => Clean(v, f))
  <2>1. Visible(v) = Visible(u)
    BY <1>1 DEF Visible, Fullpage
  <2>2. Sound(v, h, m)
    BY <1>1, VisibleParts DEF Fine, Sound, Noticed, Power
  <2>3. v.over \/ Covered(v, f)
    BY <1>1 DEF Covered, Leftovers
  <2> QED
    BY <1>1, <2>1, <2>2, <2>3 DEF Fine, Shown
<1>2. CASE "content" \in u.dirty
  <2>1. r = [u EXCEPT !.dirty = {}, !.stale = {}, !.over = FALSE]
    BY <1>2 DEF RenderFrame
  <2>2. Same(r) /\ r.dirty = {} /\ r.stale = {}
    BY <1>0, <2>1 DEF UiFields
  <2> HIDE DEF r
  <2> QED
    BY <1>1, <2>2 DEF r
<1>3. CASE "content" \notin u.dirty /\ "chrome" \in u.dirty
  <2> DEFINE p == IF u.screen \in Notices \/ Fullpage(u) THEN {"body"}
                  ELSE {"chrome", "nav", "status"}
                       \cup IF u.screen = "browser" /\ "body" \in u.dirty THEN {"body"} ELSE {}
             q == IF "status" \in u.stale THEN {"smear"} ELSE {}
  <2>1. r = [u EXCEPT !.dirty = {}, !.stale = (@ \ p) \cup q]
    BY <1>3 DEF RenderFrame, ChromePainted
  <2> HIDE DEF p, q
  <2>2. Same(r) /\ r.dirty = {} /\ r.stale = (u.stale \ p) \cup q /\ r.over = u.over
    BY <1>0, <2>1 DEF UiFields
  <2> HIDE DEF r
  <2>3. r.over \/ (Clean(r, f) /\ ("body" \in r.stale => u.screen = "log"))
    <3>1. CASE u.screen \in Notices \/ Fullpage(u)
      BY <1>0, <2>2, <3>1 DEF p, q, Visible
    <3>2. CASE ~(u.screen \in Notices \/ Fullpage(u))
      BY <1>0, <1>3, <2>2, <3>2 DEF p, q, Fine, Shown, Covered, Parts, Leftovers
    <3> QED
      BY <3>1, <3>2
  <2>4. r.stale \subseteq Visible(u)
    BY <1>0, <2>2 DEF q, Visible, Parts, Leftovers
  <2> QED
    BY <1>0, <1>1, <2>2, <2>3, <2>4 DEF r
<1>4. CASE "content" \notin u.dirty /\ "chrome" \notin u.dirty /\ u.dirty \in {{"body"}, {"body", "status"}}
  <2> DEFINE strip == IF "status" \in u.dirty /\ ~Fullpage(u) THEN {"status"} ELSE {}
             gone == IF strip = {} THEN {} ELSE {"status", "smear"}
             v == [u EXCEPT !.dirty = @ \ ({"body"} \cup strip), !.stale = @ \ gone]
  <2>1. r = IF u.screen = "browser" THEN [v EXCEPT !.stale = @ \ {"body"}]
            ELSE [v EXCEPT !.stale = @ \cup {"body"}, !.over = TRUE]
    BY <1>4 DEF RenderFrame, BodyPainted
  <2> HIDE DEF strip, gone
  <2>2. Same(v) /\ v.dirty \subseteq u.dirty /\ v.stale = u.stale \ gone /\ v.over = u.over
    BY <1>0 DEF UiFields
  <2> HIDE DEF v
  <2>3. CASE u.screen = "browser"
    <3>1. r = [v EXCEPT !.stale = @ \ {"body"}]
      BY <2>1, <2>3
    <3>2. Same(r) /\ r.dirty \subseteq u.dirty /\ r.stale = u.stale \ (gone \cup {"body"}) /\ r.over = u.over
      BY <2>2, <3>1 DEF UiFields
    <3> HIDE DEF r
    <3>3. r.over \/ r.stale \subseteq Leftovers
      BY <1>0, <1>4, <2>3, <3>2 DEF strip, gone, Fine, Shown, Covered, Parts, Leftovers, Visible
    <3>4. "body" \notin r.stale /\ (~r.over => Clean(r, f))
      BY <3>2, <3>3
    <3> QED
      BY <1>0, <1>1, <3>2, <3>4 DEF r
  <2>4. CASE u.screen # "browser"
    <3>1. r = [v EXCEPT !.stale = @ \cup {"body"}, !.over = TRUE]
      BY <2>1, <2>4
    <3>2. Same(r) /\ r.dirty \subseteq u.dirty /\ r.stale = (u.stale \ gone) \cup {"body"} /\ r.over = TRUE
      BY <2>2, <3>1 DEF UiFields
    <3> HIDE DEF r
    <3>3. "body" \in Visible(u)
      BY DEF Visible, Parts
    <3> QED
      BY <1>0, <1>1, <3>2, <3>3 DEF r
  <2> QED
    BY <2>3, <2>4
<1>5. CASE "content" \notin u.dirty /\ "chrome" \notin u.dirty /\ u.dirty \notin {{"body"}, {"body", "status"}}
  <2>1. r = [u EXCEPT !.dirty = @ \ {"status"}, !.stale = @ \ {"status", "smear"}]
    BY <1>5 DEF RenderFrame, StatusPainted
  <2>2. Same(r) /\ r.dirty = u.dirty \ {"status"} /\ r.stale = u.stale \ {"status", "smear"} /\ r.over = u.over
    BY <1>0, <2>1 DEF UiFields
  <2> HIDE DEF r
  <2>3. "body" \notin u.dirty
    BY <1>0, <1>5 DEF Parts
  <2>4. r.over \/ (Clean(r, f) /\ ("body" \in r.stale => u.screen = "log"))
    BY <1>0, <1>5, <2>2, <2>3 DEF Fine, Shown, Covered, Parts, Leftovers
  <2> QED
    BY <1>0, <1>1, <2>2, <2>4 DEF r
<1> QED
  BY <1>2, <1>3, <1>4, <1>5

----------------------------------------------------------------------------
(* The loop.  Requests for power are made, served or dropped while clicks  *)
(* are handed out, and at no other time.                                   *)

ScreenInv ==
    /\ scene \in Scenes
    /\ Fine(ui, scene.ui.url, MaxScroll, fresh)
    /\ Power(ui) # {} => stage = "click"
    /\ stage = "off" => ui.screen = "settings" /\ ui.asked
    /\ FrameShowsState

LEMMA ScreenStart == Init => ScreenInv
<1> SUFFICES ASSUME Init PROVE ScreenInv
  OBVIOUS
<1>1. scene \in Scenes /\ ui = scene.ui /\ stage = "top" /\ fresh = FALSE /\ len = 0
  BY DEF Init, LogInit
<1>2. StartOk(ui)
  BY <1>1, ScenesAssumption
<1>3. MaxScroll = 0
  BY <1>1, LogAssumption DEF MaxScroll
<1>4. ViewOk(ui.view, MaxScroll)
  BY <1>2, <1>3 DEF StartOk, ViewOk, EndOfLog
<1>5. Noticed(ui, scene.ui.url)
  BY <1>1, <1>2 DEF StartOk, Noticed
<1>6. Sound(ui, scene.ui.url, MaxScroll)
  BY <1>2, <1>4, <1>5, VisibleParts DEF StartOk, Sound, UiFields
<1>7. Shown(ui, fresh)
  BY <1>2 DEF StartOk, Shown, Covered
<1>8. FrameShowsState
  BY <1>2 DEF StartOk, FrameShowsState
<1> QED
  BY <1>1, <1>2, <1>6, <1>7, <1>8 DEF ScreenInv, Fine, StartOk

\* A step that changes what the screens show, in the middle of a frame.
LEMMA MidFrame ==
    ASSUME LogInv, ScreenInv, NEW u, Fine(u, scene.ui.url, MaxScroll, fresh), Becomes(u), UNCHANGED scene,
           Power(u) # {} => stage' = "click", stage' \notin {"top", "off"}
    PROVE  ScreenInv'
<1>1. Fine(ui', scene.ui.url, MaxScroll', fresh') /\ Keeps(u, ui')
  BY BecomesFine
<1>2. Power(ui') = Power(u)
  BY <1>1 DEF Keeps, Power
<1>3. FrameShowsState'
  BY DEF FrameShowsState
<1> QED
  BY <1>1, <1>2, <1>3 DEF ScreenInv

LEMMA ServeOk ==
    ASSUME NEW h, NEW m, NEW f, Fine(ui, h, m, f), NEW ph
    PROVE  LET u == InstallServed(ReloadServed(PowerIgnored(ui)), ph) IN Fine(u, h, m, f) /\ Power(u) = {}
<1> DEFINE a == PowerIgnored(ui)
           b == ReloadServed(a)
           c == InstallServed(b, ph)
<1>0. DOMAIN ui = UiFields
  BY DEF Fine, Sound
<1>1. Fine(a, h, m, f) /\ Power(a) = {} /\ DOMAIN a = UiFields
  <2>1. CASE Power(ui) = {}
    BY <1>0, <2>1 DEF PowerIgnored
  <2>2. CASE Power(ui) # {}
    <3>1. a = [ui EXCEPT !.req = @ \ Power(ui), !.say = TRUE]
      BY <2>2 DEF PowerIgnored
    <3>2. Drops(ui, a) /\ a.req = ui.req \ Power(ui) /\ DOMAIN a = UiFields
      BY <1>0, <3>1 DEF Drops, UiFields
    <3> HIDE DEF a
    <3> QED
      BY <3>2, DropsOk DEF Power
  <2> QED
    BY <2>1, <2>2
<1> HIDE DEF a
<1>2. Fine(b, h, m, f) /\ Power(b) = {} /\ DOMAIN b = UiFields
  <2>1. CASE "reload" \in a.req
    <3> DEFINE v == [a EXCEPT !.req = @ \ {"reload"}]
    <3>1. b = Reloaded(v)
      BY <2>1 DEF ReloadServed
    <3>2. Drops(a, v) /\ v.req = a.req \ {"reload"}
      BY <1>1 DEF Drops, UiFields
    <3> HIDE DEF v
    <3>3. Fine(v, h, m, f) /\ Power(v) = {}
      BY <1>1, <3>2, DropsOk DEF Power
    <3>4. v.screen \notin Notices
      BY <1>1, <2>1, <3>2 DEF Fine, Sound, Noticed, Drops
    <3>5. Fine(b, h, m, f) /\ Asks(v, b)
      BY <3>1, <3>3, <3>4, ReloadOk
    <3> QED
      BY <3>3, <3>5 DEF Asks, Power, Fine, Sound
  <2>2. CASE "reload" \notin a.req
    BY <1>1, <2>2 DEF ReloadServed
  <2> QED
    BY <2>1, <2>2
<1> HIDE DEF b
<1>3. Fine(c, h, m, f) /\ Power(c) = {}
  <2> DEFINE q == IF disk THEN b.req \ {"install"} ELSE b.req
             v == [b EXCEPT !.req = IF disk THEN @ \ {"install"} ELSE @, !.install = ph]
  <2>1. Drops(b, v) /\ v.req = q
    BY <1>2 DEF Drops, UiFields
  <2>a. c = IF b.install = "running" \/ ph # b.install THEN Repaint(v) ELSE v
    BY DEF InstallServed
  <2> HIDE DEF v, c
  <2>2. Fine(v, h, m, f) /\ Power(v) = {}
    BY <1>2, <2>1, DropsOk DEF Power
  <2>3. Fine(Repaint(v), h, m, f) /\ Asks(v, Repaint(v))
    BY <2>2, RepaintFine DEF Fine
  <2> QED
    BY <2>2, <2>3, <2>a DEF Asks, Power
<1> QED
  BY <1>3 DEF b, a

LEMMA ScreenStep == LogInv /\ ScreenInv /\ [Next]_vars => ScreenInv'
<1> SUFFICES ASSUME LogInv, ScreenInv, [Next]_vars PROVE ScreenInv'
  OBVIOUS
<1> DEFINE home == scene.ui.url
<1>0. Fine(ui, home, MaxScroll, fresh) /\ (Power(ui) # {} => stage = "click") /\ DOMAIN ui = UiFields /\ Asks(ui, ui)
  BY DEF ScreenInv, Fine, Sound, Asks
<1>1. CASE UNCHANGED <<scene, ui, logVars>> /\ (stage' = stage \/ (stage # "click" /\ stage' \notin {"top", "off"}))
  <2>1. MaxScroll' = MaxScroll /\ UNCHANGED <<scene, ui, fresh>>
    BY <1>1 DEF MaxScroll, logVars
  <2>2. FrameShowsState'
    BY <1>1, <2>1 DEF FrameShowsState, ScreenInv
  <2>3. Fine(ui, home, MaxScroll', fresh)
    BY <1>0, <2>1
  <2> QED
    BY <1>0, <1>1, <2>1, <2>2, <2>3 DEF ScreenInv, Power
<1>2. CASE Top
  <2> DEFINE v == [ui EXCEPT !.online = scene.nic /\ ui.inet, !.asked = FALSE]
  <2>1. /\ DOMAIN v = UiFields /\ v.screen = ui.screen /\ v.full = ui.full /\ v.acks = ui.acks /\ v.req = ui.req
        /\ v.pending = ui.pending /\ v.fetching = ui.fetching /\ v.url = ui.url /\ v.view = ui.view
        /\ v.over = ui.over /\ v.dirty = ui.dirty /\ v.stale = ui.stale
    BY <1>0 DEF UiFields
  <2>2. stage = "top" /\ stage' \in {"keys", "ps2"} /\ Becomes(BootFetch(v)) /\ UNCHANGED scene
    BY <1>2 DEF Top
  <2> HIDE DEF v
  <2>3. Power(v) = {}
    BY <1>0, <2>1, <2>2 DEF Power
  <2>4. Sound(v, home, MaxScroll)
    BY <1>0, <2>1, <2>3 DEF Fine, Sound, Noticed
  <2>5. Shown(v, fresh)
    BY <1>0, <2>1 DEF Fine, Shown, Covered, Visible, Fullpage
  <2>6. Fine(BootFetch(v), home, MaxScroll, fresh) /\ Asks(v, BootFetch(v))
    BY <2>4, <2>5, BootOk DEF Fine
  <2>7. Power(BootFetch(v)) = {}
    BY <2>3, <2>6 DEF Asks, Power
  <2> QED
    BY <2>2, <2>6, <2>7, MidFrame
<1>3. CASE PollKbd
  <2>1. PICK k, ignore : /\ Becomes(IF ignore THEN ui ELSE KeyPressed(ui, k, "ps2"))
                         /\ stage = "ps2" /\ stage' \in {"ps2", "usb"} /\ UNCHANGED scene
    <3> DEFINE ev == KbdEvent(Head(kq))
    <3>1. PICK ig \in Ps2Ignored : Becomes(IF ev = NoEvent \/ (ev.t = "key" /\ ig) THEN ui ELSE KeyPressed(ui, ev.k, "ps2"))
      BY <1>3 DEF PollKbd
    <3>2. stage = "ps2" /\ stage' \in {"ps2", "usb"} /\ UNCHANGED scene
      BY <1>3 DEF PollKbd, AfterPoll
    <3> HIDE DEF ev
    <3> QED
      BY <3>1, <3>2
  <2>2. Fine(KeyPressed(ui, k, "ps2"), home, MaxScroll, fresh) /\ Asks(ui, KeyPressed(ui, k, "ps2"))
    BY <1>0, KeyOk
  <2> DEFINE u == IF ignore THEN ui ELSE KeyPressed(ui, k, "ps2")
  <2>3. Fine(u, home, MaxScroll, fresh) /\ Asks(ui, u) /\ Becomes(u)
    BY <1>0, <2>1, <2>2
  <2> HIDE DEF u
  <2>4. Power(u) = {}
    BY <1>0, <2>1, <2>3 DEF Asks, Power
  <2> QED
    BY <2>1, <2>3, <2>4, MidFrame
<1>4. CASE TakeUsbKey \/ TakeArmKey
  <2>1. PICK k, src : Becomes(KeyPressed(ui, k, src)) /\ stage = "keys" /\ UNCHANGED <<scene, stage>>
    BY <1>4 DEF TakeUsbKey, TakeArmKey, KeyTaken
  <2>2. Fine(KeyPressed(ui, k, src), home, MaxScroll, fresh) /\ Asks(ui, KeyPressed(ui, k, src))
    BY <1>0, KeyOk
  <2>3. Power(KeyPressed(ui, k, src)) = {}
    BY <1>0, <2>1, <2>2 DEF Asks, Power
  <2> QED
    BY <2>1, <2>2, <2>3, MidFrame
<1>5. CASE Click
  <2>1. PICK y, hit : hit \in Hits(ui, y) /\ Becomes(HandleClickAt(ui, hit)) /\ stage = "click" /\ UNCHANGED <<scene, stage>>
    BY <1>5 DEF Click
  <2>2. Fine(HandleClickAt(ui, hit), home, MaxScroll, fresh)
    BY <1>0, <2>1, ClickOk
  <2> QED
    BY <2>1, <2>2, MidFrame
<1>6. CASE PowerOff
  <2> DEFINE v == [ui EXCEPT !.req = @ \ Power(ui), !.say = TRUE]
  <2>1. Drops(ui, v) /\ v.req = ui.req \ Power(ui)
    BY <1>0 DEF Drops, UiFields
  <2>2. stage' = "off" /\ ui.screen = "settings" /\ Power(ui) # {} /\ Becomes(v) /\ UNCHANGED scene
    BY <1>6 DEF PowerOff
  <2> HIDE DEF v
  <2>3. Fine(v, home, MaxScroll, fresh) /\ Power(v) = {}
    BY <1>0, <2>1, DropsOk DEF Power
  <2>4. Fine(ui', home, MaxScroll', fresh') /\ Keeps(v, ui')
    BY <2>2, <2>3, BecomesFine
  <2>5. ui'.screen = "settings" /\ Power(ui') = {} /\ ui'.asked
    BY <1>0, <2>1, <2>2, <2>3, <2>4 DEF Keeps, Drops, Power, Fine, Sound
  <2>6. FrameShowsState'
    BY <2>2 DEF FrameShowsState
  <2> QED
    BY <2>2, <2>4, <2>5, <2>6 DEF ScreenInv
<1>7. CASE Serve
  <2>1. PICK ph : Becomes(InstallServed(ReloadServed(PowerIgnored(ui)), ph))
    BY <1>7 DEF Serve
  <2>2. stage' = "drive" /\ UNCHANGED scene
    BY <1>7 DEF Serve
  <2> DEFINE u == InstallServed(ReloadServed(PowerIgnored(ui)), ph)
  <2>3. Fine(u, home, MaxScroll, fresh) /\ Power(u) = {}
    BY <1>0, ServeOk
  <2> QED
    BY <2>1, <2>2, <2>3, MidFrame
<1>8. CASE Drive
  <2>0. stage = "drive" /\ stage' = "draw" /\ UNCHANGED scene
    BY <1>8 DEF Drive
  <2>1. PICK settle, changed, line :
          LET u == IF settle THEN PageChanged([ui EXCEPT !.fetching = FALSE]) ELSE ui
              v == IF changed THEN StatusChanged(u) ELSE u
          IN Becomes([IF changed /\ v.screen = "log" THEN Repaint(v) ELSE v EXCEPT !.say = line])
    BY <1>8, ZenonT(60) DEF Drive
  <2> DEFINE a == [ui EXCEPT !.fetching = FALSE]
             u == IF settle THEN PageChanged(a) ELSE ui
             v == IF changed THEN StatusChanged(u) ELSE u
             w == IF changed /\ v.screen = "log" THEN Repaint(v) ELSE v
             x == [w EXCEPT !.say = line]
  <2>2. Becomes(x)
    BY <2>1
  <2>3. Drops(ui, a) /\ Asks(ui, a)
    BY <1>0 DEF Drops, Asks, UiFields
  <2> HIDE DEF a
  <2>4. Fine(a, home, MaxScroll, fresh)
    BY <1>0, <2>3, DropsOk
  <2>5. Fine(u, home, MaxScroll, fresh) /\ Asks(ui, u)
    BY <1>0, <2>3, <2>4, PageOk DEF Fine, Asks, Keeps
  <2> HIDE DEF u
  <2>6. Fine(v, home, MaxScroll, fresh) /\ Asks(ui, v)
    BY <2>5, StatusOk DEF Fine, Asks, Keeps
  <2> HIDE DEF v
  <2>7. Fine(w, home, MaxScroll, fresh) /\ Asks(ui, w)
    BY <2>6, RepaintFine DEF Fine, Asks
  <2> HIDE DEF w
  <2>8. Fine(x, home, MaxScroll, fresh) /\ Asks(ui, x)
    BY <2>7, SilentOk DEF Asks, Keeps
  <2> HIDE DEF x
  <2>9. Power(x) = {}
    BY <1>0, <2>0, <2>8 DEF Asks, Power
  <2> QED
    BY <2>0, <2>2, <2>8, <2>9, MidFrame
<1>9. CASE Draw
  <2>0. stage = "draw" /\ stage' = "top" /\ UNCHANGED scene
    BY <1>9 DEF Draw
  <2>1. PICK line :
          LET u == IF fresh /\ ui.screen = "log" THEN Repaint(ui) ELSE ui
              v == [u EXCEPT !.req = @ \ {"save"}, !.say = line]
          IN /\ ui' = [RenderFrame(Logged(v)) EXCEPT !.say = FALSE]
             /\ IF Says(v) THEN PushLine
                ELSE fresh' = FALSE /\ UNCHANGED <<lines, begin, len, written>>
    BY <1>9 DEF Draw
  <2> DEFINE u == IF fresh /\ ui.screen = "log" THEN Repaint(ui) ELSE ui
             v == [u EXCEPT !.req = @ \ {"save"}, !.say = line]
             w == Logged(v)
             r == RenderFrame(w)
  <2>2. ui' = [r EXCEPT !.say = FALSE]
    BY <2>1
  <2>3. IF Says(v) THEN PushLine /\ fresh' ELSE fresh' = FALSE /\ LogKept
    BY <2>1 DEF PushLine, LogKept
  <2>4. Fine(u, home, MaxScroll, FALSE) /\ Asks(ui, u)
    <3>1. CASE fresh /\ ui.screen = "log"
      BY <1>0, <3>1, RepaintFine DEF Fine
    <3>2. CASE ~(fresh /\ ui.screen = "log")
      BY <1>0, <3>2 DEF Fine, Shown, Covered
    <3> QED
      BY <3>1, <3>2
  <2> HIDE DEF u
  <2>5. Drops(u, v) /\ v.req = u.req \ {"save"} /\ v.asked = u.asked
    BY <2>4 DEF Drops, UiFields, Fine, Sound
  <2> HIDE DEF v
  <2>6. Fine(v, home, MaxScroll, FALSE) /\ Power(v) = {}
    BY <1>0, <2>0, <2>4, <2>5, DropsOk DEF Asks, Power
  <2>7. Fine(w, home, MaxScroll, fresh') /\ Keeps(v, w)
    <3>1. IF Says(v) THEN fresh' ELSE fresh' = FALSE
      BY <2>3
    <3> QED
      BY <2>6, <3>1, LoggedOk
  <2> HIDE DEF w
  <2>8. /\ Fine(r, home, MaxScroll, fresh') /\ r.req = w.req
        /\ ~r.over => Clean(r, fresh')
    BY <2>7, RenderOk
  <2> HIDE DEF r
  <2>9. Fine(ui', home, MaxScroll, fresh') /\ Keeps(r, ui') /\ ui'.stale = r.stale
    BY <2>2, <2>8, SilentOk
  <2>10. Fine(ui', home, MaxScroll', fresh')
    BY <2>3, <2>9, MoreLog
  <2>11. Power(ui') = {}
    BY <2>6, <2>7, <2>8, <2>9 DEF Keeps, Power
  <2>12. FrameShowsState'
    BY <2>8, <2>9 DEF FrameShowsState, Keeps, Clean
  <2> QED
    BY <2>0, <2>10, <2>11, <2>12 DEF ScreenInv
<1>10. CASE Device
  BY <1>1, <1>10 DEF Device, frameVars
<1>11. CASE PollAux
  <2>1. UNCHANGED <<scene, ui, logVars>> /\ stage = "ps2" /\ stage' \in {"ps2", "usb"}
    BY <1>11 DEF PollAux, AfterPoll
  <2> QED
    BY <1>1, <2>1
<1>12. CASE PollNothing \/ UsbNotPolled \/ UsbKeysTaken \/ SyncPrimaryCursor
  BY <1>1, <1>12 DEF PollNothing, UsbNotPolled, UsbKeysTaken, SyncPrimaryCursor
<1>13. CASE PollUsbMice
  <2>1. UNCHANGED <<scene, ui, logVars>> /\ stage = "usb" /\ stage' \in {"keys", "click"}
    BY <1>13 DEF PollUsbMice
  <2> QED
    BY <1>1, <2>1
<1>14. CASE UNCHANGED vars
  BY <1>1, <1>14 DEF vars, frameVars
<1> QED
  BY <1>2, <1>3, <1>4, <1>5, <1>6, <1>7, <1>8, <1>9, <1>10, <1>11, <1>12, <1>13, <1>14 DEF Next, Frame

\* After every frame the framebuffer shows the present state, whichever of the dirty flags were set together, unless
\* the page was painted over another screen: render_frame, take_dirty.
THEOREM FrameShown == Spec => []FrameShowsState
<1>1. ScreenInv => FrameShowsState
  BY DEF ScreenInv
<1> QED
  BY <1>1, LogStart, LogStep, ScreenStart, ScreenStep, PTL DEF Spec

\* However many keys and clicks a frame brings, nobody gets past the two notices without acknowledging each, nothing
\* happens behind them, and the machine is switched off only in a frame in which a power button was hit:
\* dismiss_epilepsy_notice, dismiss_california_age_notice, power_reboot_request.
THEOREM NothingIsUnasked == Spec => []NothingUnasked
<1>1. ScreenInv => NothingUnasked
  BY DEF ScreenInv, Fine, Sound, Noticed, NothingUnasked, NothingBehindNotices, PowerAsAsked, Notices
<1> QED
  BY <1>1, LogStart, LogStep, ScreenStart, ScreenStep, PTL DEF Spec

\* A reader who has scrolled up keeps his first line while new lines come and the ring is not full, for every size
\* of ring and viewport: draw_log_body, log_scroll_by_wheel, push_line.
THEOREM ViewIsHeld == Spec => LogViewHeld
<1> DEFINE A == ~ui.view.stick /\ ui'.view = ui.view /\ len > 0 /\ len < Cap
                => LineAt(FirstRow(ui.view))' = LineAt(FirstRow(ui.view))
<1>1. LogInv /\ ScreenInv /\ [Next]_vars => [A]_vars
  <2> SUFFICES ASSUME LogInv, ScreenInv, [Next]_vars, ~ui.view.stick, ui'.view = ui.view, len > 0, len < Cap
               PROVE  LineAt(FirstRow(ui.view))' = LineAt(FirstRow(ui.view))
    OBVIOUS
  <2> DEFINE s == ui.view.scroll
  <2>1. s \in Nat /\ s <= MaxScroll /\ Cap \in Nat /\ Rows \in Nat /\ Rows > 0 /\ len \in 0 .. Cap /\ begin = 0
    BY LogAssumption DEF ScreenInv, Fine, Sound, ViewOk, LogInv
  <2>2. MaxScroll \in Nat /\ MaxScroll' \in Nat /\ MaxScroll <= MaxScroll' /\ (PushLine \/ LogKept)
    <3>1. PushLine \/ LogKept
      BY LogActions
    <3> QED
      BY <2>1, <3>1 DEF MaxScroll, PushLine, LogKept
  <2>3. FirstRow(ui.view) = s
    BY <2>1, <2>2 DEF FirstRow
  <2>4. FirstRow(ui.view)' = s
    <3>1. ~(s > MaxScroll')
      BY <2>1, <2>2
    <3> QED
      BY <3>1 DEF FirstRow
  <2>5. s < len
    BY <2>1 DEF MaxScroll
  <2>6. (0 + s) % Cap = s /\ (0 + len) % Cap = len
    <3>1. 0 + s = s /\ 0 + len = len /\ s < Cap
      BY <2>1, <2>5
    <3> QED
      BY <2>1, <3>1, NoWrap
  <2>7. LineAt(FirstRow(ui.view)) = lines[s]
    BY <2>1, <2>3, <2>6 DEF LineAt
  <2>8. lines'[s] = lines[s] /\ begin' = 0
    <3>1. CASE LogKept
      BY <2>1, <3>1 DEF LogKept
    <3>2. CASE PushLine
      <4>1. lines' = [lines EXCEPT ![len] = written + 1] /\ begin' = 0
        BY <2>1, <2>6, <3>2 DEF PushLine, NextBegin
      <4>2. s # len /\ s \in 0 .. Cap - 1
        BY <2>1, <2>5
      <4> QED
        BY <4>1, <4>2 DEF LogInv
    <3> QED
      BY <2>2, <3>1, <3>2
  <2>9. LineAt(FirstRow(ui.view))' = lines'[(begin' + FirstRow(ui.view)') % Cap]
    BY DEF LineAt
  <2> QED
    BY <2>4, <2>6, <2>7, <2>8, <2>9
<1> QED
  BY <1>1, LogStart, LogStep, ScreenStart, ScreenStep, PTL DEF Spec, LogViewHeld

----------------------------------------------------------------------------
(* The PS/2 mouse.  Packets are sent in order and whole, so the bytes that *)
(* wait are the end of what was sent.  What was read of a packet and what  *)
(* waits belong together until a byte is lost, and again as soon as the    *)
(* packet that was hit is over.                                            *)

AuxBytes == [pkt : Nat, pos : 1 .. 4, b3 : BOOLEAN, left : BOOLEAN]
PacketEnd == IF wheel THEN 4 ELSE 3
LastByte(b, e) == b.pos = e \/ b.pkt = 0
Follows(a, b, e) ==
    IF LastByte(a, e) THEN b.pos = 1 /\ b.pkt = a.pkt + 1 ELSE b.pos = a.pos + 1 /\ b.pkt = a.pkt
ByteOk(b, seen) == (b.pos = 1 => b.b3 /\ b.pkt > 0) /\ (b.b3 /\ ~seen => b.pos = 1)
QueueOk(q, e, seen, k) ==
    /\ q \in Seq(AuxBytes)
    /\ \A i \in 1 .. Len(q) : ByteOk(q[i], seen)
    /\ \A i \in 1 .. Len(q) - 1 : Follows(q[i], q[i + 1], e)
    /\ q # <<>> => LastByte(q[Len(q)], e) /\ q[Len(q)].pkt = k
Whole(buf, q) ==
    /\ \A i \in 1 .. Len(buf) : buf[i].pos = i /\ buf[i].pkt = buf[1].pkt
    /\ buf # <<>> => q # <<>> /\ q[1].pos = Len(buf) + 1 /\ q[1].pkt = buf[1].pkt /\ q[1].pkt > 0
InStep(buf, q) == Whole(buf, q) /\ (buf = <<>> /\ q # <<>> => q[1].pos = 1)
Cost(buf, q) == IF Whole(buf, q) THEN 0 ELSE 1
Lossless == mlost = 0 /\ (wheel => pktlen = 4)
MouseInv ==
    /\ wheel \in BOOLEAN /\ pktlen \in {3, 4} /\ (pktlen = 4 => wheel)
    /\ packets \in Nat /\ mlost \in Nat /\ wrong \in Nat /\ b3seen \in BOOLEAN
    /\ QueueOk(mq, PacketEnd, b3seen, packets)
    /\ mbuf \in Seq(AuxBytes) /\ Len(mbuf) < pktlen
    /\ Lossless => wrong = 0 /\ InStep(mbuf, mq)
    /\ ~b3seen => wrong + Cost(mbuf, mq) <= mlost

AuxMoves ==
    \/ UNCHANGED auxVars
    \/ LoseAuxByte
    \/ \E l, d \in BOOLEAN : SendPacket(l, d)
    \/ mq # <<>> /\ ReadAuxByte(AuxEvent(Head(mq)))

InScene == scene \in Scenes

LEMMA SceneStays == [Next]_vars => scene' = scene
<1> SUFFICES ASSUME [Next]_vars PROVE scene' = scene
  OBVIOUS
<1>1. CASE Device
  BY <1>1 DEF Device, frameVars
<1>2. CASE Top \/ PollKbd \/ PollAux \/ PollNothing \/ PollUsbMice \/ UsbNotPolled
  BY <1>2 DEF Top, PollKbd, PollAux, PollNothing, PollUsbMice, UsbNotPolled
<1>3. CASE TakeUsbKey \/ UsbKeysTaken \/ TakeArmKey \/ SyncPrimaryCursor
  BY <1>3 DEF TakeUsbKey, UsbKeysTaken, TakeArmKey, KeyTaken, SyncPrimaryCursor
<1>4. CASE Click \/ PowerOff \/ Serve \/ Drive \/ Draw
  BY <1>4 DEF Click, PowerOff, Serve, Drive, Draw
<1>5. CASE UNCHANGED vars
  BY <1>5 DEF vars, frameVars
<1> QED
  BY <1>1, <1>2, <1>3, <1>4, <1>5 DEF Next, Frame

LEMMA MouseActions == ASSUME InScene, [Next]_vars PROVE AuxMoves
<1> USE DEF AuxMoves
<1>1. CASE Device
  <2>1. CASE \E k \in scene.kbd : KeyDown(k) \/ KeyUp(k)
    BY <2>1 DEF KeyDown, KeyUp
  <2>2. CASE LoseKbdByte
    BY <2>2 DEF LoseKbdByte
  <2>3. CASE \E l \in BOOLEAN, d \in {FALSE, scene.lossy} : SendPacket(l, d)
    BY <2>3, ScenesAssumption DEF InScene
  <2> QED
    BY <1>1, <2>1, <2>2, <2>3 DEF Device
<1>2. CASE PollKbd
  BY <1>2 DEF PollKbd, ReadKbdByte
<1>3. CASE PollAux
  BY <1>3 DEF PollAux, AuxReady
<1>4. CASE Top \/ PollNothing \/ PollUsbMice \/ UsbNotPolled
  BY <1>4 DEF Top, PollNothing, PollUsbMice, UsbNotPolled
<1>5. CASE TakeUsbKey \/ UsbKeysTaken \/ TakeArmKey \/ SyncPrimaryCursor
  BY <1>5 DEF TakeUsbKey, UsbKeysTaken, TakeArmKey, KeyTaken, SyncPrimaryCursor
<1>6. CASE Click \/ PowerOff \/ Serve \/ Drive \/ Draw
  BY <1>6 DEF Click, PowerOff, Serve, Drive, Draw
<1>7. CASE UNCHANGED vars
  BY <1>7 DEF vars
<1> QED
  BY <1>1, <1>2, <1>3, <1>4, <1>5, <1>6, <1>7 DEF Next, Frame

LEMMA TailIs ==
    ASSUME NEW S, NEW q \in Seq(S), q # <<>>
    PROVE  /\ Len(q) \in Nat /\ Len(q) > 0 /\ Head(q) = q[1] /\ q[1] \in S
           /\ Tail(q) \in Seq(S) /\ Len(Tail(q)) = Len(q) - 1 /\ (Tail(q) = <<>> <=> Len(q) = 1)
           /\ \A i \in 1 .. Len(q) - 1 : Tail(q)[i] = q[i + 1]
<1>1. Len(q) \in Nat /\ Len(q) > 0 /\ Head(q) = q[1] /\ q[1] \in S
  OBVIOUS
<1>2. Tail(q) \in Seq(S) /\ Len(Tail(q)) = Len(q) - 1
  OBVIOUS
<1>3. \A i \in 1 .. Len(q) - 1 : Tail(q)[i] = q[i + 1]
  OBVIOUS
<1>4. Tail(q) = <<>> <=> Len(q) = 1
  <2>1. Len(<<>>) = 0 /\ \A r \in Seq(S) : r # <<>> => Len(r) \in Nat \ {0}
    BY EmptySeq
  <2>2. Tail(q) # <<>> => Len(q) - 1 \in Nat \ {0}
    BY <1>2, <2>1
  <2>3. Tail(q) = <<>> => Len(q) - 1 = 0
    BY <1>2, <2>1
  <2> QED
    BY <1>1, <2>2, <2>3
<1> QED
  BY <1>1, <1>2, <1>3, <1>4

LEMMA Staged == (Init => InScene) /\ (InScene /\ [Next]_vars => InScene')
  BY SceneStays DEF Init, InScene

LEMMA MouseStart == Init => MouseInv
<1> SUFFICES ASSUME Init PROVE MouseInv
  OBVIOUS
<1>1. /\ wheel \in BOOLEAN /\ pktlen \in {3, 4} /\ (pktlen = 4 => wheel)
      /\ packets = 0 /\ wrong = 0 /\ b3seen = FALSE /\ mbuf = <<>>
      /\ \/ mq = <<>> /\ mlost = 0
         \/ mlost = 1 /\ mq = <<[pkt |-> 0, pos |-> 3, b3 |-> FALSE, left |-> FALSE]>>
  BY DEF Init, Ps2Init, PktLens
<1>2. QueueOk(mq, PacketEnd, b3seen, packets)
  <2>1. CASE mq = <<>>
    BY <2>1 DEF QueueOk
  <2>2. CASE mq = <<[pkt |-> 0, pos |-> 3, b3 |-> FALSE, left |-> FALSE]>>
    <3>1. Len(mq) = 1 /\ mq[1] = [pkt |-> 0, pos |-> 3, b3 |-> FALSE, left |-> FALSE]
      BY <2>2
    <3>2. mq[1] \in AuxBytes
      BY <3>1 DEF AuxBytes
    <3>3. mq \in Seq(AuxBytes)
      BY <2>2, <3>1, <3>2
    <3> QED
      BY <1>1, <3>1, <3>3 DEF QueueOk, ByteOk, LastByte
  <2> QED
    BY <1>1, <2>1, <2>2
<1>3. Whole(mbuf, mq) /\ mbuf \in Seq(AuxBytes) /\ Len(mbuf) = 0
  BY <1>1 DEF Whole
<1>4. Len(mbuf) < pktlen
  BY <1>1, <1>3
<1>5. Cost(mbuf, mq) = 0 /\ wrong + Cost(mbuf, mq) = 0 /\ mlost \in Nat /\ packets \in Nat /\ wrong \in Nat
  BY <1>1, <1>3 DEF Cost
<1>6. Lossless => InStep(mbuf, mq)
  BY <1>1, <1>3 DEF Lossless, InStep
<1>7. 0 <= mlost
  BY <1>5
<1> QED
  BY <1>1, <1>2, <1>3, <1>4, <1>5, <1>6, <1>7 DEF MouseInv

\* One packet more in a queue.
Sent(q, p, r) == r = q \o p
FirstIs(q, p, r) == r # <<>> /\ r[1] = IF q = <<>> THEN p[1] ELSE q[1]
PacketIs(p, e, k, m, d) ==
    /\ m = k + 1 /\ Len(p) = e
    /\ \A i \in 1 .. e : p[i].pkt = m /\ p[i].pos = i /\ (i = 1 => p[i].b3) /\ (p[i].b3 => i = 1 \/ d)

LEMMA QueueGrows ==
    ASSUME NEW q, NEW e \in {3, 4}, NEW seen \in BOOLEAN, NEW k \in Nat, QueueOk(q, e, seen, k),
           NEW d \in BOOLEAN, NEW now, seen \/ d => now, NEW m, NEW p \in Seq(AuxBytes), PacketIs(p, e, k, m, d), NEW r, Sent(q, p, r)
    PROVE  QueueOk(r, e, now, m) /\ FirstIs(q, p, r)
<1> USE DEF PacketIs
<1> DEFINE n == Len(q)
<1>1. /\ q \in Seq(AuxBytes) /\ n \in Nat
      /\ \A i \in 1 .. n : ByteOk(q[i], seen)
      /\ \A i \in 1 .. n - 1 : Follows(q[i], q[i + 1], e)
      /\ q # <<>> => LastByte(q[n], e) /\ q[n].pkt = k
  BY DEF QueueOk
<1>2. \A i \in 1 .. e : LastByte(p[i], e) <=> i = e
  BY DEF LastByte
<1>3. /\ r \in Seq(AuxBytes) /\ Len(r) = n + e /\ r # <<>>
      /\ \A i \in 1 .. n : r[i] = q[i]
      /\ \A i \in 1 .. e : r[n + i] = p[i]
  BY <1>1 DEF Sent
<1>4. \A i \in 1 .. n + e : ByteOk(r[i], now)
  <2> TAKE i \in 1 .. n + e
  <2>1. CASE i \in 1 .. n
    <3>1. ByteOk(q[i], seen) /\ r[i] = q[i]
      BY <1>1, <1>3, <2>1
    <3> QED
      BY <3>1 DEF ByteOk
  <2>2. CASE i \notin 1 .. n
    <3>1. PICK j \in 1 .. e : i = n + j
      <4>1. i - n \in 1 .. e /\ i = n + (i - n)
        BY <1>1, <2>2
      <4> QED
        BY <4>1
    <3>2. r[i] = p[j]
      BY <1>3, <3>1
    <3>3. (j = 1 => p[j].b3) /\ (p[j].b3 => j = 1 \/ d) /\ p[j].pos = j /\ p[j].pkt > 0
      OBVIOUS
    <3> QED
      BY <3>2, <3>3 DEF ByteOk
  <2> QED
    BY <2>1, <2>2
<1>5. \A i \in 1 .. n + e - 1 : Follows(r[i], r[i + 1], e)
  <2> TAKE i \in 1 .. n + e - 1
  <2>1. CASE i \in 1 .. n - 1
    <3>1. r[i] = q[i] /\ r[i + 1] = q[i + 1]
      BY <1>1, <1>3, <2>1
    <3> QED
      BY <1>1, <2>1, <3>1
  <2>2. CASE i = n
    <3>1. LastByte(q[n], e) /\ q[n].pkt = k /\ r[n] = q[n]
      BY <1>1, <1>3, <2>2
    <3>2. r[n + 1] = p[1] /\ p[1].pkt = k + 1 /\ p[1].pos = 1
      BY <1>3
    <3> QED
      BY <2>2, <3>1, <3>2 DEF Follows
  <2>3. CASE i > n
    <3>1. PICK j \in 1 .. e - 1 : i = n + j
      <4>1. i - n \in 1 .. e - 1 /\ i = n + (i - n)
        BY <1>1, <2>3
      <4> QED
        BY <4>1
    <3>2. j \in 1 .. e /\ j + 1 \in 1 .. e /\ i + 1 = n + (j + 1) /\ j # e
      BY <1>1, <3>1
    <3>3. r[i] = p[j] /\ r[i + 1] = p[j + 1]
      BY <1>3, <3>1, <3>2
    <3> QED
      BY <1>2, <3>2, <3>3 DEF Follows
  <2> QED
    BY <1>1, <2>1, <2>2, <2>3
<1>6. LastByte(r[n + e], e) /\ r[n + e].pkt = m
  <2>1. e \in 1 .. e
    OBVIOUS
  <2>2. r[n + e] = p[e]
    BY <1>3, <2>1
  <2> QED
    BY <1>2, <2>1, <2>2
<1>7. r[1] = IF q = <<>> THEN p[1] ELSE q[1]
  <2>1. CASE q = <<>>
    <3>1. n = 0 /\ 1 \in 1 .. e
      BY <2>1
    <3> QED
      BY <1>3, <2>1, <3>1
  <2>2. CASE q # <<>>
    <3>1. 1 \in 1 .. n
      BY <1>1, <2>2
    <3> QED
      BY <1>3, <2>2, <3>1
  <2> QED
    BY <2>1, <2>2
<1> QED
  <2>1. \A i \in 1 .. Len(r) : ByteOk(r[i], now)
    BY <1>3, <1>4
  <2>2. \A i \in 1 .. Len(r) - 1 : Follows(r[i], r[i + 1], e)
    BY <1>3, <1>5
  <2>3. QueueOk(r, e, now, m)
    BY <1>3, <1>6, <2>1, <2>2 DEF QueueOk
  <2> QED
    BY <1>3, <1>7, <2>3 DEF FirstIs

LEMMA SendKeeps ==
    ASSUME MouseInv, NEW l \in BOOLEAN, NEW d \in BOOLEAN, SendPacket(l, d)
    PROVE  MouseInv'
<1> DEFINE p == Packet(l, d)
           B(i) == [pkt |-> packets + 1, pos |-> i, b3 |-> i = 1 \/ d, left |-> IF i = 1 THEN l ELSE d]
<1>0. /\ mq' = mq \o p /\ packets' = packets + 1 /\ b3seen' = (b3seen \/ d)
      /\ UNCHANGED <<wheel, pktlen, mbuf, mlost, wrong>>
  BY DEF SendPacket
<1>1. /\ packets \in Nat /\ wheel \in BOOLEAN /\ b3seen \in BOOLEAN /\ QueueOk(mq, PacketEnd, b3seen, packets)
  BY DEF MouseInv
<1>2. PacketEnd \in {3, 4} /\ PacketEnd' = PacketEnd
  BY <1>0 DEF PacketEnd
<1>3. p \in Seq(AuxBytes) /\ Len(p) = PacketEnd /\ \A i \in 1 .. PacketEnd : p[i] = B(i)
  <2>1. p = [i \in 1 .. PacketEnd |-> B(i)]
    BY DEF Packet, PacketEnd
  <2>2. \A i \in 1 .. PacketEnd : B(i) \in AuxBytes
    BY <1>1, <1>2 DEF AuxBytes
  <2> HIDE DEF p, B
  <2> QED
    BY <1>2, <2>1, <2>2
<1>4. \A i \in 1 .. PacketEnd : p[i].pkt = packets + 1 /\ p[i].pos = i /\ (i = 1 => p[i].b3) /\ (p[i].b3 => i = 1 \/ d)
  <2>1. \A i \in 1 .. PacketEnd : p[i].pkt = packets + 1 /\ p[i].pos = i /\ p[i].b3 = (i = 1 \/ d)
    BY <1>3
  <2> QED
    BY <2>1
<1> HIDE DEF p, B
<1>5. /\ QueueOk(mq', PacketEnd, b3seen', packets') /\ mq' # <<>>
      /\ mq'[1] = IF mq = <<>> THEN p[1] ELSE mq[1]
  <2>0. PICK q, r, e, seen, now, k, m :
             q = mq /\ r = mq' /\ e = PacketEnd /\ seen = b3seen /\ now = b3seen' /\ k = packets /\ m = packets'
    OBVIOUS
  <2>1. QueueOk(q, e, seen, k) /\ e \in {3, 4} /\ (seen \/ d => now)
    BY <1>0, <1>1, <1>2, <1>3, <2>0
  <2>2. PacketIs(p, e, k, m, d)
    BY <1>0, <1>3, <1>4, <2>0 DEF PacketIs
  <2>3. QueueOk(r, e, now, m) /\ FirstIs(q, p, r)
    <3>1. p \in Seq(AuxBytes) /\ k \in Nat /\ seen \in BOOLEAN
      BY <1>1, <1>3, <2>0
    <3>2. Sent(q, p, r)
      BY <1>0, <2>0 DEF Sent
    <3> QED
      BY <2>1, <2>2, <3>1, <3>2, QueueGrows
  <2> QED
    BY <1>0, <2>0, <2>3 DEF FirstIs
<1>6. Whole(mbuf, mq) => Whole(mbuf', mq')
  BY <1>0, <1>5 DEF Whole
<1>7. InStep(mbuf, mq) => InStep(mbuf', mq')
  <2>1. p[1].pos = 1
    BY <1>2, <1>4
  <2> QED
    BY <1>0, <1>5, <1>6, <2>1 DEF InStep
<1>8. ~b3seen => wrong' + Cost(mbuf', mq') <= mlost'
  BY <1>0, <1>6 DEF Cost, MouseInv
<1>9. packets' \in Nat /\ b3seen' \in BOOLEAN
  BY <1>0, <1>1
<1> QED
  BY <1>0, <1>1, <1>2, <1>5, <1>7, <1>8, <1>9 DEF MouseInv, Lossless

\* The bytes behind the first.
LEMMA BehindFirst ==
    ASSUME NEW q, NEW e, NEW seen, NEW k, QueueOk(q, e, seen, k), q # <<>>
    PROVE  /\ QueueOk(Tail(q), e, seen, k)
           /\ Tail(q) = <<>> => LastByte(q[1], e) /\ q[1].pkt = k
           /\ Tail(q) # <<>> => Follows(q[1], Tail(q)[1], e)
           /\ q[1] \in AuxBytes /\ ByteOk(q[1], seen) /\ Head(q) = q[1]
<1> DEFINE n == Len(q)
           r == Tail(q)
<1>1. /\ n \in Nat /\ n > 0 /\ Head(q) = q[1] /\ q[1] \in AuxBytes
      /\ r \in Seq(AuxBytes) /\ Len(r) = n - 1 /\ (r = <<>> <=> n = 1)
      /\ \A i \in 1 .. n - 1 : r[i] = q[i + 1]
  BY TailIs DEF QueueOk
<1> HIDE DEF r
<1>2. \A i \in 1 .. n - 1 : ByteOk(r[i], seen)
  <2> TAKE i \in 1 .. n - 1
  <2>1. i + 1 \in 1 .. n
    BY <1>1
  <2> QED
    BY <1>1, <2>1 DEF QueueOk
<1>3. \A i \in 1 .. n - 1 - 1 : Follows(r[i], r[i + 1], e)
  <2> TAKE i \in 1 .. n - 1 - 1
  <2>1. i \in 1 .. n - 1 /\ i + 1 \in 1 .. n - 1
    BY <1>1
  <2> QED
    BY <1>1, <2>1 DEF QueueOk
<1>4. n > 1 => r[n - 1] = q[n] /\ r[1] = q[2] /\ 1 \in 1 .. n - 1 /\ n \in 1 .. n
  BY <1>1
<1>5. QueueOk(r, e, seen, k)
  <2>1. r # <<>> => LastByte(r[Len(r)], e) /\ r[Len(r)].pkt = k
    BY <1>1, <1>4 DEF QueueOk
  <2> QED
    BY <1>1, <1>2, <1>3, <2>1 DEF QueueOk
<1>6. r # <<>> => Follows(q[1], r[1], e)
  <2>1. n > 1 => Follows(q[1], q[1 + 1], e)
    BY <1>4 DEF QueueOk
  <2> QED
    BY <1>1, <1>4, <2>1
<1>7. ByteOk(q[1], seen)
  BY <1>1 DEF QueueOk
<1>8. r = <<>> => LastByte(q[1], e) /\ q[1].pkt = k
  BY <1>1 DEF QueueOk
<1> QED
  BY <1>1, <1>5, <1>6, <1>7, <1>8 DEF r

LEMMA NoCost == ASSUME NEW w \in Nat, NEW m \in Nat, w <= m, NEW c, c = 0 PROVE w + c <= m
  OBVIOUS

LEMMA LoseKeeps == ASSUME MouseInv, LoseAuxByte PROVE MouseInv'
<1>1. mq # <<>> /\ mq' = Tail(mq) /\ mlost' = mlost + 1 /\ UNCHANGED <<wheel, pktlen, mbuf, packets, b3seen, wrong>>
  BY DEF LoseAuxByte
<1>2. QueueOk(mq', PacketEnd, b3seen, packets) /\ PacketEnd' = PacketEnd
  BY <1>1, BehindFirst DEF MouseInv, PacketEnd
<1>3. Cost(mbuf, mq) \in {0, 1} /\ Cost(mbuf', mq') \in {0, 1}
  BY DEF Cost
<1>4. ~Lossless' /\ mlost' \in Nat
  BY <1>1 DEF Lossless, MouseInv
<1>5. ~b3seen => wrong' + Cost(mbuf', mq') <= mlost'
  BY <1>1, <1>3 DEF MouseInv
<1> QED
  BY <1>1, <1>2, <1>4, <1>5 DEF MouseInv

\* A byte read: it is skipped, kept, or the last of its packet.
LEMMA ReadKeeps ==
    ASSUME MouseInv, mq # <<>>, ReadAuxByte(AuxEvent(Head(mq)))
    PROVE  MouseInv'
<1> DEFINE b == mq[1]
           n == Len(mbuf)
           full == Append(mbuf, b)
<1>0. /\ wheel \in BOOLEAN /\ pktlen \in {3, 4} /\ (pktlen = 4 => wheel) /\ b3seen \in BOOLEAN /\ wrong \in Nat /\ mlost \in Nat
      /\ QueueOk(mq, PacketEnd, b3seen, packets) /\ mbuf \in Seq(AuxBytes) /\ n \in Nat /\ n < pktlen
      /\ (mbuf = <<>> <=> n = 0)
  BY DEF MouseInv
<1>1. /\ b \in AuxBytes /\ ByteOk(b, b3seen) /\ Head(mq) = b /\ mq' = Tail(mq)
      /\ QueueOk(mq', PacketEnd, b3seen, packets)
      /\ mq' = <<>> => LastByte(b, PacketEnd)
      /\ mq' # <<>> => Follows(b, mq'[1], PacketEnd)
  BY <1>0, BehindFirst DEF ReadAuxByte
<1>2. UNCHANGED <<wheel, pktlen, packets, mlost, b3seen>> /\ PacketEnd' = PacketEnd /\ PktLen = pktlen
  BY <1>0 DEF ReadAuxByte, PacketEnd, PktLen
<1>3. PacketEnd \in {3, 4} /\ pktlen <= PacketEnd /\ (Lossless => pktlen = PacketEnd) /\ b.pos \in 1 .. 4
  BY <1>0, <1>1 DEF PacketEnd, Lossless, AuxBytes
<1>4. mbuf' = AuxBuffer(b) /\ wrong' = IF AuxEvent(b).t = "mouse" /\ ~OnePacket(full) THEN wrong + 1 ELSE wrong
  BY <1>1 DEF ReadAuxByte
<1>5. full \in Seq(AuxBytes) /\ Len(full) = n + 1 /\ full[n + 1] = b /\ \A i \in 1 .. n : full[i] = mbuf[i]
  BY <1>0, <1>1
<1> HIDE DEF full, b
<1>6. ASSUME mbuf' = <<>>, wrong' \in Nat, Lossless => wrong' = 0 /\ (mq' # <<>> => mq'[1].pos = 1),
             ~b3seen => wrong' <= mlost
      PROVE  MouseInv'
  <2>1. Whole(mbuf', mq') /\ Len(mbuf') = 0 /\ mbuf' \in Seq(AuxBytes)
    BY <1>6 DEF Whole
  <2>2. Cost(mbuf', mq') = 0 /\ 0 < pktlen
    <3>1. Cost(mbuf', mq') = 0
      BY <2>1 DEF Cost
    <3>2. 0 < pktlen
      BY <1>0
    <3> QED
      BY <3>1, <3>2
  <2>3. Lossless' = Lossless
    BY <1>2 DEF Lossless
  <2>4. Lossless => InStep(mbuf', mq')
    BY <1>6, <2>1 DEF InStep
  <2>5. ~b3seen' => wrong' + Cost(mbuf', mq') <= mlost'
    <3>1. wrong' \in Nat /\ mlost' = mlost /\ mlost \in Nat /\ b3seen' = b3seen /\ (~b3seen => wrong' <= mlost)
      BY <1>0, <1>2, <1>6
    <3> QED
      BY <2>2, <3>1, NoCost
  <2> QED
    BY <1>0, <1>1, <1>2, <1>6, <2>1, <2>2, <2>3, <2>4, <2>5 DEF MouseInv
<1>7. CASE mbuf = <<>> /\ ~b.b3
  <2>1. mbuf' = <<>> /\ wrong' = wrong
    BY <1>4, <1>7 DEF AuxBuffer, AuxEvent, NoEvent
  <2>2. ~Lossless
    BY <1>1, <1>7 DEF MouseInv, InStep, ByteOk, b
  <2>3. Cost(mbuf, mq) \in {0, 1}
    BY DEF Cost
  <2>4. ~b3seen => wrong' <= mlost
    BY <1>0, <2>1, <2>3 DEF MouseInv
  <2> QED
    BY <1>0, <1>6, <2>1, <2>2, <2>4
<1>8. CASE (mbuf # <<>> \/ b.b3) /\ n + 1 # pktlen
  <2>1. mbuf' = full /\ wrong' = wrong
    BY <1>2, <1>4, <1>8 DEF AuxBuffer, AuxEvent, NoEvent, full
  <2>2. Lossless => mbuf # <<>> \/ b.pos = 1
    BY DEF MouseInv, InStep, b
  <2>3. ~b3seen => mbuf # <<>> \/ b.pos = 1
    BY <1>1, <1>8 DEF ByteOk
  <2>4. ASSUME Whole(mbuf, mq), mbuf # <<>> \/ b.pos = 1
        PROVE  Whole(mbuf', mq')
    <3>1. \A i \in 1 .. n + 1 : full[i].pos = i /\ full[i].pkt = full[1].pkt
      <4>1. CASE n = 0
        BY <1>0, <1>5, <2>4, <4>1
      <4>2. CASE n > 0
        <5>1. b.pos = n + 1 /\ b.pkt = mbuf[1].pkt /\ full[1] = mbuf[1]
          BY <1>0, <1>5, <2>4, <4>2 DEF Whole, b
        <5>2. \A i \in 1 .. n : full[i].pos = i /\ full[i].pkt = full[1].pkt
          BY <1>5, <2>4, <5>1 DEF Whole
        <5> QED
          BY <1>0, <1>5, <5>1, <5>2
      <4> QED
        BY <1>0, <4>1, <4>2
    <3>2. b.pos = n + 1 /\ b.pkt = full[1].pkt
      BY <1>0, <1>5, <3>1
    <3>3. b.pkt > 0 /\ b.pkt \in Nat
      <4>1. b.pkt \in Nat
        BY <1>1 DEF AuxBytes
      <4>2. CASE n = 0
        BY <1>1, <3>2, <4>1, <4>2 DEF ByteOk
      <4>3. CASE n > 0
        BY <1>0, <2>4, <4>1, <4>3 DEF Whole, b
      <4> QED
        BY <1>0, <4>2, <4>3
    <3>4. ~LastByte(b, PacketEnd)
      BY <1>0, <1>3, <1>8, <3>2, <3>3 DEF LastByte
    <3>5. mq' # <<>> /\ mq'[1].pos = n + 1 + 1 /\ mq'[1].pkt = b.pkt
      BY <1>1, <3>2, <3>4 DEF Follows
    <3> QED
      BY <1>5, <2>1, <3>1, <3>2, <3>3, <3>5 DEF Whole
  <2>5. Lossless => wrong' = 0 /\ InStep(mbuf', mq')
    BY <1>5, <2>1, <2>2, <2>4 DEF MouseInv, InStep
  <2>6. ~b3seen => wrong' + Cost(mbuf', mq') <= mlost
    <3>1. ~b3seen => Cost(mbuf', mq') <= Cost(mbuf, mq)
      BY <2>3, <2>4 DEF Cost
    <3>2. Cost(mbuf', mq') \in {0, 1} /\ Cost(mbuf, mq) \in {0, 1}
      BY DEF Cost
    <3> QED
      BY <1>0, <2>1, <3>1, <3>2 DEF MouseInv
  <2>7. mbuf' \in Seq(AuxBytes) /\ Len(mbuf') < pktlen
    BY <1>0, <1>5, <1>8, <2>1
  <2>8. Lossless' = Lossless
    BY <1>2 DEF Lossless
  <2> QED
    BY <1>0, <1>1, <1>2, <2>1, <2>5, <2>6, <2>7, <2>8 DEF MouseInv
<1>9. CASE (mbuf # <<>> \/ b.b3) /\ n + 1 = pktlen
  <2>1. mbuf # <<>> /\ mbuf' = <<>> /\ AuxEvent(b).t = "mouse"
    <3>1. mbuf # <<>>
      BY <1>0, <1>9
    <3> QED
      BY <1>2, <1>4, <1>9, <3>1 DEF AuxBuffer, AuxEvent
  <2>2. Whole(mbuf, mq) => OnePacket(full) /\ b.pos = pktlen
    <3> HAVE Whole(mbuf, mq)
    <3>1. b.pos = n + 1 /\ b.pkt = mbuf[1].pkt
      BY <2>1 DEF Whole, b
    <3>2. \A i \in 1 .. n : full[i].pos = i /\ full[i].pkt = mbuf[1].pkt
      BY <1>5 DEF Whole
    <3>3. \A i \in 1 .. n + 1 : full[i].pos = i /\ full[i].pkt = mbuf[1].pkt
      BY <1>0, <1>5, <3>1, <3>2
    <3>4. n + 1 >= 3
      BY <1>0, <1>9
    <3> QED
      BY <1>0, <1>9, <3>1, <3>3, <3>4 DEF OnePacket
  <2>3. /\ wrong' \in Nat /\ (Whole(mbuf, mq) => wrong' = wrong) /\ wrong' <= wrong + 1
    BY <1>0, <1>4, <2>2
  <2>4. ~b3seen => wrong' <= mlost
    <3>1. ~b3seen => wrong + Cost(mbuf, mq) <= mlost
      BY DEF MouseInv
    <3> QED
      BY <1>0, <2>3, <3>1 DEF Cost
  <2>5. Lossless => wrong' = 0 /\ (mq' # <<>> => mq'[1].pos = 1)
    <3> HAVE Lossless
    <3>1. wrong = 0 /\ Whole(mbuf, mq)
      BY DEF MouseInv, InStep
    <3>2. LastByte(b, PacketEnd)
      BY <1>3, <2>2, <3>1 DEF LastByte
    <3> QED
      BY <1>1, <2>3, <3>1, <3>2 DEF Follows
  <2> QED
    BY <1>6, <2>1, <2>3, <2>4, <2>5
<1> QED
  BY <1>7, <1>8, <1>9

LEMMA MouseStep == MouseInv /\ InScene /\ [Next]_vars => MouseInv'
<1> SUFFICES ASSUME MouseInv, InScene, [Next]_vars PROVE MouseInv'
  OBVIOUS
<1>1. CASE UNCHANGED auxVars
  BY <1>1 DEF auxVars, MouseInv, Lossless, PacketEnd
<1> QED
  BY <1>1, MouseActions, SendKeeps, LoseKeeps, ReadKeeps DEF AuxMoves


\* Every mouse event is made of the bytes of one packet if none is lost, and a lost byte costs at most one wrong
\* event while movement bytes have bit 3 clear, for every number of packets and of lost bytes: poll_event,
\* finish_ps2_mouse_packet.
THEOREM PacketsInStep == Spec => []PacketsKeepStep
<1>1. MouseInv => PacketsKeepStep
  <2> SUFFICES ASSUME MouseInv, ~b3seen PROVE wrong <= mlost
    BY DEF MouseInv, PacketsKeepStep, Lossless
  <2>1. wrong + Cost(mbuf, mq) <= mlost /\ wrong \in Nat /\ mlost \in Nat /\ Cost(mbuf, mq) \in {0, 1}
    BY DEF MouseInv, Cost
  <2> QED
    BY <2>1
<1> QED
  BY <1>1, MouseStart, MouseStep, Staged, PTL DEF Spec

----------------------------------------------------------------------------
(* The PS/2 keyboard.  Every byte carries the shift keys that were held    *)
(* when its key was struck, so a shift code among them is a press when the *)
(* key was up and a release when it was down, and the bytes that wait say  *)
(* of each other what came between.  The parser is aligned with them while *)
(* its flags fit the byte it reads next; the press of a shift key aligns   *)
(* it again after a loss.                                                  *)

Codes == {"E0", "F0"} \cup UNION {s.kbd : s \in Scenes}
KbdBytes == [c : Codes, brk : {FALSE}, sh : SUBSET Shifts]
IsKey(b) == b.c \notin {"E0", "F0"}
Struck(b) ==
    IF b.c \notin Shifts THEN b.sh ELSE IF b.c \in b.sh THEN b.sh \ {b.c} ELSE b.sh \cup {b.c}
NextCode(a, b) ==
    /\ b.sh = IF IsKey(a) THEN Struck(a) ELSE a.sh
    /\ a.c = "E0" => b.c \in {"F0", "up", "down"}
    /\ a.c = "F0" => IsKey(b) /\ (b.c \in Shifts => b.c \in b.sh)
    /\ IsKey(a) /\ b.c \in Shifts => b.c \notin b.sh
KeysOk(q, h) ==
    /\ q \in Seq(KbdBytes)
    /\ \A i \in 1 .. Len(q) - 1 : NextCode(q[i], q[i + 1])
    /\ \A i \in 1 .. Len(q) - 2 : q[i].c = "E0" /\ q[i + 1].c = "F0" => q[i + 2].c \notin Shifts
    /\ q # <<>> => IsKey(q[Len(q)]) /\ h = Struck(q[Len(q)])
Held0(q, h) == IF q = <<>> THEN h ELSE q[1].sh
Flagged(d) == d.e0 \/ d.rel \/ d.ext
Lone(d) == ~(d.e0 /\ d.rel) /\ ~(d.e0 /\ d.ext) /\ ~(d.rel /\ d.ext)
Expects(d, q) ==
    /\ d.e0 => q[1].c \in {"F0", "up", "down"} /\ (q[1].c = "F0" => q[2].c \notin Shifts)
    /\ d.rel => IsKey(q[1]) /\ (q[1].c \in Shifts => q[1].c \in q[1].sh)
    /\ d.ext => IsKey(q[1]) /\ q[1].c \notin Shifts
    /\ ~Flagged(d) /\ q[1].c \in Shifts => q[1].c \notin q[1].sh
Aligned(d, q) == Lone(d) /\ (Flagged(d) => q # <<>>) /\ (q # <<>> => Expects(d, q))
Pressed(s, q) == \E i \in 1 .. Len(q) : q[i].c = s /\ s \notin q[i].sh
Mended(s, d, q, h) == Aligned(d, q) /\ (s \in d.shift => s \in Held0(q, h))
Tame(d, q) == d.e0 => (~d.rel /\ ~d.ext) \/ (q # <<>> /\ q[1].c \in {"F0", "up", "down"})
KbdFlags == [e0 : BOOLEAN, rel : BOOLEAN, ext : BOOLEAN, shift : SUBSET Shifts]
KbdInv ==
    /\ klost \in Nat /\ held \subseteq Shifts /\ tapped \in [Shifts -> 0 .. 2] /\ badshift \in BOOLEAN
    /\ kset = "prefix" /\ klost <= 1 =>
         /\ kd \in KbdFlags /\ KeysOk(kq, held) /\ Tame(kd, kq)
         /\ klost = 0 => Aligned(kd, kq) /\ kd.shift = Held0(kq, held) /\ ~badshift
         /\ \A s \in Shifts :
              /\ tapped[s] = 1 => s \in held
              /\ tapped[s] = 2 => s \notin held
              /\ tapped[s] # 0 => Pressed(s, kq) \/ Mended(s, kd, kq, held)

KbdMoves ==
    \/ UNCHANGED kbdVars
    \/ LoseKbdByte
    \/ \E k \in scene.kbd : KeyDown(k) \/ KeyUp(k)
    \/ kq # <<>> /\ ReadKbdByte(KbdEvent(Head(kq)))

LEMMA KbdActions == ASSUME [Next]_vars PROVE KbdMoves
<1> USE DEF KbdMoves
<1>1. CASE Device
  <2>1. CASE LoseAuxByte
    BY <2>1 DEF LoseAuxByte
  <2>2. CASE \E l \in BOOLEAN, d \in {FALSE, scene.lossy} : SendPacket(l, d)
    BY <2>2 DEF SendPacket
  <2> QED
    BY <1>1, <2>1, <2>2 DEF Device
<1>2. CASE PollKbd
  BY <1>2 DEF PollKbd
<1>3. CASE PollAux
  BY <1>3 DEF PollAux, ReadAuxByte
<1>4. CASE Top \/ PollNothing \/ PollUsbMice \/ UsbNotPolled
  BY <1>4 DEF Top, PollNothing, PollUsbMice, UsbNotPolled
<1>5. CASE TakeUsbKey \/ UsbKeysTaken \/ TakeArmKey \/ SyncPrimaryCursor
  BY <1>5 DEF TakeUsbKey, UsbKeysTaken, TakeArmKey, KeyTaken, SyncPrimaryCursor
<1>6. CASE Click \/ PowerOff \/ Serve \/ Drive \/ Draw
  BY <1>6 DEF Click, PowerOff, Serve, Drive, Draw
<1>7. CASE UNCHANGED vars
  BY <1>7 DEF vars
<1> QED
  BY <1>1, <1>2, <1>3, <1>4, <1>5, <1>6, <1>7 DEF Next, Frame

\* A stroke's bytes p behind those that wait.
LEMMA KeysJoin ==
    ASSUME NEW q, NEW h, KeysOk(q, h), NEW p, NEW g, KeysOk(p, g), p # <<>>, p[1].sh = h,
           p[1].c \in Shifts => p[1].c \notin p[1].sh, NEW r, Sent(q, p, r)
    PROVE  /\ KeysOk(r, g) /\ FirstIs(q, p, r)
           /\ \A s : Pressed(s, q) \/ Pressed(s, p) => Pressed(s, r)
           /\ q # <<>> /\ q[1].c = "F0" => r[2] = q[2]
<1> DEFINE n == Len(q)
           m == Len(p)
<1>1. /\ q \in Seq(KbdBytes) /\ n \in Nat /\ p \in Seq(KbdBytes) /\ m \in Nat /\ m > 0
      /\ q # <<>> => n > 0 /\ IsKey(q[n]) /\ h = Struck(q[n])
      /\ IsKey(p[m]) /\ g = Struck(p[m])
  BY DEF KeysOk
<1>2. /\ \A i \in 1 .. n - 1 : NextCode(q[i], q[i + 1])
      /\ \A i \in 1 .. m - 1 : NextCode(p[i], p[i + 1])
      /\ \A i \in 1 .. n - 2 : q[i].c = "E0" /\ q[i + 1].c = "F0" => q[i + 2].c \notin Shifts
      /\ \A i \in 1 .. m - 2 : p[i].c = "E0" /\ p[i + 1].c = "F0" => p[i + 2].c \notin Shifts
  BY DEF KeysOk
<1>3. /\ r \in Seq(KbdBytes) /\ Len(r) = n + m /\ r # <<>>
      /\ \A i \in 1 .. n : r[i] = q[i]
      /\ \A i \in 1 .. m : r[n + i] = p[i]
  BY <1>1 DEF Sent
<1>4. \A i \in 1 .. n + m : i > n => i - n \in 1 .. m /\ r[i] = p[i - n]
  <2> TAKE i \in 1 .. n + m
  <2> HAVE i > n
  <2>1. i - n \in 1 .. m /\ n + (i - n) = i
    BY <1>1
  <2> QED
    BY <1>3, <2>1
<1>5. \A i \in 1 .. Len(r) - 1 : NextCode(r[i], r[i + 1])
  <2> TAKE i \in 1 .. Len(r) - 1
  <2>0. i \in 1 .. n + m - 1
    BY <1>3
  <2>1. CASE i \in 1 .. n - 1
    <3>0. i \in 1 .. n /\ i + 1 \in 1 .. n
      BY <1>1, <2>1
    <3>1. r[i] = q[i] /\ r[i + 1] = q[i + 1]
      BY <1>3, <3>0
    <3> QED
      BY <1>2, <2>1, <3>1
  <2>2. CASE i = n
    <3>1. q # <<>> /\ r[n] = q[n] /\ r[n + 1] = p[1]
      BY <1>1, <1>3, <2>0, <2>2
    <3>2. IsKey(q[n]) /\ h = Struck(q[n])
      BY <1>1, <3>1
    <3> QED
      BY <2>2, <3>1, <3>2 DEF NextCode, IsKey
  <2>3. CASE i > n
    <3>1. r[i] = p[i - n] /\ r[i + 1] = p[(i - n) + 1] /\ i - n \in 1 .. m - 1
      <4>1. i \in 1 .. n + m /\ i + 1 \in 1 .. n + m /\ i + 1 > n /\ i + 1 - n = i - n + 1 /\ i - n \in 1 .. m - 1
        BY <1>1, <2>0, <2>3
      <4> QED
        BY <1>4, <2>3, <4>1
    <3> QED
      BY <1>2, <3>1
  <2> QED
    BY <1>1, <2>0, <2>1, <2>2, <2>3
<1>6. \A i \in 1 .. Len(r) - 2 : r[i].c = "E0" /\ r[i + 1].c = "F0" => r[i + 2].c \notin Shifts
  <2> TAKE i \in 1 .. Len(r) - 2
  <2> HAVE r[i].c = "E0" /\ r[i + 1].c = "F0"
  <2>0. i \in 1 .. n + m - 2
    BY <1>3
  <2>1. CASE i \in 1 .. n - 2
    <3>1. r[i] = q[i] /\ r[i + 1] = q[i + 1] /\ r[i + 2] = q[i + 2]
      BY <1>1, <1>3, <2>1, SMTT(30)
    <3> QED
      BY <1>2, <2>1, <3>1
  <2>2. CASE i = n - 1 \/ i = n
    <3>1. q # <<>> /\ n \in 1 .. n
      BY <1>1, <2>0, <2>2
    <3>2. r[n] = q[n] /\ (i = n \/ i + 1 = n)
      BY <1>1, <1>3, <2>0, <2>2, <3>1
    <3> QED
      BY <1>1, <3>1, <3>2 DEF IsKey
  <2>3. CASE i > n
    <3>1. /\ r[i] = p[i - n] /\ r[i + 1] = p[(i - n) + 1] /\ r[i + 2] = p[(i - n) + 2]
          /\ i - n \in 1 .. m - 2
      <4>1. /\ i \in 1 .. n + m /\ i + 1 \in 1 .. n + m /\ i + 1 > n /\ i + 1 - n = i - n + 1
            /\ i + 2 \in 1 .. n + m /\ i + 2 > n /\ i + 2 - n = i - n + 2 /\ i - n \in 1 .. m - 2
        BY <1>1, <2>0, <2>3, SMTT(30)
      <4>2. r[i] = p[i - n]
        BY <1>4, <2>3, <4>1
      <4>3. r[i + 1] = p[i + 1 - n]
        BY <1>4, <4>1
      <4>4. r[i + 2] = p[i + 2 - n]
        BY <1>4, <4>1
      <4> QED
        BY <4>1, <4>2, <4>3, <4>4
    <3> QED
      BY <1>2, <3>1
  <2> QED
    BY <1>1, <2>0, <2>1, <2>2, <2>3
<1>7. IsKey(r[Len(r)]) /\ g = Struck(r[Len(r)])
  <2>1. m \in 1 .. m
    BY <1>1
  <2>2. r[n + m] = p[m]
    BY <1>3, <2>1
  <2> QED
    BY <1>1, <1>3, <2>2
<1>8. FirstIs(q, p, r)
  <2>1. CASE q = <<>>
    <3>1. n = 0 /\ 1 \in 1 .. m
      BY <1>1, <2>1
    <3> QED
      BY <1>3, <2>1, <3>1 DEF FirstIs
  <2>2. CASE q # <<>>
    <3>1. 1 \in 1 .. n
      BY <1>1, <2>2
    <3> QED
      BY <1>3, <2>2, <3>1 DEF FirstIs
  <2> QED
    BY <2>1, <2>2
<1>9. \A s : Pressed(s, q) \/ Pressed(s, p) => Pressed(s, r)
  <2> TAKE s
  <2>1. ASSUME Pressed(s, q) PROVE Pressed(s, r)
    <3>1. PICK i \in 1 .. n : q[i].c = s /\ s \notin q[i].sh
      BY <2>1 DEF Pressed
    <3>2. i \in 1 .. Len(r) /\ r[i] = q[i]
      BY <1>1, <1>3
    <3> QED
      BY <3>1, <3>2 DEF Pressed
  <2>2. ASSUME Pressed(s, p) PROVE Pressed(s, r)
    <3>1. PICK i \in 1 .. m : p[i].c = s /\ s \notin p[i].sh
      BY <2>2 DEF Pressed
    <3>2. n + i \in 1 .. Len(r) /\ r[n + i] = p[i]
      BY <1>1, <1>3
    <3> QED
      BY <3>1, <3>2 DEF Pressed
  <2> QED
    BY <2>1, <2>2
<1>10. q # <<>> /\ q[1].c = "F0" => r[2] = q[2]
  <2> HAVE q # <<>> /\ q[1].c = "F0"
  <2>1. n # 1
    BY <1>1 DEF IsKey
  <2>2. n \in Nat /\ n > 0
    BY <1>1
  <2>3. 2 \in 1 .. n
    <3> HIDE DEF n
    <3> QED
      BY <2>1, <2>2
  <2> QED
    BY <1>3, <2>3
<1> QED
  BY <1>3, <1>5, <1>6, <1>7, <1>8, <1>9, <1>10 DEF KeysOk

\* The bytes behind the first.
LEMMA KeysTail ==
    ASSUME NEW q, NEW h, KeysOk(q, h), q # <<>>
    PROVE  /\ KeysOk(Tail(q), h) /\ Head(q) = q[1] /\ q[1] \in KbdBytes
           /\ Tail(q) = <<>> => IsKey(q[1])
           /\ Tail(q) # <<>> => NextCode(q[1], Tail(q)[1])
           /\ Held0(Tail(q), h) = IF IsKey(q[1]) THEN Struck(q[1]) ELSE q[1].sh
           /\ q[1].c = "E0" /\ Tail(q)[1].c = "F0" => Tail(q)[2].c \notin Shifts
           /\ q[1].c = "F0" => Tail(q)[1] = q[2]
           /\ \A s : Pressed(s, q) => Pressed(s, Tail(q)) \/ (q[1].c = s /\ s \notin q[1].sh)
<1> DEFINE n == Len(q)
           r == Tail(q)
<1>1. /\ n \in Nat /\ n > 0 /\ Head(q) = q[1] /\ q[1] \in KbdBytes
      /\ r \in Seq(KbdBytes) /\ Len(r) = n - 1 /\ (r = <<>> <=> n = 1)
      /\ \A i \in 1 .. n - 1 : r[i] = q[i + 1]
  BY TailIs DEF KeysOk
<1> HIDE DEF r
<1>2. /\ \A i \in 1 .. n - 1 : NextCode(q[i], q[i + 1])
      /\ \A i \in 1 .. n - 2 : q[i].c = "E0" /\ q[i + 1].c = "F0" => q[i + 2].c \notin Shifts
      /\ IsKey(q[n]) /\ h = Struck(q[n])
  BY DEF KeysOk
<1>3. \A i \in 1 .. Len(r) - 1 : NextCode(r[i], r[i + 1])
  <2> TAKE i \in 1 .. Len(r) - 1
  <2>1. i \in 1 .. n - 1 /\ i + 1 \in 1 .. n - 1
    BY <1>1
  <2> QED
    BY <1>1, <1>2, <2>1
<1>4. \A i \in 1 .. Len(r) - 2 : r[i].c = "E0" /\ r[i + 1].c = "F0" => r[i + 2].c \notin Shifts
  <2> TAKE i \in 1 .. Len(r) - 2
  <2>1. i \in 1 .. n - 1 /\ i + 1 \in 1 .. n - 1 /\ i + 2 \in 1 .. n - 1 /\ i + 1 \in 1 .. n - 2
    BY <1>1
  <2>2. r[i] = q[i + 1] /\ r[i + 1] = q[(i + 1) + 1] /\ r[i + 2] = q[(i + 1) + 2]
    <3>1. (i + 2) + 1 = (i + 1) + 2
      BY <2>1
    <3> QED
      BY <1>1, <2>1, <3>1
  <2> QED
    BY <1>2, <2>1, <2>2
<1>5. r # <<>> => IsKey(r[Len(r)]) /\ h = Struck(r[Len(r)])
  <2> HAVE r # <<>>
  <2>1. n - 1 \in 1 .. n - 1 /\ n - 1 + 1 = n
    BY <1>1
  <2>2. r[n - 1] = q[n]
    BY <1>1, <2>1
  <2> QED
    BY <1>1, <1>2, <2>2
<1>6. KeysOk(r, h)
  BY <1>1, <1>3, <1>4, <1>5 DEF KeysOk
<1>7. r # <<>> => NextCode(q[1], r[1]) /\ r[1] = q[2]
  <2> HAVE r # <<>>
  <2>1. 1 \in 1 .. n - 1 /\ 1 + 1 = 2
    BY <1>1
  <2> QED
    BY <1>1, <1>2, <2>1
<1>8. r = <<>> => IsKey(q[1]) /\ h = Struck(q[1])
  BY <1>1, <1>2
<1>9. Held0(r, h) = IF IsKey(q[1]) THEN Struck(q[1]) ELSE q[1].sh
  BY <1>7, <1>8 DEF Held0, NextCode
<1>10. q[1].c = "E0" /\ r[1].c = "F0" => r[2].c \notin Shifts
  <2> HAVE q[1].c = "E0" /\ r[1].c = "F0"
  <2>1. r # <<>>
    BY <1>8 DEF IsKey
  <2>2. r[1] = q[2] /\ q[2].c = "F0"
    BY <1>7, <2>1
  <2>3. n # 1 /\ n # 2
    BY <1>1, <1>2, <2>1, <2>2 DEF IsKey
  <2>4. 1 \in 1 .. n - 2 /\ 2 \in 1 .. n - 1 /\ 1 + 1 = 2 /\ 1 + 2 = 3 /\ 2 + 1 = 3
    BY <1>1, <2>3
  <2>5. r[2] = q[3]
    BY <1>1, <2>4
  <2> QED
    BY <1>2, <2>2, <2>4, <2>5
<1>11. q[1].c = "F0" => r[1] = q[2]
  BY <1>7, <1>8 DEF IsKey
<1>12. \A s : Pressed(s, q) => Pressed(s, r) \/ (q[1].c = s /\ s \notin q[1].sh)
  <2> TAKE s
  <2> HAVE Pressed(s, q)
  <2>1. PICK i \in 1 .. n : q[i].c = s /\ s \notin q[i].sh
    BY DEF Pressed
  <2>2. CASE i = 1
    BY <2>1, <2>2
  <2>3. CASE i # 1
    <3>1. i - 1 \in 1 .. n - 1 /\ i - 1 + 1 = i
      BY <1>1, <2>3
    <3>2. r[i - 1] = q[i] /\ i - 1 \in 1 .. Len(r)
      BY <1>1, <3>1
    <3> QED
      BY <2>1, <3>2 DEF Pressed
  <2> QED
    BY <2>2, <2>3
<1> QED
  BY <1>1, <1>6, <1>7, <1>8, <1>9, <1>10, <1>11, <1>12 DEF r

\* What reading byte b makes of the flags d.
Reads(d, b, e) ==
    /\ e \in KbdFlags /\ e.e0 = (b.c = "E0")
    /\ b.c = "E0" => e.rel = d.rel /\ e.ext = d.ext /\ e.shift = d.shift
    /\ b.c # "E0" /\ d.e0 => e.rel = d.rel /\ e.ext = (d.ext \/ b.c = "F0") /\ e.shift = d.shift
    /\ b.c = "F0" /\ ~d.e0 => e.rel /\ e.ext = d.ext /\ e.shift = d.shift
    /\ IsKey(b) /\ ~d.e0 => ~e.rel /\ ~e.ext
    /\ IsKey(b) /\ ~d.e0 /\ d.rel /\ ~d.ext => e.shift = d.shift \ {b.c}
    /\ IsKey(b) /\ ~d.e0 /\ d.ext => e.shift = d.shift
    /\ IsKey(b) /\ ~Flagged(d) => e.shift = IF b.c \in Shifts THEN d.shift \cup {b.c} ELSE d.shift

LEMMA StateReads ==
    ASSUME kd \in KbdFlags, NEW b \in KbdBytes
    PROVE  Reads(kd, b, KbdState(b))
<1> DEFINE e == KbdState(b)
<1>0. /\ kd.e0 \in BOOLEAN /\ kd.rel \in BOOLEAN /\ kd.ext \in BOOLEAN /\ kd.shift \subseteq Shifts
      /\ kd = [e0 |-> kd.e0, rel |-> kd.rel, ext |-> kd.ext, shift |-> kd.shift] /\ b.brk = FALSE
  BY DEF KbdFlags, KbdBytes
<1> USE DEF Reads, KbdFlags, IsKey, Flagged
<1>1. CASE b.c = "E0"
  <2>1. e = [kd EXCEPT !.e0 = TRUE]
    BY <1>1 DEF KbdState
  <2> HIDE DEF e
  <2> QED
    BY <1>0, <1>1, <2>1 DEF e
<1>2. CASE b.c # "E0" /\ kd.e0
  <2>1. e = [kd EXCEPT !.e0 = FALSE, !.ext = kd.ext \/ b.c = "F0"]
    BY <1>2 DEF KbdState
  <2> HIDE DEF e
  <2> QED
    BY <1>0, <1>2, <2>1 DEF e
<1>3. CASE b.c = "F0" /\ ~kd.e0
  <2>1. e = [kd EXCEPT !.rel = TRUE]
    BY <1>3 DEF KbdState
  <2> HIDE DEF e
  <2> QED
    BY <1>0, <1>3, <2>1 DEF e
<1>4. CASE b.c \notin {"E0", "F0"} /\ ~kd.e0 /\ kd.rel
  <2>1. e = [kd EXCEPT !.rel = FALSE, !.ext = FALSE, !.shift = IF kd.ext THEN kd.shift ELSE kd.shift \ {b.c}]
    BY <1>0, <1>4 DEF KbdState
  <2> HIDE DEF e
  <2> QED
    BY <1>0, <1>4, <2>1 DEF e
<1>5. CASE b.c \notin {"E0", "F0"} /\ ~kd.e0 /\ ~kd.rel /\ kd.ext
  <2>1. e = [kd EXCEPT !.ext = FALSE]
    BY <1>5 DEF KbdState
  <2> HIDE DEF e
  <2> QED
    BY <1>0, <1>5, <2>1 DEF e
<1>6. CASE b.c \notin {"E0", "F0"} /\ ~kd.e0 /\ ~kd.rel /\ ~kd.ext
  <2>1. e = [kd EXCEPT !.shift = IF b.c \in Shifts THEN kd.shift \cup {b.c} ELSE kd.shift]
    BY <1>0, <1>6 DEF KbdState
  <2> HIDE DEF e
  <2> QED
    BY <1>0, <1>6, <2>1 DEF e
<1> QED
  BY <1>1, <1>2, <1>3, <1>4, <1>5, <1>6

\* A parser that is aligned stays so, and its shift keys follow those of the keyboard.
LEMMA AlignedReads ==
    ASSUME NEW q, NEW h, KeysOk(q, h), q # <<>>, NEW d \in KbdFlags, Aligned(d, q), NEW e, Reads(d, q[1], e)
    PROVE  /\ Aligned(e, Tail(q))
           /\ d.shift = Held0(q, h) => e.shift = Held0(Tail(q), h)
           /\ \A s : (s \in d.shift => s \in Held0(q, h)) => (s \in e.shift => s \in Held0(Tail(q), h))
<1> DEFINE b == q[1]
           r == Tail(q)
<1>1. /\ KeysOk(r, h) /\ b \in KbdBytes
      /\ r = <<>> => IsKey(b)
      /\ r # <<>> => NextCode(b, r[1])
      /\ Held0(r, h) = IF IsKey(b) THEN Struck(b) ELSE b.sh
      /\ b.c = "E0" /\ r[1].c = "F0" => r[2].c \notin Shifts
      /\ b.c = "F0" => r[1] = q[2]
  BY KeysTail
<1>2. Lone(d) /\ Expects(d, q) /\ Held0(q, h) = b.sh /\ Reads(d, b, e)
  BY DEF Aligned, Held0
<1> HIDE DEF r
<1>3. /\ d.e0 => b.c \in {"F0", "up", "down"} /\ (b.c = "F0" => q[2].c \notin Shifts)
      /\ d.rel => IsKey(b) /\ (b.c \in Shifts => b.c \in b.sh)
      /\ d.ext => IsKey(b) /\ b.c \notin Shifts
      /\ ~Flagged(d) /\ b.c \in Shifts => b.c \notin b.sh
  BY <1>2 DEF Expects
<1> HIDE DEF b
<1>4. d.e0 \in BOOLEAN /\ d.rel \in BOOLEAN /\ d.ext \in BOOLEAN /\ e.e0 \in BOOLEAN /\ e.rel \in BOOLEAN /\ e.ext \in BOOLEAN
  BY <1>2 DEF Reads, KbdFlags
<1>5. CASE b.c = "E0"
  <2>1. ~Flagged(d)
    BY <1>3, <1>5 DEF Flagged, IsKey
  <2>2. e.e0 /\ ~e.rel /\ ~e.ext /\ e.shift = d.shift
    BY <1>2, <1>4, <1>5, <2>1 DEF Reads, Flagged
  <2>3. r # <<>> /\ r[1].c \in {"F0", "up", "down"}
    BY <1>1, <1>5 DEF IsKey, NextCode
  <2>4. Aligned(e, r)
    BY <1>1, <1>5, <2>2, <2>3 DEF Aligned, Lone, Flagged, Expects
  <2> QED
    BY <1>1, <1>2, <1>5, <2>2, <2>4 DEF IsKey, r
<1>6. CASE b.c = "F0"
  <2>1. ~d.rel /\ ~d.ext
    BY <1>3, <1>6 DEF IsKey
  <2>2. r # <<>> /\ IsKey(r[1]) /\ (r[1].c \in Shifts => r[1].c \in r[1].sh)
    BY <1>1, <1>6 DEF IsKey, NextCode
  <2>3. ~e.e0 /\ e.shift = d.shift
    BY <1>2, <1>4, <1>6 DEF Reads
  <2>4. CASE d.e0
    <3>1. ~e.rel /\ e.ext /\ r[1].c \notin Shifts
      BY <1>1, <1>2, <1>3, <1>4, <1>6, <2>1, <2>4 DEF Reads
    <3>2. Aligned(e, r)
      BY <2>2, <2>3, <3>1 DEF Aligned, Lone, Flagged, Expects
    <3> QED
      BY <1>1, <1>2, <1>6, <2>3, <3>2 DEF IsKey, r
  <2>5. CASE ~d.e0
    <3>1. e.rel /\ ~e.ext
      BY <1>2, <1>4, <1>6, <2>1, <2>5 DEF Reads
    <3>2. Aligned(e, r)
      BY <2>2, <2>3, <3>1 DEF Aligned, Lone, Flagged, Expects
    <3> QED
      BY <1>1, <1>2, <1>6, <2>3, <3>2 DEF IsKey, r
  <2> QED
    BY <1>4, <2>4, <2>5
<1>7. CASE IsKey(b)
  <2>1. ~e.e0 /\ ~e.rel /\ ~e.ext
    <3>1. CASE d.e0
      BY <1>2, <1>4, <1>7, <3>1 DEF Reads, IsKey, Lone
    <3>2. CASE ~d.e0
      BY <1>2, <1>4, <1>7, <3>2 DEF Reads, IsKey
    <3> QED
      BY <1>4, <3>1, <3>2
  <2>2. Aligned(e, r)
    BY <1>1, <1>7, <2>1 DEF Aligned, Lone, Flagged, Expects, NextCode
  <2>3. b.c \notin Shifts => e.shift = d.shift \/ e.shift = d.shift \ {b.c}
    BY <1>2, <1>4, <1>7 DEF Reads, IsKey, Flagged
  <2>4. b.c \in Shifts /\ b.c \in b.sh => e.shift = d.shift \ {b.c}
    <3> HAVE b.c \in Shifts /\ b.c \in b.sh
    <3>1. d.rel /\ ~d.e0 /\ ~d.ext
      BY <1>2, <1>3, <1>4 DEF Flagged, Lone, Shifts
    <3> QED
      BY <1>2, <1>7, <3>1 DEF Reads
  <2>5. b.c \in Shifts /\ b.c \notin b.sh => e.shift = d.shift \cup {b.c}
    <3> HAVE b.c \in Shifts /\ b.c \notin b.sh
    <3>1. ~Flagged(d)
      BY <1>3, <1>4 DEF Flagged, Shifts
    <3> QED
      BY <1>2, <1>7, <3>1 DEF Reads
  <2>6. d.shift \subseteq Shifts
    BY DEF KbdFlags
  <2>7. b.c \notin Shifts => e.shift = d.shift
    BY <2>3, <2>6
  <2>8. Held0(r, h) = Struck(b) /\ Held0(q, h) = b.sh
    BY <1>1, <1>2, <1>7
  <2>9. d.shift = b.sh => e.shift = Struck(b)
    BY <2>4, <2>5, <2>7 DEF Struck
  <2>10. ASSUME NEW s, s \in d.shift => s \in b.sh, s \in e.shift
         PROVE  s \in Struck(b)
    BY <2>4, <2>5, <2>7, <2>10 DEF Struck
  <2> QED
    BY <2>2, <2>8, <2>9, <2>10 DEF r
<1> QED
  BY <1>5, <1>6, <1>7 DEF IsKey

\* The press of a shift key aligns the parser.
LEMMA PressAligns ==
    ASSUME NEW q, NEW h, KeysOk(q, h), q # <<>>, NEW d \in KbdFlags, Tame(d, q), NEW e, Reads(d, q[1], e),
           q[1].c \in Shifts, q[1].c \notin q[1].sh
    PROVE  Aligned(e, Tail(q)) /\ q[1].c \in Held0(Tail(q), h)
<1> DEFINE b == q[1]
           r == Tail(q)
<1>1. /\ b \in KbdBytes
      /\ r # <<>> => NextCode(b, r[1])
      /\ Held0(r, h) = IF IsKey(b) THEN Struck(b) ELSE b.sh
  BY KeysTail
<1>2. IsKey(b) /\ b.c \notin {"F0", "up", "down"}
  BY DEF IsKey, Shifts
<1>3. d.e0 => ~d.rel /\ ~d.ext
  BY <1>2 DEF Tame
<1>4. d.e0 \in BOOLEAN /\ d.rel \in BOOLEAN /\ d.ext \in BOOLEAN /\ e.e0 \in BOOLEAN /\ e.rel \in BOOLEAN /\ e.ext \in BOOLEAN
  BY DEF Reads, KbdFlags
<1> HIDE DEF r
<1>5. Reads(d, b, e)
  OBVIOUS
<1> HIDE DEF b
<1>6. ~e.e0 /\ ~e.rel /\ ~e.ext
  <2>1. CASE d.e0
    BY <1>2, <1>3, <1>4, <1>5, <2>1 DEF Reads, IsKey
  <2>2. CASE ~d.e0
    BY <1>2, <1>4, <1>5, <2>2 DEF Reads, IsKey
  <2> QED
    BY <1>4, <2>1, <2>2
<1>7. Aligned(e, r)
  BY <1>1, <1>2, <1>6 DEF Aligned, Lone, Flagged, Expects, NextCode
<1> QED
  BY <1>1, <1>2, <1>7 DEF Struck, b, r

LEMMA TameReads ==
    ASSUME NEW q, NEW h, KeysOk(q, h), q # <<>>, NEW d, NEW e, Reads(d, q[1], e)
    PROVE  Tame(e, Tail(q))
<1>1. /\ Tail(q) = <<>> => IsKey(q[1])
      /\ Tail(q) # <<>> => NextCode(q[1], Tail(q)[1])
  BY KeysTail
<1>2. e.e0 = (q[1].c = "E0")
  BY DEF Reads
<1> QED
  BY <1>1, <1>2 DEF Tame, IsKey, NextCode

LEMMA KbdStart == Init => KbdInv
<1> SUFFICES ASSUME Init PROVE KbdInv
  OBVIOUS
<1>1. /\ kq = <<>> /\ held = {} /\ klost = 0 /\ badshift = FALSE /\ tapped = [s \in Shifts |-> 0]
      /\ kd = [e0 |-> FALSE, rel |-> FALSE, ext |-> FALSE, shift |-> {}]
  BY DEF Init, Ps2Init
<1>2. kd \in KbdFlags /\ kd.e0 = FALSE /\ kd.rel = FALSE /\ kd.ext = FALSE /\ kd.shift = {}
  BY <1>1 DEF KbdFlags
<1>3. KeysOk(kq, held)
  BY <1>1 DEF KeysOk
<1>4. Aligned(kd, kq) /\ Tame(kd, kq) /\ Held0(kq, held) = {}
  BY <1>1, <1>2 DEF Aligned, Lone, Flagged, Tame, Held0
<1>5. tapped \in [Shifts -> 0 .. 2] /\ \A s \in Shifts : tapped[s] = 0
  BY <1>1
<1> QED
  <2>1. klost \in Nat /\ held \subseteq Shifts /\ badshift \in BOOLEAN /\ ~badshift /\ kd.shift = Held0(kq, held)
    BY <1>1, <1>2, <1>4
  <2>2. \A s \in Shifts : tapped[s] # 1 /\ tapped[s] # 2
    BY <1>5
  <2> QED
    BY <1>2, <1>3, <1>4, <1>5, <2>1, <2>2 DEF KbdInv

\* The bytes of one stroke, of one key on a keyboard that sends F0 before the code of a key that is let go.
StrokeOk(p, h, g) == KeysOk(p, g) /\ p # <<>> /\ p[1].sh = h /\ (p[1].c \in Shifts => p[1].c \notin p[1].sh)

LEMMA OneByte ==
    ASSUME NEW a \in KbdBytes, NEW g, IsKey(a), g = Struck(a), NEW p, p = <<a>>
    PROVE  KeysOk(p, g) /\ p # <<>> /\ p[1] = a /\ Len(p) = 1
<1>1. p \in Seq(KbdBytes) /\ Len(p) = 1 /\ p[1] = a /\ p # <<>>
  OBVIOUS
<1> QED
  BY <1>1 DEF KeysOk

LEMMA TwoBytes ==
    ASSUME NEW a \in KbdBytes, NEW b \in KbdBytes, NEW g, NextCode(a, b), IsKey(b), g = Struck(b), NEW p, p = <<a, b>>
    PROVE  KeysOk(p, g) /\ p # <<>> /\ p[1] = a
<1>1. p \in Seq(KbdBytes) /\ Len(p) = 2 /\ p[1] = a /\ p[2] = b /\ p # <<>>
  OBVIOUS
<1>2. \A i \in 1 .. Len(p) - 1 : NextCode(p[i], p[i + 1])
  <2>1. \A i \in 1 .. Len(p) - 1 : i = 1
    BY <1>1
  <2> QED
    BY <1>1, <2>1
<1> QED
  BY <1>1, <1>2 DEF KeysOk

LEMMA ThreeBytes ==
    ASSUME NEW a \in KbdBytes, NEW b \in KbdBytes, NEW c \in KbdBytes, NEW g, NextCode(a, b), NextCode(b, c),
           c.c \notin Shifts, IsKey(c), g = Struck(c), NEW p, p = <<a, b, c>>
    PROVE  KeysOk(p, g) /\ p # <<>> /\ p[1] = a
<1>1. p \in Seq(KbdBytes) /\ Len(p) = 3 /\ p[1] = a /\ p[2] = b /\ p[3] = c /\ p # <<>>
  OBVIOUS
<1>2. \A i \in 1 .. Len(p) - 1 : NextCode(p[i], p[i + 1])
  <2>1. \A i \in 1 .. Len(p) - 1 : (i = 1 /\ i + 1 = 2) \/ (i = 2 /\ i + 1 = 3)
    BY <1>1
  <2> QED
    BY <1>1, <2>1
<1>3. \A i \in 1 .. Len(p) - 2 : p[i].c = "E0" /\ p[i + 1].c = "F0" => p[i + 2].c \notin Shifts
  <2>1. \A i \in 1 .. Len(p) - 2 : i + 2 = 3
    BY <1>1
  <2> QED
    BY <1>1, <2>1
<1> QED
  BY <1>1, <1>2, <1>3 DEF KeysOk

LEMMA Concats ==
    ASSUME NEW a \in KbdBytes, NEW b \in KbdBytes, NEW c \in KbdBytes
    PROVE  <<a>> \o <<b>> = <<a, b>> /\ <<a>> \o <<b, c>> = <<a, b, c>> /\ <<>> \o <<b>> = <<b>> /\ <<>> \o <<b, c>> = <<b, c>>
<1>0. <<a>> \in Seq(KbdBytes) /\ <<b>> \in Seq(KbdBytes) /\ <<b, c>> \in Seq(KbdBytes)
      /\ <<a, b>> \in Seq(KbdBytes) /\ <<a, b, c>> \in Seq(KbdBytes)
  OBVIOUS
<1>1. <<a>> \o <<b>> = <<a, b>>
  <2> DEFINE s == <<a>> \o <<b>>
  <2>1. s \in Seq(KbdBytes) /\ Len(s) = 2 /\ s[1] = a /\ s[2] = b
    BY <1>0
  <2> HIDE DEF s
  <2>2. s = <<a, b>>
    BY <1>0, <2>1, SeqEqual
  <2> QED
    BY <2>2 DEF s
<1>2. <<a>> \o <<b, c>> = <<a, b, c>>
  <2> DEFINE s == <<a>> \o <<b, c>>
  <2>1. s \in Seq(KbdBytes) /\ Len(s) = 3 /\ s[1] = a /\ s[2] = b /\ s[3] = c
    BY <1>0
  <2> HIDE DEF s
  <2>2. s = <<a, b, c>>
    BY <1>0, <2>1, SeqEqual
  <2> QED
    BY <2>2 DEF s
<1>3. <<b>> \in Seq(KbdBytes) /\ <<b, c>> \in Seq(KbdBytes)
  OBVIOUS
<1> QED
  BY <1>1, <1>2, <1>3, ConcatEmptySeq

LEMMA ByteIs ==
    ASSUME held \subseteq Shifts, NEW c \in Codes
    PROVE  Byte(c, FALSE) \in KbdBytes /\ Byte(c, FALSE).c = c /\ Byte(c, FALSE).sh = held
  BY DEF Byte, KbdBytes

LEMMA MakeOk ==
    ASSUME held \subseteq Shifts, NEW k \in Codes, k \notin {"E0", "F0"}, k \notin held,
           NEW g, g = IF k \in Shifts THEN held \cup {k} ELSE held
    PROVE  StrokeOk(MakeBytes(k), held, g) /\ (k \in Shifts => Pressed(k, MakeBytes(k)))
<1> DEFINE b == Byte(k, FALSE)
           a == Byte("E0", FALSE)
           p == MakeBytes(k)
<1>1. b \in KbdBytes /\ b.c = k /\ b.sh = held /\ a \in KbdBytes /\ a.c = "E0" /\ a.sh = held
  BY ByteIs DEF Codes
<1>2. IF k \in {"up", "down"} THEN p = <<a, b>> ELSE p = <<b>>
  BY <1>1, Concats DEF MakeBytes, Prefix
<1> HIDE DEF a, b, p
<1>3. IsKey(b) /\ g = Struck(b)
  BY <1>1 DEF IsKey, Struck
<1>4. CASE k \in {"up", "down"}
  <2>1. NextCode(a, b) /\ k \notin Shifts
    BY <1>1, <1>4 DEF NextCode, IsKey, Shifts
  <2>2. KeysOk(p, g) /\ p # <<>> /\ p[1] = a
    BY <1>1, <1>2, <1>3, <1>4, <2>1, TwoBytes
  <2> QED
    BY <1>1, <2>1, <2>2 DEF StrokeOk, p, Shifts
<1>5. CASE k \notin {"up", "down"}
  <2>1. KeysOk(p, g) /\ p # <<>> /\ p[1] = b /\ Len(p) = 1
    BY <1>1, <1>2, <1>3, <1>5, OneByte
  <2>2. k \in Shifts => Pressed(k, p)
    BY <1>1, <2>1 DEF Pressed
  <2> QED
    BY <1>1, <2>1, <2>2 DEF StrokeOk, p
<1> QED
  BY <1>4, <1>5

LEMMA BreakOk ==
    ASSUME held \subseteq Shifts, NEW k \in Codes, k \notin {"E0", "F0"}, k \in Shifts => k \in held,
           kset = "prefix", NEW g, g = held \ {k}
    PROVE  StrokeOk(BreakBytes(k), held, g)
<1> DEFINE c == Byte(k, FALSE)
           b == Byte("F0", FALSE)
           a == Byte("E0", FALSE)
           p == BreakBytes(k)
<1>1. /\ c \in KbdBytes /\ c.c = k /\ c.sh = held /\ b \in KbdBytes /\ b.c = "F0" /\ b.sh = held
      /\ a \in KbdBytes /\ a.c = "E0" /\ a.sh = held
  BY ByteIs DEF Codes
<1>2. IF k \in {"up", "down"} THEN p = <<a, b, c>> ELSE p = <<b, c>>
  BY <1>1, Concats DEF BreakBytes, Prefix
<1> HIDE DEF a, b, c, p
<1>3. IsKey(c) /\ g = Struck(c) /\ NextCode(b, c) /\ NextCode(a, b)
  BY <1>1 DEF IsKey, Struck, NextCode, Shifts
<1>4. CASE k \in {"up", "down"}
  <2>1. k \notin Shifts
    BY <1>4 DEF Shifts
  <2>2. KeysOk(p, g) /\ p # <<>> /\ p[1] = a
    <3>1. p = <<a, b, c>> /\ c.c \notin Shifts
      BY <1>1, <1>2, <1>4, <2>1
    <3> QED
      BY <1>1, <1>3, <3>1, ThreeBytes
  <2> QED
    BY <1>1, <2>2 DEF StrokeOk, p, Shifts
<1>5. CASE k \notin {"up", "down"}
  <2>1. KeysOk(p, g) /\ p # <<>> /\ p[1] = b
    BY <1>1, <1>2, <1>3, <1>5, TwoBytes
  <2> QED
    BY <1>1, <2>1 DEF StrokeOk, p, Shifts
<1> QED
  BY <1>4, <1>5

\* What waited still does, and the parser sees no difference.
LEMMA StrokeKeeps ==
    ASSUME NEW q, NEW h, KeysOk(q, h), NEW p, NEW g, StrokeOk(p, h, g), NEW r, Sent(q, p, r), NEW d
    PROVE  /\ KeysOk(r, g) /\ Held0(r, g) = Held0(q, h)
           /\ Tame(d, q) => Tame(d, r)
           /\ Aligned(d, q) => Aligned(d, r)
           /\ \A s : Pressed(s, q) \/ Pressed(s, p) => Pressed(s, r)
<1>1. /\ KeysOk(r, g) /\ FirstIs(q, p, r)
      /\ \A s : Pressed(s, q) \/ Pressed(s, p) => Pressed(s, r)
      /\ q # <<>> /\ q[1].c = "F0" => r[2] = q[2]
  BY KeysJoin DEF StrokeOk
<1>2. r # <<>> /\ (q = <<>> => r[1] = p[1]) /\ (q # <<>> => r[1] = q[1])
  BY <1>1 DEF FirstIs
<1>3. Held0(r, g) = Held0(q, h)
  BY <1>2 DEF Held0, StrokeOk
<1>4. Tame(d, q) => Tame(d, r)
  BY <1>2 DEF Tame
<1>5. Aligned(d, q) => Aligned(d, r)
  <2> HAVE Aligned(d, q)
  <2>1. CASE q = <<>>
    BY <1>2, <2>1 DEF Aligned, Flagged, Expects, StrokeOk
  <2>2. CASE q # <<>>
    BY <1>1, <1>2, <2>2 DEF Aligned, Expects
  <2> QED
    BY <2>1, <2>2
<1> QED
  BY <1>1, <1>3, <1>4, <1>5

\* A key goes down or up: its bytes p come, and g is what is held.
LEMMA StrokeInv ==
    ASSUME KbdInv, NEW k, NEW p, Sent(kq, p, kq'), UNCHANGED <<kset, kd, klost, badshift>>, held' \subseteq Shifts,
           tapped' \in [Shifts -> 0 .. 2], kset = "prefix" => StrokeOk(p, held, held'),
           \A s \in Shifts : s # k => tapped'[s] = tapped[s] /\ (s \in held' <=> s \in held),
           k \in Shifts => \/ tapped'[k] = 1 /\ k \in held' /\ Pressed(k, p)
                           \/ tapped'[k] \in {0, 2} /\ k \notin held' /\ (tapped'[k] = 2 => tapped[k] # 0)
    PROVE  KbdInv'
<1> SUFFICES ASSUME kset = "prefix", klost <= 1
             PROVE  /\ KeysOk(kq', held') /\ Tame(kd, kq')
                    /\ klost = 0 => Aligned(kd, kq') /\ kd.shift = Held0(kq', held') /\ ~badshift
                    /\ \A s \in Shifts :
                         /\ tapped'[s] = 1 => s \in held'
                         /\ tapped'[s] = 2 => s \notin held'
                         /\ tapped'[s] # 0 => Pressed(s, kq') \/ Mended(s, kd, kq', held')
  BY DEF KbdInv
<1>1. /\ KeysOk(kq, held) /\ Tame(kd, kq)
      /\ klost = 0 => Aligned(kd, kq) /\ kd.shift = Held0(kq, held) /\ ~badshift
      /\ \A s \in Shifts :
           /\ tapped[s] = 1 => s \in held
           /\ tapped[s] = 2 => s \notin held
           /\ tapped[s] # 0 => Pressed(s, kq) \/ Mended(s, kd, kq, held)
  BY DEF KbdInv
<1>2. PICK q, r, h, g, d : q = kq /\ r = kq' /\ h = held /\ g = held' /\ d = kd
  OBVIOUS
<1>3. /\ KeysOk(r, g) /\ Held0(r, g) = Held0(q, h)
      /\ Tame(d, q) => Tame(d, r)
      /\ Aligned(d, q) => Aligned(d, r)
      /\ \A s : Pressed(s, q) \/ Pressed(s, p) => Pressed(s, r)
  <2>1. KeysOk(q, h) /\ StrokeOk(p, h, g) /\ Sent(q, p, r)
    BY <1>1, <1>2
  <2> QED
    BY <2>1, StrokeKeeps
<1>4. \A s : Mended(s, d, q, h) => Mended(s, d, r, g)
  BY <1>3 DEF Mended
<1>5. KeysOk(kq', held') /\ Tame(kd, kq')
  BY <1>1, <1>2, <1>3
<1>6. klost = 0 => Aligned(kd, kq') /\ kd.shift = Held0(kq', held') /\ ~badshift
  BY <1>1, <1>2, <1>3
<1>7. \A s : (Pressed(s, kq) \/ Pressed(s, p) => Pressed(s, kq')) /\ (Mended(s, kd, kq, held) => Mended(s, kd, kq', held'))
  BY <1>2, <1>3, <1>4
<1>8. ASSUME NEW s \in Shifts
      PROVE  /\ tapped'[s] = 1 => s \in held'
             /\ tapped'[s] = 2 => s \notin held'
             /\ tapped'[s] # 0 => Pressed(s, kq') \/ Mended(s, kd, kq', held')
  <2>1. CASE s # k
    BY <1>1, <1>7, <2>1
  <2>2. CASE s = k
    BY <1>1, <1>7, <2>2
  <2> QED
    BY <2>1, <2>2
<1> QED
  BY <1>5, <1>6, <1>8

LEMMA DownInv == ASSUME KbdInv, InScene, NEW k \in scene.kbd, KeyDown(k) PROVE KbdInv'
<1>1. /\ kq' = kq \o MakeBytes(k) /\ k \notin held /\ UNCHANGED <<kset, kd, klost, badshift>>
      /\ held' = IF k \in Shifts THEN held \cup {k} ELSE held
      /\ tapped' = IF k \in Shifts THEN [tapped EXCEPT ![k] = 1] ELSE tapped
  BY DEF KeyDown
<1>2. k \in Codes /\ k \notin {"E0", "F0"} /\ held \subseteq Shifts /\ tapped \in [Shifts -> 0 .. 2]
  BY ScenesAssumption DEF InScene, Codes, KbdInv
<1>3. PICK g : g = held'
  OBVIOUS
<1>4. StrokeOk(MakeBytes(k), held, held') /\ (k \in Shifts => Pressed(k, MakeBytes(k)))
  BY <1>1, <1>2, <1>3, MakeOk
<1>5. Sent(kq, MakeBytes(k), kq')
  BY <1>1 DEF Sent
<1>6. held' \subseteq Shifts /\ tapped' \in [Shifts -> 0 .. 2]
  BY <1>1, <1>2
<1>7. \A s \in Shifts : s # k => tapped'[s] = tapped[s] /\ (s \in held' <=> s \in held)
  BY <1>1, <1>2
<1>8. k \in Shifts => tapped'[k] = 1 /\ k \in held' /\ Pressed(k, MakeBytes(k))
  BY <1>1, <1>2, <1>4
<1> QED
  BY <1>1, <1>4, <1>5, <1>6, <1>7, <1>8, StrokeInv

LEMMA UpInv == ASSUME KbdInv, InScene, NEW k \in scene.kbd, KeyUp(k) PROVE KbdInv'
<1>1. /\ kq' = kq \o BreakBytes(k) /\ (k \in Shifts => k \in held) /\ UNCHANGED <<kset, kd, klost, badshift>>
      /\ held' = held \ {k}
      /\ tapped' = IF k \in Shifts /\ tapped[k] = 1 THEN [tapped EXCEPT ![k] = 2] ELSE tapped
  BY DEF KeyUp
<1>2. k \in Codes /\ k \notin {"E0", "F0"} /\ held \subseteq Shifts /\ tapped \in [Shifts -> 0 .. 2]
  BY ScenesAssumption DEF InScene, Codes, KbdInv
<1>3. PICK g : g = held'
  OBVIOUS
<1>4. kset = "prefix" => StrokeOk(BreakBytes(k), held, held')
  BY <1>1, <1>2, <1>3, BreakOk
<1>5. Sent(kq, BreakBytes(k), kq')
  BY <1>1 DEF Sent
<1>6. held' \subseteq Shifts /\ tapped' \in [Shifts -> 0 .. 2]
  BY <1>1, <1>2
<1>7. \A s \in Shifts : s # k => tapped'[s] = tapped[s] /\ (s \in held' <=> s \in held)
  BY <1>1, <1>2
<1>8. k \in Shifts /\ kset = "prefix" /\ klost <= 1 =>
        tapped'[k] \in {0, 2} /\ k \notin held' /\ (tapped'[k] = 2 => tapped[k] # 0)
  <2> HAVE k \in Shifts /\ kset = "prefix" /\ klost <= 1
  <2>1. tapped[k] \in 0 .. 2 /\ (tapped[k] = 2 => k \notin held)
    BY <1>2 DEF KbdInv
  <2> QED
    BY <1>1, <1>2, <2>1
<1>9. CASE kset = "prefix" /\ klost <= 1
  BY <1>1, <1>4, <1>5, <1>6, <1>7, <1>8, <1>9, StrokeInv
<1>10. CASE ~(kset = "prefix" /\ klost <= 1)
  BY <1>1, <1>6, <1>10 DEF KbdInv
<1> QED
  BY <1>9, <1>10

LEMMA LossInv == ASSUME KbdInv, LoseKbdByte PROVE KbdInv'
<1>1. /\ kq # <<>> /\ kq' = Tail(kq) /\ klost' = klost + 1 /\ tapped' = [s \in Shifts |-> 0]
      /\ UNCHANGED <<kset, kd, held, badshift>>
  BY DEF LoseKbdByte
<1>2. klost \in Nat /\ klost' \in Nat /\ klost' # 0 /\ (klost' <= 1 => klost = 0 /\ klost <= 1)
  BY <1>1 DEF KbdInv
<1>3. tapped' \in [Shifts -> 0 .. 2] /\ \A s \in Shifts : tapped'[s] = 0
  BY <1>1
<1>4. ASSUME kset = "prefix", klost' <= 1
      PROVE  KeysOk(kq', held) /\ Tame(kd, kq')
  <2>1. KeysOk(kq, held) /\ Aligned(kd, kq) /\ kd \in KbdFlags
    BY <1>2, <1>4 DEF KbdInv
  <2>2. KeysOk(kq', held)
    BY <1>1, <2>1, KeysTail
  <2>3. Tame(kd, kq')
    BY <2>1 DEF Tame, Aligned, Lone, KbdFlags
  <2> QED
    BY <2>2, <2>3
<1>5. \A s \in Shifts : tapped'[s] # 1 /\ tapped'[s] # 2
  BY <1>3
<1> QED
  BY <1>1, <1>2, <1>3, <1>4, <1>5 DEF KbdInv

LEMMA ReadInv ==
    ASSUME KbdInv, kq # <<>>, ReadKbdByte(KbdEvent(Head(kq))) PROVE KbdInv'
<1> DEFINE b == kq[1]
           ev == KbdEvent(Head(kq))
<1>1. /\ kd' = KbdState(Head(kq)) /\ kq' = Tail(kq) /\ UNCHANGED <<kset, held, klost, tapped>>
      /\ badshift' = (badshift \/ (ev.t = "key" /\ ev.k # "unmapped" /\ ev.shift # (Head(kq).sh # {})))
  BY DEF ReadKbdByte
<1>2. klost \in Nat /\ held \subseteq Shifts /\ tapped \in [Shifts -> 0 .. 2] /\ badshift \in BOOLEAN
  BY DEF KbdInv
<1>3. badshift' \in BOOLEAN
  BY <1>1
<1>4. CASE ~(kset = "prefix" /\ klost <= 1)
  BY <1>1, <1>2, <1>3, <1>4 DEF KbdInv
<1>5. CASE kset = "prefix" /\ klost <= 1
  <2>1. /\ kd \in KbdFlags /\ KeysOk(kq, held) /\ Tame(kd, kq)
        /\ klost = 0 => Aligned(kd, kq) /\ kd.shift = Held0(kq, held) /\ ~badshift
        /\ \A s \in Shifts :
             /\ tapped[s] = 1 => s \in held
             /\ tapped[s] = 2 => s \notin held
             /\ tapped[s] # 0 => Pressed(s, kq) \/ Mended(s, kd, kq, held)
    BY <1>5 DEF KbdInv
  <2>2. PICK q, r, h, d, e : q = kq /\ r = kq' /\ h = held /\ d = kd /\ e = kd'
    OBVIOUS
  <2>3. KeysOk(q, h) /\ q # <<>> /\ r = Tail(q) /\ d \in KbdFlags /\ Head(kq) = b /\ b = q[1]
    BY <1>1, <2>1, <2>2, KeysTail
  <2>4. b \in KbdBytes /\ KeysOk(r, h) /\ \A s : Pressed(s, q) => Pressed(s, r) \/ (q[1].c = s /\ s \notin q[1].sh)
    BY <2>3, KeysTail
  <2>5. Reads(d, q[1], e)
    BY <1>1, <2>1, <2>2, <2>3, <2>4, StateReads
  <2>6. Tame(e, r)
    BY <2>3, <2>5, TameReads
  <2>7. ASSUME NEW s \in Shifts, Pressed(s, q)
        PROVE  Pressed(s, r) \/ Mended(s, e, r, h)
    <3>1. CASE Pressed(s, r)
      BY <3>1
    <3>2. CASE q[1].c = s /\ s \notin q[1].sh
      <4>1. Aligned(e, Tail(q)) /\ q[1].c \in Held0(Tail(q), h)
        BY <2>1, <2>2, <2>3, <2>5, <3>2, PressAligns
      <4> QED
        BY <2>3, <3>2, <4>1 DEF Mended
    <3> QED
      BY <2>4, <2>7, <3>1, <3>2
  <2>8. ASSUME NEW s \in Shifts, Mended(s, d, q, h)
        PROVE  Mended(s, e, r, h)
    BY <2>3, <2>5, <2>8, AlignedReads DEF Mended
  <2>9. klost = 0 => Aligned(e, r) /\ e.shift = Held0(r, h)
    <3> HAVE klost = 0
    <3>1. Aligned(d, q) /\ d.shift = Held0(q, h)
      BY <2>1, <2>2
    <3> QED
      BY <2>3, <2>5, <3>1, AlignedReads
  <2>10. klost = 0 => ~badshift'
    <3> HAVE klost = 0
    <3>1. ~badshift /\ kd.shift = b.sh
      BY <2>1, <2>2, <2>3 DEF Held0
    <3>2. ev.t = "key" => ev.shift = (b.sh # {})
      BY <2>3, <3>1 DEF KbdEvent, NoEvent
    <3> QED
      BY <1>1, <2>3, <3>1, <3>2
  <2>11. e \in KbdFlags
    BY <2>5 DEF Reads
  <2>12. ASSUME NEW s \in Shifts, tapped[s] # 0
         PROVE  Pressed(s, kq') \/ Mended(s, kd', kq', held)
    BY <2>1, <2>2, <2>7, <2>8, <2>12
  <2> QED
    BY <1>1, <1>2, <1>3, <2>1, <2>2, <2>4, <2>6, <2>9, <2>10, <2>11, <2>12 DEF KbdInv
<1> QED
  BY <1>4, <1>5

LEMMA KbdStep == KbdInv /\ InScene /\ [Next]_vars => KbdInv'
<1> SUFFICES ASSUME KbdInv, InScene, [Next]_vars PROVE KbdInv'
  OBVIOUS
<1>1. CASE UNCHANGED kbdVars
  BY <1>1 DEF kbdVars, KbdInv
<1> QED
  BY <1>1, KbdActions, DownInv, UpInv, LossInv, ReadInv DEF KbdMoves

\* On a keyboard that sends F0 before a break code, a typed key has the shift that was held when it was struck, and
\* after one lost byte one tap of a shift key clears its flag, for every number of strokes: poll_event.
THEOREM ShiftFollows == Spec => []ShiftFollowsKeys
<1>1. KbdInv => ShiftFollowsKeys
  <2> SUFFICES ASSUME KbdInv PROVE KeyCarriesShift /\ TapHealsShift
    BY DEF ShiftFollowsKeys
  <2>1. KeyCarriesShift
    BY DEF KbdInv, KeyCarriesShift
  <2>2. ASSUME kset = "prefix", kq = <<>>, klost <= 1, NEW s \in Shifts, tapped[s] = 2
        PROVE  s \notin kd.shift
    <3>1. s \notin held /\ (Pressed(s, kq) \/ Mended(s, kd, kq, held))
      BY <2>2 DEF KbdInv
    <3>2. ~Pressed(s, kq)
      BY <2>2 DEF Pressed
    <3> QED
      BY <2>2, <3>1, <3>2 DEF Mended, Held0
  <2> QED
    BY <2>1, <2>2 DEF TapHealsShift
<1> QED
  BY <1>1, KbdStart, KbdStep, Staged, PTL DEF Spec

----------------------------------------------------------------------------
(* Clicks.  A press of a USB mouse is owed a click while its cursor has an *)
(* edge.  The presses of the PS/2 mouse are the rising edges of the left   *)
(* button along the packets that were sent: lv is what packet p said of    *)
(* it, r the last packet that was read in full.                            *)

Due(c, b, p, k) == IF b[c] /\ ~p[c] /\ c >= k THEN 1 ELSE 0
Rising(lv, r, n) == {p \in r + 1 .. n : lv[p] /\ ~lv[p - 1]}
Rises(lv, r, n) == Cardinality(Rising(lv, r, n))
Unread(lv, r, q, buf, n, l) ==
    /\ r \in 0 .. n /\ lv \in [0 .. n -> BOOLEAN] /\ lv[n] = l
    /\ q = <<>> => r = n
    /\ q # <<>> => q[1].pkt = r + 1
    /\ \A i \in 1 .. Len(q) : q[i].pkt <= n /\ (q[i].pos = 1 => q[i].left = lv[q[i].pkt])
    /\ buf # <<>> => buf[1].left = lv[r + 1]
UsbOwed ==
    /\ nusb > 0 => nusb = scene.mice
    /\ nusb > 0 => \A i \in 1 .. scene.mice : uleft[i] = btn[i - 1] /\ owed[i] = Due(i - 1, btn, prev, cur)
    /\ nusb = 0 => \A i \in 1 .. scene.mice : owed[i] = 0
Ps2Owed ==
    \E r \in 0 .. packets : \E lv \in [0 .. packets -> BOOLEAN] :
        /\ Unread(lv, r, mq, mbuf, packets, mleft) /\ (~Arm => lv[r] = btn[nusb])
        /\ owed[0] = Due(nusb, btn, prev, cur) + Rises(lv, r, packets)
FrameOk ==
    /\ stage \in {"top", "drive", "draw"} \/ (stage = "keys" /\ Arm) => prev = btn
    /\ stage \notin {"click", "off"} => cur = 0
    /\ stage \in {"ps2", "usb"} => ~Arm /\ \A c \in 0 .. nusb - 1 : prev[c] = btn[c]
    /\ stage = "ps2" /\ mbuf # <<>> => prev[nusb] = btn[nusb]
    /\ Arm => nusb = 0
Fits == scene.mice < MaxCursors /\ steady /\ Lossless
ClickInv ==
    /\ btn \in [Cursors -> BOOLEAN] /\ prev \in [Cursors -> BOOLEAN] /\ nusb \in Nat /\ cur \in Nat
    /\ uleft \in [1 .. scene.mice -> BOOLEAN] /\ DOMAIN owed = 0 .. scene.mice /\ mleft \in BOOLEAN /\ steady \in BOOLEAN
    /\ Fits => UsbOwed /\ Ps2Owed /\ FrameOk

LEMMA RiseNone == ASSUME NEW lv, NEW n \in Nat PROVE Rises(lv, n, n) = 0
<1>1. Rising(lv, n, n) = {}
  BY DEF Rising
<1> QED
  BY <1>1, FS_EmptySet DEF Rises

LEMMA RiseType ==
    ASSUME NEW lv, NEW r \in Nat, NEW n \in Nat
    PROVE  IsFiniteSet(Rising(lv, r, n)) /\ Rises(lv, r, n) \in Nat
<1>1. IsFiniteSet(r + 1 .. n)
  BY FS_Interval
<1>2. Rising(lv, r, n) \subseteq r + 1 .. n
  BY DEF Rising
<1>3. IsFiniteSet(Rising(lv, r, n))
  BY <1>1, <1>2, FS_Subset
<1> QED
  BY <1>3, FS_CardinalityType DEF Rises

\* One packet more was sent.
Levels(lw, lv, r, n, l) ==
    /\ r \in Nat /\ n \in Nat /\ r <= n /\ lv \in [0 .. n -> BOOLEAN] /\ l \in BOOLEAN
    /\ lw = [i \in 0 .. n + 1 |-> IF i = n + 1 THEN l ELSE lv[i]]
Gains(lw, lv, r, n, l) == Rises(lw, r, n + 1) = Rises(lv, r, n) + (IF l /\ ~lv[n] THEN 1 ELSE 0)

LEMMA RiseSent ==
    ASSUME NEW r, NEW n, NEW lv, NEW l, NEW lw, Levels(lw, lv, r, n, l)
    PROVE  Gains(lw, lv, r, n, l)
<1> USE DEF Gains
<1>0. r \in Nat /\ n \in Nat /\ r <= n /\ lv \in [0 .. n -> BOOLEAN] /\ l \in BOOLEAN
  BY DEF Levels
<1>1. \A p \in 0 .. n : lw[p] = lv[p]
  BY <1>0 DEF Levels
<1>2. lw[n + 1] = l /\ n \in 0 .. n /\ n + 1 - 1 = n /\ n + 1 \in r + 1 .. n + 1
  BY <1>0 DEF Levels
<1>3. \A p \in r + 1 .. n : p \in 0 .. n /\ p - 1 \in 0 .. n
  BY <1>0
<1>4. n + 1 \notin Rising(lv, r, n)
  BY <1>0 DEF Rising
<1>5. CASE l /\ ~lv[n]
  <2>1. Rising(lw, r, n + 1) = Rising(lv, r, n) \cup {n + 1}
    <3>1. ASSUME NEW p PROVE p \in Rising(lw, r, n + 1) <=> p \in Rising(lv, r, n) \/ p = n + 1
      <4>1. CASE p = n + 1
        <5>1. p \in r + 1 .. n + 1 /\ lw[p] = l /\ lw[p - 1] = lv[n]
          BY <1>1, <1>2, <4>1
        <5> QED
          BY <1>5, <4>1, <5>1 DEF Rising
      <4>2. CASE p # n + 1
        <5>1. p \in r + 1 .. n + 1 <=> p \in r + 1 .. n
          BY <1>0, <4>2
        <5>2. p \in r + 1 .. n => (lw[p] /\ ~lw[p - 1] <=> lv[p] /\ ~lv[p - 1])
          BY <1>1, <1>3
        <5> QED
          BY <4>2, <5>1, <5>2 DEF Rising
      <4> QED
        BY <4>1, <4>2
    <3> QED
      BY <3>1
  <2> QED
    BY <1>0, <1>4, <1>5, <2>1, RiseType, FS_AddElement DEF Rises
<1>6. CASE ~(l /\ ~lv[n])
  <2>1. Rising(lw, r, n + 1) = Rising(lv, r, n)
    <3>1. ASSUME NEW p PROVE p \in Rising(lw, r, n + 1) <=> p \in Rising(lv, r, n)
      <4>1. CASE p = n + 1
        BY <1>1, <1>2, <1>4, <1>6, <4>1 DEF Rising
      <4>2. CASE p # n + 1
        <5>1. p \in r + 1 .. n + 1 <=> p \in r + 1 .. n
          BY <1>0, <4>2
        <5>2. p \in r + 1 .. n => (lw[p] /\ ~lw[p - 1] <=> lv[p] /\ ~lv[p - 1])
          BY <1>1, <1>3
        <5> QED
          BY <4>2, <5>1, <5>2 DEF Rising
      <4> QED
        BY <4>1, <4>2
    <3> QED
      BY <3>1
  <2>2. Rises(lv, r, n) \in Nat
    BY <1>0, RiseType
  <2> QED
    BY <1>6, <2>1, <2>2 DEF Rises
<1> QED
  BY <1>5, <1>6

\* One packet more was read.
LEMMA RiseRead ==
    ASSUME NEW r \in Nat, NEW n \in Nat, r < n, NEW lv
    PROVE  Rises(lv, r, n) = Rises(lv, r + 1, n) + (IF lv[r + 1] /\ ~lv[r] THEN 1 ELSE 0)
<1>1. r + 1 \notin Rising(lv, r + 1, n)
  BY DEF Rising
<1>2. r + 1 - 1 = r /\ r + 1 \in r + 1 .. n
  OBVIOUS
<1>3. ASSUME NEW p, p # r + 1 PROVE p \in Rising(lv, r, n) <=> p \in Rising(lv, r + 1, n)
  <2>1. p \in r + 1 .. n <=> p \in r + 1 + 1 .. n
    BY <1>3
  <2> QED
    BY <2>1 DEF Rising
<1>4. r + 1 \in Rising(lv, r, n) <=> lv[r + 1] /\ ~lv[r]
  BY <1>2 DEF Rising
<1>5. Rises(lv, r + 1, n) \in Nat /\ IsFiniteSet(Rising(lv, r + 1, n))
  <2>1. r + 1 \in Nat
    OBVIOUS
  <2> QED
    BY <2>1, RiseType
<1>6. CASE lv[r + 1] /\ ~lv[r]
  <2>1. Rising(lv, r, n) = Rising(lv, r + 1, n) \cup {r + 1}
    BY <1>3, <1>4, <1>6
  <2> QED
    BY <1>1, <1>5, <1>6, <2>1, FS_AddElement DEF Rises
<1>7. CASE ~(lv[r + 1] /\ ~lv[r])
  <2>1. Rising(lv, r, n) = Rising(lv, r + 1, n)
    BY <1>1, <1>3, <1>4, <1>7
  <2> QED
    BY <1>5, <1>7, <2>1 DEF Rises
<1> QED
  BY <1>6, <1>7

LEMMA ClickStart == Init => ClickInv
<1> SUFFICES ASSUME Init PROVE ClickInv
  OBVIOUS
<1>1. /\ scene \in Scenes /\ stage = "top" /\ cur = 0 /\ nusb = 0 /\ steady = TRUE /\ packets = 0 /\ mleft = FALSE /\ mbuf = <<>>
      /\ btn = [c \in Cursors |-> FALSE] /\ prev = btn /\ uleft = [i \in 1 .. scene.mice |-> FALSE]
      /\ owed = [i \in 0 .. scene.mice |-> 0]
  BY DEF Init, Ps2Init
<1>2. MaxCursors \in Nat /\ MaxCursors > 0 /\ scene.mice \in Nat
  BY <1>1, ConsoleAssumption, ScenesAssumption
<1>3. \A i \in 0 .. scene.mice : owed[i] = 0
  BY <1>1
<1>4. UsbOwed
  BY <1>1, <1>2, <1>3 DEF UsbOwed
<1>5. mlost = 0 => Ps2Owed
  <2> HAVE mlost = 0
  <2>1. mq = <<>>
    BY DEF Init, Ps2Init
  <2> DEFINE lv == [i \in 0 .. packets |-> FALSE]
  <2>2. lv \in [0 .. packets -> BOOLEAN] /\ lv[0] = FALSE /\ 0 \in 0 .. packets
    BY <1>1
  <2> HIDE DEF lv
  <2>3. Unread(lv, 0, mq, mbuf, packets, mleft)
    <3>1. Len(mq) = 0 /\ \A i \in 1 .. Len(mq) : FALSE
      BY <2>1
    <3>2. lv[packets] = mleft /\ 0 = packets
      BY <1>1, <2>2
    <3> QED
      BY <1>1, <2>1, <2>2, <3>1, <3>2 DEF Unread
  <2>4. btn[nusb] = FALSE /\ Due(nusb, btn, prev, cur) = 0
    BY <1>1, <1>2 DEF Cursors, Due
  <2>5. Rises(lv, 0, packets) = 0
    BY <1>1, RiseNone
  <2>6. owed[0] = 0
    BY <1>2, <1>3
  <2>7. owed[0] = Due(nusb, btn, prev, cur) + Rises(lv, 0, packets)
    BY <2>4, <2>5, <2>6
  <2> QED
    BY <2>2, <2>3, <2>4, <2>7 DEF Ps2Owed
<1>6. FrameOk
  BY <1>1 DEF FrameOk
<1>7. 0 \in Nat /\ DOMAIN owed = 0 .. scene.mice
  BY <1>1
<1>8. btn \in [Cursors -> BOOLEAN] /\ prev \in [Cursors -> BOOLEAN] /\ uleft \in [1 .. scene.mice -> BOOLEAN]
  BY <1>1
<1> QED
  BY <1>1, <1>4, <1>5, <1>6, <1>7, <1>8 DEF ClickInv, Fits, Lossless

\* The cursors that are there, and the one of the PS/2 mouse among them.
LEMMA ActiveIs ==
    ASSUME nusb \in Nat, scene.mice \in Nat, scene.mice < MaxCursors, UsbOwed
    PROVE  Active = 0 .. nusb /\ nusb \in Cursors /\ 0 .. nusb \subseteq Cursors /\ Ps2Slot = {nusb}
<1>1. MaxCursors \in Nat /\ MaxCursors > 0 /\ nusb < MaxCursors
  BY ConsoleAssumption DEF UsbOwed
<1>2. nusb > 0 => Least(nusb, MaxCursors - 1) = nusb
  BY <1>1 DEF Least
<1>3. Active = 0 .. nusb
  <2>1. CASE nusb = 0
    <3>1. 0 .. 0 = {0}
      OBVIOUS
    <3> QED
      BY <2>1, <3>1 DEF Active
  <2>2. CASE nusb # 0
    BY <1>2, <2>2 DEF Active
  <2> QED
    BY <2>1, <2>2
<1> QED
  BY <1>1, <1>3 DEF Cursors, Ps2Slot

\* A step that leaves the counts alone and the buttons of the cursors that are there.
LEMMA Carry ==
    ASSUME ClickInv, InScene, UNCHANGED <<scene, cur, nusb, prev, uleft, owed, steady, mleft, packets, mq, mbuf, wheel, pktlen, mlost>>,
           btn' \in [Cursors -> BOOLEAN], Fits /\ UsbOwed => \A c \in 0 .. nusb : btn'[c] = btn[c],
           Fits /\ UsbOwed /\ FrameOk => FrameOk'
    PROVE  ClickInv'
<1>1. Fits' = Fits /\ Arm' = Arm
  BY DEF Fits, Lossless, Arm
<1>2. ASSUME Fits PROVE UsbOwed' /\ Ps2Owed' /\ FrameOk'
  <2>1. UsbOwed /\ Ps2Owed /\ FrameOk /\ nusb \in Nat /\ scene.mice \in Nat
    BY <1>2, ScenesAssumption DEF ClickInv, InScene
  <2>2. \A c \in 0 .. nusb : btn'[c] = btn[c] /\ Due(c, btn', prev', cur') = Due(c, btn, prev, cur)
    BY <1>2, <2>1 DEF Due
  <2>3. UsbOwed'
    <3>1. nusb > 0 => \A i \in 1 .. scene.mice : i - 1 \in 0 .. nusb
      BY <2>1 DEF UsbOwed
    <3> QED
      BY <2>1, <2>2, <3>1 DEF UsbOwed
  <2>4. Ps2Owed'
    <3>1. nusb \in 0 .. nusb
      BY <2>1
    <3> QED
      BY <1>1, <2>1, <2>2, <3>1 DEF Ps2Owed
  <2> QED
    BY <1>2, <2>1, <2>3, <2>4
<1> QED
  BY <1>1, <1>2 DEF ClickInv

\* The buttons of cursors that are not there are let go.
LEMMA KeptIs ==
    ASSUME ClickInv, InScene, NEW b \in [Cursors -> BOOLEAN]
    PROVE  /\ Kept(b) \in [Cursors -> BOOLEAN]
           /\ Fits /\ UsbOwed => \A c \in 0 .. nusb : Kept(b)[c] = b[c]
<1>1. Kept(b) \in [Cursors -> BOOLEAN]
  BY DEF Kept
<1>2. ASSUME Fits, UsbOwed PROVE \A c \in 0 .. nusb : Kept(b)[c] = b[c]
  <2>1. Active = 0 .. nusb /\ 0 .. nusb \subseteq Cursors
    BY <1>2, ActiveIs, ScenesAssumption DEF ClickInv, InScene, Fits
  <2> QED
    BY <2>1 DEF Kept
<1> QED
  BY <1>1, <1>2

\* One packet more is sent.
LEMMA SendClick ==
    ASSUME ClickInv, InScene, MouseInv, NEW l \in BOOLEAN, NEW d \in BOOLEAN, SendPacket(l, d), stage = "ps2",
           owed' = IF l /\ ~mleft THEN [owed EXCEPT ![0] = @ + 1] ELSE owed,
           UNCHANGED <<scene, stage, cur, nusb, btn, prev, uleft, steady>>
    PROVE  ClickInv'
<1>0. /\ mq' = mq \o Packet(l, d) /\ packets' = packets + 1 /\ mleft' = l
      /\ UNCHANGED <<wheel, pktlen, mbuf, mlost>>
  BY DEF SendPacket
<1>1. Fits' = Fits /\ Arm' = Arm
  BY <1>0 DEF Fits, Lossless, Arm
<1>2. scene.mice \in Nat /\ DOMAIN owed = 0 .. scene.mice /\ packets \in Nat /\ mq \in Seq(AuxBytes) /\ wheel \in BOOLEAN
  BY ScenesAssumption DEF ClickInv, InScene, MouseInv, QueueOk
<1>3. DOMAIN owed' = 0 .. scene.mice /\ \A i \in 1 .. scene.mice : owed'[i] = owed[i]
  BY <1>2
<1>4. ASSUME Fits PROVE UsbOwed' /\ Ps2Owed' /\ FrameOk'
  <2>1. UsbOwed /\ Ps2Owed /\ FrameOk
    BY <1>4 DEF ClickInv
  <2>2. UsbOwed'
    BY <1>3, <2>1 DEF UsbOwed
  <2>3. FrameOk'
    BY <1>0, <1>1, <2>1 DEF FrameOk
  <2>4. PICK r \in 0 .. packets, lv \in [0 .. packets -> BOOLEAN] :
            /\ Unread(lv, r, mq, mbuf, packets, mleft) /\ (~Arm => lv[r] = btn[nusb])
            /\ owed[0] = Due(nusb, btn, prev, cur) + Rises(lv, r, packets)
    BY <2>1 DEF Ps2Owed
  <2> DEFINE n == packets
             p == Packet(l, d)
             e == PacketEnd
             lw == [i \in 0 .. n + 1 |-> IF i = n + 1 THEN l ELSE lv[i]]
  <2>5. e \in {3, 4} /\ Len(p) = e /\ p \in Seq(AuxBytes)
        /\ \A i \in 1 .. e : p[i].pkt = n + 1 /\ p[i].pos = i /\ (i = 1 => p[i].left = l)
    <3> DEFINE B(i) == [pkt |-> packets + 1, pos |-> i, b3 |-> i = 1 \/ d, left |-> IF i = 1 THEN l ELSE d]
    <3>1. p = [i \in 1 .. e |-> B(i)] /\ e \in {3, 4}
      BY DEF Packet, PacketEnd
    <3>2. \A i \in 1 .. e : B(i) \in AuxBytes
      BY <1>2, <3>1 DEF AuxBytes
    <3>3. \A i \in 1 .. e : B(i).pkt = n + 1 /\ B(i).pos = i /\ (i = 1 => B(i).left = l)
      OBVIOUS
    <3> HIDE DEF p, B, e
    <3> QED
      BY <3>1, <3>2, <3>3
  <2> HIDE DEF p, e
  <2>6. lw \in [0 .. n + 1 -> BOOLEAN] /\ lw[n + 1] = l /\ \A i \in 0 .. n : lw[i] = lv[i]
    BY <1>2
  <2>7. Rises(lw, r, n + 1) = Rises(lv, r, n) + (IF l /\ ~lv[n] THEN 1 ELSE 0)
    <3>1. n \in Nat /\ r \in Nat /\ r <= n
      BY <1>2
    <3>2. Levels(lw, lv, r, n, l)
      BY <3>1 DEF Levels
    <3> HIDE DEF lw, n
    <3>3. Gains(lw, lv, r, n, l)
      BY <3>2, RiseSent
    <3> QED
      BY <3>3 DEF Gains
  <2> HIDE DEF lw
  <2>8. r \in 0 .. n + 1 /\ r \in Nat /\ lv[n] = mleft /\ lw[r] = lv[r]
    BY <1>2, <2>4, <2>6 DEF Unread
  <2>9. Unread(lw, r, mq', mbuf, n + 1, l)
    <3>1. mq' \in Seq(AuxBytes) /\ Len(mq') = Len(mq) + e /\ mq' # <<>>
          /\ (\A i \in 1 .. Len(mq) : mq'[i] = mq[i]) /\ (\A i \in 1 .. e : mq'[Len(mq) + i] = p[i])
      BY <1>0, <1>2, <2>5 DEF p
    <3>2. mq'[1].pkt = r + 1
      <4>1. CASE mq = <<>>
        <5>1. Len(mq) = 0 /\ r = n /\ 1 \in 1 .. e
          BY <2>4, <2>5, <4>1 DEF Unread
        <5> QED
          BY <2>5, <3>1, <5>1
      <4>2. CASE mq # <<>>
        <5>1. 1 \in 1 .. Len(mq) /\ mq[1].pkt = r + 1
          BY <1>2, <2>4, <4>2 DEF Unread
        <5> QED
          BY <3>1, <5>1
      <4> QED
        BY <4>1, <4>2
    <3>3. \A i \in 1 .. Len(mq') : mq'[i].pkt <= n + 1 /\ (mq'[i].pos = 1 => mq'[i].left = lw[mq'[i].pkt])
      <4> TAKE i \in 1 .. Len(mq')
      <4>1. CASE i \in 1 .. Len(mq)
        <5>1. mq'[i] = mq[i] /\ mq[i].pkt <= n /\ (mq[i].pos = 1 => mq[i].left = lv[mq[i].pkt])
          BY <2>4, <3>1, <4>1 DEF Unread
        <5>2. mq[i].pkt \in Nat
          <6>1. mq[i] \in AuxBytes
            BY <1>2, <4>1
          <6> QED
            BY <6>1 DEF AuxBytes
        <5>3. mq[i].pkt \in 0 .. n /\ mq[i].pkt <= n + 1
          BY <1>2, <5>1, <5>2
        <5> QED
          BY <2>6, <5>1, <5>3
      <4>2. CASE i \notin 1 .. Len(mq)
        <5>1. i - Len(mq) \in 1 .. e /\ i = Len(mq) + (i - Len(mq))
          BY <1>2, <2>5, <3>1, <4>2
        <5>2. mq'[i] = p[i - Len(mq)]
          BY <3>1, <5>1
        <5>3. mq'[i].pkt = n + 1 /\ (mq'[i].pos = 1 => mq'[i].left = l)
          BY <2>5, <5>1, <5>2
        <5>4. n + 1 <= n + 1
          BY <1>2
        <5> QED
          BY <2>6, <5>3, <5>4
      <4> QED
        BY <4>1, <4>2
    <3>4. mbuf # <<>> => mbuf[1].left = lw[r + 1]
      <4> HAVE mbuf # <<>>
      <4>1. mbuf[1].left = lv[r + 1] /\ mq # <<>>
        BY <1>4, <2>4 DEF Unread, MouseInv, Fits, InStep, Whole
      <4>2. mq[1].pkt = r + 1 /\ mq[1].pkt <= n
        BY <1>2, <2>4, <4>1 DEF Unread
      <4>3. r + 1 \in 0 .. n
        BY <1>2, <2>8, <4>2
      <4> QED
        BY <2>6, <4>1, <4>3
    <3> QED
      BY <2>6, <2>8, <3>1, <3>2, <3>3, <3>4 DEF Unread
  <2>10. owed'[0] = Due(nusb, btn, prev, cur) + Rises(lw, r, n + 1)
    <3>1. Rises(lv, r, n) \in Nat /\ Due(nusb, btn, prev, cur) \in {0, 1}
      BY <1>2, <2>8, RiseType DEF Due
    <3>2. 0 \in DOMAIN owed /\ owed'[0] = owed[0] + (IF l /\ ~mleft THEN 1 ELSE 0)
      BY <1>2, <2>4, <3>1
    <3> QED
      BY <2>4, <2>7, <2>8, <3>1, <3>2
  <2>11. Ps2Owed'
    BY <1>0, <1>1, <2>4, <2>6, <2>8, <2>9, <2>10 DEF Ps2Owed
  <2> QED
    BY <2>2, <2>3, <2>11
<1> QED
  BY <1>0, <1>1, <1>3, <1>4 DEF ClickInv

\* A byte of the PS/2 mouse is read.
LEMMA ReadClick ==
    ASSUME ClickInv, InScene, MouseInv, MouseInv', PollAux
    PROVE  ClickInv'
<1> DEFINE b == mq[1]
           ev == AuxEvent(Head(mq))
           n == packets
<1>0. /\ stage = "ps2" /\ mq # <<>> /\ ReadAuxByte(ev) /\ stage' = AfterPoll(ev)
      /\ btn' = [c \in Cursors |-> IF c \in Ps2Slot /\ ev # NoEvent THEN ev.left ELSE btn[c]]
      /\ UNCHANGED <<scene, cur, nusb, prev, uleft, owed, steady>>
  BY DEF PollAux, AuxReady
<1>1. /\ mq' = Tail(mq) /\ UNCHANGED <<wheel, pktlen, mleft, packets, mlost>> /\ mbuf' = AuxBuffer(Head(mq))
  BY <1>0 DEF ReadAuxByte
<1>2. Fits' = Fits /\ Arm' = Arm
  BY <1>0, <1>1 DEF Fits, Lossless, Arm
<1>3. /\ scene.mice \in Nat /\ nusb \in Nat /\ n \in Nat /\ pktlen \in {3, 4} /\ wheel \in BOOLEAN /\ (pktlen = 4 => wheel)
      /\ btn \in [Cursors -> BOOLEAN] /\ prev \in [Cursors -> BOOLEAN]
      /\ mbuf \in Seq(AuxBytes) /\ QueueOk(mq, PacketEnd, b3seen, n)
  BY ScenesAssumption DEF ClickInv, InScene, MouseInv
<1>4. /\ b \in AuxBytes /\ Head(mq) = b
      /\ mq' = <<>> => LastByte(b, PacketEnd) /\ b.pkt = n
      /\ mq' # <<>> => Follows(b, mq'[1], PacketEnd)
  BY <1>0, <1>1, <1>3, BehindFirst
<1>5. \A i \in 1 .. Len(mbuf) : mbuf[i].left \in BOOLEAN
  <2> TAKE i \in 1 .. Len(mbuf)
  <2>1. mbuf[i] \in AuxBytes
    BY <1>3
  <2> QED
    BY <2>1 DEF AuxBytes
<1>6. (mbuf = <<>> <=> Len(mbuf) = 0) /\ Len(mbuf) \in Nat /\ (mbuf # <<>> => 1 \in 1 .. Len(mbuf))
  BY <1>3
<1>7. btn' \in [Cursors -> BOOLEAN]
  BY <1>0, <1>3, <1>5, <1>6 DEF AuxEvent
<1>8. ASSUME Fits PROVE UsbOwed' /\ Ps2Owed' /\ FrameOk'
  <2>1. UsbOwed /\ FrameOk /\ Lossless /\ scene.mice < MaxCursors
    BY <1>8 DEF ClickInv, Fits
  <2>2. Ps2Slot = {nusb} /\ 0 .. nusb \subseteq Cursors /\ nusb \in Cursors /\ nusb \in 0 .. nusb
    BY <1>3, <2>1, ActiveIs
  <2>3. PICK r \in 0 .. n, lv \in [0 .. n -> BOOLEAN] :
            /\ Unread(lv, r, mq, mbuf, n, mleft) /\ (~Arm => lv[r] = btn[nusb])
            /\ owed[0] = Due(nusb, btn, prev, cur) + Rises(lv, r, n)
    BY <1>8 DEF ClickInv, Ps2Owed
  <2>4. ~Arm /\ cur = 0 /\ lv[r] = btn[nusb] /\ \A c \in 0 .. nusb - 1 : prev[c] = btn[c]
    BY <1>0, <2>1, <2>3 DEF FrameOk
  <2>5. /\ r \in Nat /\ b.pkt = r + 1 /\ r + 1 <= n /\ r + 1 \in 0 .. n /\ lv[n] = mleft
        /\ \A i \in 1 .. Len(mq) : mq[i].pkt <= n /\ (mq[i].pos = 1 => mq[i].left = lv[mq[i].pkt])
        /\ mbuf # <<>> => mbuf[1].left = lv[r + 1]
    <3>1. 1 \in 1 .. Len(mq)
      BY <1>0, <1>3 DEF QueueOk
    <3>2. b.pkt = r + 1 /\ b.pkt <= n
      BY <1>0, <2>3, <3>1 DEF Unread
    <3> QED
      BY <1>3, <2>3, <3>2 DEF Unread
  <2>6. /\ InStep(mbuf, mq) /\ InStep(mbuf', mq') /\ pktlen = PacketEnd /\ PktLen = pktlen /\ Lossless'
    BY <1>1, <1>3, <2>1 DEF MouseInv, Lossless, PacketEnd, PktLen
  <2>7. \A i \in 1 .. Len(mq') : mq'[i].pkt <= n /\ (mq'[i].pos = 1 => mq'[i].left = lv[mq'[i].pkt])
    <3> TAKE i \in 1 .. Len(mq')
    <3>1. mq'[i] = mq[i + 1] /\ i + 1 \in 1 .. Len(mq)
      <4>1. mq \in Seq(AuxBytes)
        BY <1>3 DEF QueueOk
      <4>2. Len(mq) \in Nat /\ Len(mq') = Len(mq) - 1 /\ \A j \in 1 .. Len(mq) - 1 : mq'[j] = mq[j + 1]
        BY <1>0, <1>1, <4>1, TailIs
      <4>3. i \in 1 .. Len(mq) - 1 /\ i + 1 \in 1 .. Len(mq)
        BY <4>2
      <4> QED
        BY <4>2, <4>3
    <3> QED
      BY <2>5, <3>1
  <2>8. \A c \in 0 .. nusb - 1 : c \in Cursors /\ c # nusb /\ btn'[c] = btn[c]
    <3> TAKE c \in 0 .. nusb - 1
    <3>1. c \in 0 .. nusb /\ c # nusb
      BY <1>3
    <3> QED
      BY <1>0, <2>2, <3>1
  <2>9. UsbOwed'
    <3>1. nusb > 0 => \A i \in 1 .. scene.mice : i - 1 \in 0 .. nusb - 1
      BY <1>3, <2>1 DEF UsbOwed
    <3>2. \A c \in 0 .. nusb - 1 : Due(c, btn', prev', cur') = Due(c, btn, prev, cur)
      BY <1>0, <2>8 DEF Due
    <3> QED
      BY <1>0, <2>1, <2>8, <3>1, <3>2 DEF UsbOwed
  <2>10. CASE ev = NoEvent
    <3>1. btn' = btn
      BY <1>0, <1>3, <2>10
    <3>2. stage' = "usb"
      BY <1>0, <2>10 DEF AfterPoll
    <3>3. FrameOk'
      BY <1>0, <1>2, <2>1, <3>1, <3>2 DEF FrameOk
    <3>4. mbuf' # <<>> /\ (mbuf = <<>> => mbuf'[1] = b /\ b.pos = 1) /\ (mbuf # <<>> => mbuf'[1] = mbuf[1])
      <4>1. mbuf = <<>> => b.pos = 1 /\ b.b3
        BY <1>0, <1>3, <2>6 DEF InStep, QueueOk, ByteOk
      <4>2. ~(mbuf # <<>> /\ Len(mbuf) + 1 = PktLen)
        BY <1>4, <2>10 DEF AuxEvent, NoEvent
      <4>3. mbuf' = Append(mbuf, b)
        BY <1>1, <1>3, <1>4, <1>6, <2>6, <4>1, <4>2 DEF AuxBuffer
      <4> QED
        BY <1>3, <1>4, <1>6, <4>1, <4>3
    <3>5. mq' # <<>> /\ mq'[1].pkt = r + 1
      <4>1. mq' # <<>> /\ mq'[1].pkt = mbuf'[1].pkt
        BY <2>6, <3>4 DEF InStep, Whole
      <4>2. mbuf # <<>> => mbuf[1].pkt = b.pkt
        BY <2>6 DEF InStep, Whole
      <4> QED
        BY <2>5, <3>4, <4>1, <4>2
    <3>6. mbuf'[1].left = lv[r + 1]
      <4>1. 1 \in 1 .. Len(mq)
        BY <1>0, <1>3 DEF QueueOk
      <4> QED
        BY <2>5, <3>4, <4>1
    <3>7. Unread(lv, r, mq', mbuf', n, mleft)
      BY <2>3, <2>5, <2>7, <3>5, <3>6 DEF Unread
    <3>8. Ps2Owed'
      BY <1>0, <1>1, <2>3, <2>4, <3>1, <3>7 DEF Ps2Owed
    <3> QED
      BY <2>9, <3>3, <3>8
  <2>11. CASE ev # NoEvent
    <3>1. mbuf # <<>> /\ Len(mbuf) + 1 = PktLen /\ ev.left = mbuf[1].left /\ mbuf' = <<>>
      <4>1. mbuf # <<>> /\ Len(mbuf) + 1 = PktLen
        BY <1>4, <2>11 DEF AuxEvent
      <4> QED
        BY <1>1, <1>4, <4>1 DEF AuxEvent, AuxBuffer
    <3>2. btn'[nusb] = lv[r + 1] /\ prev[nusb] = lv[r]
      BY <1>0, <2>1, <2>2, <2>4, <2>5, <2>11, <3>1 DEF FrameOk
    <3>3. stage' = "ps2"
      BY <1>0, <2>11 DEF AfterPoll
    <3>4. FrameOk'
      BY <1>0, <1>2, <2>4, <2>8, <3>1, <3>3 DEF FrameOk
    <3>5. LastByte(b, PacketEnd)
      <4>1. b.pos = Len(mbuf) + 1
        BY <2>6, <3>1 DEF InStep, Whole
      <4> QED
        BY <2>6, <3>1, <4>1 DEF LastByte
    <3>6. mq' = <<>> => r + 1 = n
      BY <1>4, <2>5
    <3>7. mq' # <<>> => mq'[1].pkt = r + 1 + 1
      BY <1>4, <2>5, <3>5 DEF Follows
    <3>8. Unread(lv, r + 1, mq', mbuf', n, mleft)
      BY <2>3, <2>5, <2>7, <3>1, <3>6, <3>7 DEF Unread
    <3>9. owed[0] = Due(nusb, btn', prev, cur) + Rises(lv, r + 1, n)
      <4>1. Rises(lv, r, n) = Rises(lv, r + 1, n) + (IF lv[r + 1] /\ ~lv[r] THEN 1 ELSE 0)
        <5>1. r < n
          BY <1>3, <2>5
        <5> QED
          BY <1>3, <2>5, <5>1, RiseRead
      <4>2. Rises(lv, r + 1, n) \in Nat
        <5>1. r + 1 \in Nat
          BY <2>5
        <5> QED
          BY <1>3, <5>1, RiseType
      <4>3. Due(nusb, btn, prev, cur) = 0
        BY <2>4, <3>2 DEF Due
      <4>4. Due(nusb, btn', prev, cur) = IF lv[r + 1] /\ ~lv[r] THEN 1 ELSE 0
        BY <1>3, <2>4, <3>2 DEF Due
      <4> QED
        BY <2>3, <4>1, <4>2, <4>3, <4>4
    <3>10. Ps2Owed'
      <4>1. lv[r + 1] = btn'[nusb']
        BY <1>0, <3>2
      <4> QED
        BY <1>0, <1>1, <2>3, <2>5, <3>8, <3>9, <4>1 DEF Ps2Owed
    <3> QED
      BY <2>9, <3>4, <3>10
  <2> QED
    BY <2>10, <2>11
<1> QED
  BY <1>0, <1>1, <1>2, <1>7, <1>8 DEF ClickInv

\* A step that leaves the buttons and the PS/2 mouse alone and goes on in the frame.
LEMMA QuietClick ==
    ASSUME ClickInv, InScene, UNCHANGED <<scene, cur, nusb, btn, prev, uleft, owed, steady, auxVars>>,
           \/ stage' = stage
           \/ stage = "ps2" /\ stage' = "usb"
           \/ stage = "drive" /\ stage' = "draw"
           \/ stage = "draw" /\ stage' = "top"
    PROVE  ClickInv'
<1>1. UNCHANGED <<mleft, packets, mq, mbuf, wheel, pktlen, mlost>> /\ Arm' = Arm
  BY DEF auxVars, Arm
<1>2. btn' \in [Cursors -> BOOLEAN] /\ \A c \in 0 .. nusb : btn'[c] = btn[c]
  BY DEF ClickInv
<1>3. ASSUME FrameOk PROVE FrameOk'
  <2>1. CASE stage' = stage
    BY <1>1, <1>3, <2>1 DEF FrameOk
  <2>2. CASE stage = "ps2" /\ stage' = "usb"
    BY <1>1, <1>3, <2>2 DEF FrameOk
  <2>3. CASE stage \in {"drive", "draw"} /\ stage' \in {"draw", "top"}
    BY <1>1, <1>3, <2>3 DEF FrameOk
  <2> QED
    BY <2>1, <2>2, <2>3
<1> QED
  BY <1>1, <1>2, <1>3, Carry

\* The buttons of cursors that are not there are let go, and the clicks come next.
LEMMA LetGoClick == ASSUME ClickInv, InScene, UsbNotPolled \/ UsbKeysTaken PROVE ClickInv'
<1>1. /\ UNCHANGED <<scene, cur, nusb, prev, uleft, owed, steady, auxVars>> /\ btn' = Kept(btn) /\ stage' = "click"
  BY DEF UsbNotPolled, UsbKeysTaken
<1>2. UNCHANGED <<mleft, packets, mq, mbuf, wheel, pktlen, mlost>> /\ Arm' = Arm
  BY <1>1 DEF auxVars, Arm
<1>3. btn \in [Cursors -> BOOLEAN]
  BY DEF ClickInv
<1>4. btn' \in [Cursors -> BOOLEAN] /\ (Fits /\ UsbOwed => \A c \in 0 .. nusb : btn'[c] = btn[c])
  BY <1>1, <1>3, KeptIs
<1>5. FrameOk => FrameOk'
  BY <1>1, <1>2 DEF FrameOk
<1> QED
  BY <1>1, <1>2, <1>4, <1>5, Carry

\* A lost byte of the mouse ends what is said of clicks.
LEMMA LostClick ==
    ASSUME ClickInv, MouseInv, LoseAuxByte, UNCHANGED frameVars
    PROVE  ClickInv'
<1>1. mlost' = mlost + 1 /\ mlost \in Nat /\ mleft' = mleft
  BY DEF LoseAuxByte, MouseInv
<1>2. ~Fits'
  <2>1. mlost' # 0
    BY <1>1
  <2> QED
    BY <2>1 DEF Fits, Lossless
<1> QED
  BY <1>1, <1>2 DEF ClickInv, frameVars

\* Keys, packets and losses.
LEMMA DeviceClick == ASSUME ClickInv, InScene, MouseInv, Device PROVE ClickInv'
<1>1. stage = "ps2"
  BY DEF Device
<1>2. CASE UNCHANGED frameVars /\ UNCHANGED auxVars
  BY <1>2, QuietClick DEF frameVars
<1>3. CASE UNCHANGED frameVars /\ LoseAuxByte
  BY <1>3, LostClick
<1>4. CASE \E l \in BOOLEAN, d \in {FALSE, scene.lossy} :
              /\ SendPacket(l, d)
              /\ owed' = IF l /\ ~mleft THEN [owed EXCEPT ![0] = @ + 1] ELSE owed
              /\ UNCHANGED <<scene, stage, cur, nusb, btn, prev, uleft, steady>>
  <2>1. scene.lossy \in BOOLEAN
    BY ScenesAssumption DEF InScene
  <2>2. PICK l \in BOOLEAN, d \in BOOLEAN :
              /\ SendPacket(l, d)
              /\ owed' = IF l /\ ~mleft THEN [owed EXCEPT ![0] = @ + 1] ELSE owed
              /\ UNCHANGED <<scene, stage, cur, nusb, btn, prev, uleft, steady>>
    BY <1>4, <2>1
  <2> QED
    BY <1>1, <2>2, SendClick
<1>5. \A k : KeyDown(k) \/ KeyUp(k) \/ LoseKbdByte => UNCHANGED auxVars
  BY DEF KeyDown, KeyUp, LoseKbdByte
<1> QED
  BY <1>2, <1>3, <1>4, <1>5 DEF Device

\* A frame begins: cursors change hands only while no button is down.
LEMMA TopClick == ASSUME ClickInv, InScene, Top PROVE ClickInv'
<1>1. /\ stage = "top" /\ stage' = (IF Arm THEN "keys" ELSE "ps2")
      /\ nusb' = (IF ui.polling /\ usbok /\ ~Arm THEN Least(scene.mice, MaxCursors) ELSE 0)
      /\ steady' = (steady /\ (nusb' = nusb \/ ~Held))
      /\ UNCHANGED <<scene, cur, btn, prev, uleft, owed, auxVars>>
  BY DEF Top
<1>2. UNCHANGED <<mleft, packets, mq, mbuf, wheel, pktlen, mlost>> /\ Arm' = Arm
  BY <1>1 DEF auxVars, Arm
<1>3. /\ scene.mice \in Nat /\ MaxCursors \in Nat /\ nusb \in Nat /\ steady' \in BOOLEAN
      /\ btn \in [Cursors -> BOOLEAN] /\ uleft \in [1 .. scene.mice -> BOOLEAN]
  BY <1>1, ScenesAssumption, ConsoleAssumption DEF ClickInv, InScene
<1>4. nusb' \in Nat /\ (scene.mice < MaxCursors => nusb' \in {0, scene.mice})
  BY <1>1, <1>3 DEF Least
<1>5. ASSUME Fits' PROVE UsbOwed' /\ Ps2Owed' /\ FrameOk'
  <2>1. Fits /\ UsbOwed /\ FrameOk /\ Ps2Owed /\ (nusb' = nusb \/ ~Held)
    BY <1>1, <1>2, <1>5 DEF Fits, Lossless, ClickInv
  <2>2. prev = btn /\ cur = 0 /\ scene.mice < MaxCursors /\ nusb' \in {0, scene.mice} /\ (Arm => nusb' = 0)
    BY <1>1, <1>4, <2>1 DEF FrameOk, Fits
  <2>3. nusb \in Cursors /\ 0 .. nusb \subseteq Cursors
    BY <1>3, <2>1, <2>2, ActiveIs
  <2>4. nusb' \in Cursors
    BY <1>3, <2>2 DEF Cursors
  <2>5. \A c \in Cursors : Due(c, btn, prev, cur) = 0
    BY <2>2 DEF Due
  <2>6. \A i \in 1 .. scene.mice : owed[i] = 0
    <3>1. nusb > 0 => \A i \in 1 .. scene.mice : i - 1 \in Cursors
      BY <1>3, <2>2 DEF Cursors
    <3> QED
      BY <1>3, <2>1, <2>5, <3>1 DEF UsbOwed
  <2>7. ~Held => btn[nusb] = FALSE /\ btn[nusb'] = FALSE
    BY <1>3, <2>3, <2>4 DEF Held
  <2>8. btn[nusb'] = btn[nusb]
    BY <2>1, <2>7
  <2>9. UsbOwed'
    <3>1. \A i \in 1 .. scene.mice : i - 1 \in Cursors
      BY <1>3, <2>2 DEF Cursors
    <3>2. ~Held => \A i \in 1 .. scene.mice : uleft[i] = FALSE /\ btn[i - 1] = FALSE
      BY <1>3, <3>1 DEF Held
    <3>3. nusb' > 0 => \A i \in 1 .. scene.mice : uleft[i] = btn[i - 1]
      BY <2>1, <3>2 DEF UsbOwed
    <3>4. \A i \in 1 .. scene.mice : owed[i] = Due(i - 1, btn, prev, cur)
      BY <2>5, <2>6, <3>1
    <3>5. nusb' > 0 => nusb' = scene.mice
      BY <2>2
    <3> QED
      BY <1>1, <2>6, <3>3, <3>4, <3>5 DEF UsbOwed
  <2>10. Ps2Owed'
    <3>1. Due(nusb', btn, prev, cur) = Due(nusb, btn, prev, cur)
      BY <2>3, <2>4, <2>5
    <3> QED
      BY <1>1, <1>2, <2>1, <2>8, <3>1 DEF Ps2Owed
  <2>11. FrameOk'
    <3>1. CASE Arm
      BY <1>1, <1>2, <2>2, <3>1 DEF FrameOk
    <3>2. CASE ~Arm
      BY <1>1, <1>2, <2>2, <3>2 DEF FrameOk
    <3> QED
      BY <3>1, <3>2
  <2> QED
    BY <2>9, <2>10, <2>11
<1> QED
  BY <1>1, <1>2, <1>3, <1>4, <1>5 DEF ClickInv

\* All clicks of the frame were handled: none is due, and the buttons are remembered.
LEMMA SettleClick == ASSUME ClickInv, InScene, PowerOff \/ Serve PROVE ClickInv'
<1>1. /\ stage = "click" /\ Edges = {} /\ prev' = btn
      /\ (stage' = "off" /\ cur' = cur) \/ (stage' = "drive" /\ cur' = 0)
      /\ UNCHANGED <<scene, nusb, btn, uleft, owed, steady, auxVars>>
  BY DEF PowerOff, Serve
<1>2. UNCHANGED <<mleft, packets, mq, mbuf, wheel, pktlen, mlost>> /\ Arm' = Arm
  BY <1>1 DEF auxVars, Arm
<1>3. scene.mice \in Nat /\ nusb \in Nat /\ cur \in Nat /\ cur' \in Nat
  BY <1>1, ScenesAssumption DEF ClickInv, InScene
<1>4. Fits' = Fits
  BY <1>1, <1>2 DEF Fits, Lossless
<1>5. ASSUME Fits PROVE UsbOwed' /\ Ps2Owed' /\ FrameOk'
  <2>1. UsbOwed /\ Ps2Owed /\ FrameOk
    BY <1>5 DEF ClickInv
  <2>2. Active = 0 .. nusb
    BY <1>3, <1>5, <2>1, ActiveIs DEF Fits
  <2>3. \A c \in 0 .. nusb : Due(c, btn, prev, cur) = 0 /\ Due(c, btn, btn, cur') = 0
    BY <1>1, <2>2 DEF Edges, Due
  <2>4. UsbOwed'
    <3>1. nusb > 0 => \A i \in 1 .. scene.mice : i - 1 \in 0 .. nusb
      BY <1>3, <2>1 DEF UsbOwed
    <3> QED
      BY <1>1, <2>1, <2>3, <3>1 DEF UsbOwed
  <2>5. Ps2Owed'
    <3>1. nusb \in 0 .. nusb
      BY <1>3
    <3> QED
      BY <1>1, <1>2, <2>1, <2>3, <3>1 DEF Ps2Owed
  <2>6. FrameOk'
    BY <1>1, <1>2, <2>1 DEF FrameOk
  <2> QED
    BY <2>4, <2>5, <2>6
<1> QED
  BY <1>1, <1>2, <1>3, <1>4, <1>5 DEF ClickInv

\* The pointer of the firmware is sampled.
LEMMA SyncClick == ASSUME ClickInv, InScene, MouseInv, SyncPrimaryCursor PROVE ClickInv'
<1>1. PICK b \in BOOLEAN :
          /\ btn' = [btn EXCEPT ![0] = b]
          /\ owed' = IF b /\ ~btn[0] THEN [owed EXCEPT ![0] = @ + 1] ELSE owed
  BY DEF SyncPrimaryCursor
<1>2. /\ stage = "keys" /\ Arm /\ stage' = "click"
      /\ UNCHANGED <<scene, cur, nusb, prev, uleft, steady, auxVars>>
  BY DEF SyncPrimaryCursor
<1>3. UNCHANGED <<mleft, packets, mq, mbuf, wheel, pktlen, mlost>> /\ Arm' = Arm
  BY <1>2 DEF auxVars, Arm
<1>4. /\ scene.mice \in Nat /\ nusb \in Nat /\ cur \in Nat /\ btn \in [Cursors -> BOOLEAN] /\ DOMAIN owed = 0 .. scene.mice
      /\ 0 \in Cursors /\ 0 \in DOMAIN owed
  BY ScenesAssumption, ConsoleAssumption DEF ClickInv, InScene, Cursors
<1>5. Fits' = Fits /\ btn' \in [Cursors -> BOOLEAN] /\ btn'[0] = b /\ DOMAIN owed' = 0 .. scene.mice
      /\ \A i \in 1 .. scene.mice : owed'[i] = owed[i]
  BY <1>1, <1>2, <1>3, <1>4 DEF Fits, Lossless
<1>6. ASSUME Fits PROVE UsbOwed' /\ Ps2Owed' /\ FrameOk'
  <2>1. UsbOwed /\ Ps2Owed /\ FrameOk /\ prev = btn /\ cur = 0 /\ nusb = 0
    BY <1>2, <1>6 DEF ClickInv, FrameOk
  <2>2. UsbOwed'
    BY <1>2, <1>5, <2>1 DEF UsbOwed
  <2>3. FrameOk'
    BY <1>2, <1>3, <2>1 DEF FrameOk
  <2>4. PICK r \in 0 .. packets, lv \in [0 .. packets -> BOOLEAN] :
            /\ Unread(lv, r, mq, mbuf, packets, mleft)
            /\ owed[0] = Due(nusb, btn, prev, cur) + Rises(lv, r, packets)
    BY <2>1 DEF Ps2Owed
  <2>5. owed'[0] = Due(nusb, btn', prev, cur) + Rises(lv, r, packets)
    <3>1. Rises(lv, r, packets) \in Nat
      <4>1. r \in Nat /\ packets \in Nat
        BY DEF MouseInv
      <4> QED
        BY <4>1, RiseType
    <3>2. Due(nusb, btn, prev, cur) = 0 /\ Due(nusb, btn', prev, cur) = IF b /\ ~btn[0] THEN 1 ELSE 0
      BY <1>5, <2>1 DEF Due
    <3>3. owed'[0] = owed[0] + (IF b /\ ~btn[0] THEN 1 ELSE 0)
      BY <1>1, <1>4, <2>4, <3>1, <3>2
    <3> QED
      BY <2>4, <3>1, <3>2, <3>3
  <2>6. Ps2Owed'
    BY <1>2, <1>3, <2>4, <2>5 DEF Ps2Owed
  <2> QED
    BY <2>2, <2>3, <2>6
<1> QED
  BY <1>2, <1>3, <1>5, <1>6 DEF ClickInv

\* The first cursor with an edge has its click.
LEMMA EdgeClick == ASSUME ClickInv, InScene, MouseInv, Click PROVE ClickInv'
<1>1. PICK c \in Edges :
          (\A d \in Edges : c <= d) /\ cur' = c + 1 /\ owed' = [owed EXCEPT ![MouseAt(c)] = @ - 1]
  BY DEF Click
<1>2. stage = "click" /\ UNCHANGED <<scene, stage, nusb, btn, prev, uleft, steady, auxVars>>
  BY DEF Click
<1>3. UNCHANGED <<mleft, packets, mq, mbuf, wheel, pktlen, mlost>> /\ Arm' = Arm
  BY <1>2 DEF auxVars, Arm
<1>4. /\ scene.mice \in Nat /\ nusb \in Nat /\ cur \in Nat /\ DOMAIN owed = 0 .. scene.mice /\ packets \in Nat
  BY ScenesAssumption DEF ClickInv, InScene, MouseInv
<1>5. c \in Nat /\ btn[c] /\ ~prev[c] /\ c >= cur /\ c \in Active
  BY <1>4 DEF Edges, Active
<1>6. Fits' = Fits /\ cur' \in Nat /\ DOMAIN owed' = 0 .. scene.mice
  BY <1>1, <1>2, <1>3, <1>4, <1>5 DEF Fits, Lossless
<1>7. ASSUME Fits PROVE UsbOwed' /\ Ps2Owed' /\ FrameOk'
  <2>1. UsbOwed /\ Ps2Owed /\ FrameOk
    BY <1>7 DEF ClickInv
  <2>2. Active = 0 .. nusb
    BY <1>4, <1>7, <2>1, ActiveIs DEF Fits
  <2>3. c \in 0 .. nusb /\ Due(c, btn, prev, cur) = 1 /\ Due(c, btn, prev, cur') = 0
    BY <1>1, <1>5, <2>2 DEF Due
  <2>4. \A d \in 0 .. nusb : d # c => Due(d, btn, prev, cur') = Due(d, btn, prev, cur)
    <3> SUFFICES ASSUME NEW d \in 0 .. nusb, d # c PROVE Due(d, btn, prev, cur') = Due(d, btn, prev, cur)
      OBVIOUS
    <3>1. d \in Nat /\ (d \in Edges => c <= d)
      BY <1>1, <1>4
    <3>2. btn[d] /\ ~prev[d] /\ d >= cur => d \in Edges
      BY <2>2 DEF Edges
    <3>3. btn[d] /\ ~prev[d] => (d >= cur <=> d >= c + 1)
      BY <1>4, <1>5, <3>1, <3>2
    <3> QED
      BY <1>1, <3>3 DEF Due
  <2>5. nusb > 0 => nusb = scene.mice
    BY <2>1 DEF UsbOwed
  <2>6. MouseAt(c) \in 0 .. scene.mice /\ (c < nusb => MouseAt(c) = c + 1) /\ (c = nusb => MouseAt(c) = 0)
    BY <1>4, <2>3, <2>5 DEF MouseAt
  <2>7. UsbOwed'
    <3>1. nusb > 0 => \A i \in 1 .. scene.mice : owed'[i] = Due(i - 1, btn, prev, cur')
      <4> SUFFICES ASSUME nusb > 0, NEW i \in 1 .. scene.mice PROVE owed'[i] = Due(i - 1, btn, prev, cur')
        OBVIOUS
      <4>1. i - 1 \in 0 .. nusb /\ i \in DOMAIN owed /\ owed[i] = Due(i - 1, btn, prev, cur)
        BY <1>4, <2>1, <2>5 DEF UsbOwed
      <4>2. CASE i - 1 = c
        <5>1. c < nusb /\ MouseAt(c) = i
          BY <1>4, <2>5, <2>6, <4>2
        <5>2. owed'[i] = owed[i] - 1
          BY <1>1, <4>1, <5>1
        <5>3. owed[i] = 1
          BY <2>3, <4>1, <4>2
        <5> QED
          BY <2>3, <4>2, <5>2, <5>3
      <4>3. CASE i - 1 # c
        <5>1. MouseAt(c) # i
          BY <1>4, <2>3, <2>6, <4>3
        <5> QED
          BY <1>1, <2>4, <4>1, <4>3, <5>1
      <4> QED
        BY <4>2, <4>3
    <3>2. nusb = 0 => \A i \in 1 .. scene.mice : owed'[i] = 0
      <4>1. nusb = 0 => MouseAt(c) = 0
        BY <2>3, <2>6
      <4> QED
        BY <1>1, <1>4, <2>1, <4>1 DEF UsbOwed
    <3> QED
      BY <1>2, <2>1, <3>1, <3>2 DEF UsbOwed
  <2>8. FrameOk'
    BY <1>2, <1>3, <2>1 DEF FrameOk
  <2>9. PICK r \in 0 .. packets, lv \in [0 .. packets -> BOOLEAN] :
            /\ Unread(lv, r, mq, mbuf, packets, mleft) /\ (~Arm => lv[r] = btn[nusb])
            /\ owed[0] = Due(nusb, btn, prev, cur) + Rises(lv, r, packets)
    BY <2>1 DEF Ps2Owed
  <2>10. owed'[0] = Due(nusb, btn, prev, cur') + Rises(lv, r, packets)
    <3>1. Rises(lv, r, packets) \in Nat
      <4>1. r \in Nat
        BY <1>4
      <4> QED
        BY <1>4, <4>1, RiseType
    <3>2. CASE c = nusb
      <4>1. owed'[0] = owed[0] - 1
        BY <1>1, <1>4, <2>6, <3>2
      <4> QED
        BY <2>3, <2>9, <3>1, <3>2, <4>1
    <3>3. CASE c # nusb
      <4>1. MouseAt(c) # 0 /\ nusb \in 0 .. nusb
        BY <1>4, <1>5, <2>3, <2>6, <3>3
      <4>2. owed'[0] = owed[0]
        BY <1>1, <1>4, <4>1
      <4> QED
        BY <2>4, <2>9, <3>3, <4>1, <4>2
    <3> QED
      BY <3>2, <3>3
  <2>11. Ps2Owed'
    BY <1>2, <1>3, <2>9, <2>10 DEF Ps2Owed
  <2> QED
    BY <2>7, <2>8, <2>11
<1> QED
  BY <1>2, <1>3, <1>6, <1>7 DEF ClickInv

\* The USB mice are polled.
LEMMA UsbClick == ASSUME ClickInv, InScene, PollUsbMice PROVE ClickInv'
<1>1. PICK r \in Reports :
          LET some == {i \in 1 .. scene.mice : r[i] # "none"}
              pressed == {i \in some : r[i] = "down" /\ ~uleft[i] /\ nusb > 0}
              b == [c \in Cursors |-> IF nusb > 0 /\ c + 1 \in some THEN r[c + 1] = "down" ELSE btn[c]]
          IN /\ uleft' = [i \in DOMAIN uleft |-> Left(r, i)]
             /\ owed' = [i \in DOMAIN owed |-> IF i \in pressed THEN owed[i] + 1 ELSE owed[i]]
             /\ btn' = IF scene.usbkbd THEN b ELSE Kept(b)
  BY DEF PollUsbMice
<1> DEFINE some == {i \in 1 .. scene.mice : r[i] # "none"}
           pressed == {i \in some : r[i] = "down" /\ ~uleft[i] /\ nusb > 0}
           b == [c \in Cursors |-> IF nusb > 0 /\ c + 1 \in some THEN r[c + 1] = "down" ELSE btn[c]]
<1>2. /\ stage = "usb" /\ stage' \in {"keys", "click"}
      /\ UNCHANGED <<scene, cur, nusb, prev, steady, auxVars>>
  BY DEF PollUsbMice
<1>3. UNCHANGED <<mleft, packets, mq, mbuf, wheel, pktlen, mlost>> /\ Arm' = Arm
  BY <1>2 DEF auxVars, Arm
<1>4. /\ scene.mice \in Nat /\ nusb \in Nat /\ btn \in [Cursors -> BOOLEAN] /\ DOMAIN owed = 0 .. scene.mice
      /\ uleft \in [1 .. scene.mice -> BOOLEAN]
  BY ScenesAssumption DEF ClickInv, InScene
<1>5. b \in [Cursors -> BOOLEAN]
  BY <1>4
<1>6. uleft' \in [1 .. scene.mice -> BOOLEAN]
  <2>1. \A i \in 1 .. scene.mice : Left(r, i) \in BOOLEAN
    BY <1>4 DEF Left
  <2> QED
    BY <1>1, <1>4, <2>1
<1>7. DOMAIN owed' = 0 .. scene.mice
  BY <1>1, <1>4
<1>8. btn' = IF scene.usbkbd THEN b ELSE Kept(b)
  BY <1>1
<1> HIDE DEF b
<1>9. btn' \in [Cursors -> BOOLEAN] /\ (Fits /\ UsbOwed => \A c \in 0 .. nusb : btn'[c] = b[c])
  BY <1>5, <1>8, KeptIs
<1>10. Fits' = Fits
  BY <1>2, <1>3 DEF Fits, Lossless
<1>11. ASSUME Fits PROVE UsbOwed' /\ Ps2Owed' /\ FrameOk'
  <2>1. /\ UsbOwed /\ Ps2Owed /\ FrameOk /\ cur = 0 /\ ~Arm
        /\ \A c \in 0 .. nusb - 1 : prev[c] = btn[c]
    BY <1>2, <1>11 DEF ClickInv, FrameOk
  <2>2. 0 .. nusb \subseteq Cursors /\ nusb \in Cursors /\ (nusb > 0 => nusb = scene.mice)
    BY <1>4, <1>11, <2>1, ActiveIs DEF Fits, UsbOwed
  <2>3. btn'[nusb] = btn[nusb]
    <3>1. nusb \in 0 .. nusb /\ (nusb > 0 => nusb + 1 \notin some)
      BY <1>4, <2>2
    <3>2. b[nusb] = btn[nusb]
      BY <2>2, <3>1 DEF b
    <3> QED
      BY <1>9, <1>11, <2>1, <3>1, <3>2
  <2>4. owed'[0] = owed[0]
    <3>1. 0 \in DOMAIN owed /\ 0 \notin pressed
      BY <1>4
    <3> QED
      BY <1>1, <3>1
  <2>5. nusb = 0 => \A i \in 1 .. scene.mice : owed'[i] = 0
    <3> SUFFICES ASSUME nusb = 0, NEW i \in 1 .. scene.mice PROVE owed'[i] = 0
      OBVIOUS
    <3>1. i \in DOMAIN owed /\ i \notin pressed /\ owed[i] = 0
      BY <1>4, <2>1 DEF UsbOwed
    <3> QED
      BY <1>1, <3>1
  <2>6. nusb > 0 => \A i \in 1 .. scene.mice : uleft'[i] = btn'[i - 1] /\ owed'[i] = Due(i - 1, btn', prev, cur)
    <3> SUFFICES ASSUME nusb > 0, NEW i \in 1 .. scene.mice
                 PROVE  uleft'[i] = btn'[i - 1] /\ owed'[i] = Due(i - 1, btn', prev, cur)
      OBVIOUS
    <3>1. i \in DOMAIN owed /\ i \in DOMAIN uleft /\ i - 1 \in 0 .. nusb - 1 /\ i - 1 \in 0 .. nusb /\ (i - 1) + 1 = i /\ i - 1 >= 0
      BY <1>4, <2>2
    <3>2. btn'[i - 1] = b[i - 1] /\ prev[i - 1] = btn[i - 1] /\ i - 1 \in Cursors
      BY <1>9, <1>11, <2>1, <2>2, <3>1
    <3>3. uleft[i] = btn[i - 1] /\ owed[i] = Due(i - 1, btn, prev, cur) /\ uleft[i] \in BOOLEAN
      BY <1>4, <2>1 DEF UsbOwed
    <3>4. owed[i] = 0
      BY <3>2, <3>3 DEF Due
    <3>5. b[i - 1] = IF i \in some THEN r[i] = "down" ELSE btn[i - 1]
      BY <3>1, <3>2 DEF b
    <3>6. uleft'[i] = IF r[i] = "none" THEN uleft[i] ELSE r[i] = "down"
      BY <1>1, <3>1 DEF Left
    <3>7. i \in some <=> r[i] # "none"
      OBVIOUS
    <3>8. uleft'[i] = btn'[i - 1]
      BY <3>2, <3>3, <3>5, <3>6, <3>7
    <3>9. i \in pressed <=> r[i] = "down" /\ ~uleft[i]
      BY <3>7
    <3>10. owed'[i] = IF i \in pressed THEN 1 ELSE 0
      BY <1>1, <3>1, <3>4
    <3>11. b[i - 1] /\ ~btn[i - 1] <=> i \in pressed
      BY <3>3, <3>5, <3>7, <3>9
    <3>12. Due(i - 1, btn', prev, cur) = IF i \in pressed THEN 1 ELSE 0
      BY <2>1, <3>1, <3>2, <3>11 DEF Due
    <3> QED
      BY <3>8, <3>10, <3>12
  <2>7. UsbOwed'
    BY <1>2, <2>1, <2>5, <2>6 DEF UsbOwed
  <2>8. Ps2Owed'
    <3>1. Due(nusb, btn', prev, cur) = Due(nusb, btn, prev, cur)
      BY <2>3 DEF Due
    <3> QED
      BY <1>2, <1>3, <2>1, <2>3, <2>4, <3>1 DEF Ps2Owed
  <2>9. FrameOk'
    BY <1>2, <1>3, <2>1 DEF FrameOk
  <2> QED
    BY <2>7, <2>8, <2>9
<1> QED
  BY <1>2, <1>3, <1>6, <1>7, <1>9, <1>10, <1>11 DEF ClickInv

LEMMA ClickStep == ClickInv /\ MouseInv /\ InScene /\ [Next]_vars => ClickInv'
<1> SUFFICES ASSUME ClickInv, MouseInv, InScene, [Next]_vars PROVE ClickInv'
  OBVIOUS
<1>1. CASE Device
  BY <1>1, DeviceClick
<1>2. CASE Top
  BY <1>2, TopClick
<1>3. CASE PollAux
  BY <1>3, MouseStep, ReadClick
<1>4. CASE PollKbd \/ PollNothing
  <2>1. UNCHANGED <<scene, cur, nusb, btn, prev, uleft, owed, steady, auxVars>> /\ stage = "ps2"
    BY <1>4 DEF PollKbd, PollNothing, ReadKbdByte
  <2>2. stage' \in {"ps2", "usb"}
    BY <1>4 DEF PollKbd, PollNothing, AfterPoll
  <2> QED
    BY <2>1, <2>2, QuietClick
<1>5. CASE PollUsbMice
  BY <1>5, UsbClick
<1>6. CASE UsbNotPolled \/ UsbKeysTaken
  BY <1>6, LetGoClick
<1>7. CASE TakeUsbKey \/ TakeArmKey
  BY <1>7, QuietClick DEF TakeUsbKey, TakeArmKey, KeyTaken
<1>8. CASE SyncPrimaryCursor
  BY <1>8, SyncClick
<1>9. CASE Click
  BY <1>9, EdgeClick
<1>10. CASE PowerOff \/ Serve
  BY <1>10, SettleClick
<1>11. CASE Drive
  BY <1>11, QuietClick DEF Drive
<1>12. CASE Draw
  BY <1>12, QuietClick DEF Draw
<1>13. CASE UNCHANGED vars
  BY <1>13, QuietClick DEF vars, frameVars
<1> QED
  BY <1>1, <1>2, <1>3, <1>4, <1>5, <1>6, <1>7, <1>8, <1>9, <1>10, <1>11, <1>12, <1>13 DEF Next, Frame

\* Every press of a button of any mouse is one click and there is no click without one, for every number of mice,
\* cursors and packets, if no byte is lost, the packet length is right and no button is down while cursors change
\* hands: kernel_main, main_step, poll_event.
THEOREM ClickForPress == Spec => []ClickPerPress
<1>1. ClickInv /\ MouseInv /\ InScene => ClickPerPress
  <2> SUFFICES ASSUME ClickInv, MouseInv, InScene, Fits, NEW i \in DOMAIN owed
               PROVE  owed[i] >= 0 /\ (stage = "top" /\ (i = 0 => mq = <<>>) => owed[i] = 0)
    BY DEF ClickPerPress, Fits, Lossless
  <2>1. UsbOwed /\ Ps2Owed /\ FrameOk /\ nusb \in Nat /\ scene.mice \in Nat /\ packets \in Nat /\ i \in 0 .. scene.mice
    BY ScenesAssumption DEF ClickInv, InScene, MouseInv
  <2>2. \A c : Due(c, btn, prev, cur) \in {0, 1} /\ (stage = "top" => Due(c, btn, prev, cur) = 0)
    BY <2>1 DEF Due, FrameOk
  <2>3. CASE i = 0
    <3>1. PICK r \in 0 .. packets, lv \in [0 .. packets -> BOOLEAN] :
              /\ Unread(lv, r, mq, mbuf, packets, mleft)
              /\ owed[0] = Due(nusb, btn, prev, cur) + Rises(lv, r, packets)
      BY <2>1 DEF Ps2Owed
    <3>2. r \in Nat
      BY <2>1
    <3>3. Rises(lv, r, packets) \in Nat
      BY <2>1, <3>2, RiseType
    <3>4. mq = <<>> => Rises(lv, r, packets) = 0
      <4>1. mq = <<>> => r = packets
        BY <3>1 DEF Unread
      <4> QED
        BY <2>1, <4>1, RiseNone
    <3>5. Due(nusb, btn, prev, cur) \in {0, 1} /\ (stage = "top" => Due(nusb, btn, prev, cur) = 0)
      BY <2>2
    <3> QED
      BY <2>3, <3>1, <3>3, <3>4, <3>5
  <2>4. CASE i # 0
    <3>1. i \in 1 .. scene.mice
      BY <2>1, <2>4
    <3>2. owed[i] = 0 \/ owed[i] = Due(i - 1, btn, prev, cur)
      BY <2>1, <3>1 DEF UsbOwed
    <3> QED
      BY <2>2, <2>4, <3>2
  <2> QED
    BY <2>3, <2>4
<1> QED
  BY <1>1, ClickStart, ClickStep, MouseStart, MouseStep, Staged, PTL DEF Spec
============================================================================
