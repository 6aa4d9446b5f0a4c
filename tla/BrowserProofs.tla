--------------------------- MODULE BrowserProofs ----------------------------
(***************************************************************************)
(* Proofs about Browser, for every set of URLs, every length of URLs and   *)
(* pages and every capacity of the history: the history stays a stack, and *)
(* what is on screen follows the last fetch.                               *)
(***************************************************************************)
EXTENDS Browser, TLAPS

\* The history record: HistoryIsStack with the types it stands on.
HistOf(h) ==
  /\ h \in [count : 1 .. HistCap, pos : Nat, skip : BOOLEAN,
            url : [0 .. HistCap - 1 -> Urls \cup {NoUrl}]]
  /\ h.pos < h.count
  /\ \A i \in 0 .. h.count - 1 : h.url[i] \in Urls
  /\ \A i \in 1 .. h.count - 1 : h.url[i] # h.url[i - 1]

HistInv == bar \in Urls \cup {NoUrl} /\ HistOf(hist)

\* A push keeps the stack: URLs of different lengths are different, so the
\* entry pushed differs from the one below it, and the shift of a full stack
\* moves all neighbours together.
LEMMA PushKeepsStack ==
  ASSUME NEW h, HistOf(h), NEW u \in Urls \cup {NoUrl}
  PROVE  HistOf(Push(h, u))
<1> USE BrowserAssumption DEF HistOf
<1>1. CASE u = NoUrl \/ SameAsCurrent(h, u)
  BY <1>1 DEF Push
<1>2. CASE ~(u = NoUrl \/ SameAsCurrent(h, u)) /\ h.pos + 1 >= HistCap
  <2> DEFINE g == [i \in 0 .. HistCap - 1 |-> IF i = HistCap - 1 THEN u ELSE h.url[i + 1]]
  <2>1. Push(h, u) = [h EXCEPT !.url = g, !.pos = HistCap - 1, !.count = HistCap]
    BY <1>2 DEF Push
  <2>2. h.count = HistCap /\ h.pos = HistCap - 1
    BY <1>2
  <2>3. u \in Urls /\ u # h.url[HistCap - 1]
    BY <1>2, <2>2 DEF SameAsCurrent
  <2>4. g \in [0 .. HistCap - 1 -> Urls \cup {NoUrl}]
    BY <2>3
  <2>5. \A i \in 0 .. HistCap - 1 : g[i] \in Urls
    BY <2>2, <2>3
  <2>6. \A i \in 1 .. HistCap - 1 : g[i] # g[i - 1]
    <3> SUFFICES ASSUME NEW i \in 1 .. HistCap - 1 PROVE g[i] # g[i - 1]
      OBVIOUS
    <3>1. g[i - 1] = h.url[i]
      OBVIOUS
    <3>2. CASE i = HistCap - 1
      BY <3>1, <3>2, <2>3
    <3>3. CASE i # HistCap - 1
      BY <3>1, <3>3, <2>2, SMTT(30)
    <3> QED
      BY <3>2, <3>3
  <2> HIDE DEF g
  <2>7. h.skip \in BOOLEAN /\ HistCap - 1 \in Nat /\ HistCap \in 1 .. HistCap
    OBVIOUS
  <2>8. Push(h, u) = [count |-> HistCap, pos |-> HistCap - 1, skip |-> h.skip, url |-> g]
    BY <2>1
  <2> QED
    BY <2>8, <2>4, <2>5, <2>6, <2>7
<1>3. CASE ~(u = NoUrl \/ SameAsCurrent(h, u)) /\ h.pos + 1 < HistCap
  <2>1. Push(h, u) = [h EXCEPT !.url[h.pos + 1] = u, !.pos = h.pos + 1, !.count = h.pos + 2]
    BY <1>3 DEF Push
  <2>2. u \in Urls /\ u # h.url[h.pos]
    BY <1>3 DEF SameAsCurrent
  <2> DEFINE g == [h.url EXCEPT ![h.pos + 1] = u]
  <2>3. g \in [0 .. HistCap - 1 -> Urls \cup {NoUrl}]
    BY <2>2
  <2>4. \A i \in 0 .. h.pos + 1 : g[i] \in Urls
    BY <2>2, <1>3
  <2>5. \A i \in 1 .. h.pos + 1 : g[i] # g[i - 1]
    BY <2>2, <1>3
  <2>6. Push(h, u) = [h EXCEPT !.url = g, !.pos = h.pos + 1, !.count = h.pos + 2]
    BY <2>1
  <2> HIDE DEF g
  <2>7. h.skip \in BOOLEAN /\ h.pos + 1 \in Nat /\ h.pos + 2 \in 1 .. HistCap
    BY <1>3
  <2>8. Push(h, u) = [count |-> h.pos + 2, pos |-> h.pos + 1, skip |-> h.skip, url |-> g]
    BY <2>6
  <2> QED
    BY <2>8, <2>3, <2>4, <2>5, <2>7, SMTT(30)
<1> QED
  BY <1>1, <1>2, <1>3

LEMMA FetchKeepsStack ==
  ASSUME HistInv, StartBrowserFetch
  PROVE  HistOf(hist')
<1>1. CASE hist.skip
  BY <1>1 DEF StartBrowserFetch, HistInv, HistOf
<1>2. CASE ~hist.skip
  BY <1>2, PushKeepsStack DEF StartBrowserFetch, HistInv
<1> QED
  BY <1>1, <1>2

LEMMA MoveKeepsStack ==
  ASSUME HistInv, NEW p \in 0 .. hist.count - 1, Move(p)
  PROVE  HistInv'
<1>1. hist' = [count |-> hist.count, pos |-> p, skip |-> TRUE, url |-> hist.url]
  BY DEF Move, HistInv, HistOf
<1>2. bar' \in Urls
  BY DEF Move, HistInv, HistOf
<1>3. p \in Nat /\ p < hist.count
  BY DEF HistInv, HistOf
<1> QED
  BY <1>1, <1>2, <1>3 DEF HistInv, HistOf

LEMMA HistInit == Init => HistInv
  BY BrowserAssumption DEF Init, HistInv, HistOf

LEMMA HistStep == HistInv /\ [Next]_vars => HistInv'
<1> SUFFICES ASSUME HistInv, [Next]_vars PROVE HistInv'
  OBVIOUS
<1> USE BrowserAssumption
<1>1. CASE UNCHANGED <<bar, hist>>
  BY <1>1 DEF HistInv
<1>2. CASE BootFetch \/ Enter
  <2>1. StartBrowserFetch /\ UNCHANGED bar
    BY <1>2 DEF BootFetch, Enter
  <2> QED
    BY <2>1, FetchKeepsStack DEF HistInv
<1>3. CASE Reload
  <2>1. UNCHANGED bar /\ (StartBrowserFetch \/ UNCHANGED hist)
    BY <1>3 DEF Reload
  <2> QED
    BY <1>1, <2>1, FetchKeepsStack DEF HistInv
<1>4. CASE \E u \in Urls \cup {NoUrl} : TypeUrl(u)
  BY <1>4 DEF TypeUrl, HistInv
<1>5. CASE ClickBack
  <2>1. hist.pos - 1 \in 0 .. hist.count - 1
    BY <1>5 DEF ClickBack, CanBack, HistInv, HistOf
  <2> QED
    BY <1>5, <2>1, MoveKeepsStack DEF ClickBack
<1>6. CASE ClickForward
  <2>1. hist.pos + 1 \in 0 .. hist.count - 1
    BY <1>6 DEF ClickForward, CanForward, HistInv, HistOf
  <2> QED
    BY <1>6, <2>1, MoveKeepsStack DEF ClickForward
<1>7. CASE ClickReload
  BY <1>7 DEF ClickReload, HistInv, HistOf
<1>8. CASE ClickHome
  BY <1>8 DEF ClickHome, HistInv
<1>9. CASE \E u \in Urls : ClickBookmark(u)
  BY <1>9 DEF ClickBookmark, HistInv
<1>10. CASE ClickGo \/ ClicksDone \/ KeysDone \/ ToggleInet
  BY <1>1, <1>10 DEF ClickGo, ClicksDone, KeysDone, ToggleInet
<1>11. CASE \E s \in {"Browser", "Settings"} : KeyScreen(s)
  BY <1>1, <1>11 DEF KeyScreen
<1>12. CASE Drive
  BY <1>1, <1>12 DEF Drive, DriveIdle, DriveSettles, FrameEnds
<1> QED
  BY <1>1, <1>2, <1>3, <1>4, <1>5, <1>6, <1>7, <1>8, <1>9, <1>10, <1>11, <1>12
     DEF Next, Keys, Clicks, vars

\* Every sequence of fetches, Back, Forward and bookmarks, through a history of
\* any capacity, leaves it a stack of URLs without equal neighbours
\* (history_push_current, history_load_at_pos).
THEOREM HistoryInvariant == Spec => []HistoryIsStack
<1>1. HistInv => HistoryIsStack
  BY DEF HistInv, HistOf, HistoryIsStack
<1> QED
  BY <1>1, HistInit, HistStep, PTL DEF Spec

-----------------------------------------------------------------------------
\* What was rendered, once a fetch is Done: it was rendered in the frame in which
\* it settled (the generations agree), and until the next fetch only the offline
\* pages can take its place.  While a fetch runs no page is up.
NetShape ==
  /\ net = [phase |-> net.phase, url |-> net.url, outcome |-> net.outcome,
            truncated |-> net.truncated, page_gen |-> net.page_gen]
  /\ net.page_gen \in Nat
  /\ net.phase \in {"Off", "Busy", "Done"}
  /\ net.phase = "Busy" => net.url \in Urls

ViewShape ==
  /\ view = [lines |-> view.lines, err |-> view.err, truncated |-> view.truncated,
             raw_len |-> view.raw_len, gen |-> view.gen]
  /\ view.gen \in Nat /\ view.gen <= net.page_gen

Fits(v) == v.kind = "page" => v.url \notin LongPages

DoneIsRendered ==
  /\ view.gen = net.page_gen
  /\ net.truncated \in BOOLEAN
  /\ \E u \in Urls : net.outcome \in {Page(u), Error(u)}
  /\ Shows(view, net.outcome) \/ ShowsOffline(view)
  /\ net.outcome.kind = "page" /\ view.lines = net.outcome =>
       /\ view.raw_len = RawLen(net)
       /\ view.err = Blank
       /\ Fits(net.outcome) => view.truncated = net.truncated

RenderInv ==
  /\ NetShape /\ ViewShape
  /\ net.phase = "Done" => DoneIsRendered
  /\ net.phase = "Busy" => view.lines \in {Blank, Shrine}

LEMMA KindsDiffer ==
  ASSUME NEW u
  PROVE  /\ Page(u) # Shrine /\ Page(u) # Blank
         /\ Page(u).kind = "page" /\ Page(u).url = u /\ Error(u).kind = "error"
         /\ Blank.kind = "blank"
  BY DEF Page, Error, Shrine, Offline, Blank

LEMMA RenderInit == Init => RenderInv
  BY DEF Init, RenderInv, NetShape, ViewShape, EmptyView

\* A fetch that starts is Busy and clears the lines; offline only the screen changes.
LEMMA RenderFetch ==
  ASSUME RenderInv, HistInv, StartBrowserFetch
  PROVE  RenderInv'
<1>0. view = [lines |-> view.lines, err |-> view.err, truncated |-> view.truncated,
              raw_len |-> view.raw_len, gen |-> view.gen]
  BY DEF RenderInv, ViewShape
<1>1. CASE bar = NoUrl
  BY <1>1 DEF StartBrowserFetch, RenderInv, NetShape, ViewShape, DoneIsRendered, RawLen, Shows,
              ShowsOffline
<1>2. CASE bar # NoUrl /\ ~flags.inet_on
  <2>1. view' = OfflineView(view) /\ net' = net
    BY <1>2 DEF StartBrowserFetch
  <2>2. \/ view' = [lines |-> Shrine, err |-> Blank, truncated |-> FALSE,
                    raw_len |-> OfflineLen, gen |-> view.gen]
        \/ view' = [lines |-> Blank, err |-> Offline, truncated |-> FALSE,
                    raw_len |-> view.raw_len, gen |-> view.gen]
    BY <1>0, <2>1 DEF OfflineView
  <2>3. /\ view'.gen = view.gen /\ ShowsOffline(view') /\ view'.lines \in {Blank, Shrine}
        /\ view' = [lines |-> view'.lines, err |-> view'.err, truncated |-> view'.truncated,
                    raw_len |-> view'.raw_len, gen |-> view'.gen]
    BY <2>2 DEF ShowsOffline
  <2>4. net.phase = "Done" /\ net.outcome.kind = "page" => view'.lines # net.outcome
    BY <2>3, KindsDiffer DEF RenderInv, DoneIsRendered
  <2> QED
    BY <2>1, <2>3, <2>4 DEF RenderInv, NetShape, ViewShape, DoneIsRendered, ShowsOffline
<1>3. CASE bar # NoUrl /\ flags.inet_on
  <2>1. net' = [phase |-> "Busy", url |-> bar, outcome |-> Blank, truncated |-> FALSE,
                page_gen |-> net.page_gen + 1]
    BY <1>3 DEF StartBrowserFetch
  <2>2. view' = [lines |-> Blank, err |-> view.err, truncated |-> view.truncated,
                 raw_len |-> NoLen, gen |-> view.gen]
    BY <1>0, <1>3 DEF StartBrowserFetch, FetchingView
  <2> QED
    BY <1>3, <2>1, <2>2 DEF RenderInv, NetShape, ViewShape, HistInv
<1> QED
  BY <1>1, <1>2, <1>3

\* What rendering n, Done with the outcome o, leaves behind.
LEMMA RenderedFacts ==
  ASSUME NEW gen \in Nat, NEW url, NEW u \in Urls, NEW o \in {Page(u), Error(u)},
         NEW truncated \in BOOLEAN,
         net' = [phase |-> "Done", url |-> url, outcome |-> o, truncated |-> truncated,
                 page_gen |-> gen],
         view' = Rendered(net')
  PROVE  RenderInv' /\ Shows(view', net'.outcome)
<1>1. view' = [lines     |-> IF o.kind = "page" THEN o ELSE Blank,
               err       |-> IF o.kind = "error" THEN o ELSE Blank,
               truncated |-> o.kind = "page" /\ (truncated \/ o.url \in LongPages),
               raw_len   |-> RawLen(net'), gen |-> gen]
  BY DEF Rendered
<1>2. NetShape' /\ ViewShape'
  BY <1>1 DEF NetShape, ViewShape
<1>3. /\ view'.gen = net'.page_gen /\ net'.truncated \in BOOLEAN
      /\ net'.outcome = o /\ net'.truncated = truncated /\ net'.phase = "Done"
      /\ view'.raw_len = RawLen(net')
      /\ view'.lines = (IF o.kind = "page" THEN o ELSE Blank)
      /\ view'.err = (IF o.kind = "error" THEN o ELSE Blank)
      /\ view'.truncated = (o.kind = "page" /\ (truncated \/ o.url \in LongPages))
  BY <1>1
<1>4. Shows(view', net'.outcome)
  BY <1>3 DEF Shows
<1>5. o.kind = "page" => view'.err = Blank
  BY <1>3
<1>6. o.kind = "page" /\ Fits(o) => view'.truncated = truncated
  BY <1>3 DEF Fits
<1>7. DoneIsRendered'
  BY <1>3, <1>4, <1>5, <1>6 DEF DoneIsRendered, RawLen, Shows, ShowsOffline
<1> QED
  BY <1>2, <1>3, <1>4, <1>7 DEF RenderInv

\* A settled fetch is rendered in its frame, because its generation is new.
LEMMA RenderSettles ==
  ASSUME RenderInv, NEW ok \in BOOLEAN, NEW truncated \in BOOLEAN, DriveSettles(ok, truncated)
  PROVE  RenderInv' /\ Shows(view', net'.outcome) /\ net'.phase = "Done"
<1> DEFINE n == Settled(ok, truncated)
           o == IF ok THEN Page(net.url) ELSE Error(net.url)
<1>1. net.phase = "Busy" /\ net.url \in Urls /\ net' = n
  BY DEF DriveSettles, Render, RenderInv, NetShape
<1>2. n = [phase |-> "Done", url |-> net.url, outcome |-> o, truncated |-> truncated,
           page_gen |-> net.page_gen + 1]
  <2>1. net = [phase |-> net.phase, url |-> net.url, outcome |-> net.outcome,
               truncated |-> net.truncated, page_gen |-> net.page_gen]
    BY DEF RenderInv, NetShape
  <2> HIDE DEF o
  <2>2. n = [net EXCEPT !.phase = "Done", !.page_gen = @ + 1, !.truncated = truncated,
                        !.outcome = o]
    BY DEF Settled, o
  <2> QED
    BY <2>1, <2>2
<1>3. NeedsRender(n)
  BY <1>2 DEF NeedsRender, RenderInv, NetShape, ViewShape
<1>4. view' = Rendered(n)
  BY <1>2, <1>3 DEF DriveSettles, Render
<1>5. o \in {Page(net.url), Error(net.url)} /\ net.page_gen + 1 \in Nat
  BY DEF RenderInv, NetShape
<1> HIDE DEF n, o
<1> QED
  BY <1>1, <1>2, <1>4, <1>5, RenderedFacts

\* A frame in which nothing settles renders what the stack holds if it is not what
\* was rendered last.
LEMMA RenderIdle ==
  ASSUME RenderInv, DriveIdle
  PROVE  /\ RenderInv'
         /\ net'.phase = "Done" => Shows(view', net'.outcome) \/ ShowsOffline(view')
<1>1. CASE UNCHANGED <<net, view>>
  BY <1>1 DEF RenderInv, NetShape, ViewShape, DoneIsRendered, RawLen, Shows, ShowsOffline
<1>2. CASE net.phase = "Done" /\ net' = net /\ view' = Rendered(net)
  <2>1. PICK u \in Urls : net.outcome \in {Page(u), Error(u)}
    BY <1>2 DEF RenderInv, DoneIsRendered
  <2>2. net.page_gen \in Nat /\ net.truncated \in BOOLEAN
    BY <1>2 DEF RenderInv, NetShape, DoneIsRendered
  <2>3. net' = [phase |-> "Done", url |-> net.url, outcome |-> net.outcome,
                truncated |-> net.truncated, page_gen |-> net.page_gen]
    BY <1>2 DEF RenderInv, NetShape
  <2> QED
    BY <1>2, <2>1, <2>2, <2>3, RenderedFacts
<1> QED
  BY <1>1, <1>2 DEF DriveIdle, Render

LEMMA RenderReset ==
  ASSUME NEW gen \in Nat,
         net' = [phase |-> "Off", url |-> NoUrl, outcome |-> Blank, truncated |-> FALSE,
                 page_gen |-> gen],
         view' = EmptyView
  PROVE  RenderInv'
  BY DEF RenderInv, NetShape, ViewShape, EmptyView

\* One step: the screen's invariant, and what the step may show.
LEMMA RenderStep ==
  ASSUME RenderInv, HistInv, [Next]_vars
  PROVE  /\ RenderInv'
         /\ pc = "drive" /\ flags.inet_on /\ net'.phase = "Done" /\ vars' # vars
              => Shows(view', net'.outcome) \/ ShowsOffline(view')
<1>1. CASE UNCHANGED <<net, view>> /\ (vars' = vars \/ pc # "drive")
  BY <1>1 DEF RenderInv, NetShape, ViewShape, DoneIsRendered, RawLen, Shows, ShowsOffline
<1>2. CASE BootFetch \/ Enter
  BY <1>2, RenderFetch DEF BootFetch, Enter
<1>3. CASE Reload
  <2>1. pc # "drive"
    BY <1>3 DEF Reload
  <2>2. CASE UNCHANGED <<net, view>>
    BY <1>1, <2>1, <2>2
  <2>3. CASE StartBrowserFetch
    BY <2>1, <2>3, RenderFetch
  <2>4. CASE flags.reload /\ bar = NoUrl
    <3>1. /\ net' = [net EXCEPT !.phase = "Off", !.outcome = Blank, !.truncated = FALSE,
                               !.url = NoUrl]
          /\ view' = EmptyView
      BY <1>3, <2>4 DEF Reload
    <3>2. net' = [phase |-> "Off", url |-> NoUrl, outcome |-> Blank, truncated |-> FALSE,
                  page_gen |-> net.page_gen]
      BY <3>1 DEF RenderInv, NetShape
    <3>3. net.page_gen \in Nat
      BY DEF RenderInv, NetShape
    <3> QED
      BY <2>1, <3>1, <3>2, <3>3, RenderReset
  <2> QED
    BY <1>3, <2>2, <2>3, <2>4 DEF Reload
<1>4. CASE \/ KeysDone \/ ToggleInet \/ ClickReload \/ ClickHome \/ ClickGo \/ ClicksDone
           \/ ClickBack \/ ClickForward
           \/ \E u \in Urls \cup {NoUrl} : TypeUrl(u)
           \/ \E s \in {"Browser", "Settings"} : KeyScreen(s)
           \/ \E u \in Urls : ClickBookmark(u)
  BY <1>1, <1>4 DEF KeysDone, ToggleInet, ClickReload, ClickHome, ClickGo, ClicksDone,
     ClickBack, ClickForward, Move, InBrowser, TypeUrl, KeyScreen, ClickBookmark
<1>5. CASE DriveIdle
  BY <1>5, RenderIdle
<1>6. CASE \E ok, truncated \in BOOLEAN : DriveSettles(ok, truncated)
  BY <1>6, RenderSettles
<1>7. CASE UNCHANGED vars
  BY <1>1, <1>7 DEF vars
<1> QED
  BY <1>2, <1>3, <1>4, <1>5, <1>6, <1>7 DEF Next, Keys, Clicks, Drive

\* At the end of a frame with the stack Done the screen shows the outcome of the last
\* fetch alone (or an offline page), while a fetch runs no earlier page is up, and a
\* page that fits is formatted once, whatever the lengths that the test before
\* rendering compares (start_browser_fetch, kernel_main).
THEOREM ScreenInvariant == Spec => ScreenFollowsFetch
<1>1. RenderInv => RenderedOnce
  <2> SUFFICES ASSUME RenderInv, NEW u \in Urls \ LongPages, net.phase = "Done",
                      net.outcome = Page(u), view.lines = Page(u)
               PROVE  ~NeedsRender(net)
    BY DEF RenderedOnce
  <2>1. net.outcome.kind = "page" /\ Fits(net.outcome) /\ view.lines = net.outcome
    BY KindsDiffer DEF Fits
  <2>2. /\ view.raw_len = RawLen(net) /\ view.gen = net.page_gen
        /\ view.truncated = net.truncated /\ view.err = Blank
    BY <2>1 DEF RenderInv, DoneIsRendered
  <2>3. ErrLen(net.outcome) = 0 /\ ErrLen(view.err) = 0
    BY <2>1, <2>2, KindsDiffer DEF ErrLen
  <2> QED
    BY <2>2, <2>3 DEF NeedsRender
<1>2. RenderInv /\ HistInv /\ [Next]_vars =>
        [/\ pc = "drive" /\ flags.inet_on /\ net'.phase = "Done"
              => Shows(view', net'.outcome) \/ ShowsOffline(view')
         /\ net'.phase = "Busy" => view'.lines \in {Blank, Shrine}]_vars
  BY RenderStep DEF RenderInv
<1>3. RenderInv /\ HistInv /\ [Next]_vars => RenderInv'
  BY RenderStep
<1> QED
  BY <1>1, <1>2, <1>3, HistInit, HistStep, RenderInit, PTL
     DEF Spec, ScreenFollowsFetch, ShownIsOutcome
=============================================================================
