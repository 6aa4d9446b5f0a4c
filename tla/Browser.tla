------------------------------ MODULE Browser -------------------------------
(***************************************************************************)
(* The browser part of the kernel's frame loop: the URL bar, the           *)
(* back/forward history (UiState in gfx.rs), start_browser_fetch and the   *)
(* test that decides when the settled page is rendered (main.rs; arm_run.rs *)
(* has the same loop).  The network stack is its promise, FetchLifecycle:  *)
(* a started fetch settles with a page or an error, in its own time, and   *)
(* page_gen moves when it starts and when it settles.                      *)
(*                                                                         *)
(* A URL is a value with a length; the empty bar is NoUrl.  The body of    *)
(* the browser shows an error line, the formatted lines of a page, and a   *)
(* mark for a page cut short, each kept in a field of its own.             *)
(***************************************************************************)
EXTENDS Integers, FiniteSets

CONSTANTS
  Urls,      \* what the user can type or has bookmarked
  Home,      \* settings.home_url
  UrlLen,    \* [Urls -> Nat \ {0}], the length of each
  PageLen,   \* [Urls -> Nat], the length of the page at each
  LongPages, \* the URLs whose page has more lines than the renderer keeps
  OfflineLen, \* length of the built-in offline page
  HistCap,   \* URL_HISTORY_CAP (16)
  MaxGen,    \* bound: page_gen from which on the user asks for no more fetches
  NoUrl      \* the empty bar

ASSUME BrowserAssumption ==
  /\ Home \in Urls /\ NoUrl \notin Urls
  /\ UrlLen \in [Urls -> Nat \ {0}] /\ PageLen \in [Urls -> Nat]
  /\ HistCap \in Nat /\ HistCap >= 2
  /\ LongPages \subseteq Urls /\ OfflineLen \in Nat /\ MaxGen \in Nat

VARIABLES
  bar,     \* url[..url_len]
  hist,    \* [count, pos, url : [0 .. HistCap - 1 -> URL]], skip_push
  flags,   \* inet_reload_request, boot_home_fetch_pending, inet_on, screen; and
           \* whether the gateway of this network answers ARP (external)
  net,     \* the NetStack as the loop sees it: phase, url fetched, outcome, page_gen
  view,    \* what is drawn (lines, err, truncated) and what was rendered last
  pc       \* "keys", "clicks", "reload", "drive": where the frame is

vars == <<bar, hist, flags, net, view, pc>>

Blank      == [kind |-> "blank"]
Offline    == [kind |-> "offline"]
Shrine     == [kind |-> "shrine"]
Page(u)    == [kind |-> "page", url |-> u]
Error(u)   == [kind |-> "error", url |-> u]
NoLen      == -1                         \* usize::MAX
\* "NET OFFLINE" is as long as some of the stack's own messages.
ErrLen(v)  == IF v.kind \in {"error", "offline"} THEN 1 ELSE 0
EmptyView  == [lines |-> Blank, err |-> Blank, truncated |-> FALSE, raw_len |-> NoLen, gen |-> 0]

-----------------------------------------------------------------------------
(***************************************************************************)
(* UiState: the history.                                                   *)
(***************************************************************************)
CanBack(h)    == h.pos > 0
CanForward(h) == h.pos + 1 < h.count

\* The entry at pos, as the code compares it with the bar: by length, and then
\* url[..len] with url[..url_len], which is the bar with itself (gfx.rs:381).
SameAsCurrent(h, u) == UrlLen[h.url[h.pos]] = UrlLen[u]

\* Mutant: a push in the middle keeps the forward entries.
Mut_PushKeepsForward(h, u) ==
  IF u = NoUrl \/ SameAsCurrent(h, u) THEN h
  ELSE IF h.pos + 1 >= HistCap
  THEN [h EXCEPT !.url = [i \in 0 .. HistCap - 1 |-> IF i = HistCap - 1 THEN u ELSE @[i + 1]],
                 !.pos = HistCap - 1, !.count = HistCap]
  ELSE [h EXCEPT !.url[h.pos + 1] = u, !.pos = h.pos + 1,
                 !.count = IF h.pos + 2 > @ THEN h.pos + 2 ELSE @]

\* Mutant: the shift comes one push too late.
Mut_PushOneTooMany(h, u) ==
  IF u = NoUrl \/ SameAsCurrent(h, u) THEN h
  ELSE IF h.pos + 1 > HistCap
  THEN [h EXCEPT !.url = [i \in 0 .. HistCap - 1 |-> IF i = HistCap - 1 THEN u ELSE @[i + 1]],
                 !.pos = HistCap - 1, !.count = HistCap]
  ELSE [h EXCEPT !.url[h.pos + 1] = u, !.pos = h.pos + 1, !.count = h.pos + 2]

\* history_push_current: forward entries are dropped; a full stack loses its oldest.
Push(h, u) ==
  IF u = NoUrl \/ SameAsCurrent(h, u) THEN h
  ELSE IF h.pos + 1 >= HistCap
  THEN [h EXCEPT !.url = [i \in 0 .. HistCap - 1 |-> IF i = HistCap - 1 THEN u ELSE @[i + 1]],
                 !.pos = HistCap - 1, !.count = HistCap]
  ELSE [h EXCEPT !.url[h.pos + 1] = u, !.pos = h.pos + 1, !.count = h.pos + 2]

Init ==
  /\ bar = Home
  /\ hist = [count |-> 1, pos |-> 0, skip |-> FALSE,
             url |-> [i \in 0 .. HistCap - 1 |-> IF i = 0 THEN Home ELSE NoUrl]]
  /\ \E on, gw \in BOOLEAN :
       flags = [reload |-> FALSE, boot_fetch |-> TRUE, inet_on |-> on, screen |-> "Notice",
                gateway |-> gw]
  /\ net = [phase |-> "Off", url |-> NoUrl, outcome |-> Blank, truncated |-> FALSE, page_gen |-> 0]
  /\ view = EmptyView
  /\ pc = "keys"

-----------------------------------------------------------------------------
(***************************************************************************)
(* start_browser_fetch: the history, then offline, or a fetch.             *)
(***************************************************************************)
\* Offline the home page is built in; any other URL is an error line.
OfflineView(v) ==
  IF bar = Home
  THEN [v EXCEPT !.lines = Shrine, !.err = Blank, !.truncated = FALSE, !.raw_len = OfflineLen]
  ELSE [v EXCEPT !.lines = Blank, !.err = Offline, !.truncated = FALSE]

\* Mutant: the page of the last fetch stays up while the next one runs.
Mut_FetchingKeepsLines(v) == [v EXCEPT !.raw_len = NoLen]

\* A fetch that starts clears the lines; fetch_err_len and page_truncated stay as
\* they are, and are drawn, until it settles.
FetchingView(v) == [v EXCEPT !.lines = Blank, !.raw_len = NoLen]

StartBrowserFetch ==
  /\ hist' = IF hist.skip THEN [hist EXCEPT !.skip = FALSE] ELSE Push(hist, bar)
  /\ IF bar = NoUrl THEN UNCHANGED <<net, view>>
     ELSE IF ~flags.inet_on THEN view' = OfflineView(view) /\ UNCHANGED net
     ELSE /\ net' = [phase |-> "Busy", url |-> bar, outcome |-> Blank, truncated |-> FALSE,
                     page_gen |-> net.page_gen + 1]
          /\ view' = FetchingView(view)

\* The user still asks for pages.
Asks == net.page_gen < MaxGen

\* The frame's first lines: the home page is fetched once the browser is up.
BootFetch ==
  /\ pc = "keys"
  /\ flags.boot_fetch /\ flags.screen = "Browser" /\ bar # NoUrl
  /\ flags' = [flags EXCEPT !.boot_fetch = FALSE]
  /\ StartBrowserFetch
  /\ UNCHANGED <<bar, pc>>

NoBootFetch == ~(flags.boot_fetch /\ flags.screen = "Browser" /\ bar # NoUrl)

\* Typing and deleting in the bar, as far as a whole URL or nothing.
TypeUrl(u) ==
  /\ pc = "keys" /\ NoBootFetch /\ flags.screen = "Browser"
  /\ bar' = u
  /\ UNCHANGED <<hist, flags, net, view, pc>>

Enter ==
  /\ pc = "keys" /\ NoBootFetch /\ flags.screen = "Browser" /\ Asks
  /\ StartBrowserFetch
  /\ UNCHANGED <<bar, flags, pc>>

\* F1 and F2, and the notices before them.
KeyScreen(s) ==
  /\ pc = "keys" /\ NoBootFetch
  /\ flags.screen = "Notice" => s = "Browser"
  /\ flags' = [flags EXCEPT !.screen = s]
  /\ UNCHANGED <<bar, hist, net, view, pc>>

KeysDone ==
  /\ pc = "keys" /\ NoBootFetch
  /\ pc' = "clicks"
  /\ UNCHANGED <<bar, hist, flags, net, view>>

-----------------------------------------------------------------------------
(***************************************************************************)
(* handle_click_at on the browser's buttons and on the settings screen;    *)
(* several cursors may click in one frame.                                 *)
(***************************************************************************)
InBrowser == pc = "clicks" /\ flags.screen = "Browser" /\ Asks

Move(p) ==
  /\ hist' = [hist EXCEPT !.pos = p, !.skip = TRUE]
  /\ bar' = hist.url[p]
  /\ flags' = [flags EXCEPT !.reload = TRUE]
  /\ UNCHANGED <<net, view, pc>>

ClickBack    == InBrowser /\ CanBack(hist) /\ Move(hist.pos - 1)
ClickForward == InBrowser /\ CanForward(hist) /\ Move(hist.pos + 1)

ClickReload ==
  /\ InBrowser
  /\ hist' = [hist EXCEPT !.skip = TRUE]
  /\ flags' = [flags EXCEPT !.reload = TRUE]
  /\ UNCHANGED <<bar, net, view, pc>>

ClickHome ==
  /\ InBrowser
  /\ bar' = Home
  /\ flags' = [flags EXCEPT !.reload = TRUE]
  /\ UNCHANGED <<hist, net, view, pc>>

ClickGo ==
  /\ InBrowser
  /\ flags' = [flags EXCEPT !.reload = TRUE]
  /\ UNCHANGED <<bar, hist, net, view, pc>>

\* A bookmark row of the settings screen.
ClickBookmark(u) ==
  /\ pc = "clicks" /\ flags.screen = "Settings" /\ Asks
  /\ bar' = u
  /\ flags' = [flags EXCEPT !.reload = TRUE]
  /\ UNCHANGED <<hist, net, view, pc>>

ClicksDone ==
  /\ pc = "clicks"
  /\ pc' = "reload"
  /\ UNCHANGED <<bar, hist, flags, net, view>>


\* inet_reload_request: a fetch of the bar, or reset_demo when the bar is empty.
Reload ==
  /\ pc = "reload"
  /\ pc' = "drive"
  /\ flags' = [flags EXCEPT !.reload = FALSE]
  /\ IF ~flags.reload THEN UNCHANGED <<hist, net, view>>
     ELSE IF bar # NoUrl THEN StartBrowserFetch
     ELSE /\ net' = [net EXCEPT !.phase = "Off", !.outcome = Blank, !.truncated = FALSE,
                              !.url = NoUrl]
          /\ view' = EmptyView
          /\ UNCHANGED hist
  /\ UNCHANGED bar

-----------------------------------------------------------------------------
(***************************************************************************)
(* The network stack settles a fetch while it is driven (external to this  *)
(* module: NetStack).  The loop then renders what is not yet rendered.     *)
(***************************************************************************)
Settled(ok, truncated) ==
  [net EXCEPT !.phase = "Done", !.page_gen = @ + 1, !.truncated = truncated,
              !.outcome = IF ok THEN Page(net.url) ELSE Error(net.url)]

RawLen(n) == IF n.outcome.kind = "page" THEN PageLen[n.outcome.url] ELSE 0

\* Mutant: only the error and the truncation are compared.
Mut_NeedsRenderErrOnly(n) ==
  ErrLen(n.outcome) # ErrLen(view.err) \/ n.truncated # view.truncated

NeedsRender(n) ==
  \/ RawLen(n) # view.raw_len
  \/ ErrLen(n.outcome) # ErrLen(view.err)
  \/ n.truncated # view.truncated
  \/ n.page_gen # view.gen

\* The settled page or error, formatted.
Rendered(n) ==
  [lines     |-> IF n.outcome.kind = "page" THEN n.outcome ELSE Blank,
   err       |-> IF n.outcome.kind = "error" THEN n.outcome ELSE Blank,
   truncated |-> n.outcome.kind = "page" /\ (n.truncated \/ n.outcome.url \in LongPages),
   raw_len   |-> RawLen(n), gen |-> n.page_gen]

\* drive, then the page is rendered once the stack is Done.
Render(n) ==
  /\ net' = n
  /\ view' = IF n.phase = "Done" /\ NeedsRender(n) THEN Rendered(n) ELSE view

FrameEnds == pc = "drive" /\ pc' = "keys" /\ UNCHANGED <<bar, hist, flags>>

DriveIdle ==
  /\ FrameEnds
  /\ IF flags.inet_on THEN Render(net) ELSE UNCHANGED <<net, view>>

DriveSettles(ok, truncated) ==
  /\ FrameEnds
  /\ flags.inet_on /\ net.phase = "Busy"
  /\ Render(Settled(ok, truncated))

\* internet_stack_enabled or the NIC choice is changed on the settings screen; the
\* loop reads inet_on at the start of a frame.
ToggleInet ==
  /\ pc = "keys" /\ flags.screen = "Settings"
  /\ flags' = [flags EXCEPT !.inet_on = ~@]
  /\ UNCHANGED <<bar, hist, net, view, pc>>

-----------------------------------------------------------------------------
Keys ==
  \/ BootFetch \/ Enter \/ KeysDone \/ ToggleInet
  \/ \E u \in Urls \cup {NoUrl} : TypeUrl(u)
  \/ \E s \in {"Browser", "Settings"} : KeyScreen(s)

Clicks ==
  \/ ClickBack \/ ClickForward \/ ClickReload \/ ClickHome \/ ClickGo \/ ClicksDone
  \/ \E u \in Urls : ClickBookmark(u)

Drive == DriveIdle \/ \E ok, truncated \in BOOLEAN : DriveSettles(ok, truncated)

Next == Keys \/ Clicks \/ Reload \/ Drive

Spec == Init /\ [][Next]_vars

\* The loop runs on, whatever the user does, and a stack that is driven again and
\* again settles its fetch where the gateway answers (NetStack!FetchSettles).  ARP
\* has no time-out: behind a gateway that is silent nothing is promised.
FairSpec ==
  /\ Spec
  /\ WF_vars(BootFetch) /\ WF_vars(KeysDone) /\ WF_vars(ClicksDone) /\ WF_vars(Reload)
  /\ WF_vars(DriveIdle)
  /\ SF_vars(flags.gateway /\ \E ok, truncated \in BOOLEAN : DriveSettles(ok, truncated))

-----------------------------------------------------------------------------
(***************************************************************************)
(* Properties.                                                             *)
(***************************************************************************)

\* The history stays a stack: pos is an entry, every entry up to count is a URL,
\* no entry beyond count is reachable, and history_push_current never puts a URL
\* next to itself, so Back and Forward always change the bar's entry.
HistoryIsStack ==
  /\ hist.pos \in 0 .. hist.count - 1 /\ hist.count \in 1 .. HistCap
  /\ \A i \in 0 .. hist.count - 1 : hist.url[i] \in Urls
  /\ \A i \in 1 .. hist.count - 1 : hist.url[i] # hist.url[i - 1]

\* The screen shows outcome o and nothing else: its lines, or its error.
Shows(v, o) ==
  /\ v.lines = IF o.kind = "page" THEN o ELSE Blank
  /\ v.err = IF o.kind = "error" THEN o ELSE Blank

\* What was put up while the network was off.
ShowsOffline(v) == v.lines = Shrine \/ v.err = Offline

\* At the end of a frame driven with the stack Done, the screen shows its outcome
\* and nothing of an earlier fetch (or what was put up offline, which a later frame
\* online replaces only if its measures differ).  While a fetch runs no page is up;
\* the error line of an earlier fetch stays, and goes when this one settles.
ShownIsOutcome ==
  [][/\ pc = "drive" /\ flags.inet_on /\ net'.phase = "Done"
          => Shows(view', net'.outcome) \/ ShowsOffline(view')
     /\ net'.phase = "Busy" => view'.lines \in {Blank, Shrine}]_vars

\* A page is formatted, and its script run, once: when what is shown is the page
\* the stack holds, the next frame has nothing to render.  Not so a page of more
\* lines than the renderer keeps, which is rendered in every frame: page_truncated
\* is stored with the renderer's verdict and compared with the stack's alone.
RenderedOnce ==
  \A u \in Urls \ LongPages :
    net.phase = "Done" /\ net.outcome = Page(u) /\ view.lines = Page(u)
      => ~NeedsRender(net)


\* What is opened with Enter is the current history entry afterwards, so Back
\* returns from it to the URL before.
OpenedIsInHistory ==
  [][pc = "keys" /\ pc' = "keys" /\ flags' = flags /\ net'.url # net.url
       => hist'.url[hist'.pos] = net'.url]_vars

\* What is on screen follows the stack: the page of the last fetch, formatted once.
ScreenFollowsFetch == []RenderedOnce /\ ShownIsOutcome
=============================================================================
