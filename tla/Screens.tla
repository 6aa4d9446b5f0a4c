------------------------------ MODULE Screens ------------------------------
(***************************************************************************)
(* UiState (kernel/src/gfx.rs) as the main loop changes it: what a key and *)
(* a click do on each screen (main.rs, arm_run.rs, handle_click_at), what  *)
(* a fetch changes, and what render_frame paints for which dirty flags.    *)
(* Every operator takes the state u and returns the next one.  The log of  *)
(* the LOG tab is LogRing.                                                 *)
(*                                                                         *)
(* u.stale is no variable of the program: it holds the visible parts of    *)
(* the framebuffer that may not show the present state, and u.over says    *)
(* that a page was painted over another screen.                            *)
(***************************************************************************)
EXTENDS LogRing

CONSTANTS
    UrlCap,      \* url.len()
    TextCap,     \* wifi_ssid.len() and its kin
    NumCap,      \* 255, 4320, 7680: what a number in SYS is cut to
    Wheel,       \* rows a wheel step or a page key scrolls the log
    TabTop, TabHeight,  \* tab_y and tab_h of a screen that has tabs
    Word         \* 2^64 (usize)

ASSUME ScreensAssumption ==
    /\ UrlCap \in Nat \ {0, 1} /\ TextCap \in Nat /\ NumCap \in Nat /\ Wheel \in Nat \ {0}
    /\ TabTop \in Nat /\ TabHeight \in Nat /\ TabHeight > 8
    /\ Word \in Nat /\ Word > TabTop + TabHeight

VARIABLES
    ui,        \* UI_STATE
    disk       \* disk_install_available

Notices == {"epilepsy", "california"}
Parts == {"chrome", "body", "status"}

(* What no dirty flag stands for: the < and > of the URL bar, and old      *)
(* glyphs under the status line.                                           *)
Leftovers == {"nav", "smear"}

(* browser_bios_fullpage: the page has the whole framebuffer.              *)
Fullpage(u) == u.screen = "browser" /\ u.full
Visible(u) ==
    IF u.screen \in Notices \/ Fullpage(u) THEN {"body"}
    ELSE Parts \cup (Leftovers \ IF u.screen = "install" THEN {"nav"} ELSE {})

(* Flags d are set; parts s of the screen have changed.                    *)
Mark(u, d, s) ==
    LET v == [u EXCEPT !.dirty = @ \cup d, !.stale = @ \cup s]
    IN [v EXCEPT !.stale = @ \cap Visible(v)]

Repaint(u) == Mark(u, {"content"}, Parts)

----------------------------------------------------------------------------
(* What the network does to the page.                                      *)

PageChanged(u) == Mark(u, {"body"}, IF u.screen = "browser" THEN {"body"} ELSE {})
StatusChanged(u) == Mark(u, {"status"}, {"status"})

(* history_push_current: < and > change, and no flag is set.  (Back and    *)
(* forward push nothing; a click has the screen painted in full.)          *)
HistoryPushed(u) == Mark(u, {}, {"nav"})

(* start_browser_fetch: offline, a message takes the place of the page.    *)
(* u.online is inet_on, which the loop works out once for a frame.         *)
StartBrowserFetch(u) ==
    IF u.url = 0 THEN u
    ELSE StatusChanged(PageChanged(HistoryPushed(
             [u EXCEPT !.fetching = @ \/ u.online, !.say = @ \/ u.online])))

Mut_BootFetchOnline(u) ==
    IF u.pending /\ u.screen = "browser" /\ u.url > 0 /\ u.online
    THEN StartBrowserFetch([u EXCEPT !.pending = FALSE]) ELSE u

(* The loop fetches the home page once, when the browser is first shown.   *)
BootFetch(u) ==
    IF u.pending /\ u.screen = "browser" /\ u.url > 0
    THEN StartBrowserFetch([u EXCEPT !.pending = FALSE]) ELSE u

(* inet_reload_request                                                     *)
Reloaded(u) ==
    IF u.url > 0 THEN StatusChanged(StartBrowserFetch(u))
    ELSE StatusChanged(PageChanged([u EXCEPT !.fetching = FALSE]))

----------------------------------------------------------------------------
(* Keys.                                                                   *)

Mut_DismissBoth(u) ==
    Repaint([u EXCEPT !.acks = @ + 1, !.screen = IF disk THEN "install" ELSE "browser"])

(* dismiss_epilepsy_notice, dismiss_california_age_notice                  *)
Dismiss(u) ==
    Repaint([u EXCEPT !.acks = @ + 1,
                      !.screen = IF @ = "epilepsy" THEN "california"
                                 ELSE IF disk THEN "install" ELSE "browser"])

Show(u, s) == Repaint([u EXCEPT !.screen = s])

TopOfLog == [scroll |-> 0, stick |-> FALSE]
EndOfLog == [scroll |-> 0, stick |-> TRUE]

(* F6 swaps the two lists of the LOG tab; the USB path does not.           *)
SwapLog(u) == Repaint([u EXCEPT !.view = EndOfLog])

Digit == 3

(* settings_text_key: bytes into a field, digits into a number.            *)
SettingsTextKey(u, k) ==
    CASE u.focus = "text" /\ k = "bksp" ->
           Repaint([u EXCEPT !.text = IF @ > 0 THEN @ - 1 ELSE @])
      [] u.focus = "text" /\ k \in {"char", "digit", "space"} ->
           Repaint([u EXCEPT !.text = IF @ < TextCap THEN @ + 1 ELSE @])
      [] u.focus = "num" /\ k = "bksp" -> Repaint([u EXCEPT !.num = @ \div 10])
      [] u.focus = "num" /\ k = "digit" ->
           Repaint([u EXCEPT !.num = IF @ * 10 + Digit < NumCap THEN @ * 10 + Digit ELSE NumCap])
      [] OTHER -> u

(* The URL line: one byte is kept free.                                    *)
UrlKey(u, k) ==
    CASE k = "enter" -> StartBrowserFetch(u)
      [] k = "bksp" /\ u.url > 0 -> Mark([u EXCEPT !.url = @ - 1], {"chrome"}, {"chrome"})
      [] k \in {"char", "digit", "space"} /\ u.url < UrlCap - 1 ->
           Mark([u EXCEPT !.url = @ + 1], {"chrome"}, {"chrome"})
      [] OTHER -> u

(* Scrolling, by n rows in the LOG tab.                                    *)
Scrolled(u, n, up) ==
    CASE u.screen = "browser" -> Mark(u, {"body"}, {"body"})
      [] u.screen = "log" -> IF len = 0 THEN u ELSE Repaint([u EXCEPT !.view = LogScroll(@, n, up)])
      [] OTHER -> Repaint(u)

(* Home and End, on ARM.                                                   *)
Jumped(u, up) ==
    CASE u.screen = "browser" -> Mark(u, {"body"}, {"body"})
      [] u.screen = "log" -> Repaint([u EXCEPT !.view = IF up THEN TopOfLog ELSE EndOfLog])
      [] OTHER -> Repaint(u)

TypedKey(u, k) ==
    CASE u.screen = "browser" -> UrlKey(u, k)
      [] u.screen = "settings" -> SettingsTextKey(u, k)
      [] OTHER -> u

FunctionKey(u, k, src) ==
    CASE k = "f1" -> Show(u, "settings")
      [] k = "f2" -> Show([u EXCEPT !.focus = "none"], "browser")
      [] k = "f3" /\ u.screen = "settings" -> Repaint(u)
      [] k = "f4" /\ disk -> Show(u, "install")
      [] k = "f5" -> Show(u, "log")
      [] k = "f6" /\ u.screen = "browser" -> Repaint([u EXCEPT !.full = ~@])
      [] k = "f6" /\ u.screen = "log" /\ src # "usb" -> SwapLog(u)
      [] OTHER -> u

FunctionKeys == {"f1", "f2", "f3", "f4", "f5", "f6"}

(* The PS/2 and the USB branch of kernel_main, and process_arm_keys.       *)
KeyPressed(u, k, src) ==
    CASE u.screen \in Notices -> IF k \in {"enter", "space"} THEN Dismiss(u) ELSE u
      [] u.screen \notin Notices /\ k \in FunctionKeys -> FunctionKey(u, k, src)
      [] u.screen \notin Notices /\ k \in {"up", "down"} -> Scrolled(u, Wheel, k = "up")
      [] u.screen \notin Notices /\ k \in {"home", "end"} -> Jumped(u, k = "home")
      [] u.screen = "settings" /\ k = "esc" /\ src = "arm" -> Repaint([u EXCEPT !.focus = "none"])
      [] OTHER -> TypedKey(u, k)

----------------------------------------------------------------------------
(* Clicks.                                                                 *)

(* The row of the tabs.  Notices and a full page have a layout of height   *)
(* 0, from which 8 is taken all the same.                                  *)
InTabRow(u, y) ==
    LET tab_y == (IF Fullpage(u) THEN 0 ELSE TabTop) + 4
        tab_h == ((IF Fullpage(u) THEN 0 ELSE TabHeight) + Word - 8) % Word
    IN y >= tab_y /\ y < tab_y + tab_h

Tabs == [tab_eve |-> "browser", tab_set |-> "settings", tab_ins |-> "install", tab_log |-> "log"]
TabHits == {"tab_eve", "tab_set", "tab_log"} \cup IF disk THEN {"tab_ins"} ELSE {}

BodyHits(u) ==
    CASE u.screen = "browser" -> IF u.full THEN {} ELSE {"back", "no_entry", "home", "go"}
      [] u.screen = "log" -> {"this_list", "other_list"}
      [] u.screen = "install" -> IF u.install = "idle" THEN {"start"} ELSE {}
      [] OTHER -> {"text", "num", "toggle", "inet", "polling", "save", "bookmark", "reboot",
                   "shutdown"}

(* What a click at height y can hit.                                       *)
Hits(u, y) ==
    {"miss"} \cup IF u.screen \in Notices THEN {"dismiss"}
                  ELSE IF InTabRow(u, y) THEN TabHits ELSE BodyHits(u)

Ask(u, r) == [u EXCEPT !.req = @ \cup {r}]

(* SYS, General: fields, the save row and the bookmarks.                   *)
ClickGeneral(u, h) ==
    CASE h \in {"text", "num"} -> [u EXCEPT !.focus = h]
      [] h = "save" -> Ask(u, "save")
      [] h = "bookmark" -> Ask([u EXCEPT !.url = 1], "reload")
      [] OTHER -> u

(* NIC, addresses and the internet switch.                                 *)
ClickNetwork(u, h) == IF h = "inet" THEN [u EXCEPT !.inet = ~@] ELSE u

(* SYS, Input.                                                             *)
ClickInput(u, h) == IF h = "polling" THEN [u EXCEPT !.polling = ~@] ELSE u

ClickPower(u, h) ==
    IF h \in {"reboot", "shutdown"} THEN [Ask(u, h) EXCEPT !.asked = TRUE] ELSE u

ClickSettings(u, h) == ClickPower(ClickInput(ClickNetwork(ClickGeneral(u, h), h), h), h)

ClickTab(u, h) ==
    [u EXCEPT !.screen = Tabs[h], !.focus = IF h \in {"tab_eve", "tab_log"} THEN "none" ELSE @]

(* Back and forward (Browser); one that finds no entry only repaints.      *)
ClickBrowser(u, h) == IF h = "home" THEN Ask([u EXCEPT !.url = 1], "reload") ELSE Ask(u, "reload")

(* handle_click_at: a hit of any kind asks for a full repaint.             *)
HandleClickAt(u, h) ==
    IF h = "miss" THEN u
    ELSE Repaint(CASE h = "dismiss" -> Dismiss(u)
                   [] h \in DOMAIN Tabs -> ClickTab(u, h)
                   [] h \in {"back", "home", "go"} -> ClickBrowser(u, h)
                   [] h = "other_list" -> [u EXCEPT !.view = EndOfLog]
                   [] h = "start" -> Ask(u, "install")
                   [] OTHER -> ClickSettings(u, h))

----------------------------------------------------------------------------
(* render_frame: only the first flag that is set counts, and what it does  *)
(* not paint waits for the next frame or is given up.                      *)

Mut_ChromeForgetsBody(u) ==
    [u EXCEPT !.dirty = {},
              !.stale = (@ \ IF u.screen \in Notices \/ Fullpage(u) THEN {"body"}
                             ELSE {"chrome", "nav", "status"})
                        \cup IF "status" \in u.stale THEN {"smear"} ELSE {}]

(* draw_status_line writes the new line over the old one: no fill.         *)
ChromePainted(u) ==
    [u EXCEPT !.dirty = {},
              !.stale = (@ \ IF u.screen \in Notices \/ Fullpage(u) THEN {"body"}
                             ELSE {"chrome", "nav", "status"}
                                  \cup IF u.screen = "browser" /\ "body" \in u.dirty
                                       THEN {"body"} ELSE {})
                        \cup IF "status" \in u.stale THEN {"smear"} ELSE {}]

(* The page is painted whatever the screen is.                             *)
BodyPainted(u) ==
    LET strip == IF "status" \in u.dirty /\ ~Fullpage(u) THEN {"status"} ELSE {}
        v == [u EXCEPT !.dirty = @ \ ({"body"} \cup strip),
                       !.stale = @ \ IF strip = {} THEN {} ELSE {"status", "smear"}]
    IN IF u.screen = "browser" THEN [v EXCEPT !.stale = @ \ {"body"}]
       ELSE [v EXCEPT !.stale = @ \cup {"body"}, !.over = TRUE]

(* redraw_status_strip fills the strip first.                              *)
StatusPainted(u) == [u EXCEPT !.dirty = @ \ {"status"}, !.stale = @ \ {"status", "smear"}]

RenderFrame(u) ==
    CASE "content" \in u.dirty -> [u EXCEPT !.dirty = {}, !.stale = {}, !.over = FALSE]
      [] "content" \notin u.dirty /\ "chrome" \in u.dirty -> ChromePainted(u)
      [] u.dirty \in {{"body"}, {"body", "status"}} -> BodyPainted(u)
      [] OTHER -> StatusPainted(u)
============================================================================
