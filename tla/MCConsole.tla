----------------------------- MODULE MCConsole -----------------------------
EXTENDS Console

AtNotice ==
    [screen |-> "epilepsy", full |-> TRUE, focus |-> "none", url |-> 1, text |-> 0, num |-> 0,
     polling |-> TRUE, inet |-> TRUE, online |-> FALSE, fetching |-> FALSE, pending |-> TRUE,
     install |-> "idle", view |-> EndOfLog, req |-> {}, dirty |-> {"content"}, stale |-> {"body"},
     over |-> FALSE, acks |-> 0, asked |-> FALSE, say |-> FALSE]

At(s) ==
    [AtNotice EXCEPT !.screen = s, !.acks = 2, !.full = FALSE, !.pending = FALSE,
                     !.dirty = {}, !.stale = {}]

Quiet ==
    [arch |-> "x86", touches |-> 4, usbkbd |-> FALSE, mice |-> 0, keys |-> {}, kbd |-> {}, ksets |-> {"prefix"},
     aux |-> FALSE, lossy |-> FALSE, hits |-> {}, nic |-> FALSE, disk |-> FALSE, ui |-> At("settings")]

Typing ==
    {[Quiet EXCEPT !.touches = 5, !.kbd = {"shl", "shr", "char"}, !.lossy = TRUE],
     [Quiet EXCEPT !.kbd = {"shl", "up", "char"}, !.lossy = TRUE]}
Pointing == [Quiet EXCEPT !.aux = TRUE, !.lossy = TRUE]
MixedBytes == [Quiet EXCEPT !.aux = TRUE, !.kbd = {"char", "up"}, !.usbkbd = TRUE]
ManyMice ==
    {[Quiet EXCEPT !.aux = TRUE, !.mice = n, !.usbkbd = TRUE, !.keys = {"f1"},
                   !.hits = {"polling", "reboot", "tab_log"}] : n \in {1, 2}}
Boot ==
    {[Quiet EXCEPT !.touches = 5, !.usbkbd = TRUE, !.keys = {"enter", "f1", "f2", "f4", "f6", "char", "bksp"}, !.disk = d, !.nic = i,
                   !.ui = AtNotice] : d, i \in BOOLEAN}
ArmBoot == [Quiet EXCEPT !.touches = 6, !.arch = "arm", !.keys = {"space", "f2", "f5", "digit"}, !.nic = TRUE, !.ui = AtNotice]
Sys ==
    [Quiet EXCEPT !.touches = 6, !.arch = "arm", !.keys = {"digit", "char", "bksp", "esc", "f1", "f3", "home"},
                  !.hits = {"text", "num", "toggle", "inet", "bookmark", "save", "shutdown", "tab_eve"}, !.nic = TRUE]
Reading ==
    [Quiet EXCEPT !.touches = 6, !.arch = "arm", !.keys = {"up", "down", "home", "end", "f2", "f6"},
                  !.hits = {"this_list", "other_list"}, !.nic = TRUE, !.ui = At("log")]
Surfing ==
    [Quiet EXCEPT !.usbkbd = TRUE, !.keys = {"enter", "char", "down", "f1", "f5", "f6"}, !.mice = 1,
                  !.hits = {"back", "no_entry", "home", "go", "tab_set", "tab_log", "tab_ins", "start",
                            "save"},
                  !.nic = TRUE, !.disk = TRUE, !.ui = [At("browser") EXCEPT !.pending = TRUE]]

MCScenes ==
    {Pointing, MixedBytes, ArmBoot, Sys, Reading, Surfing} \cup Typing \cup ManyMice \cup Boot

(* A keyboard behind a controller that translates to set 1.                *)
ShiftScenes == {[Quiet EXCEPT !.kbd = {"shl", "char"}, !.ksets = {"set1"}]}

(* The browser as it boots, with a mouse.                                  *)
TabScenes ==
    {[Quiet EXCEPT !.aux = TRUE, !.hits = DOMAIN Tabs, !.ui = [At("browser") EXCEPT !.full = TRUE]]}
============================================================================
