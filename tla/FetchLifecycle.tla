--------------------------- MODULE FetchLifecycle ---------------------------
(***************************************************************************)
(* What the browser is promised about one page fetch: a navigation opens a *)
(* new attempt; an attempt that is loading ends once, in a page or in an   *)
(* error; the outcome then stays until the next attempt or a reset.        *)
(* Source of the promise: start_fetch, set_err, finish_fetch, reset_demo   *)
(* in kernel/src/net.rs.                                                   *)
(***************************************************************************)
EXTENDS Naturals

VARIABLES attempt, status

Statuses == {"idle", "loading", "shown", "failed"}

Init == attempt = 0 /\ status = "idle"

Open   == attempt' = attempt + 1 /\ status' = "loading"
Reject == attempt' = attempt + 1 /\ status' = "failed"       \* the URL does not parse
Blank  == attempt' = attempt + 1 /\ status' = "idle"         \* reload of an empty URL
Finish == status = "loading" /\ status' \in {"shown", "failed"} /\ UNCHANGED attempt
Cancel == status' = "idle" /\ UNCHANGED attempt              \* new IP settings

Next == Open \/ Reject \/ Blank \/ Finish \/ Cancel

Spec == Init /\ [][Next]_<<attempt, status>>
=============================================================================
