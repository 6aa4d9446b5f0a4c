------------------------------ MODULE LogRing ------------------------------
(***************************************************************************)
(* The ring of recent log lines (kernel/src/log_buffer.rs) that diag_log.rs *)
(* fills, and the part of the LOG tab that shows it (gfx.rs).  A line is   *)
(* its number.  Every line diag_log stores begins with "[EVE] ", so the    *)
(* SERIAL filter lets all of them through.                                 *)
(***************************************************************************)
EXTENDS Naturals, Sequences, FiniteSets

CONSTANTS
    Cap,        \* CAP
    Rows,       \* log_viewport_rows
    MaxLines    \* bound: lines written

ASSUME LogAssumption == Cap \in Nat \ {0} /\ Rows \in Nat \ {0} /\ MaxLines \in Nat

VARIABLES
    lines,      \* LINES
    begin, len, \* BEGIN, LEN
    written,    \* history: lines written
    fresh       \* DIRTY

logVars == <<lines, begin, len, written, fresh>>

LogInit ==
    /\ lines = [i \in 0 .. Cap - 1 |-> 0] /\ begin = 0 /\ len = 0
    /\ written = 0 /\ fresh = FALSE

Mut_BeginStays == begin

NextBegin == IF len < Cap THEN begin ELSE (begin + 1) % Cap

(* push_line                                                               *)
PushLine ==
    /\ lines' = [lines EXCEPT ![IF len < Cap THEN (begin + len) % Cap ELSE begin] = written + 1]
    /\ len' = IF len < Cap THEN len + 1 ELSE len
    /\ begin' = NextBegin
    /\ written' = written + 1
    /\ fresh' = TRUE

(* line_at                                                                 *)
LineAt(i) == lines[(begin + i) % Cap]

MaxScroll == IF len < Rows THEN 0 ELSE len - Rows

Mut_FirstRowFromEnd(v) ==
    IF v.stick \/ v.scroll > MaxScroll THEN MaxScroll ELSE MaxScroll - v.scroll

(* The first row drawn (draw_log_body), of v = [scroll, stick].            *)
FirstRow(v) == IF v.stick \/ v.scroll > MaxScroll THEN MaxScroll ELSE v.scroll

(* log_scroll_by_wheel, n rows up or down.                                 *)
LogScroll(v, n, up) ==
    CASE len = 0 -> v
      [] len > 0 /\ up ->
           [v EXCEPT !.stick = FALSE, !.scroll = IF FirstRow(v) < n THEN 0 ELSE FirstRow(v) - n]
      [] OTHER ->
           LET new == IF FirstRow(v) + n > MaxScroll THEN MaxScroll ELSE FirstRow(v) + n
           IN [v EXCEPT !.scroll = new, !.stick = @ \/ new >= MaxScroll]

----------------------------------------------------------------------------
(* The ring holds the newest lines, oldest first, over every lap           *)
(* (push_line, line_at).                                                   *)
LogKeepsNewest == \A i \in 0 .. len - 1 : LineAt(i) = written - len + 1 + i
============================================================================
