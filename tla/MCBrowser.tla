----------------------------- MODULE MCBrowser ------------------------------
(* Instances of Browser for TLC. *)
EXTENDS Browser, TLC

CONSTANTS a, b, c

MCUrls == {a, b, c}
\* All of different length, and two of one length.
MCLens == a :> 1 @@ b :> 2 @@ c :> 3
MCSameLens == a :> 1 @@ b :> 1 @@ c :> 3
\* Two pages of one length.
MCPages == a :> 1 @@ b :> 1 @@ c :> 2
=============================================================================
