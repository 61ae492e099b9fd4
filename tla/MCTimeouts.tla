----------------------------- MODULE MCTimeouts -----------------------------
(* Two clients, one with a timeout, and two scripts, one that may not last *)
(* at all; time runs to LastTime.                                          *)
EXTENDS Timeouts, TLC

CONSTANTS a, b, p1, p2

OneTimed == (a :> 3) @@ (b :> 0)
CgiTimes == (p1 :> 2) @@ (p2 :> 0)
=============================================================================
