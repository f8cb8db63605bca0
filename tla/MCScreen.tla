------------------------------ MODULE MCScreen ------------------------------
(***************************************************************************)
(* Screen for TLC: two questions, one of them about nothing, and the two   *)
(* layouts of the tests: side by side with a wide row behind them, and     *)
(* stacked.  Nothing is bounded.                                           *)
(***************************************************************************)
EXTENDS Screen

CONSTANT clear

Questions == {Plain, clear}
Panels == {[ways |-> {"right"}, behind |-> {"right", "left"}],
           [ways |-> {"up"}, behind |-> {}]}
=============================================================================
