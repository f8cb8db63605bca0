----------------------------- MODULE MCInkstand -----------------------------
(***************************************************************************)
(* Instances of Inkstand for TLC: one peer that presses a key and takes a  *)
(* picture, which is where the two components meet, and then stops the     *)
(* loop.                                                                   *)
(***************************************************************************)
EXTENDS Inkstand, TLC

CONSTANT c1

Peers   == {c1}
Picture == c1 :> <<"blank", "key", "shot", "quit">>
=============================================================================
