------------------------------ MODULE MCControl ------------------------------
(***************************************************************************)
(* Instances of Control for TLC.  Two peers are the least that can be in   *)
(* each other's way; what they say is bounded by their scripts, and the    *)
(* buffer holds two lines, so that it fills.                               *)
(***************************************************************************)
EXTENDS Control, TLC

CONSTANTS c1, c2

Peers == {c1, c2}

(* Commands that park with lines behind them and with a connection after    *)
(* theirs, a line in pieces, and one longer than the buffer with a line     *)
(* behind it.  Blank lines and a quit are said in MCInkstand.               *)
Mixed == c1 :> <<"shot", "part", "key">>
           @@ c2 :> <<"wait", "part", "part", "key">>

(* The other one reads its answers. *)
StopsReading == {c1}

=============================================================================
