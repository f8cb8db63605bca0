------------------------------ MODULE MCRecent ------------------------------
(***************************************************************************)
(* Recent for TLC: one name more than there is room for, two spellings of  *)
(* each, and lines of up to four fields, repeats and refusals among them.  *)
(***************************************************************************)
EXTENDS Recent
=============================================================================
