------------------------------- MODULE MCToast -------------------------------
(***************************************************************************)
(* Instances of Toast for TLC: two notices that fit the snackbar, and two  *)
(* longer texts that are cut to the same one.  Deadlines are relative, so  *)
(* nothing is bounded.                                                     *)
(***************************************************************************)
EXTENDS Toast

CONSTANTS saved, arrived, long, longer, cut

TextsValue == {saved, arrived, long, longer}
CutValue ==
  [t \in TextsValue |-> IF t \in {long, longer} THEN cut ELSE t]
=============================================================================
