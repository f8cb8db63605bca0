---------------------------- MODULE MCJournalFile ----------------------------
(***************************************************************************)
(* JournalFile for TLC.  One file is long enough for an append to fail in  *)
(* the middle of others; the other is what a wipe needs to fail at one     *)
(* name and go on to the next.                                             *)
(***************************************************************************)
EXTENDS JournalFile, TLC

CONSTANTS s1, s2

Names   == {s1, s2}
Lengths == s1 :> 3 @@ s2 :> 1
=============================================================================
