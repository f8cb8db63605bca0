---------------------------- MODULE MCJournalRing ----------------------------
(***************************************************************************)
(* An instance of JournalRing for TLC.  Two records are told apart, which  *)
(* is enough to see any two slots exchanged.                               *)
(***************************************************************************)
EXTENDS JournalRing
=============================================================================
