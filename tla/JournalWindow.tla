---------------------------- MODULE JournalWindow ----------------------------
(***************************************************************************)
(* What a journal's reader is promised of the ring it folds a file into:   *)
(* the newest Capacity records in the order they were read, and a count of *)
(* those that fell off the front.  There are no slots here and no wrapping.*)
(***************************************************************************)
EXTENDS Naturals, Sequences

CONSTANTS
  Values,       (* What a slot can hold.                                   *)
  Capacity      (* How many records the reader has room for.               *)

VARIABLES
  window,       (* The records held, oldest first.                         *)
  added,        (* How many records were read in all.                      *)
  lost,         (* How many were pushed out.                               *)
  transcript    (* What the last finish gave the reader.                   *)

wvars == <<window, added, lost, transcript>>

Init == window = <<>> /\ added = 0 /\ lost = 0 /\ transcript = <<>>

(* A record is read; a full window loses its oldest. *)
Add(r) ==
  /\ Capacity > 0
  /\ IF Len(window) < Capacity
     THEN window' = Append(window, r) /\ UNCHANGED lost
     ELSE window' = Append(Tail(window), r) /\ lost' = lost + 1
  /\ added' = added + 1
  /\ UNCHANGED transcript

(* A record read before is folded into the one already held. *)
Amend(i, r) ==
  /\ window' = [window EXCEPT ![i] = r]
  /\ UNCHANGED <<added, lost, transcript>>

(* The reader asks for what is held. *)
Read ==
  /\ transcript' = window
  /\ UNCHANGED <<window, added, lost>>

Next ==
  \/ \E r \in Values : Add(r)
  \/ \E i \in 1 .. Len(window), r \in Values : Amend(i, r)
  \/ Read

Spec == Init /\ [][Next]_wvars
=============================================================================
