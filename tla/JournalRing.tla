----------------------------- MODULE JournalRing -----------------------------
(***************************************************************************)
(* The ring of src/persist/journal.c, which a reader folds a capped file   *)
(* into in one forward pass: inkstand_journal_ring_init, _push, _held, _at *)
(* and _finish.  The records are what the caller writes into the slots.    *)
(***************************************************************************)
EXTENDS Naturals, Sequences

CONSTANTS
  Values,       (* What a slot can hold.                                   *)
  Capacity,     (* ring->capacity, 0 for a ring that was given no memory.  *)
  MaxDropped    (* Fewer records than this are pushed out of one ring, so  *)
                (* that its uint32_t count does not wrap.                  *)

ASSUME RingAssumption == Capacity \in Nat /\ MaxDropped \in Nat

VARIABLES
  entries,      (* ring->entries, a record for each slot                   *)
  next,         (* ring->next                                              *)
  dropped,      (* ring->dropped                                           *)
  wrapped,      (* ring->wrapped                                           *)
  pushed,       (* History: how often a slot was asked for and given.      *)
  transcript    (* The slots the last finish left its caller to read.      *)

ringVars == <<entries, next, dropped, wrapped, pushed, transcript>>

Slots == 0 .. Capacity - 1

RingTypeOK ==
  /\ entries \in [Slots -> Values]
  /\ next \in Nat /\ next <= Capacity /\ (Capacity > 0 => next < Capacity)
  /\ dropped \in Nat /\ pushed \in Nat
  /\ wrapped \in BOOLEAN /\ (wrapped => Capacity > 0)
  /\ transcript \in Seq(Values)

(* The caller's memory holds anything at all when the ring takes it. *)
RingInit ==
  /\ entries \in [Slots -> Values]
  /\ next = 0 /\ dropped = 0 /\ wrapped = FALSE
  /\ pushed = 0 /\ transcript = <<>>

(* inkstand_journal_ring_held *)
Held == IF wrapped THEN Capacity ELSE next

(* Slip: the ring wraps a slot late. *)
PushLate(r) ==
  /\ Capacity > 0
  /\ wrapped => dropped < MaxDropped
  /\ dropped' = (IF wrapped THEN dropped + 1 ELSE dropped)
  /\ next' = (next + 1) % (Capacity + 1)
  /\ wrapped' = (wrapped \/ next' = 0)
  /\ entries' = [entries EXCEPT ![next] = r]
  /\ pushed' = pushed + 1
  /\ UNCHANGED transcript

(* inkstand_journal_ring_push, and the caller filling the slot it returns *)
Push(r) ==
  /\ Capacity > 0
  /\ wrapped => dropped < MaxDropped
  /\ dropped' = (IF wrapped THEN dropped + 1 ELSE dropped)
  /\ next' = (next + 1) % Capacity
  /\ wrapped' = (wrapped \/ next' = 0)
  /\ entries' = [entries EXCEPT ![next] = r]
  /\ pushed' = pushed + 1
  /\ UNCHANGED transcript

(* inkstand_journal_ring_at, and the caller folding a record into slot i *)
Fold(i, r) ==
  /\ i < Held
  /\ entries' = [entries EXCEPT ![i] = r]
  /\ UNCHANGED <<next, dropped, wrapped, pushed, transcript>>

(* journal_ring_reverse: the slots lo .. hi - 1 end for end *)
Reversed(e, lo, hi) ==
  [i \in Slots |-> IF lo <= i /\ i < hi THEN e[lo + hi - 1 - i] ELSE e[i]]

(* Slip: the two parts turned round, and not the whole. *)
RotatedTwice(e, k) == Reversed(Reversed(e, 0, k), k, Capacity)
(* The buffer rotated left by k, as three reversals in place. *)
Rotated(e, k) ==
  Reversed(Reversed(Reversed(e, 0, k), k, Capacity), 0, Capacity)

(* inkstand_journal_ring_finish, and the caller reading the count returned *)
Finish ==
  /\ IF wrapped
     THEN entries' = Rotated(entries, next) /\ next' = 0
     ELSE UNCHANGED <<entries, next>>
  /\ transcript' = [i \in 1 .. Held |-> entries'[i - 1]]
  /\ UNCHANGED <<dropped, wrapped, pushed>>

RingNext ==
  \/ \E r \in Values : Push(r)
  \/ \E i \in Slots, r \in Values : Fold(i, r)
  \/ Finish

RingSpec == RingInit /\ [][RingNext]_ringVars

-----------------------------------------------------------------------------
(* The slot of the i-th oldest record. *)
SlotOf(i) ==
  IF ~wrapped THEN i - 1
  ELSE IF next + i - 1 < Capacity THEN next + i - 1
  ELSE next + i - 1 - Capacity

Oldest == [i \in 1 .. Held |-> entries[SlotOf(i)]]

Window == INSTANCE JournalWindow
            WITH window <- Oldest, added <- pushed, lost <- dropped

(* The ring is the window: whatever was pushed, folded and finished in      *)
(* whatever order, a finish reads the newest records oldest first, keeps    *)
(* what a later push or a second finish relies on, takes every record it    *)
(* has a slot for, and counts every one that was pushed out.                *)
ImplementsWindow == Window!Spec
=============================================================================
