------------------------------- MODULE Scale -------------------------------
(***************************************************************************)
(* src/form/scale.c: how a form's row walks its values.  Presets are a     *)
(* record [values, scale, zeroAside] whose values increase as unsigned     *)
(* words; a mask of choices is the set of its bits, {} when it is 0.       *)
(***************************************************************************)
EXTENDS Integers, Sequences, FiniteSetsExt

CONSTANTS
  One,          (* INKCELL_ANIM_ONE, the full length of a track.           *)
  MaskBits,     (* The width of a mask of choices.                         *)
  Word          (* 2 to the power of the width of a value.                 *)

ASSUME ScaleAssumption ==
  /\ One \in Nat \ {0} /\ MaskBits \in Nat \ {0}
  /\ Word \in Nat \ {0}

Words == 0 .. Word - 1

(* struct inkstand_form_presets *)
IsPresets(presets) ==
  /\ presets.values \in Seq(Words) /\ {presets.scale, presets.zeroAside} \subseteq BOOLEAN
  /\ \A i, j \in DOMAIN presets.values : i < j => presets.values[i] < presets.values[j]

(* Slip: a value at a preset steps to where it is. *)
PresetsStepStuck(presets, value, delta) ==
  LET vs    == presets.values
      above == {i \in DOMAIN vs : vs[i] > value}
      below == {i \in DOMAIN vs : vs[i] <= value}
  IN IF delta > 0 /\ above # {} THEN vs[Min(above)]
     ELSE IF delta < 0 /\ below # {} THEN vs[Max(below)]
     ELSE value

(* inkstand_form_presets_step *)
PresetsStep(presets, value, delta) ==
  LET vs    == presets.values
      above == {i \in DOMAIN vs : vs[i] > value}
      below == {i \in DOMAIN vs : vs[i] < value}
  IN IF delta > 0 /\ above # {} THEN vs[Min(above)]
     ELSE IF delta < 0 /\ below # {} THEN vs[Max(below)]
     ELSE value

(* The stops of a track: the presets, without a leading word. *)
Stops(presets) ==
  IF presets.zeroAside THEN Tail(presets.values) ELSE presets.values

(* Slip: the distance to the next stop added to the length, not to the step.*)
PositionAmong(stops, value) ==
  LET last == Len(stops) - 1
      i    == Max({j \in DOMAIN stops : stops[j] <= value})
  IN IF i > last THEN One
     ELSE ((i - 1) * One) \div last
            + ((value - stops[i]) * One) \div (stops[i + 1] - stops[i])

(* How far along the track a value is that is not below the first stop: the *)
(* stops evenly spaced, and what lies between two of them in proportion.    *)
Position(stops, value) ==
  LET last == Len(stops) - 1
      i    == Max({j \in DOMAIN stops : stops[j] <= value})
  IN IF i > last THEN One
     ELSE ((i - 1) * One
             + ((value - stops[i]) * One) \div (stops[i + 1] - stops[i])) \div last

(* inkstand_form_presets_track: {} where it answers false. *)
PresetsTrack(presets, value) ==
  IF ~presets.scale \/ presets.values = <<>> \/ Len(Stops(presets)) < 2 THEN {}
  ELSE LET stops == Stops(presets)
           off   == value < stops[1]
       IN {[stops    |-> Len(stops),
            unplaced |-> off,
            position |-> IF off THEN 0 ELSE Position(stops, value)]}

-----------------------------------------------------------------------------
(* inkstand_form_choice_allowed *)
ChoiceAllowed(choices, count, value) ==
  /\ value < count
  /\ choices = {} \/ (value < MaskBits /\ value \in choices)

(* Slip: the range not checked before the walk. *)
ChoiceStepAnywhere(choices, count, current, delta) ==
  LET forward == IF delta < 0 THEN count - 1 ELSE 1
      at      == [n \in 1 .. count |-> (current + n * forward) % Word]
      legal   == {n \in 1 .. count : ChoiceAllowed(choices, count, at[n])}
  IN IF count = 0 \/ delta = 0 \/ legal = {} THEN current ELSE at[Min(legal)]

(* inkstand_form_choice_step: a lap round the range, in words. *)
ChoiceStep(choices, count, current, delta) ==
  LET start   == IF current < count THEN current ELSE 0
      forward == IF delta < 0 THEN count - 1 ELSE 1
      at[n \in 0 .. count] ==
        IF n = 0 THEN start ELSE ((at[n - 1] + forward) % Word) % count
      legal   == {n \in 1 .. count : ChoiceAllowed(choices, count, at[n])}
  IN IF count = 0 \/ delta = 0 \/ legal = {} THEN current ELSE at[Min(legal)]
=============================================================================
