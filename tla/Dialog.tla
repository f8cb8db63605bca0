------------------------------- MODULE Dialog -------------------------------
(***************************************************************************)
(* src/nav/dialog.c: a question with two answers over the screen.          *)
(*                                                                         *)
(* A direction key is resolved over the focus map of a frame, which the    *)
(* caller hands over: a set of at most one map, {} when there is none.  Of *)
(* a map only what concerns the two answers is kept: the question they     *)
(* were drawn for, or Nothing when neither is in it; `ways`, the           *)
(* directions in which Accept lies from Cancel; and `behind`, those in     *)
(* which a box dimmed behind the question is nearer than the other answer. *)
(***************************************************************************)
EXTENDS Naturals

CONSTANTS
  Subjects,     (* What a question may be about.                           *)
  Plain,        (* Subject 0: no more than the screen it was raised over.  *)
  Nothing       (* No question.                                            *)

ASSUME SubjectAssumption == Plain \in Subjects /\ Nothing \notin Subjects

Answers == {"accept", "cancel"}
Directions == {"up", "down", "left", "right"}
Keys == Directions \union {"a", "start", "b", "select"}

VARIABLES
  open,         (* dialog->open                                            *)
  cursor,       (* dialog->cursor                                          *)
  subject,      (* dialog->subject                                         *)
  press,        (* What the last step told a caller of a key: "none", or   *)
                (* one of enum inkstand_dialog_press.                      *)
  told,         (* *out_subject, where the last step wrote it.             *)
  moved         (* The cursor has moved since this question was opened.    *)

dialogVars == <<open, cursor, subject, press, told, moved>>

DialogTypeOK ==
  /\ open \in BOOLEAN
  /\ cursor \in Answers
  /\ subject \in Subjects /\ (~open => subject = Plain)
  /\ press \in {"none", "IGNORED", "MOVED", "ACCEPTED", "CANCELLED"}
  /\ told \in Subjects
  /\ moved \in BOOLEAN /\ (moved => open)

(* The zeroed struct: its cursor is on Accept. *)
DialogInit ==
  /\ open = FALSE /\ cursor = "accept" /\ subject = Plain
  /\ press = "none" /\ told = Plain /\ moved = FALSE

-----------------------------------------------------------------------------
(* The question that is up. *)
Asked == IF open THEN subject ELSE Nothing

Other(answer) == CHOOSE a \in Answers : a # answer

Opposite ==
  [up |-> "down", down |-> "up", left |-> "right", right |-> "left"]

(* The directions in which the other answer lies from this one. *)
WaysFrom(map, here) ==
  IF here = "cancel" THEN map.ways ELSE {Opposite[w] : w \in map.ways}

(* Slips of inkstand_dialog_answer: the frame beneath taken for a frame of  *)
(* the dialog; the whole frame searched; the edge wrapping round.           *)
AnswerAnyMap(maps, key, here) ==
  IF maps = {} \/ \E m \in maps : m.question # Nothing /\ key \in WaysFrom(m, here)
  THEN Other(here) ELSE here
AnswerWholeFrame(maps, key, here) ==
  IF \E m \in maps : m.question # Nothing
                       /\ key \notin WaysFrom(m, here) \ m.behind
  THEN here ELSE Other(here)
AnswerWrapping(maps, key, here) == Other(here)

(* inkstand_dialog_answer: where a direction key takes the cursor.  A map   *)
(* with neither answer in it counts for no more than none.                  *)
Answer(maps, key, here) ==
  IF \E m \in maps : m.question # Nothing /\ key \notin WaysFrom(m, here)
  THEN here ELSE Other(here)

-----------------------------------------------------------------------------
Says(result, about) == press' = result /\ told' = about

(* Slip: the cursor left where the last question had it. *)
OpenKeepingCursor(about) ==
  /\ open' = TRUE /\ subject' = about /\ moved' = FALSE
  /\ Says("none", Plain)
  /\ UNCHANGED cursor

(* inkstand_dialog_open, over an open question too *)
Open(about) ==
  /\ open' = TRUE /\ cursor' = "cancel" /\ subject' = about
  /\ moved' = FALSE
  /\ Says("none", Plain)

TakeDown ==
  /\ open' = FALSE /\ subject' = Plain /\ moved' = FALSE
  /\ UNCHANGED cursor

(* inkstand_dialog_close, called by the application *)
Close == TakeDown /\ Says("none", Plain)

MoveKey(key, maps) ==
  /\ open /\ key \in Directions
  /\ cursor' = Answer(maps, key, cursor)
  /\ Says(IF cursor' = cursor THEN "IGNORED" ELSE "MOVED", Plain)
  /\ moved' = (moved \/ cursor' # cursor)
  /\ UNCHANGED <<open, subject>>

Verdict(key) ==
  IF key # "b" /\ cursor = "accept" THEN "ACCEPTED" ELSE "CANCELLED"

(* Slip: the subject read once the question is closed. *)
AnswerKeyForgetting(key) ==
  /\ open /\ key \in {"a", "start", "b"}
  /\ TakeDown
  /\ Says(Verdict(key), subject')
AnswerKey(key) ==
  /\ open /\ key \in {"a", "start", "b"}
  /\ TakeDown
  /\ Says(Verdict(key), subject)

OtherKey(key) ==
  /\ ~open \/ key = "select"
  /\ Says("IGNORED", Plain)
  /\ UNCHANGED <<open, cursor, subject, moved>>

(* inkstand_dialog_key *)
Key(key, maps) == MoveKey(key, maps) \/ AnswerKey(key) \/ OtherKey(key)

-----------------------------------------------------------------------------
(* What a caller acts on is an answer to the question that was up, about    *)
(* that question's subject; and nothing is accepted unless the reader moved *)
(* off Cancel since this very question was opened, so that a press repeated *)
(* over a question not read yet changes nothing.                            *)
AnswersAreMeant ==
  [][press' \in {"ACCEPTED", "CANCELLED"} =>
       /\ open /\ ~open' /\ told' = subject
       /\ press' = "ACCEPTED" => moved]_dialogVars

(* Wherever the frames are, an open question can be answered either way: a  *)
(* key always reaches the other answer; any key does while no question is   *)
(* on the panel; and over one that is, a key held down comes to rest.       *)
NeverTrapped(maps) ==
  open =>
    /\ \E k \in Directions : Answer(maps, k, cursor) # cursor
    /\ (\A m \in maps : m.question = Nothing)
         => \A k \in Directions : Answer(maps, k, cursor) # cursor
    /\ \A m \in maps, k \in Directions :
         m.question # Nothing /\ Answer(maps, k, cursor) # cursor
           => Answer(maps, k, Other(cursor)) = Other(cursor)
=============================================================================
