------------------------------- MODULE Screen -------------------------------
(***************************************************************************)
(* A question put over a screen that the frame scheduler draws: the        *)
(* application keeps the dialog in the state its store publishes, a press  *)
(* is answered against the focus map of the frame on the panel             *)
(* (inkstand_frame_scheduler_focus_map), and what the press changed is on  *)
(* the panel a wake or a timer later.                                      *)
(***************************************************************************)
EXTENDS FrameScheduler, Dialog

CONSTANT Layouts  (* How a frame may lay the answers out: [ways, behind].  *)

(* The two answers do not overlap: one lies from the other in some          *)
(* direction, and not in the opposite one as well.                          *)
ASSUME LayoutsAssumption ==
  \A l \in Layouts :
    /\ l.ways \subseteq Directions /\ l.ways # {}
    /\ \A w \in l.ways : Opposite[w] \notin l.ways

VARIABLES
  drained,      (* The question in the snapshot the scheduler drained last.*)
  panel         (* The focus map of the frame on the panel, if it has one. *)

screenVars == <<fsVars, dialogVars, drained, panel>>

ScreenInit ==
  /\ Init /\ DialogInit
  /\ drained = Nothing /\ panel = {}

-----------------------------------------------------------------------------
(* The map of a frame of question q: none from a backend that has no hook   *)
(* for it, and otherwise one of the screen beneath or of the two answers.   *)
MapsOf(q) ==
  {{}} \union
  IF q = Nothing THEN {{[question |-> q, ways |-> {}, behind |-> {}]}}
  ELSE {{[question |-> q, ways |-> l.ways, behind |-> l.behind]} : l \in Layouts}

(* A step of the scheduler: what it drains is the dialog as it is now, what *)
(* it presents is what it drained last.                                     *)
Draws(step) ==
  /\ step
  /\ drained' = IF pending /\ ~pending' THEN Asked ELSE drained
  /\ IF drew' # "nothing" THEN panel' \in MapsOf(drained')
     ELSE panel' = IF display' = "open" THEN panel ELSE {}
  /\ Says("none", Plain)
  /\ UNCHANGED <<open, cursor, subject, moved>>

(* The application publishes what a press did to its state. *)
Published ==
  /\ pending' = TRUE
  /\ drew' = IF pending THEN drew ELSE "nothing"
  /\ UNCHANGED <<config, schedulerVars, timer, changed, moving, display, owed,
                 watched, batch, drained, panel>>

Wakes == Draws(WakeCallback)
Ticks == Draws(TimerCallback)
Expires == Draws(Expire)
Polls == Draws(Poll)

Asks == (\E s \in Subjects : Open(s)) /\ Published

Withdraws == open /\ Close /\ Published

Presses(key) ==
  /\ Key(key, panel)
  /\ IF press' = "IGNORED" THEN UNCHANGED <<fsVars, drained, panel>>
                           ELSE Published

ScreenNext ==
  \/ Wakes \/ Ticks \/ Expires \/ Polls
  \/ Draws(\/ \E opens, ticks \in BOOLEAN : Start(opens, ticks)
           \/ \E opens \in BOOLEAN : StartRefused(opens)
           \/ Shutdown \/ RequestFrame \/ Publish \/ ComesToRest)
  \/ Asks \/ Withdraws
  \/ \E k \in Keys : Presses(k)

ScreenSpec == ScreenInit /\ [][ScreenNext]_screenVars

ScreenFairSpec ==
  /\ ScreenSpec
  /\ WF_screenVars(Polls) /\ WF_screenVars(Wakes) /\ WF_screenVars(Ticks)
  /\ WF_screenVars(Expires)

-----------------------------------------------------------------------------
(* An open question can always be answered either way, whatever frame the   *)
(* press is resolved over: none, one of the screen beneath, one of another  *)
(* question, its own.                                                       *)
CursorIsNeverTrapped == DialogTypeOK /\ NeverTrapped(panel)

(* Once the store has been drained the panel shows the question that is up, *)
(* or that none is: a reader is never left looking at one already answered. *)
PanelShowsWhatIsAsked ==
  backend /\ presented /\ ~pending => \A m \in panel : m.question = Asked
=============================================================================
