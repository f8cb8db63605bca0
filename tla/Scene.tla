------------------------------- MODULE Scene -------------------------------
(***************************************************************************)
(* src/app/scene.c: plays a script against an off-screen panel and hands   *)
(* every frame to a sink, and each frame's delay once the next one is      *)
(* drawn, since a `hold` may lengthen it until then.                       *)
(*                                                                         *)
(* A call is a stack of the functions still to run in it, `todo`: a line   *)
(* puts there what its verb does, and a failure throws away what is left.  *)
(* The words of a line, the panel's contents and the line number are left  *)
(* out; what counts of a frame is whether it leaves something moving.      *)
(***************************************************************************)
EXTENDS Integers, Sequences

CONSTANTS
  FrameMs,      (* config.frame_ms                                         *)
  Delays,       (* What a script may set config.delay_ms to.               *)
  Holds,        (* What it may `hold` a frame for.                         *)
  SettleFrames, (* config.settle_frames                                    *)
  Ceiling,      (* INKSTAND_SCENE_DELAY_CEILING_MS                         *)
  MaxFrames     (* Bound: no line begins with this many frames taken.      *)

ASSUME SceneAssumption ==
  /\ FrameMs \in Nat \ {0} /\ SettleFrames \in Nat \ {0}
  /\ Ceiling \in Nat /\ MaxFrames \in Nat
  /\ Delays \subseteq 0 .. Ceiling /\ Holds \subseteq Nat

VARIABLES
  sink,         (* Which callbacks it has: one for frames, one for delays  *)
  pace,         (* config.delay_ms                                         *)
  started, finished,
  frames,       (* how many the sink has taken                             *)
  delay,        (* pending_delay_ms, the last frame's                      *)
  moving,       (* inkcell_capture_animating: what was last drawn moves    *)
  todo,         (* what is left to run of the call under way               *)
  since,        (* the clock since the last frame was taken, to Ceiling    *)
  timed,        (* how many delays the sink has been handed, counted to    *)
                (* one too many                                            *)
  line,         (* the verb of the last line                               *)
  spent,        (* the last settle came to its cap                         *)
  failed        (* a call has failed                                       *)

runVars  == <<started, finished, frames, delay, moving>>
vars == <<sink, pace, runVars, todo, since, timed, line, spent,
          failed>>

Sinks == [frame : BOOLEAN, delay : BOOLEAN]
Lines == {"none", "setup", "theme", "pointer", "key", "frame", "hold",
          "expect", "verb", "bare", "finish"}
Tasks == [do : {"start", "draw", "flush", "frame", "look", "settle", "hold",
                "expect", "run", "finish"}, n : Nat]

TypeOK ==
  /\ sink \in Sinks
  /\ pace \in Delays
  /\ started \in BOOLEAN /\ finished \in BOOLEAN /\ moving \in BOOLEAN
  /\ frames \in Nat
  /\ delay \in 0 .. Ceiling
  /\ todo \in Seq(Tasks)
  /\ spent \in BOOLEAN /\ failed \in BOOLEAN
  /\ since \in 0 .. Ceiling
  /\ timed \in Nat
  /\ line \in Lines

(* inkstand_scene_init *)
Init ==
  /\ sink \in Sinks
  /\ pace \in Delays
  /\ started = FALSE /\ finished = FALSE /\ frames = 0 /\ delay = 0
  /\ moving = FALSE /\ todo = <<>> /\ since = 0
  /\ timed = 0 /\ line = "none" /\ spent = FALSE /\ failed = FALSE

-----------------------------------------------------------------------------
(* What the functions of the runner come to, as tasks. *)

Do(what)  == [do |-> what, n |-> 0]
Start == <<Do("start")>>
(* inkstand_scene_emit *)
Emit == <<Do("draw"), Do("flush"), Do("frame")>>
(* inkstand_scene_settle *)
Settle == <<[do |-> "settle", n |-> SettleFrames]>>
(* inkstand_scene_press *)
Press == Emit \o Settle

-----------------------------------------------------------------------------
(* The lines of a script. *)

(* Nothing is run once the scene is finished. *)
Begin(verb, tasks) ==
  /\ todo = <<>> /\ ~finished /\ frames < MaxFrames
  /\ todo' = tasks /\ line' = verb
  /\ UNCHANGED <<sink, runVars, since, timed, spent, failed>>

(* A line that is refused before it does anything. *)
RefusedLine ==
  /\ todo = <<>> /\ ~finished
  /\ failed' = TRUE
  /\ UNCHANGED <<sink, pace, runVars, todo, since, timed, line,
                 spent>>

(* scene, scale, delay, clock, and the application's own setup verbs: only  *)
(* before the first frame, and they draw none.                              *)
SetupLine ==
  /\ ~started
  /\ Begin("setup", <<>>)
  /\ pace' \in Delays

(* theme: before the first frame the look to start with, after it a switch. *)
ThemeLine ==
  /\ Begin("theme", IF started THEN <<Do("look")>> \o Emit ELSE <<>>)
  /\ UNCHANGED pace

PointerLine ==
  /\ Begin("pointer", IF started THEN Emit ELSE <<>>)
  /\ UNCHANGED pace

(* key: as many presses as it says, none and two among them. *)
KeyLine ==
  /\ \/ Begin("bare", Start)
     \/ Begin("key", Start \o Press)
     \/ Begin("key", Start \o Press \o Press)
  /\ UNCHANGED pace

FrameLine ==
  /\ Begin("frame", Start \o Emit \o Settle)
  /\ UNCHANGED pace

HoldLine(ms) ==
  /\ Begin("hold", Start \o <<[do |-> "hold", n |-> ms]>>)
  /\ UNCHANGED pace

ExpectLine ==
  /\ Begin("expect", Start \o <<Do("expect")>>)
  /\ UNCHANGED pace

(* Slip: a verb's frame drawn and what it set moving left moving. *)
VerbLineUnsettled ==
  /\ Begin("verb", Start \o <<Do("run")>> \o Emit)
  /\ UNCHANGED pace

(* inkstand_scene_run_line, one of the application's verbs. *)
VerbLine ==
  /\ Begin("verb", Start \o <<Do("run")>> \o Emit \o Settle)
  /\ UNCHANGED pace

(* One that draws its own frames, or none. *)
BareVerbLine ==
  /\ \E own \in {<<>>, Emit, Settle, Press} :
       Begin("bare", Start \o <<Do("run")>> \o own)
  /\ UNCHANGED pace

(* inkstand_scene_finish, once or again. *)
Finish ==
  /\ todo = <<>>
  /\ todo' = Start \o <<Do("finish")>> /\ line' = "finish"
  /\ UNCHANGED <<sink, pace, runVars, since, timed, spent, failed>>

-----------------------------------------------------------------------------
(* The tasks. *)

Runs(what) == todo # <<>> /\ Head(todo).do = what
Done == todo' = Tail(todo)
Then(tasks) == todo' = tasks \o Tail(todo)

(* Whatever fails ends the call. *)
Fail == todo' = <<>> /\ failed' = TRUE

(* scene_start: the theme or the seed may be unknown, or the seed refuse;   *)
(* the scene is started all the same.                                       *)
StartScene ==
  /\ Runs("start")
  /\ \/ started /\ Done /\ UNCHANGED <<started, failed>>
     \/ ~started /\ started' = TRUE /\ Then(Emit)
        /\ UNCHANGED failed
     \/ ~started /\ started' = TRUE /\ Fail
  /\ UNCHANGED <<sink, pace, finished, frames, delay, moving, since, timed,
                 line, spent>>

(* scene_emit_delay up to its sink: the panel shows the store as it is. *)
Draw ==
  /\ Runs("draw") /\ Done
  /\ moving' \in BOOLEAN
  /\ UNCHANGED <<sink, pace, started, finished, frames, delay, since,
                 timed, line, spent, failed>>

(* scene_flush_delay: the delay of the frame before, which is final now. *)
FlushDelay ==
  /\ Runs("flush")
  /\ \/ /\ frames = 0 \/ ~sink.delay
        /\ Done /\ UNCHANGED <<timed, failed>>
     \/ /\ frames > 0 /\ sink.delay
        /\ Done /\ UNCHANGED failed
        /\ timed' = (IF timed > frames THEN timed ELSE timed + 1)
     \/ /\ frames > 0 /\ sink.delay
        /\ Fail /\ UNCHANGED timed
  /\ UNCHANGED <<sink, pace, runVars, since, line, spent>>

(* The rest of scene_emit_delay: the sink takes the frame, or refuses it. *)
TakeFrame ==
  /\ Runs("frame")
  /\ \/ /\ Done
        /\ frames' = frames + 1
        /\ delay'  = (IF moving /\ pace > FrameMs THEN FrameMs ELSE pace)
        /\ since'  = 0
        /\ UNCHANGED failed
     \/ /\ sink.frame
        /\ Fail
        /\ UNCHANGED <<frames, delay, since>>
  /\ UNCHANGED <<sink, pace, started, finished, moving, timed, line,
                 spent>>

(* scene_apply_theme, of a theme there is or is not. *)
ApplyTheme ==
  /\ Runs("look")
  /\ \/ Done /\ UNCHANGED failed
     \/ Fail
  /\ UNCHANGED <<sink, pace, runVars, since, timed, line, spent>>

Capped(ms) == IF ms > Ceiling THEN Ceiling ELSE ms

(* scene_advance *)
Advance(ms) == since' = Capped(since + ms)

(* Slip: a turn that moves the clock and draws nothing. *)
SettleUndrawn ==
  /\ Runs("settle")
  /\ \/ moving /\ Then(<<Head(todo)>>) /\ Advance(FrameMs) /\ UNCHANGED spent
     \/ ~moving /\ Done /\ spent' = FALSE /\ UNCHANGED since
  /\ UNCHANGED <<sink, pace, runVars, timed, line, failed>>

(* One turn of inkstand_scene_settle. *)
SettleStep ==
  /\ Runs("settle")
  /\ LET left == Head(todo).n
     IN \/ /\ moving /\ left > 0
           /\ Then(Emit \o <<[do |-> "settle", n |-> left - 1]>>)
           /\ Advance(FrameMs)
           /\ UNCHANGED spent
        \/ /\ ~moving \/ left = 0
           /\ Done /\ spent' = moving
           /\ UNCHANGED since
  /\ UNCHANGED <<sink, pace, runVars, timed, line, failed>>

(* Slips: the clock moves and the frame is not lengthened; it is lengthened *)
(* beyond what a delay can say.                                             *)
HoldUntimed ==
  /\ Runs("hold")
  /\ \/ frames > 0 /\ Done /\ Advance(Head(todo).n) /\ UNCHANGED <<delay, failed>>
     \/ frames = 0 /\ Fail /\ UNCHANGED <<delay, since>>
  /\ UNCHANGED <<sink, pace, started, finished, frames, moving,
                 timed, line, spent>>
HoldUncapped ==
  /\ Runs("hold")
  /\ \/ /\ frames > 0 /\ Done
        /\ delay' = delay + Head(todo).n /\ Advance(Head(todo).n)
        /\ UNCHANGED failed
     \/ frames = 0 /\ Fail /\ UNCHANGED <<delay, since>>
  /\ UNCHANGED <<sink, pace, started, finished, frames, moving,
                 timed, line, spent>>

(* scene_hold *)
Hold ==
  /\ Runs("hold")
  /\ \/ /\ frames > 0
        /\ Done
        /\ delay' = Capped(delay + Head(todo).n)
        /\ Advance(Head(todo).n)
        /\ UNCHANGED failed
     \/ /\ frames = 0
        /\ Fail /\ UNCHANGED <<delay, since>>
  /\ UNCHANGED <<sink, pace, started, finished, frames, moving,
                 timed, line, spent>>

(* What the host is asked: the screen that is up, a verb of its own. *)
AskHost ==
  /\ Runs("expect") \/ Runs("run")
  /\ \/ Done /\ UNCHANGED failed
     \/ Fail
  /\ UNCHANGED <<sink, pace, runVars, since, timed, line, spent>>

(* Slip: a second finish hands over the last delay again. *)
FinishAgain ==
  /\ Runs("finish")
  /\ Then(<<Do("flush")>>) /\ finished' = TRUE
  /\ UNCHANGED <<sink, pace, started, frames, delay, moving, since,
                 timed, line, spent, failed>>
(* inkstand_scene_finish, the scene started. *)
FinishScene ==
  /\ Runs("finish")
  /\ IF finished THEN Done ELSE Then(<<Do("flush")>>)
  /\ finished' = TRUE
  /\ UNCHANGED <<sink, pace, started, frames, delay, moving, since,
                 timed, line, spent, failed>>

Call ==
  \/ RefusedLine \/ SetupLine \/ ThemeLine \/ PointerLine
  \/ KeyLine \/ FrameLine
  \/ \E ms \in Holds : HoldLine(ms)
  \/ ExpectLine \/ VerbLine \/ BareVerbLine
  \/ Finish

Task ==
  \/ StartScene \/ Draw \/ FlushDelay \/ TakeFrame \/ ApplyTheme \/ SettleStep
  \/ Hold \/ AskHost \/ FinishScene

Next == Call \/ Task

Spec == Init /\ [][Next]_vars

(* A call runs on; no script is promised another line. *)
FairSpec == Spec /\ WF_vars(Task)

-----------------------------------------------------------------------------
EachDelayOnce ==
  todo = <<>> /\ ~failed /\ sink.delay =>
    timed = IF finished \/ frames = 0 THEN frames ELSE frames - 1
TimeIsKept ==
  frames > 0 /\ ~failed /\ pace >= FrameMs /\ delay < Ceiling => since <= delay

(* As long as nothing fails the sink is handed each frame's delay once:     *)
(* between two calls every frame has had its own but the last, and after a  *)
(* finish, or after two, the last one too.  And the scene's clock and the   *)
(* film keep the same time: while a frame is up the clock moves no further  *)
(* than the film holds it for - a motion and a hold after it together - as  *)
(* long as the script's delay is no shorter than the interval and below the *)
(* ceiling, which no delay passes.                                          *)
FilmKeepsTime == TypeOK /\ EachDelayOnce /\ TimeIsKept

(* What a press, a frame or a verb set moving is filmed until it rests, or  *)
(* until the cap: no script has to know that there is an animation.         *)
NothingMovesUnseen ==
  todo = <<>> /\ ~failed /\ line \in {"key", "frame", "verb"} => ~moving \/ spent

(* A line comes to its end, although something on the panel never rests. *)
LineReturns == todo # <<>> ~> todo = <<>>
=============================================================================
