------------------------------ MODULE Inkstand ------------------------------
(***************************************************************************)
(* The frame scheduler and the control socket on the one loop they share,  *)
(* as an application puts them together (tests/suites/app_control.c): a    *)
(* "key" presses through to the application, which publishes a snapshot;   *)
(* a "shot" asks the scheduler whether it has settled.                     *)
(*                                                                         *)
(* Each component, seen through the descriptors that are its own, must     *)
(* behave as its own module says, so that what is shown of it there holds  *)
(* here.                                                                   *)
(***************************************************************************)
EXTENDS EventLoop, Integers, Sequences, Functions

CONSTANTS Clients, Script, InMax, Deaf, ArmMayFail, None

VARIABLES
  config, registered, backend, presented, timerOpen, armed, timer, pending,
  changed, moving, display, drew, owed,
  client, in, waiting, ctimer, late, pc, stopping, conn, backlog, wire, said,
  ends, parked, answers, lost,
  keyed         (* A key was pressed over the socket and no frame has been  *)
                (* presented since.                                         *)

frameVars == <<config, registered, backend, presented, timerOpen, armed, timer,
               pending, changed, moving, display, drew, owed>>
socketVars == <<client, in, waiting, ctimer, late, pc, stopping, conn, backlog,
                wire, said, ends, parked, answers, lost>>
loopVars == <<watched, batch>>
vars == <<frameVars, socketVars, loopVars, keyed>>

(* Slip: a panel that has shown something is taken for a settled one. *)
SettledWhenPresented == presented

(* inkstand_frame_scheduler_settled *)
Settled == ~armed

Frames == INSTANCE FrameScheduler
Socket == INSTANCE Control
            WITH settled <- Settled, armMayFail <- config.armMayFail

ASSUME InkstandAssumption ==
  /\ Script \in [Clients -> Seq(Socket!Verbs)]
  /\ InMax \in Nat \ {0}
  /\ Deaf \subseteq Clients
  /\ None \notin Clients
  /\ ArmMayFail \in BOOLEAN

FrameFds  == {"wake", "timer"}
SocketFds == {"listen", "ctimer", "client"}

(* What each component sees of the loop. *)
FramesView == INSTANCE FrameScheduler
                WITH watched <- watched \intersect FrameFds,
                     batch   <- batch \intersect FrameFds
SocketView == INSTANCE Control
                WITH settled <- Settled, armMayFail <- config.armMayFail,
                     watched <- watched \intersect SocketFds,
                     batch   <- batch \intersect SocketFds

Init ==
  /\ watched = {"listen", "ctimer"} /\ batch = {}
  /\ FramesView!Init /\ config.armMayFail = ArmMayFail
  /\ SocketView!Init
  /\ keyed = FALSE

-----------------------------------------------------------------------------
(* The loop is between two callbacks. *)
InLoop == pc \in {"idle", "closed"}

(* A drained snapshot is drawn in the same step: the keys are on the panel. *)
FramesStep(step) ==
  /\ step
  /\ keyed' = (keyed /\ pending')
  /\ UNCHANGED socketVars

(* Slip: a callback of the frames runs inside one of the socket's. *)
FrameCallbacksAnyTime ==
  FramesStep(Frames!WakeCallback \/ Frames!TimerCallback)

FrameCallbacks ==
  /\ InLoop
  /\ FramesStep(Frames!WakeCallback \/ Frames!TimerCallback)

(* What the application calls between callbacks. *)
FrameCalls ==
  /\ InLoop
  /\ FramesStep(\/ \E opens, ticks \in BOOLEAN : Frames!Start(opens, ticks)
                \/ Frames!Shutdown
                \/ Frames!RequestFrame)

FrameWorld ==
  FramesStep(Frames!Publish \/ Frames!ComesToRest \/ Frames!Expire)

SocketStep(step) ==
  /\ UNCHANGED <<frameVars, keyed>>
  /\ step

Presses(line) == Socket!Reads(line) = "key"

(* Slip: a press that only marks the snapshot there is.                     *)
RunLinePressMarks ==
  /\ Socket!HasLine
  /\ LET press == Presses(in[Socket!FirstLine])
     IN /\ changed' = (changed \/ press)
        /\ UNCHANGED <<config, registered, backend, presented, timerOpen, armed,
                       timer, moving, display, owed, pending, drew>>
        /\ keyed' = (keyed \/ press)
  /\ Socket!RunLine

(* inkstand_control_command, control->host.press publishing a snapshot.     *)
RunLine ==
  /\ Socket!HasLine
  /\ LET press == Presses(in[Socket!FirstLine])
     IN /\ pending' = (pending \/ press)
        /\ drew'  = (IF press /\ ~pending THEN "nothing" ELSE drew)
        /\ keyed' = (keyed \/ press)
        /\ UNCHANGED <<config, registered, backend, presented, timerOpen, armed,
                       timer, changed, moving, display, owed>>
  /\ Socket!RunLine

SocketCallbacks ==
  SocketStep(\/ Socket!RunTooLong \/ Socket!RunEnd
             \/ Socket!OnClient \/ Socket!OnHangUp
             \/ \E watches \in BOOLEAN : Socket!OnAccept(watches)
             \/ Socket!OnTimer \/ Socket!AnswerParked)

SocketCalls == SocketStep(Socket!Close)

SocketWorld ==
  SocketStep(\/ \E c \in Clients : Socket!Connect(c) \/ Socket!Say(c)
             \/ \E c \in Clients, how \in {"half", "gone"} : Socket!Leave(c, how)
             \/ Socket!Expire \/ Socket!DeadlinePasses)

(* inkwell_loop polls for both. *)
Poll ==
  /\ InLoop /\ ~stopping
  /\ Collect(Frames!Ready \union Socket!ListenReady \union Socket!TimerReady
               \union Socket!ClientReady)
  /\ drew' = (IF batch' \intersect FrameFds = {} THEN drew ELSE "nothing")
  /\ UNCHANGED <<config, registered, backend, presented, timerOpen, armed, timer,
                 pending, changed, moving, display, owed, socketVars, keyed>>

Next ==
  \/ FrameCallbacks \/ FrameCalls \/ FrameWorld
  \/ RunLine
  \/ SocketCallbacks \/ SocketCalls \/ SocketWorld
  \/ Poll

Spec == Init /\ [][Next]_vars

-----------------------------------------------------------------------------
(* Each component behaves as its module says: nothing the other does on the *)
(* loop, not even what it does in the same batch, is a step it does not     *)
(* have.                                                                    *)
EachIsItself == FramesView!Spec /\ SocketView!Spec

(* A shot is answered with a picture: there is a frame to take. *)
ShotTaken ==
  waiting = "SETTLING" /\ answers' # answers /\ backend /\ presented

(* "A `shot` after a `key` is a picture of what the key did": so it is,     *)
(* whatever the publish and the frame timer do in between, when the wake of *)
(* the key's snapshot does not wait behind the control's timer in the same  *)
(* batch, and while arming works: the timer of a connection dropped without *)
(* disarming it could answer the next one's shot at once.                   *)
ShotShowsServedKeys ==
  [][ShotTaken /\ ~ArmMayFail /\ "wake" \notin batch => ~keyed]_vars

(* A picture answered as settled is of a screen at rest, while arming       *)
(* works.                                                                   *)
SettledShotIsStill ==
  [][ShotTaken /\ ~late /\ timerOpen /\ ~ArmMayFail => ~Frames!BackendMoving]_vars
=============================================================================
