--------------------------- MODULE InkstandProofs ---------------------------
(***************************************************************************)
(* Theorems about Inkstand, for any peers, scripts and size of the buffer: *)
(* the scheduler and the socket each keep their own specification on the   *)
(* loop they share, so that each keeps its promises, and what a picture    *)
(* taken over the socket shows.                                            *)
(***************************************************************************)
EXTENDS Inkstand, TLAPS

(* The two components' theorems, about what each sees of the loop. *)
FP == INSTANCE FrameSchedulerProofs
        WITH watched <- watched \intersect FrameFds,
             batch   <- batch \intersect FrameFds
CP == INSTANCE ControlProofs
        WITH settled <- Settled, armMayFail <- config.armMayFail,
             watched <- watched \intersect SocketFds,
             batch   <- batch \intersect SocketFds

(* FramesView and the scheduler of the proofs are the same specification.   *)
LEMMA TheScheduler ==
  /\ FramesView!Init <=> FP!Init
  /\ FramesView!Next <=> FP!Next
  /\ UNCHANGED FramesView!fsVars <=> UNCHANGED FP!fsVars
<1>1. FramesView!Init <=> FP!Init
  BY DEF FramesView!Init, FP!Init, FramesView!LoopInit, FP!LoopInit,
     FramesView!Hooks, FP!Hooks
<1>2. FramesView!Next <=> FP!Next
  BY DEF FramesView!Next, FP!Next, FramesView!WakeCallback,
     FP!WakeCallback, FramesView!TimerCallback, FP!TimerCallback,
     FramesView!Start, FP!Start, FramesView!StartRefused, FP!StartRefused,
     FramesView!Shutdown, FP!Shutdown, FramesView!RequestFrame,
     FP!RequestFrame, FramesView!Publish, FP!Publish, FramesView!ComesToRest,
     FP!ComesToRest, FramesView!Expire, FP!Expire, FramesView!Poll, FP!Poll,
     FramesView!Turn, FP!Turn, FramesView!Served, FP!Served, FramesView!Drain,
     FP!Drain, FramesView!Present, FP!Present, FramesView!NoFrame, FP!NoFrame,
     FramesView!ScheduleFrame, FP!ScheduleFrame, FramesView!BackendMoving,
     FP!BackendMoving, FramesView!ReadTimer, FP!ReadTimer, FramesView!Watch,
     FP!Watch, FramesView!CloseBackend, FP!CloseBackend, FramesView!storeVars,
     FP!storeVars, FramesView!Unwatch, FP!Unwatch, FramesView!schedulerVars,
     FP!schedulerVars, FramesView!Collect, FP!Collect, FramesView!Ready,
     FP!Ready
<1>3. UNCHANGED FramesView!fsVars <=> UNCHANGED FP!fsVars
  BY DEF FramesView!fsVars, FP!fsVars, FramesView!schedulerVars,
     FP!schedulerVars, FramesView!storeVars, FP!storeVars
<1> QED
  BY <1>1, <1>2, <1>3

(* What the socket's steps read of their lines is the same of either. *)
LEMMA SameLines ==
  /\ SocketView!HasLine = CP!HasLine
  /\ SocketView!FirstLine = CP!FirstLine
  /\ \A line : SocketView!Reads(line) = CP!Reads(line)
  /\ \A rest : SocketView!Unheard(rest) = CP!Unheard(rest)
<1>1. SocketView!HasLine = CP!HasLine
  BY DEF SocketView!HasLine, CP!HasLine, SocketView!Completes,
     CP!Completes, SocketView!Reads, CP!Reads
<1>2. SocketView!FirstLine = CP!FirstLine
  BY DEF SocketView!FirstLine, CP!FirstLine, SocketView!Completes,
     CP!Completes, SocketView!Reads, CP!Reads
<1>3. ASSUME NEW line
      PROVE  SocketView!Reads(line) = CP!Reads(line)
  BY DEF SocketView!Reads, CP!Reads
<1>4. ASSUME NEW rest
      PROVE  SocketView!Unheard(rest) = CP!Unheard(rest)
  BY DEF SocketView!Unheard, CP!Unheard, SocketView!Completes,
     CP!Completes, SocketView!Reads, CP!Reads, SocketView!Range, CP!Range
<1> QED
  BY <1>1, <1>2, <1>3, <1>4

(* SocketView and the socket of the proofs are the same specification.      *)
LEMMA TheSocket ==
  /\ SocketView!Init <=> CP!Init
  /\ SocketView!Next <=> CP!Next
  /\ UNCHANGED SocketView!vars <=> UNCHANGED CP!vars
<1>1. SocketView!RunLine <=> CP!RunLine
  BY SameLines DEF SocketView!RunLine, CP!RunLine, SocketView!CanRun,
     CP!CanRun, SocketView!KeepClient, CP!KeepClient, SocketView!Reply,
     SocketView!Untaken, CP!Reply, CP!Untaken, SocketView!Park, CP!Park,
     SocketView!Running, CP!Running, SocketView!DropClient, CP!DropClient,
     SocketView!Armed, CP!Armed, SocketView!Disarmed, CP!Disarmed,
     SocketView!Unwatch, CP!Unwatch
<1>2. SocketView!RunTooLong <=> CP!RunTooLong
  BY SameLines DEF SocketView!RunTooLong, CP!RunTooLong, SocketView!CanRun,
     CP!CanRun, SocketView!DropClient, CP!DropClient, SocketView!Running,
     CP!Running, SocketView!Disarmed, CP!Disarmed, SocketView!Unwatch,
     CP!Unwatch
<1>3. SocketView!RunEnd <=> CP!RunEnd
  BY SameLines DEF SocketView!RunEnd, CP!RunEnd, SocketView!Running,
     CP!Running, SocketView!CanRun, CP!CanRun, SocketView!DropClient,
     CP!DropClient, SocketView!Disarmed, CP!Disarmed, SocketView!Unwatch,
     CP!Unwatch
<1>4. SocketView!OnClient <=> CP!OnClient
  BY SameLines DEF SocketView!OnClient, CP!OnClient, SocketView!Turn,
     CP!Turn, SocketView!Served, CP!Served, SocketView!HungUp, CP!HungUp,
     SocketView!historyVars, CP!historyVars
<1>5. SocketView!OnHangUp <=> CP!OnHangUp
  BY SameLines DEF SocketView!OnHangUp, CP!OnHangUp, SocketView!Turn,
     CP!Turn, SocketView!DropClient, CP!DropClient, SocketView!Disarmed,
     CP!Disarmed, SocketView!Unwatch, CP!Unwatch
<1>6. ASSUME NEW watches \in BOOLEAN
      PROVE  SocketView!OnAccept(watches) <=> CP!OnAccept(watches)
  BY SameLines DEF SocketView!OnAccept, CP!OnAccept, SocketView!Turn,
     CP!Turn, SocketView!Served, CP!Served, SocketView!historyVars,
     CP!historyVars
<1>7. SocketView!OnTimer <=> CP!OnTimer
  BY SameLines DEF SocketView!OnTimer, CP!OnTimer, SocketView!Turn,
     CP!Turn, SocketView!Served, CP!Served, SocketView!peerVars, CP!peerVars,
     SocketView!historyVars, CP!historyVars
<1>8. SocketView!AnswerParked <=> CP!AnswerParked
  BY SameLines DEF SocketView!AnswerParked, CP!AnswerParked,
     SocketView!ParkIsOver, CP!ParkIsOver, SocketView!Reply,
     SocketView!Untaken, CP!Reply, CP!Untaken, SocketView!Park, CP!Park,
     SocketView!KeepClient, CP!KeepClient, SocketView!DropClient,
     CP!DropClient, SocketView!Armed, CP!Armed, SocketView!Disarmed,
     CP!Disarmed, SocketView!Unwatch, CP!Unwatch
<1>9. SocketView!Close <=> CP!Close
  BY SameLines DEF SocketView!Close, CP!Close, SocketView!Unwatch,
     CP!Unwatch, SocketView!Range, CP!Range, SocketView!historyVars,
     CP!historyVars
<1>10. ASSUME NEW c \in Clients
      PROVE  SocketView!Connect(c) <=> CP!Connect(c)
  BY SameLines DEF SocketView!Connect, CP!Connect, SocketView!Outside,
     CP!Outside, SocketView!peerVars, CP!peerVars, SocketView!historyVars,
     CP!historyVars
<1>11. ASSUME NEW c \in Clients
      PROVE  SocketView!Say(c) <=> CP!Say(c)
  BY SameLines DEF SocketView!Say, CP!Say, SocketView!Outside, CP!Outside,
     SocketView!historyVars, CP!historyVars
<1>12. ASSUME NEW c \in Clients, NEW how
      PROVE  SocketView!Leave(c, how) <=> CP!Leave(c, how)
  BY SameLines DEF SocketView!Leave, CP!Leave, SocketView!Outside,
     CP!Outside, SocketView!historyVars, CP!historyVars
<1>13. SocketView!FrameTurns <=> CP!FrameTurns
  BY SameLines DEF SocketView!FrameTurns, CP!FrameTurns,
     SocketView!Outside, CP!Outside, SocketView!peerVars, CP!peerVars,
     SocketView!historyVars, CP!historyVars
<1>14. SocketView!Expire <=> CP!Expire
  BY SameLines DEF SocketView!Expire, CP!Expire, SocketView!Outside,
     CP!Outside, SocketView!peerVars, CP!peerVars, SocketView!historyVars,
     CP!historyVars
<1>15. SocketView!DeadlinePasses <=> CP!DeadlinePasses
  BY SameLines DEF SocketView!DeadlinePasses, CP!DeadlinePasses,
     SocketView!Outside, CP!Outside, SocketView!peerVars, CP!peerVars,
     SocketView!historyVars, CP!historyVars
<1>16. SocketView!Poll <=> CP!Poll
  BY SameLines DEF SocketView!Poll, CP!Poll, SocketView!Collect,
     CP!Collect, SocketView!ListenReady, CP!ListenReady,
     SocketView!TimerReady, CP!TimerReady, SocketView!ClientReady,
     CP!ClientReady, SocketView!controlVars, CP!controlVars,
     SocketView!HungUp, CP!HungUp, SocketView!peerVars, CP!peerVars,
     SocketView!historyVars, CP!historyVars
<1>17. SocketView!Next <=> CP!Next
  BY <1>1, <1>2, <1>3, <1>4, <1>5, <1>6, <1>7, <1>8, <1>9, <1>10, <1>11, <1>12,
     <1>13, <1>14, <1>15, <1>16 DEF SocketView!Next, CP!Next
<1>18. SocketView!Init <=> CP!Init
  BY DEF SocketView!Init, CP!Init
<1>19. UNCHANGED SocketView!vars <=> UNCHANGED CP!vars
  BY DEF SocketView!vars, CP!vars, SocketView!controlVars, CP!controlVars,
     SocketView!peerVars, CP!peerVars, SocketView!historyVars, CP!historyVars
<1> QED
  BY <1>17, <1>18, <1>19

-----------------------------------------------------------------------------
(* Each component's steps, as each of them sees them.                      *)

SameFrameFds ==
  /\ (watched \intersect FrameFds)' = watched \intersect FrameFds
  /\ (batch \intersect FrameFds)' = batch \intersect FrameFds

SameSocketFds ==
  /\ (watched \intersect SocketFds)' = watched \intersect SocketFds
  /\ (batch \intersect SocketFds)' = batch \intersect SocketFds

(* A closed socket has nothing on the loop, so that a poll after it is of   *)
(* the frames alone.                                                        *)
ClosedIsClosed == pc = "closed" => watched \intersect SocketFds = {}

(* A step of the frames on the loop is one on the descriptors of their own. *)
LEMMA FrameStepSeen ==
  ASSUME FrameCallbacks \/ FrameCalls \/ FrameWorld
  PROVE  FramesView!Next
<1> USE DEF FramesStep, FrameFds
<1>1. ASSUME Frames!WakeCallback
      PROVE  FramesView!WakeCallback
  BY <1>1 DEF Frames!WakeCallback, FramesView!WakeCallback, Frames!Turn,
     FramesView!Turn, Frames!Served, FramesView!Served, Frames!Drain,
     FramesView!Drain, Frames!Present, FramesView!Present, Frames!NoFrame,
     FramesView!NoFrame, Frames!ScheduleFrame, FramesView!ScheduleFrame,
     Frames!BackendMoving, FramesView!BackendMoving
<1>2. ASSUME Frames!TimerCallback
      PROVE  FramesView!TimerCallback
  BY <1>2 DEF Frames!TimerCallback, FramesView!TimerCallback, Frames!Turn,
     FramesView!Turn, Frames!Served, FramesView!Served, Frames!Drain,
     FramesView!Drain, Frames!Present, FramesView!Present, Frames!NoFrame,
     FramesView!NoFrame, Frames!ScheduleFrame, FramesView!ScheduleFrame,
     Frames!BackendMoving, FramesView!BackendMoving, Frames!ReadTimer,
     FramesView!ReadTimer
<1>3. ASSUME NEW opens \in BOOLEAN, NEW ticks \in BOOLEAN, Frames!Start(opens, ticks)
      PROVE  FramesView!Start(opens, ticks)
  BY <1>3 DEF Frames!Start, FramesView!Start, Frames!Watch, FramesView!Watch
<1>4. ASSUME Frames!Shutdown
      PROVE  FramesView!Shutdown
  BY <1>4 DEF Frames!Shutdown, FramesView!Shutdown, Frames!Unwatch,
     FramesView!Unwatch, Frames!CloseBackend, FramesView!CloseBackend,
     Frames!storeVars, FramesView!storeVars
<1>5. ASSUME Frames!RequestFrame
      PROVE  FramesView!RequestFrame
  BY <1>5 DEF Frames!RequestFrame, FramesView!RequestFrame,
     Frames!ScheduleFrame, FramesView!ScheduleFrame, Frames!storeVars,
     FramesView!storeVars
<1>6. CASE FrameCallbacks
  BY <1>1, <1>2, <1>6 DEF FrameCallbacks, FramesView!Next
<1>7. CASE FrameCalls
  BY <1>3, <1>4, <1>5, <1>7 DEF FrameCalls, FramesView!Next
<1>8. CASE FrameWorld
  BY <1>8 DEF FrameWorld, FramesView!Next, Frames!Publish,
     FramesView!Publish, Frames!ComesToRest, FramesView!ComesToRest,
     Frames!Expire, FramesView!Expire, Frames!schedulerVars,
     FramesView!schedulerVars, Frames!storeVars, FramesView!storeVars
<1> QED
  BY <1>6, <1>7, <1>8

(* To the socket, a step of the frames is a turn of theirs, which comes     *)
(* between two of its callbacks, or nothing.                                *)
LEMMA FramesTurnForTheSocket ==
  ASSUME FP!TypeOK, FP!TypeOK', FrameCallbacks \/ FrameCalls \/ FrameWorld
  PROVE  [SocketView!Next]_(SocketView!vars)
<1> USE DEF FramesStep, SocketFds, SameSocketFds
<1>1. SameSocketFds /\ UNCHANGED <<socketVars, config>> /\ (armed' = armed \/ InLoop)
  <2>1. CASE FrameCallbacks
    BY <2>1 DEF FrameCallbacks, Frames!WakeCallback, Frames!TimerCallback,
       Frames!Served
  <2>2. CASE FrameCalls
    BY <2>2 DEF FrameCalls, Frames!Start, Frames!Shutdown,
       Frames!RequestFrame, Frames!Watch, Frames!Unwatch
  <2>3. CASE FrameWorld
    BY <2>3 DEF FrameWorld, Frames!Publish, Frames!ComesToRest,
       Frames!Expire, Frames!schedulerVars
  <2> QED
    BY <2>1, <2>2, <2>3
<1>2. armed \in BOOLEAN /\ armed' \in BOOLEAN
  BY DEF FP!TypeOK
<1>3. CASE armed' = armed
  BY <1>1, <1>3 DEF socketVars, Settled, SocketView!vars,
     SocketView!controlVars, SocketView!peerVars, SocketView!historyVars
<1>4. CASE armed' # armed
  <2>1. SocketView!FrameTurns
    BY <1>1, <1>2, <1>4 DEF InLoop, socketVars, Settled,
       SocketView!FrameTurns, SocketView!Outside, SocketView!peerVars,
       SocketView!historyVars
  <2> QED
    BY <2>1 DEF SocketView!Next
<1> QED
  BY <1>3, <1>4

(* What the socket does to the loop is done to descriptors of its own.      *)
LEMMA SocketLeavesFrames ==
  ASSUME Socket!RunLine \/ SocketCallbacks \/ SocketCalls \/ SocketWorld
  PROVE  SameFrameFds
<1> USE DEF FrameFds, SameFrameFds
<1>1. ASSUME Socket!RunLine
      PROVE  SameFrameFds
  BY <1>1 DEF Socket!RunLine, Socket!KeepClient, Socket!Reply, Socket!Untaken,
     Socket!Park, Socket!DropClient, Socket!Armed, Socket!Disarmed,
     Socket!Unwatch
<1>2. ASSUME Socket!RunTooLong
      PROVE  SameFrameFds
  BY <1>2 DEF Socket!RunTooLong, Socket!DropClient, Socket!Disarmed,
     Socket!Unwatch
<1>3. ASSUME Socket!RunEnd
      PROVE  SameFrameFds
  BY <1>3 DEF Socket!RunEnd, Socket!DropClient, Socket!Disarmed,
     Socket!Unwatch
<1>4. ASSUME Socket!OnClient
      PROVE  SameFrameFds
  BY <1>4 DEF Socket!OnClient, Socket!Turn, Socket!Served, Socket!HungUp,
     Socket!historyVars
<1>5. ASSUME Socket!OnHangUp
      PROVE  SameFrameFds
  BY <1>5 DEF Socket!OnHangUp, Socket!Turn, Socket!DropClient,
     Socket!Disarmed, Socket!Unwatch
<1>6. ASSUME NEW watches \in BOOLEAN, Socket!OnAccept(watches)
      PROVE  SameFrameFds
  BY <1>6 DEF Socket!OnAccept, Socket!Turn, Socket!Served,
     Socket!historyVars
<1>7. ASSUME Socket!OnTimer
      PROVE  SameFrameFds
  BY <1>7 DEF Socket!OnTimer, Socket!Turn, Socket!Served, Socket!peerVars,
     Socket!historyVars
<1>8. ASSUME Socket!AnswerParked
      PROVE  SameFrameFds
  BY <1>8 DEF Socket!AnswerParked, Socket!Reply, Socket!Untaken, Socket!Park,
     Socket!KeepClient, Socket!DropClient, Socket!Armed, Socket!Disarmed,
     Socket!Unwatch
<1>9. ASSUME Socket!Close
      PROVE  SameFrameFds
  BY <1>9 DEF Socket!Close, Socket!Unwatch, Socket!Range,
     Socket!historyVars
<1>10. ASSUME NEW c \in Clients, Socket!Connect(c)
      PROVE  SameFrameFds
  BY <1>10 DEF Socket!Connect, Socket!Outside, Socket!peerVars,
     Socket!historyVars
<1>11. ASSUME NEW c \in Clients, Socket!Say(c)
      PROVE  SameFrameFds
  BY <1>11 DEF Socket!Say, Socket!Outside, Socket!historyVars
<1>12. ASSUME NEW c \in Clients, NEW how, Socket!Leave(c, how)
      PROVE  SameFrameFds
  BY <1>12 DEF Socket!Leave, Socket!Outside, Socket!historyVars
<1>13. ASSUME Socket!Expire
      PROVE  SameFrameFds
  BY <1>13 DEF Socket!Expire, Socket!Outside, Socket!peerVars,
     Socket!historyVars
<1>14. ASSUME Socket!DeadlinePasses
      PROVE  SameFrameFds
  BY <1>14 DEF Socket!DeadlinePasses, Socket!Outside, Socket!peerVars,
     Socket!historyVars
<1> HIDE DEF SameFrameFds
<1>15. SocketCallbacks => SameFrameFds
  BY <1>2, <1>3, <1>4, <1>5, <1>6, <1>7, <1>8
     DEF SocketCallbacks, SocketStep
<1>16. SocketCalls \/ SocketWorld => SameFrameFds
  BY <1>9, <1>10, <1>11, <1>12, <1>13, <1>14
     DEF SocketCalls, SocketWorld, SocketStep
<1> QED
  BY <1>1, <1>15, <1>16

(* What the socket's steps read of their lines is the same with the whole   *)
(* loop before them.                                                        *)
LEMMA SameLinesOnTheLoop ==
  /\ SocketView!HasLine = Socket!HasLine
  /\ SocketView!FirstLine = Socket!FirstLine
  /\ \A line : SocketView!Reads(line) = Socket!Reads(line)
  /\ \A rest : SocketView!Unheard(rest) = Socket!Unheard(rest)
<1>1. SocketView!HasLine = Socket!HasLine
  BY DEF SocketView!HasLine, Socket!HasLine, SocketView!Completes,
     Socket!Completes, SocketView!Reads, Socket!Reads
<1>2. SocketView!FirstLine = Socket!FirstLine
  BY DEF SocketView!FirstLine, Socket!FirstLine, SocketView!Completes,
     Socket!Completes, SocketView!Reads, Socket!Reads
<1>3. ASSUME NEW line
      PROVE  SocketView!Reads(line) = Socket!Reads(line)
  BY DEF SocketView!Reads, Socket!Reads
<1>4. ASSUME NEW rest
      PROVE  SocketView!Unheard(rest) = Socket!Unheard(rest)
  BY DEF SocketView!Unheard, Socket!Unheard, SocketView!Completes,
     Socket!Completes, SocketView!Reads, Socket!Reads, SocketView!Range,
     Socket!Range
<1> QED
  BY <1>1, <1>2, <1>3, <1>4

(* A step of the socket on the loop is one on the descriptors of its own.   *)
LEMMA SocketStepSeen ==
  ASSUME RunLine \/ SocketCallbacks \/ SocketCalls \/ SocketWorld
  PROVE  SocketView!Next
<1> USE DEF SocketFds, Settled
<1>1. ASSUME Socket!RunLine, UNCHANGED <<config, armed>>
      PROVE  SocketView!RunLine
  BY <1>1, SameLinesOnTheLoop DEF SocketView!RunLine, Socket!RunLine,
     SocketView!CanRun, Socket!CanRun, SocketView!KeepClient,
     Socket!KeepClient, SocketView!Reply, SocketView!Untaken, Socket!Reply,
     Socket!Untaken, SocketView!Park, Socket!Park, SocketView!Running,
     Socket!Running, SocketView!DropClient, Socket!DropClient,
     SocketView!Armed, Socket!Armed, SocketView!Disarmed, Socket!Disarmed,
     SocketView!Unwatch, Socket!Unwatch
<1>2. ASSUME Socket!RunTooLong, UNCHANGED <<config, armed>>
      PROVE  SocketView!RunTooLong
  BY <1>2, SameLinesOnTheLoop DEF SocketView!RunTooLong, Socket!RunTooLong,
     SocketView!CanRun, Socket!CanRun, SocketView!DropClient,
     Socket!DropClient, SocketView!Running, Socket!Running,
     SocketView!Disarmed, Socket!Disarmed, SocketView!Unwatch, Socket!Unwatch
<1>3. ASSUME Socket!RunEnd, UNCHANGED <<config, armed>>
      PROVE  SocketView!RunEnd
  BY <1>3, SameLinesOnTheLoop DEF SocketView!RunEnd, Socket!RunEnd,
     SocketView!Running, Socket!Running, SocketView!CanRun, Socket!CanRun,
     SocketView!DropClient, Socket!DropClient, SocketView!Disarmed,
     Socket!Disarmed, SocketView!Unwatch, Socket!Unwatch
<1>4. ASSUME Socket!OnClient, UNCHANGED <<config, armed>>
      PROVE  SocketView!OnClient
  BY <1>4, SameLinesOnTheLoop DEF SocketView!OnClient, Socket!OnClient,
     SocketView!Turn, Socket!Turn, SocketView!Served, Socket!Served,
     SocketView!HungUp, Socket!HungUp, SocketView!historyVars,
     Socket!historyVars
<1>5. ASSUME Socket!OnHangUp, UNCHANGED <<config, armed>>
      PROVE  SocketView!OnHangUp
  BY <1>5, SameLinesOnTheLoop DEF SocketView!OnHangUp, Socket!OnHangUp,
     SocketView!Turn, Socket!Turn, SocketView!DropClient, Socket!DropClient,
     SocketView!Disarmed, Socket!Disarmed, SocketView!Unwatch, Socket!Unwatch
<1>6. ASSUME NEW watches \in BOOLEAN, Socket!OnAccept(watches), UNCHANGED <<config, armed>>
      PROVE  SocketView!OnAccept(watches)
  BY <1>6, SameLinesOnTheLoop DEF SocketView!OnAccept, Socket!OnAccept,
     SocketView!Turn, Socket!Turn, SocketView!Served, Socket!Served,
     SocketView!historyVars, Socket!historyVars
<1>7. ASSUME Socket!OnTimer, UNCHANGED <<config, armed>>
      PROVE  SocketView!OnTimer
  BY <1>7, SameLinesOnTheLoop DEF SocketView!OnTimer, Socket!OnTimer,
     SocketView!Turn, Socket!Turn, SocketView!Served, Socket!Served,
     SocketView!peerVars, Socket!peerVars, SocketView!historyVars,
     Socket!historyVars
<1>8. ASSUME Socket!AnswerParked, UNCHANGED <<config, armed>>
      PROVE  SocketView!AnswerParked
  BY <1>8, SameLinesOnTheLoop DEF SocketView!AnswerParked,
     Socket!AnswerParked, SocketView!ParkIsOver, Socket!ParkIsOver,
     SocketView!Reply, SocketView!Untaken, Socket!Reply, Socket!Untaken,
     SocketView!Park, Socket!Park, SocketView!KeepClient, Socket!KeepClient,
     SocketView!DropClient, Socket!DropClient, SocketView!Armed, Socket!Armed,
     SocketView!Disarmed, Socket!Disarmed, SocketView!Unwatch, Socket!Unwatch
<1>9. ASSUME Socket!Close, UNCHANGED <<config, armed>>
      PROVE  SocketView!Close
  BY <1>9, SameLinesOnTheLoop DEF SocketView!Close, Socket!Close,
     SocketView!Unwatch, Socket!Unwatch, SocketView!Range, Socket!Range,
     SocketView!historyVars, Socket!historyVars
<1>10. ASSUME NEW c \in Clients, Socket!Connect(c), UNCHANGED <<config, armed>>
      PROVE  SocketView!Connect(c)
  BY <1>10, SameLinesOnTheLoop DEF SocketView!Connect, Socket!Connect,
     SocketView!Outside, Socket!Outside, SocketView!peerVars, Socket!peerVars,
     SocketView!historyVars, Socket!historyVars
<1>11. ASSUME NEW c \in Clients, Socket!Say(c), UNCHANGED <<config, armed>>
      PROVE  SocketView!Say(c)
  BY <1>11, SameLinesOnTheLoop DEF SocketView!Say, Socket!Say,
     SocketView!Outside, Socket!Outside, SocketView!historyVars,
     Socket!historyVars
<1>12. ASSUME NEW c \in Clients, NEW how, Socket!Leave(c, how), UNCHANGED <<config, armed>>
      PROVE  SocketView!Leave(c, how)
  BY <1>12, SameLinesOnTheLoop DEF SocketView!Leave, Socket!Leave,
     SocketView!Outside, Socket!Outside, SocketView!historyVars,
     Socket!historyVars
<1>13. ASSUME Socket!Expire, UNCHANGED <<config, armed>>
      PROVE  SocketView!Expire
  BY <1>13, SameLinesOnTheLoop DEF SocketView!Expire, Socket!Expire,
     SocketView!Outside, Socket!Outside, SocketView!peerVars, Socket!peerVars,
     SocketView!historyVars, Socket!historyVars
<1>14. ASSUME Socket!DeadlinePasses, UNCHANGED <<config, armed>>
      PROVE  SocketView!DeadlinePasses
  BY <1>14, SameLinesOnTheLoop DEF SocketView!DeadlinePasses,
     Socket!DeadlinePasses, SocketView!Outside, Socket!Outside,
     SocketView!peerVars, Socket!peerVars, SocketView!historyVars,
     Socket!historyVars
<1>15. RunLine => SocketView!Next
  BY <1>1 DEF RunLine, SocketView!Next
<1>16. SocketCallbacks => SocketView!Next
  BY <1>2, <1>3, <1>4, <1>5, <1>6, <1>7, <1>8
     DEF SocketCallbacks, SocketStep, frameVars, SocketView!Next
<1>17. SocketCalls \/ SocketWorld => SocketView!Next
  BY <1>9, <1>10, <1>11, <1>12, <1>13, <1>14
     DEF SocketCalls, SocketWorld, SocketStep, frameVars, SocketView!Next
<1> QED
  BY <1>15, <1>16, <1>17

(* To the frames, a step of the socket is nothing, or a press that the      *)
(* application publishes.                                                   *)
LEMMA SocketIsAStoreForTheFrames ==
  ASSUME FP!TypeOK, RunLine \/ SocketCallbacks \/ SocketCalls \/ SocketWorld
  PROVE  [FramesView!Next]_(FramesView!fsVars)
<1>1. SameFrameFds
  BY SocketLeavesFrames DEF RunLine
<1>2. CASE RunLine
  <2>1. CASE Presses(in[Socket!FirstLine]) /\ ~pending
    <3>1. FramesView!Publish
      BY <1>1, <1>2, <2>1 DEF RunLine, SameFrameFds, FramesView!Publish,
         FramesView!schedulerVars
    <3> QED
      BY <3>1 DEF FramesView!Next
  <2>2. CASE ~(Presses(in[Socket!FirstLine]) /\ ~pending)
    <3>1. pending' = pending /\ drew' = drew
      BY <1>2, <2>2 DEF RunLine, FP!TypeOK
    <3> QED
      BY <1>1, <1>2, <3>1 DEF RunLine, SameFrameFds, FramesView!fsVars,
         FramesView!schedulerVars, FramesView!storeVars
  <2> QED
    BY <2>1, <2>2
<1>3. CASE SocketCallbacks \/ SocketCalls \/ SocketWorld
  BY <1>1, <1>3 DEF SocketCallbacks, SocketCalls, SocketWorld, SocketStep,
     frameVars, SameFrameFds, FramesView!fsVars, FramesView!schedulerVars,
     FramesView!storeVars
<1> QED
  BY <1>2, <1>3

(* To each, a poll is a poll that found what is its own, or nothing.        *)
LEMMA PollSeen ==
  ASSUME ClosedIsClosed, Poll
  PROVE  /\ [FramesView!Next]_(FramesView!fsVars)
         /\ [SocketView!Next]_(SocketView!vars)
<1> DEFINE ready == SocketView!ListenReady \union SocketView!TimerReady
                      \union SocketView!ClientReady
<1>1. Frames!Ready = FramesView!Ready /\ FramesView!Ready \subseteq FrameFds
  BY DEF Frames!Ready, FramesView!Ready, FrameFds
<1>2. /\ ready = Socket!ListenReady \union Socket!TimerReady \union Socket!ClientReady
      /\ ready \subseteq SocketFds
  BY DEF Socket!ListenReady, Socket!TimerReady, Socket!ClientReady,
     SocketFds, SocketView!ListenReady, SocketView!TimerReady,
     SocketView!ClientReady, SocketView!HungUp, Socket!HungUp
<1> HIDE DEF ready
<1>3. /\ batch = {} /\ watched' = watched
      /\ (batch \intersect FrameFds)' = FramesView!Ready \intersect (watched \intersect FrameFds)
      /\ (batch \intersect SocketFds)' = ready \intersect (watched \intersect SocketFds)
      /\ UNCHANGED <<socketVars, config, armed>>
  BY <1>1, <1>2 DEF Poll, Collect, FrameFds, SocketFds
<1>4. [FramesView!Next]_(FramesView!fsVars)
  <2>1. CASE (batch \intersect FrameFds)' = {}
    BY <1>3, <2>1 DEF Poll, FramesView!fsVars, FramesView!schedulerVars,
       FramesView!storeVars
  <2>2. CASE (batch \intersect FrameFds)' # {}
    <3>1. FramesView!Poll
      BY <1>3, <2>2 DEF Poll, FramesView!Poll, FramesView!Collect,
         FramesView!schedulerVars, FramesView!storeVars
    <3> QED
      BY <3>1 DEF FramesView!Next
  <2> QED
    BY <2>1, <2>2
<1>5. [SocketView!Next]_(SocketView!vars)
  <2>1. CASE (batch \intersect SocketFds)' = {}
    BY <1>3, <2>1 DEF Settled, socketVars, SocketView!vars,
       SocketView!controlVars, SocketView!peerVars, SocketView!historyVars
  <2>2. CASE (batch \intersect SocketFds)' # {}
    <3>1. pc = "idle" /\ ~stopping
      BY <1>3, <2>2 DEF ClosedIsClosed, Poll, InLoop
    <3>2. SocketView!Poll
      BY <1>3, <2>2, <3>1 DEF ready, Settled, socketVars, SocketView!Poll,
         SocketView!Collect, SocketView!controlVars, SocketView!peerVars,
         SocketView!historyVars
    <3> QED
      BY <3>2 DEF SocketView!Next
  <2> QED
    BY <2>1, <2>2
<1> QED
  BY <1>4, <1>5

(* Nothing comes back onto the loop of a closed socket.                     *)
LEMMA ClosedStep ==
  ASSUME ClosedIsClosed, [SocketView!Next]_(SocketView!vars)
  PROVE  ClosedIsClosed'
<1>1. CASE SocketView!Close
  BY <1>1 DEF ClosedIsClosed, SocketView!Close, SocketView!Unwatch, SocketFds
<1>2. CASE pc # "closed" /\ ~SocketView!Close /\ SocketView!Next
  <2>1. pc' # "closed"
    BY <1>2 DEF SocketView!Next, SocketView!RunLine, SocketView!RunTooLong,
       SocketView!RunEnd, SocketView!OnClient, SocketView!OnHangUp,
       SocketView!OnAccept, SocketView!OnTimer, SocketView!AnswerParked,
       SocketView!Connect, SocketView!Say, SocketView!Leave,
       SocketView!FrameTurns, SocketView!Outside, SocketView!Expire,
       SocketView!DeadlinePasses, SocketView!Poll, SocketView!controlVars
  <2> QED
    BY <2>1 DEF ClosedIsClosed
<1>3. CASE pc = "closed" /\ SocketView!Next
  <2>1. (watched \intersect SocketFds)' = watched \intersect SocketFds
    BY <1>3 DEF SocketView!Next, SocketView!RunLine, SocketView!RunTooLong,
       SocketView!RunEnd, SocketView!CanRun, SocketView!Running,
       SocketView!OnClient, SocketView!OnHangUp, SocketView!OnAccept,
       SocketView!OnTimer, SocketView!AnswerParked, SocketView!Close,
       SocketView!Connect, SocketView!Say, SocketView!Leave,
       SocketView!FrameTurns, SocketView!Outside, SocketView!Expire,
       SocketView!DeadlinePasses, SocketView!Poll
  <2> QED
    BY <1>3, <2>1 DEF ClosedIsClosed
<1>4. CASE UNCHANGED SocketView!vars
  BY <1>4 DEF ClosedIsClosed, SocketView!vars, SocketView!controlVars
<1> QED
  BY <1>1, <1>2, <1>3, <1>4

-----------------------------------------------------------------------------
(* Each component keeps its specification: whatever is served in a batch,   *)
(* in whatever order, and whatever the other does between, each takes only  *)
(* steps of its own.  What is proved of it alone so holds on the loop.      *)
LEMMA StepOfEach ==
  ASSUME FP!TypeOK, ClosedIsClosed, [Next]_vars
  PROVE  /\ [FramesView!Next]_(FramesView!fsVars)
         /\ [SocketView!Next]_(SocketView!vars)
         /\ FP!TypeOK' /\ ClosedIsClosed'
<1>1. [FramesView!Next]_(FramesView!fsVars)
  <2>1. CASE UNCHANGED vars
    BY <2>1 DEF vars, frameVars, loopVars, FramesView!fsVars,
       FramesView!schedulerVars, FramesView!storeVars
  <2> QED
    BY <2>1, FrameStepSeen, SocketIsAStoreForTheFrames, PollSeen DEF Next
<1>2. FP!TypeOK'
  BY <1>1, TheScheduler, FP!TypeStep
<1>3. [SocketView!Next]_(SocketView!vars)
  <2>1. CASE UNCHANGED vars
    BY <2>1 DEF vars, frameVars, socketVars, loopVars, Settled,
       SocketView!vars, SocketView!controlVars, SocketView!peerVars,
       SocketView!historyVars
  <2> QED
    BY <1>2, <2>1, FramesTurnForTheSocket, SocketStepSeen, PollSeen DEF Next
<1> QED
  BY <1>1, <1>2, <1>3, ClosedStep

(* On one loop the scheduler is still the scheduler of its own module and   *)
(* the socket the socket of its own: whatever is served in a batch, in      *)
(* whatever order, and whatever the other does between.                     *)
THEOREM EachKeepsItsSpec == Spec => EachIsItself
<1>1. Init => FP!TypeOK /\ ClosedIsClosed
  BY DEF Init, FramesView!Init, FramesView!LoopInit, FramesView!Hooks,
     SocketView!Init, FP!TypeOK, FP!Hooks, ClosedIsClosed
<1>2. FP!TypeOK /\ ClosedIsClosed /\ [Next]_vars => (FP!TypeOK /\ ClosedIsClosed)'
  BY StepOfEach
<1>3. FP!TypeOK /\ ClosedIsClosed /\ [Next]_vars
        => [FramesView!Next]_(FramesView!fsVars) /\ [SocketView!Next]_(SocketView!vars)
  BY StepOfEach
<1>4. Init => FramesView!Init /\ SocketView!Init
  BY DEF Init
<1> QED
  BY <1>1, <1>2, <1>3, <1>4, PTL
     DEF Spec, EachIsItself, FramesView!Spec, SocketView!Spec

(* And so what is proved of each holds of both. *)
LEMMA WhatEachKnows ==
  Spec => [](FP!Held /\ FP!NoStaleFrame /\ FP!TimerFollowsMotion /\ CP!ControlInv)
<1>1. CP!ControlAssumption /\ CP!DeafAssumption
  BY InkstandAssumption DEF CP!ControlAssumption, CP!DeafAssumption,
     CP!Verbs, Socket!Verbs
<1>2. [FramesView!Next]_(FramesView!fsVars) => [FP!Next]_(FP!fsVars)
  BY TheScheduler
<1>3. [SocketView!Next]_(SocketView!vars) => [CP!Next]_(CP!vars)
  BY TheSocket
<1>4. EachIsItself => FP!Spec /\ CP!Spec
  BY <1>2, <1>3, TheScheduler, TheSocket, PTL
     DEF EachIsItself, FramesView!Spec, SocketView!Spec, FP!Spec, CP!Spec
<1> QED
  BY <1>1, <1>4, EachKeepsItsSpec, FP!ResourcesAndArming, FP!NeverStale,
     FP!MotionIsFollowed, CP!ControlInvHolds, PTL

(* On one loop too nothing stale is drawn, the timer runs for what moves    *)
(* and for nothing else, and each command has its one answer, in order.     *)
THEOREM BothKeepTheirWord ==
  Spec => [](/\ FramesView!NoStaleFrame /\ FramesView!TimerFollowsMotion
             /\ SocketView!AnswersInOrder)
<1>1. FP!NoStaleFrame /\ FP!TimerFollowsMotion
        => FramesView!NoStaleFrame /\ FramesView!TimerFollowsMotion
  BY DEF FP!NoStaleFrame, FP!TimerFollowsMotion, FP!StillScreenCostsNothing,
     FP!MovingKeepsDrawing, FP!BackendMoving, FramesView!NoStaleFrame,
     FramesView!TimerFollowsMotion, FramesView!StillScreenCostsNothing,
     FramesView!MovingKeepsDrawing, FramesView!BackendMoving
<1>2. CP!ControlInv => SocketView!AnswersInOrder
  <2>1. \A c : SocketView!Due(c) = CP!Due(c)
    BY SameLines DEF SocketView!Due, CP!Due
  <2> QED
    BY <2>1 DEF CP!ControlInv, CP!AnswersInOrder, CP!AnsweredInOrder, CP!Range,
       SocketView!AnswersInOrder, SocketView!AnsweredInOrder, SocketView!Range
<1> QED
  BY <1>1, <1>2, WhatEachKnows, PTL

-----------------------------------------------------------------------------
(* Pictures. *)

(* What the scheduler and the socket know between them, and the hooks the   *)
(* program began with.                                                      *)
Known ==
  /\ FP!Held /\ FP!TimerFollowsMotion /\ CP!ControlInv
  /\ config.armMayFail = ArmMayFail

(* The hooks stay as they are. *)
LEMMA KnownHolds == Spec => []Known
<1>1. Init => config.armMayFail = ArmMayFail
  BY DEF Init
<1>2. config.armMayFail = ArmMayFail /\ [Next]_vars
        => (config.armMayFail = ArmMayFail)'
  <2>1. [Next]_vars => UNCHANGED config
    BY DEF Next, vars, frameVars, FrameCallbacks, FrameCalls, FrameWorld,
       FramesStep, Frames!WakeCallback, Frames!TimerCallback, Frames!Start,
       Frames!Shutdown, Frames!RequestFrame, Frames!Publish,
       Frames!ComesToRest, Frames!Expire, RunLine, SocketCallbacks,
       SocketCalls, SocketWorld, SocketStep, Poll
  <2> QED
    BY <2>1
<1> QED
  BY <1>1, <1>2, WhatEachKnows, PTL DEF Spec, Known

(* A parked command is answered by the control's timer alone.               *)
LEMMA OnlyTheTimerAnswersAShot ==
  ASSUME Next, waiting = "SETTLING", answers' # answers
  PROVE  /\ pc = "timer"
         /\ armed => late
<1>1. SocketCallbacks
  BY DEF Next, FrameCallbacks, FrameCalls, FrameWorld, FramesStep, socketVars,
     RunLine, Socket!RunLine, Socket!CanRun, SocketCalls, SocketWorld,
     SocketStep, Socket!Close, Socket!historyVars, Socket!Connect, Socket!Say,
     Socket!Leave, Socket!Expire, Socket!DeadlinePasses, Socket!Outside, Poll
<1>2. Socket!AnswerParked
  BY <1>1 DEF SocketCallbacks, SocketStep, Socket!RunTooLong, Socket!RunEnd,
     Socket!OnClient, Socket!OnHangUp, Socket!OnAccept, Socket!OnTimer,
     Socket!historyVars
<1>3. Socket!ParkIsOver
  BY <1>2 DEF Socket!AnswerParked, Socket!Park
<1> QED
  BY <1>2, <1>3 DEF Socket!AnswerParked, Socket!ParkIsOver, Settled

(* A picture answered as settled, not because its time was up, is of a      *)
(* screen at rest: nothing can begin to move between the frame it settled   *)
(* after and the answer.                                                    *)
THEOREM PicturesAreStill == Spec => SettledShotIsStill
<1>1. Known /\ [Next]_vars
        => [ShotTaken /\ ~late /\ timerOpen /\ ~ArmMayFail => ~Frames!BackendMoving]_vars
  <2> SUFFICES ASSUME Known, Next, ShotTaken, ~late, timerOpen, ~ArmMayFail
               PROVE  ~Frames!BackendMoving
    OBVIOUS
  <2>1. ~armed
    BY OnlyTheTimerAnswersAShot DEF ShotTaken
  <2> QED
    BY <2>1 DEF Known, FP!TimerFollowsMotion, FP!MovingKeepsDrawing,
       FP!BackendMoving, Frames!BackendMoving
<1> QED
  BY <1>1, KnownHolds, PTL DEF Spec, SettledShotIsStill

(* Once a shot waits, a key that no frame has shown yet has its wake in the *)
(* batch that will answer the shot: the poll that found the shot's timer    *)
(* found the wake with it, because no line runs between the two.            *)
KeyIsOnItsWay ==
  keyed => /\ pending
           /\ waiting = "SETTLING" /\ ("ctimer" \in batch \/ pc = "timer")
                /\ backend /\ presented
                => "wake" \in batch

(* Nothing that is served, drawn, said or polled for parts the two.         *)
LEMMA KeyStep ==
  ASSUME Known, ~ArmMayFail, KeyIsOnItsWay, [Next]_vars
  PROVE  KeyIsOnItsWay'
<1>1. CASE FrameCallbacks
  BY <1>1 DEF FrameCallbacks, FramesStep, Frames!WakeCallback,
     Frames!TimerCallback, Frames!Drain, KeyIsOnItsWay
<1>2. CASE FrameCalls
  BY <1>2 DEF FrameCalls, FramesStep, socketVars, Frames!Start,
     Frames!Shutdown, Frames!RequestFrame, Frames!storeVars, KeyIsOnItsWay
<1>3. CASE FrameWorld
  BY <1>3 DEF FrameWorld, FramesStep, socketVars, Frames!Publish,
     Frames!ComesToRest, Frames!Expire, Frames!schedulerVars,
     Frames!storeVars, KeyIsOnItsWay
<1>4. CASE RunLine
  <2>1. Socket!Running /\ client # None /\ waiting = "READY" /\ pc' = pc
    BY <1>4 DEF RunLine, Socket!RunLine, Socket!CanRun
  <2>2. "ctimer" \notin batch
    BY <2>1 DEF Known, CP!ControlInv, CP!TimerKnown, Socket!Running,
       CP!Running, SocketFds
  <2>3. batch' \subseteq batch
    BY <1>4 DEF RunLine, Socket!RunLine, Socket!KeepClient, Socket!Reply,
       Socket!Untaken, Socket!Park, Socket!DropClient, Socket!Unwatch
  <2> QED
    BY <1>4, <2>1, <2>2, <2>3 DEF RunLine, Socket!Running, KeyIsOnItsWay
<1>5. CASE SocketCallbacks \/ SocketCalls \/ SocketWorld
  <2>1. UNCHANGED <<keyed, pending, backend, presented>>
    BY <1>5 DEF SocketCallbacks, SocketCalls, SocketWorld, SocketStep, frameVars
  <2>2. "wake" \in batch => "wake" \in batch'
    BY <1>5, SocketLeavesFrames DEF SameFrameFds, FrameFds
  <2>3. waiting' = "SETTLING" /\ ("ctimer" \in batch' \/ pc' = "timer")
          => waiting = "SETTLING" /\ ("ctimer" \in batch \/ pc = "timer")
    <3>1. CASE SocketCallbacks
      BY <3>1 DEF SocketCallbacks, SocketStep, Socket!RunTooLong,
         Socket!RunEnd, Socket!OnClient, Socket!OnHangUp, Socket!OnAccept,
         Socket!OnTimer, Socket!AnswerParked, Socket!Turn, Socket!Served,
         Socket!Reply, Socket!Untaken, Socket!Park, Socket!KeepClient,
         Socket!DropClient, Socket!Unwatch
    <3>2. CASE SocketCalls \/ SocketWorld
      BY <3>2 DEF SocketCalls, SocketWorld, SocketStep, Socket!Close,
         Socket!Connect, Socket!Say, Socket!Leave, Socket!Expire,
         Socket!DeadlinePasses, Socket!Outside
    <3> QED
      BY <1>5, <3>1, <3>2
  <2> QED
    BY <2>1, <2>2, <2>3 DEF KeyIsOnItsWay
<1>6. CASE Poll
  <2>1. backend => "wake" \in watched
    BY DEF Known, FP!Held, FP!ClosesWhatItOpened
  <2> QED
    BY <1>6, <2>1 DEF Poll, InLoop, Collect, Frames!Ready, socketVars,
       KeyIsOnItsWay
<1>7. CASE UNCHANGED vars
  BY <1>7 DEF vars, frameVars, socketVars, loopVars, KeyIsOnItsWay
<1> QED
  BY <1>1, <1>2, <1>3, <1>4, <1>5, <1>6, <1>7 DEF Next

(* A picture taken after a key shows what the key did, for any peers and    *)
(* anything they say, unless its wake is still in the batch that answers.   *)
THEOREM PicturesShowTheKey == Spec => ShotShowsServedKeys
<1>1. Init => (~ArmMayFail => KeyIsOnItsWay)
  BY DEF Init, KeyIsOnItsWay
<1>2. Known /\ (~ArmMayFail => KeyIsOnItsWay) /\ [Next]_vars
        => (~ArmMayFail => KeyIsOnItsWay)'
  BY KeyStep
<1>3. (~ArmMayFail => KeyIsOnItsWay) /\ [Next]_vars
        => [ShotTaken /\ ~ArmMayFail /\ "wake" \notin batch => ~keyed]_vars
  <2> SUFFICES ASSUME KeyIsOnItsWay, Next, ShotTaken, "wake" \notin batch
               PROVE  ~keyed
    OBVIOUS
  <2> QED
    BY OnlyTheTimerAnswersAShot DEF ShotTaken, KeyIsOnItsWay
<1> QED
  BY <1>1, <1>2, <1>3, KnownHolds, PTL DEF Spec, ShotShowsServedKeys
=============================================================================
