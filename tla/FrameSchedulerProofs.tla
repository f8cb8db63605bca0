------------------------ MODULE FrameSchedulerProofs ------------------------
(***************************************************************************)
(* Theorems about FrameScheduler, for every set of hooks, any order of     *)
(* serving a batch, and a timer that may or may not refuse.                *)
(***************************************************************************)
EXTENDS FrameScheduler, TLAPS

(* No handler or call takes a variable out of its type. *)
LEMMA TypeStep == TypeOK /\ [Next]_fsVars => TypeOK'
<1> SUFFICES ASSUME TypeOK, [Next]_fsVars
             PROVE  TypeOK'
  OBVIOUS
<1> USE DEF TypeOK, schedulerVars, storeVars
<1>1. CASE WakeCallback
  BY <1>1 DEF WakeCallback, Served, Drain, Present, NoFrame,
              ScheduleFrame, BackendMoving
<1>2. CASE TimerCallback
  BY <1>2 DEF TimerCallback, Served, Drain, Present, NoFrame,
              ScheduleFrame, BackendMoving, ReadTimer
<1>3. ASSUME NEW opens \in BOOLEAN, NEW ticks \in BOOLEAN,
             Start(opens, ticks)
      PROVE  TypeOK'
  BY <1>3 DEF Start, Watch, Hooks
<1>4. ASSUME NEW opens \in BOOLEAN, StartRefused(opens)
      PROVE  TypeOK'
  BY <1>4 DEF StartRefused, CloseBackend
<1>5. CASE Shutdown
  BY <1>5 DEF Shutdown, Unwatch, CloseBackend
<1>6. CASE RequestFrame
  BY <1>6 DEF RequestFrame, ScheduleFrame
<1>7. CASE Publish
  BY <1>7 DEF Publish
<1>8. CASE ComesToRest
  BY <1>8 DEF ComesToRest
<1>9. CASE Expire
  BY <1>9 DEF Expire
<1>10. CASE Poll
  BY <1>10 DEF Poll, Collect
<1>11. CASE UNCHANGED fsVars
  BY <1>11 DEF fsVars
<1> QED
  BY <1>1, <1>2, <1>3, <1>4, <1>5, <1>6, <1>7, <1>8, <1>9, <1>10, <1>11
     DEF Next

(* A descriptor waiting in the batch is one still on the loop, whatever is  *)
(* removed, and every variable has its type.                                *)
THEOREM TypeCorrect == Spec => []TypeOK
<1>1. Init => TypeOK
  BY DEF Init, TypeOK, LoopInit
<1> QED
  BY <1>1, TypeStep, PTL DEF Spec

-----------------------------------------------------------------------------
(* On every path, an init refused half way and a shutdown in the middle of  *)
(* a batch included, the loop, the timer and the backend are given back,    *)
(* and a frame recorded as armed is one the loop will deliver.              *)
THEOREM ResourcesAndArming == Spec => []Held
<1>1. Init => Held
  BY DEF Init, Held, TypeOK, LoopInit, ClosesWhatItOpened, ArmedFrameWillFire
<1>2. TypeOK' /\ Held /\ [Next]_fsVars => Held'
  <2> SUFFICES ASSUME TypeOK', Held, [Next]_fsVars
               PROVE  ClosesWhatItOpened' /\ ArmedFrameWillFire'
    BY DEF Held
  <2> USE DEF Held, TypeOK, schedulerVars, storeVars, ClosesWhatItOpened,
              ArmedFrameWillFire
  <2>1. CASE WakeCallback
    BY <2>1 DEF WakeCallback, Drain, ScheduleFrame
  <2>2. CASE TimerCallback
    <3>1. timerOpen
      BY <2>2 DEF TimerCallback, Turn
    <3> QED
      BY <2>2, <3>1 DEF TimerCallback, Drain, ScheduleFrame
  <2>3. ASSUME NEW opens \in BOOLEAN, NEW ticks \in BOOLEAN,
               Start(opens, ticks)
        PROVE  ClosesWhatItOpened' /\ ArmedFrameWillFire'
    <3>1. watched = {}
      BY <2>3 DEF Start
    <3> QED
      BY <2>3, <3>1 DEF Start, Watch, Hooks
  <2>4. ASSUME NEW opens \in BOOLEAN, StartRefused(opens)
        PROVE  ClosesWhatItOpened' /\ ArmedFrameWillFire'
    BY <2>4 DEF StartRefused, CloseBackend
  <2>5. CASE Shutdown
    BY <2>5 DEF Shutdown, Unwatch, CloseBackend
  <2>6. CASE RequestFrame
    BY <2>6 DEF RequestFrame, ScheduleFrame
  <2>7. CASE Publish
    BY <2>7 DEF Publish
  <2>8. CASE ComesToRest
    BY <2>8 DEF ComesToRest
  <2>9. CASE Expire
    BY <2>9 DEF Expire
  <2>10. CASE Poll
    BY <2>10 DEF Poll, Collect
  <2>11. CASE UNCHANGED fsVars
    BY <2>11 DEF fsVars
  <2> QED
    BY <2>1, <2>2, <2>3, <2>4, <2>5, <2>6, <2>7, <2>8, <2>9, <2>10, <2>11
       DEF Next
<1> QED
  BY <1>1, <1>2, TypeCorrect, PTL DEF Spec

-----------------------------------------------------------------------------
(* A frame drawn by the timer, whatever else is in its batch, never shows   *)
(* a snapshot older than the store's.                                       *)
THEOREM NeverStale == Spec => []NoStaleFrame
<1>1. Init => NoStaleFrame
  BY DEF Init, NoStaleFrame
<1>2. NoStaleFrame /\ [Next]_fsVars => NoStaleFrame'
  <2> SUFFICES ASSUME NoStaleFrame, [Next]_fsVars
               PROVE  NoStaleFrame'
    OBVIOUS
  <2>1. CASE WakeCallback \/ TimerCallback
    BY <2>1 DEF WakeCallback, TimerCallback, Drain, NoStaleFrame
  <2>2. CASE UNCHANGED fsVars
    BY <2>2 DEF fsVars, storeVars, NoStaleFrame
  <2>3. CASE Next /\ ~(WakeCallback \/ TimerCallback)
    BY <2>3 DEF Next, Start, StartRefused, Shutdown, RequestFrame, Publish,
                ComesToRest, Expire, Poll, NoStaleFrame
  <2> QED
    BY <2>1, <2>2, <2>3
<1> QED
  BY <1>1, <1>2, PTL DEF Spec

(* What is drained is drawn as a change there and then, and announced by    *)
(* that frame alone: the timer's frames of a snapshot the panel already has *)
(* say that nothing changed.                                                *)
THEOREM DrawnOnce == Spec => EveryChangeIsDrawnOnce
<1>1. TypeOK /\ ClosesWhatItOpened /\ [Next]_fsVars
        => [registered' /\ pending /\ ~pending' /\ backend
              => drew' = "change"]_fsVars
  <2> SUFFICES ASSUME TypeOK, ClosesWhatItOpened, Next,
                      registered', pending, ~pending', backend
               PROVE  drew' = "change"
    BY DEF Next
  <2>1. registered
    BY DEF ClosesWhatItOpened
  <2>2. CASE WakeCallback \/ TimerCallback
    BY <2>2 DEF WakeCallback, TimerCallback, Drain, Present
  <2>3. CASE Next /\ ~(WakeCallback \/ TimerCallback)
    BY <2>1, <2>3 DEF Next, Start, StartRefused, Shutdown, RequestFrame,
                      Publish, ComesToRest, Expire, Poll, storeVars
  <2> QED
    BY <2>2, <2>3
<1>2. TypeOK /\ [Next]_fsVars
        => [drew' = "change" /\ config.unchanged => pending]_fsVars
  <2> SUFFICES ASSUME TypeOK, Next, drew' = "change", config.unchanged
               PROVE  pending
    BY DEF Next
  <2>1. CASE WakeCallback
    BY <2>1 DEF WakeCallback, NoFrame
  <2>2. CASE TimerCallback
    <3>1. presented' /\ backend /\ changed'
      BY <2>2 DEF TimerCallback, Present, NoFrame
    <3>2. pending \/ presented
      BY <2>2, <3>1 DEF TimerCallback, Drain
    <3> QED
      BY <2>2, <3>1, <3>2 DEF TimerCallback, Drain
  <2>3. CASE Next /\ ~(WakeCallback \/ TimerCallback)
    BY <2>3 DEF Next, Start, StartRefused, Shutdown, RequestFrame, Publish,
                ComesToRest, Expire, Poll
  <2> QED
    BY <2>1, <2>2, <2>3
<1>3. TypeOK /\ ClosesWhatItOpened /\ [Next]_fsVars
        => [/\ registered' /\ pending /\ ~pending' /\ backend => drew' = "change"
            /\ drew' = "change" /\ config.unchanged => pending]_fsVars
  BY <1>1, <1>2
<1> QED
  BY <1>3, ResourcesAndArming, PTL DEF Spec, Held, EveryChangeIsDrawnOnce

-----------------------------------------------------------------------------
(* Between two callbacks the timer holds a deadline exactly for an armed    *)
(* frame, and a frame is armed for whatever still moves.                    *)
Timely == Held /\ StillScreenCostsNothing /\ MovingKeepsDrawing

(* While arming works, the timer runs for what moves and for nothing else:  *)
(* what moves gets its next frame, and a settled screen has no deadline.    *)
THEOREM MotionIsFollowed == Spec => []TimerFollowsMotion
<1>1. Init => StillScreenCostsNothing /\ MovingKeepsDrawing
  BY DEF Init, StillScreenCostsNothing, MovingKeepsDrawing
<1>2. Held /\ Held' /\ StillScreenCostsNothing /\ MovingKeepsDrawing
        /\ [Next]_fsVars
      => (StillScreenCostsNothing /\ MovingKeepsDrawing)'
  <2> SUFFICES ASSUME Timely, Held', [Next]_fsVars, ~config'.armMayFail
               PROVE  /\ ~armed' => timer' = "off"
                      /\ timerOpen' /\ BackendMoving' => armed'
    BY DEF Timely, StillScreenCostsNothing, MovingKeepsDrawing
  <2> USE DEF Timely, Held, TypeOK, StillScreenCostsNothing,
              MovingKeepsDrawing, ArmedFrameWillFire, ClosesWhatItOpened,
              schedulerVars, storeVars
  <2>1. CASE WakeCallback
    BY <2>1 DEF WakeCallback, ScheduleFrame
  <2>2. CASE TimerCallback
    <3>1. timerOpen
      BY <2>2 DEF TimerCallback, Turn
    <3> QED
      BY <2>2, <3>1 DEF TimerCallback, ScheduleFrame
  <2>3. ASSUME NEW opens \in BOOLEAN, NEW ticks \in BOOLEAN,
               Start(opens, ticks)
        PROVE  /\ timer' = "off" /\ ~moving'
    BY <2>3 DEF Start
  <2>4. ASSUME NEW opens \in BOOLEAN, StartRefused(opens)
        PROVE  timer' = "off" /\ ~moving'
    BY <2>4 DEF StartRefused
  <2>5. CASE Shutdown
    BY <2>5 DEF Shutdown, BackendMoving
  <2>6. CASE RequestFrame
    BY <2>6 DEF RequestFrame, ScheduleFrame, BackendMoving
  <2>7. CASE Publish
    BY <2>7 DEF Publish, BackendMoving
  <2>8. CASE ComesToRest
    BY <2>8 DEF ComesToRest, BackendMoving
  <2>9. CASE Expire
    BY <2>9 DEF Expire, BackendMoving
  <2>10. CASE Poll
    BY <2>10 DEF Poll, BackendMoving
  <2>11. CASE UNCHANGED fsVars
    BY <2>11 DEF fsVars, BackendMoving
  <2>12. ~moving' => ~BackendMoving'
    BY DEF BackendMoving
  <2> QED
    BY <2>1, <2>2, <2>3, <2>4, <2>5, <2>6, <2>7, <2>8, <2>9, <2>10, <2>11,
       <2>12 DEF Next
<1> QED
  BY <1>1, <1>2, ResourcesAndArming, PTL DEF Spec, TimerFollowsMotion

-----------------------------------------------------------------------------
(* The timer is open only under a backend, and what was asked for is one    *)
(* more frame of a snapshot there is: so every frame clears the debt.       *)
Askable == (timerOpen => backend) /\ (owed => presented)

(* A frame is owed only when there is a snapshot to draw it from.          *)
LEMMA OnlyAPresentedFrameIsOwed == Spec => []Askable
<1>1. Init => Askable
  BY DEF Init, Askable
<1>2. TypeOK /\ Askable /\ [Next]_fsVars => Askable'
  <2> SUFFICES ASSUME TypeOK, Askable, [Next]_fsVars
               PROVE  Askable'
    OBVIOUS
  <2> USE DEF TypeOK, Askable, schedulerVars, storeVars
  <2>1. CASE WakeCallback
    BY <2>1 DEF WakeCallback, Drain, Present, NoFrame
  <2>2. CASE TimerCallback
    BY <2>2 DEF TimerCallback, Drain, Present, NoFrame
  <2>3. ASSUME NEW opens \in BOOLEAN, NEW ticks \in BOOLEAN,
               Start(opens, ticks)
        PROVE  Askable'
    BY <2>3 DEF Start
  <2>4. ASSUME NEW opens \in BOOLEAN, StartRefused(opens)
        PROVE  Askable'
    BY <2>4 DEF StartRefused
  <2>5. CASE Shutdown
    BY <2>5 DEF Shutdown
  <2>6. CASE RequestFrame
    <3>1. owed' => owed \/ presented
      BY <2>6 DEF RequestFrame
    <3> QED
      BY <2>6, <3>1 DEF RequestFrame
  <2>7. CASE Publish \/ ComesToRest \/ Expire \/ Poll
    BY <2>7 DEF Publish, ComesToRest, Expire, Poll
  <2>8. CASE UNCHANGED fsVars
    BY <2>8 DEF fsVars
  <2> QED
    BY <2>1, <2>2, <2>3, <2>4, <2>5, <2>6, <2>7, <2>8 DEF Next
<1> QED
  BY <1>1, <1>2, TypeCorrect, PTL DEF Spec

(* A frame asked for and on its way stays on its way until one is drawn:    *)
(* only a wake served after its snapshot was drained takes it back.         *)
THEOREM RequestsAreKept == Spec => RequestedFrameIsKept
<1>1. TypeOK /\ ClosesWhatItOpened /\ ArmedFrameWillFire /\ Askable
        /\ [Next]_fsVars
      => [owed /\ armed /\ ~config.armMayFail
            => \/ ~owed' \/ armed'
               \/ ~pending /\ "wake" \in batch \ batch']_fsVars
  <2> SUFFICES ASSUME TypeOK, ClosesWhatItOpened, ArmedFrameWillFire, Askable,
                      Next, owed, armed, ~config.armMayFail, owed', ~armed'
               PROVE  ~pending /\ "wake" \in batch \ batch'
    BY DEF Next
  <2>1. timerOpen /\ backend /\ presented
    BY DEF ClosesWhatItOpened, ArmedFrameWillFire, Askable
  <2>2. CASE WakeCallback
    BY <2>1, <2>2 DEF WakeCallback, Turn, Served, Present, NoFrame
  <2>3. CASE TimerCallback
    BY <2>1, <2>3 DEF TimerCallback, Drain, Present
  <2>4. ~RequestFrame
    BY DEF RequestFrame
  <2>5. CASE Next /\ ~(WakeCallback \/ TimerCallback \/ RequestFrame)
    BY <2>5 DEF Next, Start, StartRefused, Shutdown, Publish, ComesToRest,
                Expire, Poll, schedulerVars
  <2> QED
    BY <2>2, <2>3, <2>4, <2>5
<1> QED
  BY <1>1, ResourcesAndArming, OnlyAPresentedFrameIsOwed, PTL
     DEF Spec, Held, RequestedFrameIsKept
=============================================================================
