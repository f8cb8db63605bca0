--------------------------- MODULE FrameScheduler ---------------------------
(***************************************************************************)
(* src/nav/frame_scheduler.c: drains a store's snapshots when the store    *)
(* wakes the loop, presents them on a backend, and keeps a one-shot frame  *)
(* timer armed while the backend says its last frame is still moving.      *)
(*                                                                         *)
(* The snapshot is reduced to whether the store holds something it does    *)
(* not (`pending`) and to what it says changed (`changed`).                *)
(***************************************************************************)
EXTENDS EventLoop

VARIABLES
  config,       (* The hooks the caller gave: config.* and backend->*, and *)
                (* whether its timer may refuse to arm.                    *)
  registered,   (* scheduler->registered                                   *)
  backend,      (* scheduler->backend # NULL                               *)
  presented,    (* scheduler->presented                                    *)
  timerOpen,    (* scheduler->timer_fd >= 0                                *)
  armed,        (* scheduler->armed                                        *)
  timer,        (* inkwell's timer: "off", "set" or "expired"              *)
  pending,      (* The store's wake is readable: a snapshot to drain.      *)
  changed,      (* The snapshot says that something changed.               *)
  moving,       (* What backend->animating() answers.                      *)
  display,      (* The backend's own life: "none", "open", "closed", or    *)
                (* "misclosed" once it is shut down while it is not open.  *)
  drew,         (* What the last step presented: "nothing", "change" or    *)
                (* "repeat".                                               *)
  owed          (* A requested frame has not been presented yet.           *)

schedulerVars == <<registered, backend, presented, timerOpen, armed>>
storeVars     == <<pending, changed>>
fsVars == <<config, schedulerVars, timer, storeVars, moving, display, drew,
            owed, watched, batch>>

Hooks == [backend : BOOLEAN, animating : BOOLEAN, refresh : BOOLEAN,
          unchanged : BOOLEAN, armMayFail : BOOLEAN]

TypeOK ==
  /\ config \in Hooks
  /\ registered \in BOOLEAN /\ backend \in BOOLEAN /\ presented \in BOOLEAN
  /\ timerOpen \in BOOLEAN /\ armed \in BOOLEAN
  /\ timer \in {"off", "set", "expired"}
  /\ pending \in BOOLEAN /\ changed \in BOOLEAN /\ moving \in BOOLEAN
  /\ display \in {"none", "open", "closed", "misclosed"}
  /\ drew \in {"nothing", "change", "repeat"}
  /\ owed \in BOOLEAN
  /\ watched \subseteq {"wake", "timer"}
  /\ batch \subseteq watched

(* Before inkstand_frame_scheduler_init; the store may already have news. *)
Init ==
  /\ LoopInit
  /\ config \in Hooks
  /\ registered = FALSE /\ backend = FALSE /\ presented = FALSE
  /\ timerOpen = FALSE /\ armed = FALSE /\ timer = "off"
  /\ pending \in BOOLEAN /\ changed = FALSE /\ moving = FALSE
  /\ display = "none" /\ drew = "nothing" /\ owed = FALSE

-----------------------------------------------------------------------------
(* The static functions the handlers are made of.                          *)

(* Slips of schedule_frame, rejected by the runs: recording the frame as     *)
(* armed although arming failed; only ever arming, never disarming.         *)
ScheduleFrameTrusting(m, t) ==
  IF timerOpen
  THEN \/ timer' = (IF m THEN "set" ELSE "off") /\ armed' = m
       \/ config.armMayFail /\ timer' = t /\ armed' = m
  ELSE timer' = t /\ UNCHANGED armed
ScheduleFrameNoDisarm(m, t) ==
  IF timerOpen THEN timer' = (IF m THEN "set" ELSE t) /\ armed' = m
               ELSE timer' = t /\ UNCHANGED armed

(* schedule_frame(m): asks for one more frame, or stops asking; t is what   *)
(* the timer holds when it is called.                                       *)
ScheduleFrame(m, t) ==
  IF timerOpen
  THEN \/ timer' = (IF m THEN "set" ELSE "off") /\ armed' = m
       \/ config.armMayFail /\ timer' = t /\ armed' = FALSE
  ELSE timer' = t /\ UNCHANGED armed

(* backend_moving(): what the backend says of the frame it just drew. *)
BackendMoving == backend /\ config.animating /\ moving

(* present(): the backend draws the snapshot, and may have more to move. *)
Present ==
  IF backend
  THEN /\ drew' = (IF changed' THEN "change" ELSE "repeat")
       /\ moving' \in BOOLEAN
       /\ owed' = FALSE
  ELSE drew' = "nothing" /\ UNCHANGED <<moving, owed>>

NoFrame == drew' = "nothing" /\ UNCHANGED <<moving, owed>>

(* Slip: the unchanged hook never called. *)
DrainNeverClear(clears) ==
  /\ pending'   = FALSE
  /\ presented' = (presented \/ pending)
  /\ changed'   = (pending \/ changed)

(* drain(), then the unchanged hook if nothing was drained and `clears`. *)
Drain(clears) ==
  /\ pending'   = FALSE
  /\ presented' = (presented \/ pending)
  /\ changed'   = (pending \/ (changed /\ ~clears))

(* inkwell_timer_read: takes an expiry, and leaves a deadline to come. *)
ReadTimer == IF timer = "expired" THEN "off" ELSE timer

(* Slip: the backend dropped without being shut down. *)
DropBackend(has, life) == life

(* backend->shutdown(), when there is a backend to call it on. *)
CloseBackend(has, life) ==
  IF ~has THEN life ELSE IF life = "open" THEN "closed" ELSE "misclosed"

-----------------------------------------------------------------------------
(* Handlers, called from the loop.                                         *)

(* Slip: what arrives while a frame is on its way is left for that frame.   *)
WakeCallbackLeaving ==
  /\ Turn("wake") /\ Served("wake")
  /\ UNCHANGED <<config, registered, backend, timerOpen, display, watched>>
  /\ Drain(FALSE)
  /\ IF pending /\ ~armed THEN Present ELSE NoFrame
  /\ ScheduleFrame(armed \/ BackendMoving', timer)
WakeCallback ==
  /\ Turn("wake") /\ Served("wake")
  /\ UNCHANGED <<config, registered, backend, timerOpen, display, watched>>
  /\ Drain(FALSE)
  /\ IF pending THEN Present ELSE NoFrame
  /\ ScheduleFrame(BackendMoving', timer)

(* Slips of timer_callback: an animation frame that reuses the snapshot       *)
(* without looking for news; one drawn only for news; one that always asks  *)
(* for another.                                                             *)
TimerCallbackNoDrain ==
  /\ Turn("timer") /\ Served("timer")
  /\ UNCHANGED <<config, schedulerVars, storeVars, display, watched>>
  /\ IF presented THEN Present ELSE NoFrame
  /\ timer' = ReadTimer
TimerCallbackOnlyNews ==
  /\ Turn("timer") /\ Served("timer")
  /\ UNCHANGED <<config, registered, backend, timerOpen, display, watched>>
  /\ Drain(presented /\ config.unchanged)
  /\ IF pending THEN Present ELSE NoFrame
  /\ ScheduleFrame(BackendMoving', ReadTimer)
TimerCallbackHeartbeat ==
  /\ Turn("timer") /\ Served("timer")
  /\ UNCHANGED <<config, registered, backend, timerOpen, display, watched>>
  /\ Drain(presented /\ config.unchanged)
  /\ IF presented' THEN Present ELSE NoFrame
  /\ ScheduleFrame(TRUE, ReadTimer)

TimerCallback ==
  /\ Turn("timer") /\ Served("timer")
  /\ UNCHANGED <<config, registered, backend, timerOpen, display, watched>>
  /\ Drain(presented /\ config.unchanged)
  /\ IF presented' THEN Present ELSE NoFrame
  /\ ScheduleFrame(BackendMoving', ReadTimer)

-----------------------------------------------------------------------------
(* Calls of the application.                                               *)

(* inkstand_frame_scheduler_init; `opens` and `ticks` are whether the       *)
(* backend's init and the setting up of the timer succeed.                  *)
Start(opens, ticks) ==
  /\ ~registered
  /\ registered' = TRUE
  /\ backend'    = (config.backend /\ opens)
  /\ display'    = (IF backend' THEN "open" ELSE "none")
  /\ timerOpen'  = (backend' /\ config.animating /\ ticks)
  /\ Watch({"wake"} \union (IF timerOpen' THEN {"timer"} ELSE {}))
  /\ pending'    = (pending \/ config.refresh)
  /\ presented' = FALSE /\ armed' = FALSE /\ timer' = "off"
  /\ moving' = FALSE /\ drew' = "nothing" /\ owed' = FALSE
  /\ UNCHANGED <<config, changed>>

(* inkstand_frame_scheduler_init, the store's wake refused by the loop. *)
StartRefused(opens) ==
  /\ ~registered
  /\ LET has == config.backend /\ opens
     IN  display' = CloseBackend(has, IF has THEN "open" ELSE "none")
  /\ registered' = FALSE /\ backend' = FALSE /\ timerOpen' = FALSE
  /\ presented' = FALSE /\ armed' = FALSE /\ timer' = "off"
  /\ moving' = FALSE /\ drew' = "nothing" /\ owed' = FALSE
  /\ UNCHANGED <<config, storeVars, watched, batch>>

(* inkstand_frame_scheduler_shutdown, at any moment and more than once. *)
Shutdown ==
  /\ Unwatch((IF registered THEN {"wake"} ELSE {})
               \union (IF timerOpen THEN {"timer"} ELSE {}))
  /\ registered' = FALSE
  /\ timerOpen' = FALSE /\ timer' = "off" /\ armed' = FALSE
  /\ display' = CloseBackend(backend, display)
  /\ backend' = FALSE
  /\ drew' = "nothing" /\ moving' = FALSE /\ owed' = FALSE
  /\ UNCHANGED <<config, presented, storeVars>>

(* Slip: a request moves the deadline of a frame already on its way. *)
RequestFrameRearming ==
  /\ registered
  /\ ScheduleFrame(TRUE, timer)
  /\ owed' = (owed \/ (armed' /\ presented))
  /\ drew' = "nothing"
  /\ UNCHANGED <<config, registered, backend, presented, timerOpen, storeVars,
                 moving, display, watched, batch>>

(* inkstand_frame_scheduler_request_frame, a backend's window changed. *)
RequestFrame ==
  /\ registered
  /\ IF armed THEN UNCHANGED <<timer, armed>> ELSE ScheduleFrame(TRUE, timer)
  /\ owed' = (owed \/ (armed' /\ presented))
  /\ drew' = "nothing"
  /\ UNCHANGED <<config, registered, backend, presented, timerOpen, storeVars,
                 moving, display, watched, batch>>

-----------------------------------------------------------------------------
(* The world around the scheduler.                                         *)

(* The store publishes and its wake becomes readable. *)
Publish ==
  /\ ~pending
  /\ pending' = TRUE
  /\ drew' = "nothing"
  /\ UNCHANGED <<config, schedulerVars, timer, changed, moving, display, owed,
                 watched, batch>>

(* What the backend was moving has arrived, with no frame drawn since. *)
ComesToRest ==
  /\ moving
  /\ moving' = FALSE
  /\ drew' = "nothing"
  /\ UNCHANGED <<config, schedulerVars, timer, storeVars, display, owed,
                 watched, batch>>

Expire ==
  /\ timer = "set"
  /\ timer' = "expired"
  /\ drew' = "nothing"
  /\ UNCHANGED <<config, schedulerVars, storeVars, moving, display, owed,
                 watched, batch>>

Ready == (IF pending THEN {"wake"} ELSE {})
           \union (IF timer = "expired" THEN {"timer"} ELSE {})

Poll ==
  /\ Collect(Ready)
  /\ drew' = "nothing"
  /\ UNCHANGED <<config, schedulerVars, timer, storeVars, moving, display,
                 owed>>

Next ==
  \/ WakeCallback
  \/ TimerCallback
  \/ \E opens, ticks \in BOOLEAN : Start(opens, ticks)
  \/ \E opens \in BOOLEAN : StartRefused(opens)
  \/ Shutdown
  \/ RequestFrame
  \/ Publish
  \/ ComesToRest
  \/ Expire
  \/ Poll

Spec == Init /\ [][Next]_fsVars

(* The loop polls while it runs, serves every descriptor of a batch, and    *)
(* time passes.  Nothing else is promised to happen.                        *)
Fairness ==
  /\ WF_fsVars(Poll)
  /\ WF_fsVars(WakeCallback)
  /\ WF_fsVars(TimerCallback)
  /\ WF_fsVars(Expire)

FairSpec == Spec /\ Fairness

-----------------------------------------------------------------------------
(* Safety.                                                                 *)

(* A frame recorded as armed is one the loop will deliver: the timer is     *)
(* watched and holds a deadline, to come or expired.  Otherwise settled()   *)
(* never comes true and whoever waits for it waits for ever.                *)
ArmedFrameWillFire ==
  armed => /\ "timer" \in watched
           /\ timer \in {"set", "expired"}

(* On every way out of init and shutdown the loop, the timer and the        *)
(* backend are left as they were found, and a backend is shut down exactly  *)
(* when its init had succeeded.                                             *)
ClosesWhatItOpened ==
  /\ registered <=> "wake" \in watched
  /\ timerOpen <=> "timer" \in watched
  /\ timerOpen => registered
  /\ backend <=> display = "open"
  /\ backend => registered
  /\ display # "misclosed"

(* What is registered on the loop, the backend's life and the armed frame   *)
(* hold together: an armed frame is delivered only because the timer it     *)
(* waits for is on the loop exactly while it is open.                       *)
Held == TypeOK /\ ClosesWhatItOpened /\ ArmedFrameWillFire

(* "A screen sitting still costs no wake-ups at all": once settled() is     *)
(* true no deadline is left behind, while arming works.                     *)
StillScreenCostsNothing ==
  ~config.armMayFail /\ ~armed => timer = "off"

(* Readiness of the timer and of the store in one batch cannot render       *)
(* stale data: no frame is drawn while the store holds a newer snapshot.    *)
NoStaleFrame == drew # "nothing" => ~pending

(* What the backend is still moving gets its next frame, on a batch in any  *)
(* order, while arming works.                                               *)
MovingKeepsDrawing ==
  ~config.armMayFail /\ timerOpen /\ BackendMoving => armed

(* The two together: the timer runs for what moves, and for nothing else.   *)
TimerFollowsMotion == StillScreenCostsNothing /\ MovingKeepsDrawing

(* A requested frame stays on its way until a frame has been presented.     *)
(* Only a wake whose snapshot is gone already, drained by a timer served    *)
(* ahead of it in the same batch, takes it back; request_frame promises the *)
(* frame without that exception.                                            *)
RequestedFrameIsKept ==
  [][owed /\ armed /\ ~config.armMayFail
       => \/ ~owed' \/ armed'
          \/ ~pending /\ "wake" \in batch \ batch']_fsVars

(* Every drained snapshot is on the panel before anything else runs, with   *)
(* its changes still marked, and no change is announced a second time: a    *)
(* frame that says that something changed drained it in the same step.      *)
EveryChangeIsDrawnOnce ==
  [][/\ registered' /\ pending /\ ~pending' /\ backend => drew' = "change"
     /\ drew' = "change" /\ config.unchanged => pending]_fsVars

-----------------------------------------------------------------------------
(* Liveness.                                                               *)

(* A requested frame that stays on its way is presented, however often it   *)
(* is asked for again.                                                      *)
ArmedFrameIsDrawn == owed /\ armed ~> ~owed \/ ~armed

(* Once nothing moves any more the scheduler keeps coming back to settled,  *)
(* which is what something taking a picture waits for.                      *)
ComesToSettle == (<>[]~moving) => []<>~armed
=============================================================================
