-------------------------------- MODULE Toast --------------------------------
(***************************************************************************)
(* src/nav/toast.c: one notice on the snackbar for a few seconds, and the  *)
(* notices that arrived waiting behind it.                                 *)
(*                                                                         *)
(* Deadlines are kept as the time left until them, so the clock itself     *)
(* needs no bound: `until` is until_ms - now_ms, 0 once it has passed, and *)
(* Undated is until_ms = 0.  A text is one of Texts; what the snackbar     *)
(* keeps of it is Cut[text], since a text too long for it is cut to fit    *)
(* and two texts may be cut to the same notice.                            *)
(***************************************************************************)
EXTENDS Integers, Sequences

CONSTANTS
  QueueMax,     (* INKSTAND_TOAST_QUEUE                                    *)
  Stand,        (* INKSTAND_TOAST_STAND_MS, in steps of the clock          *)
  Texts,        (* What the application says.                              *)
  Cut,          (* What of each text fits the snackbar.                    *)
  Empty         (* The empty text.                                         *)

Notices == {Cut[t] : t \in Texts}
Undated == -1

ASSUME ToastAssumption ==
  /\ QueueMax \in Nat \ {0}
  /\ Stand \in Nat \ {0}
  /\ Cut \in [Texts -> Notices]
  /\ Empty \notin Notices

VARIABLES
  text,         (* toast->text, Empty when there is none                   *)
  until,        (* toast->until_ms                                         *)
  queue,        (* toast->queue[0 .. queued - 1]                           *)
  by,           (* Who took the last step: "press", "arrival", "date",     *)
                (* "tick" or "clock".                                      *)
  said,         (* The last notice an arrival brought.                     *)
  stood         (* How long what is showing has been up, at most Stand.    *)

toastFields == <<text, until, queue>>
toastVars == <<text, until, queue, by, said, stood>>

ToastTypeOK ==
  /\ text \in Notices \union {Empty}
  /\ until \in {Undated} \union (0 .. Stand)
  /\ queue \in Seq(Notices) /\ Len(queue) <= QueueMax
  /\ text = Empty => until = Undated
  /\ by \in {"press", "arrival", "date", "tick", "clock"}
  /\ said \in Notices \union {Empty}
  /\ stood \in 0 .. Stand

(* inkstand_toast_init *)
ToastInit ==
  /\ text = Empty /\ until = Undated /\ queue = <<>>
  /\ by = "clock" /\ said = Empty /\ stood = 0

-----------------------------------------------------------------------------
(* A press raised its notice and the driver has not dated it yet: the press *)
(* is one callback, so no time passes and no frame ticks before it is.      *)
AwaitsDate == text # Empty /\ until = Undated

(* Something waits behind a snackbar a press left empty. *)
Uncovered == text = Empty /\ queue # <<>>

(* Puts notice n up with deadline d. *)
Show(n, d) == text' = n /\ until' = d /\ stood' = 0

(* promote(), with a deadline one standing time away *)
Promote ==
  /\ Show(Head(queue), Stand)
  /\ queue' = Tail(queue)

(* Slip: a queue that takes one notice too many. *)
EnqueueOverrun(n) ==
  queue' = IF Len(queue) > QueueMax THEN Append(Tail(queue), n)
                                    ELSE Append(queue, n)

(* A full queue loses its oldest notice, never its newest. *)
Enqueue(n) ==
  queue' = IF Len(queue) >= QueueMax THEN Append(Tail(queue), n)
                                     ELSE Append(queue, n)

(* What an arrival is compared with: the newest notice already on its way. *)
Newest == IF queue # <<>> THEN queue[Len(queue)] ELSE text

-----------------------------------------------------------------------------
(* inkstand_toast_post: something arrived. *)

(* Slip: the text is compared as it was given, not as it is stored. *)
PostUncut(t) ==
  /\ by' = "arrival" /\ said' = Cut[t]
  /\ IF text = Empty
     THEN Show(Cut[t], Stand) /\ UNCHANGED queue
     ELSE /\ IF Newest = t THEN UNCHANGED queue ELSE Enqueue(Cut[t])
          /\ UNCHANGED <<text, until, stood>>
Post(t) ==
  /\ by' = "arrival" /\ said' = Cut[t]
  /\ IF text = Empty
     THEN Show(Cut[t], Stand) /\ UNCHANGED queue
     ELSE /\ IF Newest = Cut[t] THEN UNCHANGED queue ELSE Enqueue(Cut[t])
          /\ UNCHANGED <<text, until, stood>>

-----------------------------------------------------------------------------
(* The calls of a press. *)

(* inkstand_toast_set with a text *)
Set(t) ==
  /\ by' = "press"
  /\ Show(Cut[t], Stand)
  /\ UNCHANGED <<queue, said>>

(* inkstand_toast_set with NULL or an empty text: says nothing any more *)
Clear ==
  /\ by' = "press"
  /\ Show(Empty, Undated)
  /\ queue' = <<>>
  /\ UNCHANGED said

(* inkstand_toast_raise *)
Raise(t) ==
  /\ by' = "press"
  /\ Show(Cut[t], Undated)
  /\ UNCHANGED <<queue, said>>

(* inkstand_toast_dismiss *)
Dismiss ==
  /\ text # Empty
  /\ by' = "press"
  /\ Show(Empty, Undated)
  /\ UNCHANGED <<queue, said>>

(* inkstand_toast_date, from the driver's clock *)
Date ==
  /\ by' = "date"
  /\ \/ Uncovered /\ Promote
     \/ AwaitsDate /\ until' = Stand /\ UNCHANGED <<text, queue, stood>>
  /\ UNCHANGED said

-----------------------------------------------------------------------------
(* The frames and the clock. *)

(* Slip: an empty snackbar has nothing to do on a tick. *)
TickStranding ==
  /\ ~AwaitsDate
  /\ by' = "tick"
  /\ \/ text # Empty /\ until = 0 /\ queue # <<>> /\ Promote
     \/ text # Empty /\ until = 0 /\ queue = <<>> /\ Show(Empty, Undated)
        /\ UNCHANGED queue
     \/ (text # Empty => until # 0) /\ UNCHANGED <<toastFields, stood>>
  /\ UNCHANGED said

(* Slip: a notice retired a step of the clock before its deadline. *)
TickEarly ==
  /\ ~AwaitsDate
  /\ by' = "tick"
  /\ LET due == text # Empty => until <= 1
     IN \/ due /\ queue # <<>> /\ Promote
        \/ due /\ queue = <<>> /\ Show(Empty, Undated) /\ UNCHANGED queue
        \/ ~due /\ UNCHANGED <<toastFields, stood>>
  /\ UNCHANGED said

(* inkstand_toast_tick: retires what has stood its time, or finds nothing   *)
(* showing, and promotes the next one waiting                               *)
Tick ==
  /\ ~AwaitsDate
  /\ by' = "tick"
  /\ LET due == text # Empty => until = 0
     IN \/ due /\ queue # <<>> /\ Promote
        \/ due /\ queue = <<>> /\ Show(Empty, Undated) /\ UNCHANGED queue
        \/ ~due /\ UNCHANGED <<toastFields, stood>>
  /\ UNCHANGED said

Less(d) == IF d > 0 THEN d - 1 ELSE d

(* Time passes, by one step of the clock. *)
Advance ==
  /\ ~AwaitsDate
  /\ by' = "clock"
  /\ until' = Less(until)
  /\ stood' = (IF text # Empty /\ stood < Stand THEN stood + 1 ELSE stood)
  /\ UNCHANGED <<text, queue, said>>

ToastNext ==
  \/ \E t \in Texts : Post(t) \/ Set(t) \/ Raise(t)
  \/ Clear
  \/ Dismiss
  \/ Date
  \/ Tick
  \/ Advance

ToastSpec == ToastInit /\ [][ToastNext]_toastVars

(* The driver dates what a press raised and ticks its frames, and time      *)
(* passes.  A press that only dismissed need not be dated.                  *)
FairToastSpec ==
  ToastSpec /\ WF_toastVars(AwaitsDate /\ Date) /\ WF_toastVars(Tick) /\ WF_toastVars(Advance)

-----------------------------------------------------------------------------
(* One event reported twice in a row is one notice: no two neighbours in    *)
(* the queue say the same, as they are stored.                              *)
NoRepeatWaiting ==
  \A i \in 1 .. Len(queue) - 1 : queue[i] # queue[i + 1]

(* A notice whose turn came stands its whole time, by ticks alone, and no   *)
(* longer than to the first tick after it; no arrival, however many come,   *)
(* takes it down or lengthens its time.                                     *)
StandsItsTime ==
  [][text # Empty =>
       /\ by' = "tick" => ((stood = Stand) <=>
            (<<text, queue, stood>>' # <<text, queue, stood>>))
       /\ by' = "arrival" => UNCHANGED <<text, until>>]_toastVars

(* A full queue withholds its oldest news, never its newest: what has just  *)
(* arrived is showing, or is the last of the queue.                         *)
NewestIsKept == by = "arrival" => said \in {text, Newest}

InOrder == NoRepeatWaiting /\ NewestIsKept

(* The two together, which is what an arrival finds and leaves, within the  *)
(* room the queue has.                                                      *)
QueueIsOrderly == ToastTypeOK /\ InOrder

(* Once presses and arrivals stop, everything waiting is shown in turn and  *)
(* the snackbar goes empty: nothing is stranded in the queue.               *)
GoesQuiet ==
  <>[](by \notin {"press", "arrival"})
    => <>[](text = Empty /\ queue = <<>>)
=============================================================================
