------------------------------ MODULE NavProofs ------------------------------
(***************************************************************************)
(* Theorems about what is drawn over the screens: Toast, for any size of   *)
(* the queue, any standing time, any set of texts and whatever of them     *)
(* fits the snackbar; and Screen with the Dialog in it, for any subjects   *)
(* and any layouts of two answers that do not overlap.                     *)
(***************************************************************************)
EXTENDS Screen, Toast, FrameSchedulerProofs, SequenceTheorems

-----------------------------------------------------------------------------
(* The snackbar. *)

(* A notice is never the empty text. *)
LEMMA EmptyIsNoNotice == \A t \in Texts : Cut[t] \in Notices /\ Cut[t] # Empty
  BY ToastAssumption DEF Notices

(* Taking the head off a queue leaves the notices behind it in order. *)
LEMMA TailShifts ==
  ASSUME NEW q \in Seq(Notices), q # <<>>
  PROVE  /\ Tail(q) \in Seq(Notices)
         /\ Head(q) \in Notices
         /\ Len(Tail(q)) = Len(q) - 1
         /\ \A i \in 1 .. Len(q) - 1 : Tail(q)[i] = q[i + 1]
  BY HeadTailProperties

(* What a queue holds once a notice has been taken in: never more than it   *)
(* has room for, no repeat beside the newest, and the notice at its end.    *)
LEMMA EnqueueKeeps ==
  ASSUME queue \in Seq(Notices), Len(queue) <= QueueMax,
         NEW n \in Notices, Enqueue(n)
  PROVE  /\ queue' \in Seq(Notices)
         /\ Len(queue') <= QueueMax
         /\ queue' # <<>>
         /\ queue'[Len(queue')] = n
         /\ NoRepeatWaiting /\ n # Newest => NoRepeatWaiting'
<1> USE ToastAssumption
<1>1. CASE Len(queue) < QueueMax
  <2>1. queue' = Append(queue, n) /\ Len(queue') = Len(queue) + 1
    BY <1>1 DEF Enqueue
  <2> QED
    BY <1>1, <2>1 DEF NoRepeatWaiting, Newest
<1>2. CASE ~(Len(queue) < QueueMax)
  <2>1. Len(queue) = QueueMax /\ queue # <<>>
    BY <1>2
  <2> DEFINE rest == Tail(queue)
  <2>2. /\ rest \in Seq(Notices)
        /\ Len(rest) = Len(queue) - 1
        /\ \A i \in 1 .. Len(queue) - 1 : rest[i] = queue[i + 1]
    BY <2>1, TailShifts
  <2>3. queue' = Append(rest, n)
    BY <2>1 DEF Enqueue
  <2> HIDE DEF rest
  <2>4. queue' \in Seq(Notices) /\ Len(queue') = QueueMax /\ queue' # <<>>
    BY <2>1, <2>2, <2>3
  <2>5. queue'[Len(queue')] = n
    BY <2>1, <2>2, <2>3
  <2>6. \A i \in 1 .. QueueMax - 1 : queue'[i] = queue[i + 1]
    BY <2>1, <2>2, <2>3
  <2>7. NoRepeatWaiting /\ n # Newest => NoRepeatWaiting'
    <3> SUFFICES ASSUME NoRepeatWaiting, n # Newest,
                        NEW i \in 1 .. Len(queue') - 1
                 PROVE  queue'[i] # queue'[i + 1]
      BY DEF NoRepeatWaiting
    <3>1. CASE i = QueueMax - 1
      BY <2>1, <2>4, <2>5, <2>6, <3>1 DEF Newest
    <3>2. CASE i < QueueMax - 1
      BY <2>1, <2>4, <2>6, <3>2 DEF NoRepeatWaiting
    <3> QED
      BY <2>4, <3>1, <3>2
  <2> QED
    BY <2>4, <2>5, <2>7
<1> QED
  BY <1>1, <1>2

(* Promoting keeps the order and the distance of what still waits. *)
LEMMA PromoteKeeps ==
  ASSUME ToastTypeOK, queue # <<>>, Promote
  PROVE  /\ text' \in Notices /\ until' = Stand /\ stood' = 0
         /\ queue' \in Seq(Notices) /\ Len(queue') <= QueueMax
         /\ NoRepeatWaiting => NoRepeatWaiting'
<1>1. queue' = Tail(queue) /\ text' = Head(queue) /\ until' = Stand /\ stood' = 0
  BY DEF Promote, Show
<1>2. queue' \in Seq(Notices) /\ text' \in Notices /\ Len(queue') = Len(queue) - 1
        /\ \A i \in 1 .. Len(queue) - 1 : queue'[i] = queue[i + 1]
  BY <1>1, TailShifts DEF ToastTypeOK
<1>3. NoRepeatWaiting => NoRepeatWaiting'
  BY <1>2 DEF NoRepeatWaiting, ToastTypeOK
<1> QED
  BY <1>1, <1>2, <1>3, ToastAssumption DEF ToastTypeOK

-----------------------------------------------------------------------------
(* Every variable stays in its type under every call, and the queue never   *)
(* takes more than it has room for.                                         *)
THEOREM ToastTypeCorrect == ToastSpec => []ToastTypeOK
<1> USE ToastAssumption
<1>1. ToastInit => ToastTypeOK
  BY DEF ToastInit, ToastTypeOK
<1>2. ToastTypeOK /\ [ToastNext]_toastVars => ToastTypeOK'
  <2> SUFFICES ASSUME ToastTypeOK, [ToastNext]_toastVars
               PROVE  ToastTypeOK'
    OBVIOUS
  <2> USE EmptyIsNoNotice
  <2>1. ASSUME NEW t \in Texts, Post(t)
        PROVE  ToastTypeOK'
    <3>1. CASE Enqueue(Cut[t]) /\ UNCHANGED <<text, until, stood>>
      BY <2>1, <3>1, EnqueueKeeps DEF Post, ToastTypeOK
    <3>2. CASE ~Enqueue(Cut[t]) \/ ~UNCHANGED <<text, until, stood>>
      BY <2>1, <3>2 DEF Post, Show, ToastTypeOK
    <3> QED
      BY <3>1, <3>2
  <2>2. ASSUME NEW t \in Texts, Set(t) \/ Raise(t)
        PROVE  ToastTypeOK'
    BY <2>2 DEF Set, Raise, Show, ToastTypeOK
  <2>3. CASE Clear \/ Dismiss
    <3>1. CASE Clear
      <4>1. queue' \in Seq(Notices) /\ Len(queue') = 0
        BY <3>1 DEF Clear
      <4> QED
        BY <3>1, <4>1 DEF Clear, Show, ToastTypeOK
    <3>2. CASE Dismiss
      BY <3>2 DEF Dismiss, Show, ToastTypeOK
    <3> QED
      BY <2>3, <3>1, <3>2
  <2>4. CASE Date
    <3>1. CASE Uncovered /\ Promote
      BY <2>4, <3>1, PromoteKeeps DEF Date, Uncovered, ToastTypeOK
    <3>2. CASE AwaitsDate /\ until' = Stand /\ UNCHANGED <<text, queue, stood>>
      BY <2>4, <3>2 DEF Date, AwaitsDate, ToastTypeOK
    <3> QED
      BY <2>4, <3>1, <3>2 DEF Date
  <2>5. CASE Tick
    <3>1. CASE queue # <<>> /\ Promote
      BY <2>5, <3>1, PromoteKeeps DEF Tick, ToastTypeOK
    <3>2. CASE ~(queue # <<>> /\ Promote)
      BY <2>5, <3>2 DEF Tick, Show, toastFields, ToastTypeOK
    <3> QED
      BY <3>1, <3>2
  <2>6. CASE Advance
    BY <2>6 DEF Advance, Less, Undated, ToastTypeOK
  <2>7. CASE UNCHANGED toastVars
    BY <2>7 DEF toastVars, ToastTypeOK
  <2> QED
    BY <2>1, <2>2, <2>3, <2>4, <2>5, <2>6, <2>7 DEF ToastNext
<1> QED
  BY <1>1, <1>2, PTL DEF ToastSpec

(* One event reported twice in a row is one notice, and the newest news is  *)
(* never the one a full queue withholds.                                    *)
THEOREM StaysOrderly == ToastSpec => []QueueIsOrderly
<1> USE ToastAssumption
<1>1. ToastInit => InOrder
  BY DEF ToastInit, InOrder, NoRepeatWaiting, NewestIsKept
<1>2. ToastTypeOK /\ InOrder /\ [ToastNext]_toastVars => InOrder'
  <2> SUFFICES ASSUME ToastTypeOK, InOrder, [ToastNext]_toastVars
               PROVE  NoRepeatWaiting' /\ NewestIsKept'
    BY DEF InOrder
  <2> USE EmptyIsNoNotice
  <2>1. UNCHANGED queue => NoRepeatWaiting'
    BY DEF InOrder, NoRepeatWaiting
  <2>2. by' # "arrival" => NewestIsKept'
    BY DEF NewestIsKept
  <2>3. ASSUME NEW t \in Texts, Post(t)
        PROVE  NoRepeatWaiting' /\ NewestIsKept'
    <3> DEFINE n == Cut[t]
    <3>1. n \in Notices /\ said' = n
      BY <2>3 DEF Post
    <3>2. CASE text = Empty
      <4>1. text' = n /\ UNCHANGED queue
        BY <2>3, <3>2 DEF Post, Show
      <4> QED
        BY <2>1, <3>1, <4>1 DEF NewestIsKept
    <3>3. CASE text # Empty /\ Newest = n
      <4>1. UNCHANGED <<text, queue>>
        BY <2>3, <3>3 DEF Post
      <4> QED
        BY <2>1, <3>1, <3>3, <4>1 DEF NewestIsKept, Newest
    <3>4. CASE text # Empty /\ Newest # n
      <4>1. Enqueue(n)
        BY <2>3, <3>4 DEF Post
      <4>2. /\ queue' # <<>>
            /\ queue'[Len(queue')] = n
            /\ NoRepeatWaiting'
        BY <3>1, <3>4, <4>1, EnqueueKeeps DEF InOrder, ToastTypeOK
      <4> QED
        BY <3>1, <4>2 DEF NewestIsKept, Newest
    <3> QED
      BY <3>2, <3>3, <3>4
  <2>4. ASSUME NEW t \in Texts, Set(t) \/ Raise(t)
        PROVE  NoRepeatWaiting' /\ NewestIsKept'
    BY <2>1, <2>2, <2>4 DEF Set, Raise
  <2>5. CASE Clear
    BY <2>2, <2>5 DEF Clear, NoRepeatWaiting
  <2>6. CASE Dismiss
    BY <2>1, <2>2, <2>6 DEF Dismiss
  <2>7. CASE Date
    <3>1. Uncovered /\ Promote => NoRepeatWaiting'
      BY PromoteKeeps DEF InOrder, Uncovered
    <3> QED
      BY <2>1, <2>2, <2>7, <3>1 DEF Date
  <2>8. CASE Tick
    <3>1. queue # <<>> /\ Promote => NoRepeatWaiting'
      BY PromoteKeeps DEF InOrder
    <3> QED
      BY <2>1, <2>2, <2>8, <3>1 DEF Tick, toastFields
  <2>9. CASE Advance
    BY <2>1, <2>2, <2>9 DEF Advance
  <2>10. CASE UNCHANGED toastVars
    BY <2>10 DEF toastVars, InOrder, NoRepeatWaiting, NewestIsKept, Newest
  <2> QED
    BY <2>3, <2>4, <2>5, <2>6, <2>7, <2>8, <2>9, <2>10 DEF ToastNext
<1> QED
  BY <1>1, <1>2, ToastTypeCorrect, PTL DEF ToastSpec, QueueIsOrderly

-----------------------------------------------------------------------------
(* The deadline of what is showing and the time it has been up are two ends *)
(* of one standing time; a notice still to be dated has stood no time yet.  *)
Standing ==
  text # Empty =>
    IF until = Undated THEN stood = 0 ELSE stood + until = Stand

(* Every call that shows a notice starts its time anew, and the clock alone *)
(* moves it.                                                                *)
LEMMA StandingStep == ToastTypeOK /\ Standing /\ [ToastNext]_toastVars => Standing'
<1> SUFFICES ASSUME ToastTypeOK, Standing, [ToastNext]_toastVars
             PROVE  Standing'
  OBVIOUS
<1> USE ToastAssumption DEF Standing, Undated
<1>1. ASSUME NEW n, NEW d \in {Undated, Stand}, Show(n, d)
      PROVE  Standing'
  BY <1>1 DEF Show
<1>2. UNCHANGED <<text, until, stood>> => Standing'
  OBVIOUS
<1>3. Promote => Standing'
  BY <1>1 DEF Promote
<1>4. ASSUME NEW t \in Texts, Post(t) \/ Set(t) \/ Raise(t)
      PROVE  Standing'
  BY <1>1, <1>2, <1>4 DEF Post, Set, Raise
<1>5. CASE Clear \/ Dismiss
  BY <1>1, <1>5 DEF Clear, Dismiss
<1>6. CASE Date
  <2>1. CASE AwaitsDate /\ until' = Stand /\ UNCHANGED <<text, queue, stood>>
    BY <2>1 DEF AwaitsDate, ToastTypeOK
  <2> QED
    BY <1>3, <1>6, <2>1 DEF Date
<1>7. CASE Tick
  BY <1>1, <1>2, <1>3, <1>7 DEF Tick, toastFields
<1>8. CASE Advance
  BY <1>8 DEF Advance, AwaitsDate, Less, ToastTypeOK
<1>9. CASE UNCHANGED toastVars
  BY <1>2, <1>9 DEF toastVars
<1> QED
  BY <1>4, <1>5, <1>6, <1>7, <1>8, <1>9 DEF ToastNext

(* A tick takes a notice down when it has stood its whole time and not      *)
(* before, and an arrival neither takes it down nor lengthens its time.     *)
THEOREM StandsTheWhole == ToastSpec => StandsItsTime
<1> USE ToastAssumption
<1>1. ToastInit => Standing
  BY DEF ToastInit, Standing
<1>2. ToastTypeOK /\ Standing /\ [ToastNext]_toastVars =>
        [text # Empty =>
           /\ by' = "tick" => ((stood = Stand) <=>
                (<<text, queue, stood>>' # <<text, queue, stood>>))
           /\ by' = "arrival" => UNCHANGED <<text, until>>]_toastVars
  <2> SUFFICES ASSUME ToastTypeOK, Standing, ToastNext, text # Empty
               PROVE  /\ by' = "tick" => ((stood = Stand) <=>
                           (<<text, queue, stood>>' # <<text, queue, stood>>))
                      /\ by' = "arrival" => UNCHANGED <<text, until>>
    OBVIOUS
  <2>1. by' = "tick" => Tick
    BY DEF ToastNext, Post, Set, Raise, Clear, Dismiss, Date, Advance
  <2>2. by' = "arrival" => \E t \in Texts : Post(t)
    BY DEF ToastNext, Set, Raise, Clear, Dismiss, Date, Tick, Advance
  <2>3. ASSUME Tick
        PROVE  stood = Stand <=>
                 (<<text, queue, stood>>' # <<text, queue, stood>>)
    <3>1. until # Undated /\ (stood = Stand <=> until = 0)
      BY <2>3 DEF Tick, AwaitsDate, Standing, ToastTypeOK, Undated
    <3>2. CASE until = 0
      <4>1. stood' = 0
        BY <2>3, <3>2 DEF Tick, Promote, Show
      <4> QED
        BY <3>1, <3>2, <4>1
    <3>3. CASE until # 0
      BY <2>3, <3>1, <3>3 DEF Tick, toastFields
    <3> QED
      BY <3>2, <3>3
  <2>4. ASSUME NEW t \in Texts, Post(t)
        PROVE  UNCHANGED <<text, until>>
    BY <2>4 DEF Post
  <2> QED
    BY <2>1, <2>2, <2>3, <2>4
<1> QED
  BY <1>1, <1>2, StandingStep, ToastTypeCorrect, PTL DEF ToastSpec, StandsItsTime

-----------------------------------------------------------------------------
(* A dialog on the screen. *)

USE SubjectAssumption, LayoutsAssumption

(* To the scheduler a question that is put, answered or withdrawn is a      *)
(* store that publishes, or one that had already: there is no other step.   *)
LEMMA StepIsScheduled ==
  TypeOK /\ [ScreenNext]_screenVars => [Next]_fsVars
<1> SUFFICES ASSUME TypeOK, [ScreenNext]_screenVars
             PROVE  [Next]_fsVars
  OBVIOUS
<1>1. ASSUME Published PROVE [Next]_fsVars
  <2>1. CASE pending
    <3>1. pending' = pending
      BY <1>1, <2>1 DEF Published, TypeOK
    <3> QED
      BY <1>1, <2>1, <3>1 DEF Published, fsVars, storeVars
  <2>2. CASE ~pending
    <3>1. Publish
      BY <1>1, <2>2 DEF Published, Publish
    <3> QED
      BY <3>1 DEF Next
  <2> QED
    BY <2>1, <2>2
<1>2. CASE Wakes \/ Ticks \/ Expires \/ Polls
  BY <1>2 DEF Wakes, Ticks, Expires, Polls, Draws, Next
<1>3. CASE Draws(\/ \E opens, ticks \in BOOLEAN : Start(opens, ticks)
                 \/ \E opens \in BOOLEAN : StartRefused(opens)
                 \/ Shutdown \/ RequestFrame \/ Publish \/ ComesToRest)
  BY <1>3 DEF Draws, Next
<1>4. CASE Asks \/ Withdraws
  BY <1>1, <1>4 DEF Asks, Withdraws
<1>5. ASSUME NEW key \in Keys, Presses(key) PROVE [Next]_fsVars
  BY <1>1, <1>5 DEF Presses
<1>6. CASE UNCHANGED screenVars
  BY <1>6 DEF screenVars
<1> QED
  BY <1>2, <1>3, <1>4, <1>5, <1>6 DEF ScreenNext

(* A dialog over the scheduler is still the scheduler: everything proved of *)
(* the scheduler alone holds of the screen.                                 *)
THEOREM ScreenIsScheduled == ScreenSpec => Spec
<1>1. ScreenInit => Init /\ TypeOK
  BY DEF ScreenInit, Init, TypeOK, LoopInit
<1>2. TypeOK /\ [ScreenNext]_screenVars => TypeOK'
  BY StepIsScheduled, TypeStep
<1> QED
  BY <1>1, <1>2, StepIsScheduled, PTL DEF ScreenSpec, Spec

(* With questions put and answered at any moment no frame is stale, what is *)
(* armed fires, the timer follows what moves, and every change, the one     *)
(* that takes an answered question down included, is drawn once.            *)
THEOREM ScreenKeepsTheScheduler ==
  ScreenSpec => /\ []Held /\ []NoStaleFrame /\ []TimerFollowsMotion
                /\ EveryChangeIsDrawnOnce /\ RequestedFrameIsKept
BY ScreenIsScheduled, ResourcesAndArming, NeverStale, MotionIsFollowed,
   DrawnOnce, RequestsAreKept, PTL

-----------------------------------------------------------------------------
(* There are two answers, and either is the other one of the other.         *)
LEMMA TwoAnswers ==
  ASSUME NEW here \in Answers
  PROVE  /\ Other(here) \in Answers /\ Other(here) # here
         /\ Other(Other(here)) = here
<1>1. \A answer \in Answers :
        Other(answer) \in Answers /\ Other(answer) # answer
  <2> SUFFICES ASSUME NEW answer \in Answers
               PROVE  Other(answer) \in Answers /\ Other(answer) # answer
    OBVIOUS
  <2>1. \E a \in Answers : a # answer
    BY DEF Answers
  <2> QED
    BY <2>1 DEF Other
<1>2. \A a, b, c \in Answers : a # b /\ b # c => a = c
  BY DEF Answers
<1> QED
  BY <1>1, <1>2

(* A direction key leaves the cursor where it is or takes it to the other   *)
(* answer.                                                                  *)
LEMMA AnswerIsOneOfTwo ==
  ASSUME NEW maps, NEW key, NEW here \in Answers
  PROVE  Answer(maps, key, here) \in {here, Other(here)}
BY DEF Answer

(* The cursor of a question begins on Cancel, and is on Accept only where   *)
(* the reader has moved it there since.                                     *)
AcceptIsMeant ==
  DialogTypeOK /\ (open /\ cursor = "accept" => moved)

(* Only the dialog's own calls change the dialog, and a step of the         *)
(* scheduler tells a caller of a key nothing.                               *)
LEMMA DialogSteps ==
  [ScreenNext]_screenVars
    => \/ UNCHANGED dialogVars
       \/ Says("none", Plain) /\ UNCHANGED <<open, cursor, subject, moved>>
       \/ \E s \in Subjects : Open(s)
       \/ Close
       \/ \E key \in Keys : Key(key, panel)
BY DEF ScreenNext, Wakes, Ticks, Expires, Polls, Draws, Asks, Withdraws,
       Presses, screenVars

(* Every step keeps a cursor on Accept one that was moved there.           *)
LEMMA AcceptIsMeantStep ==
  AcceptIsMeant /\ [ScreenNext]_screenVars => AcceptIsMeant'
<1> SUFFICES ASSUME AcceptIsMeant, [ScreenNext]_screenVars
             PROVE  AcceptIsMeant'
  OBVIOUS
<1> USE DEF AcceptIsMeant, DialogTypeOK
<1>1. CASE UNCHANGED dialogVars
  BY <1>1 DEF dialogVars
<1>2. CASE Says("none", Plain) /\ UNCHANGED <<open, cursor, subject, moved>>
  BY <1>2 DEF Says
<1>3. ASSUME NEW s \in Subjects, Open(s) PROVE AcceptIsMeant'
  BY <1>3 DEF Open, Says, Answers
<1>4. CASE Close
  BY <1>4 DEF Close, TakeDown, Says
<1>5. ASSUME NEW key \in Keys, Key(key, panel) PROVE AcceptIsMeant'
  <2>1. CASE MoveKey(key, panel)
    <3>1. cursor' \in Answers
      BY <2>1, AnswerIsOneOfTwo, TwoAnswers DEF MoveKey
    <3>2. /\ open' = open /\ open /\ subject' = subject
          /\ moved' = (moved \/ cursor' # cursor)
          /\ press' \in {"IGNORED", "MOVED"} /\ told' = Plain
      BY <2>1 DEF MoveKey, Says
    <3> QED
      BY <3>1, <3>2
  <2>2. CASE AnswerKey(key)
    BY <2>2 DEF AnswerKey, TakeDown, Says, Verdict
  <2>3. CASE OtherKey(key)
    BY <2>3 DEF OtherKey, Says
  <2> QED
    BY <1>5, <2>1, <2>2, <2>3 DEF Key
<1> QED
  BY <1>1, <1>2, <1>3, <1>4, <1>5, DialogSteps

(* A cursor is on Accept only where a press put it.                        *)
LEMMA CursorIsMeant == ScreenSpec => []AcceptIsMeant
<1>1. ScreenInit => AcceptIsMeant
  BY DEF ScreenInit, DialogInit, AcceptIsMeant, DialogTypeOK, Answers
<1> QED
  BY <1>1, AcceptIsMeantStep, PTL DEF ScreenSpec

(* Whoever is told of an answer is told of the question that was up, about  *)
(* its subject, and of an acceptance only where the reader moved to it.     *)
THEOREM AnswersTold == ScreenSpec => AnswersAreMeant
<1>1. AcceptIsMeant /\ [ScreenNext]_screenVars
        => [press' \in {"ACCEPTED", "CANCELLED"} =>
              /\ open /\ ~open' /\ told' = subject
              /\ press' = "ACCEPTED" => moved]_dialogVars
  <2> SUFFICES ASSUME AcceptIsMeant, [ScreenNext]_screenVars,
                      ~UNCHANGED dialogVars,
                      press' \in {"ACCEPTED", "CANCELLED"}
               PROVE  /\ open /\ ~open' /\ told' = subject
                      /\ press' = "ACCEPTED" => moved
    OBVIOUS
  <2>1. PICK key \in Keys : Key(key, panel)
    BY DialogSteps DEF Says, Open, Close
  <2>2. AnswerKey(key)
    BY <2>1 DEF Key, MoveKey, OtherKey, Says
  <2> QED
    BY <2>2 DEF AnswerKey, TakeDown, Says, Verdict, AcceptIsMeant
<1> QED
  BY <1>1, CursorIsMeant, PTL DEF ScreenSpec, AnswersAreMeant

-----------------------------------------------------------------------------
(* What a panel can hold: the map of a frame of some question, or of none.  *)
PanelIsOfAQuestion ==
  /\ drained \in Subjects \union {Nothing}
  /\ \/ panel = {}
     \/ \E q \in Subjects \union {Nothing} : panel \in MapsOf(q)

(* Every step keeps a panel's map one the application drew.                *)
LEMMA PanelStep ==
  DialogTypeOK /\ PanelIsOfAQuestion /\ [ScreenNext]_screenVars
    => PanelIsOfAQuestion'
<1> SUFFICES ASSUME DialogTypeOK, PanelIsOfAQuestion, [ScreenNext]_screenVars
             PROVE  PanelIsOfAQuestion'
  OBVIOUS
<1>1. ASSUME Draws(TRUE) PROVE PanelIsOfAQuestion'
  <2>1. drained' \in Subjects \union {Nothing}
    BY <1>1 DEF Draws, Asked, DialogTypeOK, PanelIsOfAQuestion
  <2>2. panel' \in MapsOf(drained') \/ panel' \in {panel, {}}
    BY <1>1 DEF Draws
  <2> QED
    BY <2>1, <2>2 DEF PanelIsOfAQuestion, MapsOf
<1>2. CASE UNCHANGED <<drained, panel>>
  BY <1>2 DEF PanelIsOfAQuestion, MapsOf
<1>3. CASE Wakes \/ Ticks \/ Expires \/ Polls
  BY <1>1, <1>3 DEF Wakes, Ticks, Expires, Polls, Draws
<1>4. CASE Draws(\/ \E opens, ticks \in BOOLEAN : Start(opens, ticks)
                 \/ \E opens \in BOOLEAN : StartRefused(opens)
                 \/ Shutdown \/ RequestFrame \/ Publish \/ ComesToRest)
  BY <1>1, <1>4 DEF Draws
<1>5. CASE Asks \/ Withdraws \/ \E key \in Keys : Presses(key)
  BY <1>2, <1>5 DEF Asks, Withdraws, Presses, Published
<1> QED
  BY <1>2, <1>3, <1>4, <1>5 DEF ScreenNext, screenVars

(* Over the maps a panel can hold no open question is a trap.               *)
LEMMA NoMapIsATrap ==
  ASSUME DialogTypeOK, PanelIsOfAQuestion
  PROVE  NeverTrapped(panel)
<1> SUFFICES ASSUME open PROVE NeverTrapped(panel)
  BY DEF NeverTrapped
<1>1. cursor \in Answers
  BY DEF DialogTypeOK
<1>2. \A m \in panel : m.question # Nothing =>
        /\ panel = {m}
        /\ m.ways \subseteq Directions /\ m.ways # {}
        /\ \A w \in m.ways : Opposite[w] \notin m.ways
  BY DEF PanelIsOfAQuestion, MapsOf
<1>3. \A w \in Directions :
        Opposite[w] \in Directions /\ Opposite[Opposite[w]] = w
  BY DEF Opposite, Directions
<1>4. "up" \in Directions
  BY DEF Directions
<1>5. CASE \A m \in panel : m.question = Nothing
  <2>1. \A key \in Directions : Answer(panel, key, cursor) # cursor
    BY <1>1, <1>5, TwoAnswers DEF Answer
  <2> QED
    BY <1>4, <1>5, <2>1 DEF NeverTrapped
<1>6. ASSUME NEW m \in panel, m.question # Nothing
      PROVE  NeverTrapped(panel)
  <2>1. \A key, here :
          Answer(panel, key, here)
            = IF key \in WaysFrom(m, here) THEN Other(here) ELSE here
    BY <1>2, <1>6 DEF Answer
  <2>2. \A here \in Answers : \E key \in Directions : key \in WaysFrom(m, here)
    BY <1>2, <1>3, <1>6 DEF WaysFrom
  <2>3. \A here \in Answers, key \in Directions :
          key \in WaysFrom(m, here) => key \notin WaysFrom(m, Other(here))
    <3>1. \A w \in m.ways, v \in m.ways : w # Opposite[v]
      BY <1>2, <1>6
    <3>2. \A here \in Answers : here = "cancel" <=> Other(here) # "cancel"
      BY TwoAnswers DEF Answers
    <3> QED
      BY <3>1, <3>2 DEF WaysFrom
  <2>4. \E key \in Directions : Answer(panel, key, cursor) # cursor
    BY <1>1, <2>1, <2>2, TwoAnswers
  <2>5. \A key \in Directions :
          Answer(panel, key, cursor) # cursor
            => Answer(panel, key, Other(cursor)) = Other(cursor)
    BY <1>1, <2>1, <2>3
  <2> QED
    BY <1>6, <2>4, <2>5 DEF NeverTrapped
<1> QED
  BY <1>5, <1>6

(* Whatever frame a press is resolved over, an open question can be         *)
(* answered either way.                                                     *)
THEOREM NoTrap == ScreenSpec => []CursorIsNeverTrapped
<1>1. ScreenInit => PanelIsOfAQuestion
  BY DEF ScreenInit, PanelIsOfAQuestion
<1>2. ScreenSpec => []PanelIsOfAQuestion
  <2>1. AcceptIsMeant => DialogTypeOK
    BY DEF AcceptIsMeant
  <2> QED
    BY <1>1, <2>1, PanelStep, CursorIsMeant, PTL DEF ScreenSpec
<1>3. AcceptIsMeant /\ PanelIsOfAQuestion => CursorIsNeverTrapped
  BY NoMapIsATrap DEF AcceptIsMeant, CursorIsNeverTrapped
<1> QED
  BY <1>2, <1>3, CursorIsMeant, PTL

-----------------------------------------------------------------------------
(* The snapshot held is the dialog unless the store holds a newer one; the  *)
(* panel shows that snapshot, and nothing where no backend is open.         *)
PanelIsDrained ==
  /\ pending \/ drained = Asked
  /\ \A m \in panel : m.question = drained
  /\ display # "open" => panel = {}

(* A snapshot is drained onto a panel or where there is no panel.           *)
LEMMA DrainedIsDrawn ==
  ASSUME TypeOK, ClosesWhatItOpened, Next
  PROVE  /\ pending /\ ~pending' => drew' # "nothing" \/ display' # "open"
         /\ drew' # "nothing" => display' = "open"
<1> USE DEF TypeOK, ClosesWhatItOpened
<1>1. CASE WakeCallback
  BY <1>1 DEF WakeCallback, Drain, Present, NoFrame
<1>2. CASE TimerCallback
  BY <1>2 DEF TimerCallback, Drain, Present, NoFrame
<1>3. CASE Next /\ ~(WakeCallback \/ TimerCallback)
  BY <1>3 DEF Next, Start, StartRefused, Shutdown, RequestFrame, Publish,
              ComesToRest, Expire, Poll, storeVars
<1> QED
  BY <1>1, <1>2, <1>3

(* Every step keeps the panel at the snapshot that was drained.            *)
LEMMA PanelIsDrainedStep ==
  TypeOK /\ ClosesWhatItOpened /\ PanelIsDrained /\ [ScreenNext]_screenVars
    => PanelIsDrained'
<1> SUFFICES ASSUME TypeOK, ClosesWhatItOpened, PanelIsDrained,
                    [ScreenNext]_screenVars
             PROVE  PanelIsDrained'
  OBVIOUS
<1> USE DEF PanelIsDrained
<1>1. ASSUME Draws(TRUE), Next PROVE PanelIsDrained'
  <2>1. Asked' = Asked
    BY <1>1 DEF Draws, Asked
  <2>2. pending' \/ drained' = Asked'
    <3>1. pending' => pending' = TRUE
      BY <1>1, StepIsScheduled, TypeStep DEF TypeOK
    <3> QED
      BY <1>1, <2>1 DEF Draws
  <2>3. CASE drew' # "nothing"
    <3>1. panel' \in MapsOf(drained') /\ display' = "open"
      BY <1>1, <2>3, DrainedIsDrawn DEF Draws
    <3>2. \A m \in panel' : m.question = drained'
      BY <3>1 DEF MapsOf
    <3> QED
      BY <2>2, <3>1, <3>2
  <2>4. CASE drew' = "nothing"
    <3>1. panel' = IF display' = "open" THEN panel ELSE {}
      BY <1>1, <2>4 DEF Draws
    <3>2. panel' # {} => drained' = drained
      BY <1>1, <2>4, <3>1, DrainedIsDrawn DEF Draws
    <3> QED
      BY <2>2, <3>1, <3>2
  <2> QED
    BY <2>3, <2>4
<1>2. CASE Published
  BY <1>2 DEF Published
<1>3. CASE UNCHANGED <<open, subject, fsVars, drained, panel>>
  BY <1>3 DEF fsVars, storeVars, Asked
<1>4. CASE Wakes \/ Ticks \/ Expires \/ Polls
  BY <1>1, <1>4 DEF Wakes, Ticks, Expires, Polls, Draws, Next
<1>5. CASE Draws(\/ \E opens, ticks \in BOOLEAN : Start(opens, ticks)
                 \/ \E opens \in BOOLEAN : StartRefused(opens)
                 \/ Shutdown \/ RequestFrame \/ Publish \/ ComesToRest)
  BY <1>1, <1>5 DEF Draws, Next
<1>6. CASE Asks \/ Withdraws
  BY <1>2, <1>6 DEF Asks, Withdraws
<1>7. ASSUME NEW key \in Keys, Presses(key) PROVE PanelIsDrained'
  <2>1. CASE press' = "IGNORED"
    <3>1. UNCHANGED <<open, subject>>
      BY <1>7, <2>1 DEF Presses, Key, MoveKey, AnswerKey, OtherKey, Says,
                        Verdict
    <3> QED
      BY <1>3, <1>7, <2>1, <3>1 DEF Presses
  <2> QED
    BY <1>2, <1>7, <2>1 DEF Presses
<1>8. CASE UNCHANGED screenVars
  BY <1>3, <1>8 DEF screenVars, dialogVars
<1> QED
  BY <1>4, <1>5, <1>6, <1>7, <1>8 DEF ScreenNext

(* Once the store is drained no reader looks at a question that has been    *)
(* answered, or at the screen beneath one that has been put.                *)
THEOREM PanelIsCurrent == ScreenSpec => []PanelShowsWhatIsAsked
<1>1. ScreenInit => PanelIsDrained
  BY DEF ScreenInit, DialogInit, PanelIsDrained, Asked
<1>2. Held => TypeOK /\ ClosesWhatItOpened
  BY DEF Held
<1>3. ScreenSpec => []PanelIsDrained
  BY <1>1, <1>2, PanelIsDrainedStep, ScreenKeepsTheScheduler, PTL DEF ScreenSpec
<1>4. PanelIsDrained => PanelShowsWhatIsAsked
  BY DEF PanelIsDrained, PanelShowsWhatIsAsked
<1> QED
  BY <1>3, <1>4, PTL
=============================================================================
