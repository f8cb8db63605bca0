----------------------------- MODULE SceneProofs -----------------------------
(***************************************************************************)
(* Theorems about Scene, for every delay, hold, interval and cap: the film *)
(* keeps the scene's time and hands each delay over once, and nothing that *)
(* moves is left unseen.                                                   *)
(***************************************************************************)
EXTENDS Scene, SequenceTheorems, TLAPS

(* What is left to run is in order: a frame is drawn, its predecessor's     *)
(* delay handed over and then it is taken, with nothing between, and a      *)
(* finish is the last thing of its call.                                    *)
WellFormed(tasks) ==
  \A i \in 1 .. Len(tasks) :
    /\ tasks[i].do = "draw"  => i < Len(tasks) /\ tasks[i + 1].do = "flush"
    /\ tasks[i].do = "flush" => i < Len(tasks) /\ tasks[i + 1].do = "frame"
    /\ tasks[i].do = "frame" /\ i > 1 => tasks[i - 1].do = "flush"
    /\ tasks[i].do = "finish" => i = Len(tasks)

(* After a finish there is no frame to come: its own flush is left to run,  *)
(* or a second finish that does nothing.                                    *)
LastFlush  == <<Do("flush")>>
AfterFinish == {<<>>, LastFlush, <<Do("finish")>>, Start \o <<Do("finish")>>}

InOrder ==
  /\ finished => started /\ todo \in AfterFinish
  /\ ~finished => WellFormed(todo)
  /\ ~started => frames = 0 /\ (todo # <<>> => Head(todo).do = "start")

(* A frame is about to be taken, its predecessor's delay handed over. *)
Taking == todo # <<>> /\ Head(todo).do = "frame"

(* How many delays the sink has been handed, wherever a call has got to.    *)
DelaysSoFar ==
  ~failed /\ sink.delay =>
    timed = IF Taking \/ (finished /\ todo # LastFlush) \/ frames = 0
            THEN frames ELSE frames - 1

(* A frame is being drawn or taken, and `delay` is the one before it's. *)
Emitting == todo # <<>> /\ Head(todo).do \in {"draw", "flush", "frame"}

(* What moves has an interval of the film left for the next turn of a       *)
(* settle, whatever was held before it.                                     *)
IntervalLeft ==
  ~Emitting /\ ~finished /\ moving /\ frames > 0 /\ ~failed
  /\ pace >= FrameMs /\ delay < Ceiling => since + FrameMs <= delay

(* A press, a frame or a verb ends with a settle. *)
EndsSettled ==
  ~failed /\ line \in {"key", "frame", "verb"} =>
    IF todo = <<>> THEN ~moving \/ spent ELSE todo[Len(todo)].do = "settle"

SceneInv ==
  TypeOK /\ InOrder /\ DelaysSoFar /\ TimeIsKept /\ IntervalLeft /\ EndsSettled

-----------------------------------------------------------------------------
(* What is put on top of what is left to run.                               *)

(* Tasks that may be put on top of others: in order, ending no call, and    *)
(* not in the middle of a frame.                                            *)
OnTop(tasks) ==
  /\ tasks \in Seq(Tasks) /\ tasks # <<>>
  /\ WellFormed(tasks)
  /\ tasks[1].do # "frame"
  /\ \A i \in 1 .. Len(tasks) : tasks[i].do # "finish"

(* A task that is done leaves the rest in order. *)
LEMMA RestIsInOrder ==
  ASSUME NEW tasks \in Seq(Tasks), tasks # <<>>, WellFormed(tasks)
  PROVE  /\ Tail(tasks) \in Seq(Tasks) /\ WellFormed(Tail(tasks))
         /\ Head(tasks) \in Tasks /\ Head(tasks) = tasks[1]
         /\ Tail(tasks) = <<>> <=> Len(tasks) = 1
         /\ Tail(tasks) # <<>> => /\ Head(Tail(tasks)) = tasks[2]
                                  /\ Tail(tasks)[Len(Tail(tasks))] = tasks[Len(tasks)]
<1>1. /\ Tail(tasks) \in Seq(Tasks) /\ Len(Tail(tasks)) = Len(tasks) - 1
      /\ \A i \in 1 .. Len(tasks) - 1 : Tail(tasks)[i] = tasks[i + 1]
      /\ Len(tasks) \in Nat \ {0}
      /\ Head(tasks) \in Tasks /\ Head(tasks) = tasks[1]
  BY HeadTailProperties, EmptySeq, LenProperties
<1> DEFINE rest == Tail(tasks)
<1>2. rest \in Seq(Tasks) /\ Len(rest) = Len(tasks) - 1
        /\ \A i \in 1 .. Len(tasks) - 1 : rest[i] = tasks[i + 1]
  BY <1>1
<1>3. rest = <<>> <=> Len(tasks) = 1
  BY <1>1, EmptySeq
<1> HIDE DEF rest
<1>4. WellFormed(rest)
  <2> SUFFICES ASSUME NEW i \in 1 .. Len(rest)
               PROVE  /\ rest[i].do = "draw"  => i < Len(rest) /\ rest[i + 1].do = "flush"
                      /\ rest[i].do = "flush" => i < Len(rest) /\ rest[i + 1].do = "frame"
                      /\ rest[i].do = "frame" /\ i > 1 => rest[i - 1].do = "flush"
                      /\ rest[i].do = "finish" => i = Len(rest)
    BY DEF WellFormed
  <2>1. PICK j \in 1 .. Len(tasks) :
          /\ j = i + 1 /\ rest[i] = tasks[j]
          /\ j < Len(tasks) => rest[i + 1] = tasks[j + 1]
          /\ i > 1 => rest[i - 1] = tasks[j - 1]
    BY <1>1, <1>2
  <2>2. /\ tasks[j].do = "draw"  => j < Len(tasks) /\ tasks[j + 1].do = "flush"
        /\ tasks[j].do = "flush" => j < Len(tasks) /\ tasks[j + 1].do = "frame"
        /\ tasks[j].do = "frame" /\ j > 1 => tasks[j - 1].do = "flush"
        /\ tasks[j].do = "finish" => j = Len(tasks)
    BY DEF WellFormed
  <2>3. (j < Len(tasks) <=> i < Len(rest)) /\ (j = Len(tasks) <=> i = Len(rest)) /\ j > 1
    BY <1>1, <1>2, <2>1
  <2> QED
    BY <2>1, <2>2, <2>3
<1>5. rest # <<>> => Head(rest) = tasks[2] /\ rest[Len(rest)] = tasks[Len(tasks)]
  <2> SUFFICES ASSUME rest # <<>>
               PROVE  Head(rest) = tasks[2] /\ rest[Len(rest)] = tasks[Len(tasks)]
    OBVIOUS
  <2>1. Head(rest) = rest[1]
    BY <1>2, HeadTailProperties
  <2>2. Len(tasks) - 1 \in 1 .. Len(tasks) - 1
    BY <1>1, <1>3
  <2> QED
    BY <1>1, <1>2, <2>1, <2>2
<1> QED
  BY <1>1, <1>2, <1>3, <1>4, <1>5 DEF rest

(* Put on top of what is in order, they leave it in order. *)
LEMMA OnTopOf ==
  ASSUME NEW top, OnTop(top), NEW rest \in Seq(Tasks), WellFormed(rest),
         rest # <<>> => rest[1].do # "frame"
  PROVE  /\ top \o rest \in Seq(Tasks) /\ WellFormed(top \o rest)
         /\ top \o rest # <<>> /\ Head(top \o rest) = top[1]
         /\ (top \o rest)[Len(top \o rest)]
              = IF rest = <<>> THEN top[Len(top)] ELSE rest[Len(rest)]
<1> DEFINE both == top \o rest
<1>1. /\ both \in Seq(Tasks) /\ Len(both) = Len(top) + Len(rest)
      /\ \A i \in 1 .. Len(top) : both[i] = top[i]
      /\ \A i \in 1 .. Len(rest) : both[Len(top) + i] = rest[i]
  BY ConcatProperties DEF OnTop
<1>2. Len(top) \in Nat \ {0} /\ Len(rest) \in Nat
  BY EmptySeq, LenProperties DEF OnTop
<1>3. rest = <<>> <=> Len(rest) = 0
  BY EmptySeq
<1> HIDE DEF both
<1>4. WellFormed(both)
  <2> SUFFICES ASSUME NEW i \in 1 .. Len(both)
               PROVE  /\ both[i].do = "draw"  => i < Len(both) /\ both[i + 1].do = "flush"
                      /\ both[i].do = "flush" => i < Len(both) /\ both[i + 1].do = "frame"
                      /\ both[i].do = "frame" /\ i > 1 => both[i - 1].do = "flush"
                      /\ both[i].do = "finish" => i = Len(both)
    BY DEF WellFormed
  <2>1. CASE i <= Len(top)
    <3>1. i \in 1 .. Len(top) /\ both[i] = top[i]
            /\ (i < Len(top) => both[i + 1] = top[i + 1])
            /\ (i > 1 => both[i - 1] = top[i - 1])
      BY <1>1, <1>2, <2>1
    <3> QED
      BY <1>1, <1>2, <3>1 DEF OnTop, WellFormed
  <2>2. CASE i > Len(top)
    <3> DEFINE j == i - Len(top)
    <3>1. j \in 1 .. Len(rest) /\ both[i] = rest[j]
            /\ (j < Len(rest) => both[i + 1] = rest[j + 1])
            /\ (j > 1 => both[i - 1] = rest[j - 1])
      <4>1. j \in 1 .. Len(rest) /\ i = Len(top) + j
        BY <1>1, <1>2, <2>2
      <4>2. j < Len(rest) => j + 1 \in 1 .. Len(rest) /\ i + 1 = Len(top) + (j + 1)
        BY <1>2, <4>1
      <4>3. j > 1 => j - 1 \in 1 .. Len(rest) /\ i - 1 = Len(top) + (j - 1)
        BY <1>2, <4>1
      <4> HIDE DEF j
      <4> QED
        BY <1>1, <4>1, <4>2, <4>3
    <3>2. /\ rest[j].do = "draw"  => j < Len(rest) /\ rest[j + 1].do = "flush"
          /\ rest[j].do = "flush" => j < Len(rest) /\ rest[j + 1].do = "frame"
          /\ rest[j].do = "frame" /\ j > 1 => rest[j - 1].do = "flush"
          /\ rest[j].do = "finish" => j = Len(rest)
      BY <3>1 DEF WellFormed
    <3>3. rest[j].do = "frame" => j > 1
      BY <1>3, <3>1
    <3>4. (j < Len(rest) <=> i < Len(both)) /\ (j = Len(rest) <=> i = Len(both))
      BY <1>1, <1>2
    <3> HIDE DEF j
    <3> QED
      BY <3>1, <3>2, <3>3, <3>4
  <2> QED
    BY <1>2, <2>1, <2>2
<1>5. both # <<>> /\ Head(both) = both[1]
  BY <1>1, <1>2, EmptySeq, HeadTailProperties
<1>6. both[1] = top[1]
  BY <1>1, <1>2
<1>7. both[Len(both)] = IF rest = <<>> THEN top[Len(top)] ELSE rest[Len(rest)]
  BY <1>1, <1>2, <1>3
<1> QED
  BY <1>1, <1>4, <1>5, <1>6, <1>7 DEF both

(* Two of them together are one. *)
LEMMA OnTopTogether ==
  ASSUME NEW top, OnTop(top), NEW under, OnTop(under)
  PROVE  OnTop(top \o under) /\ (top \o under)[1] = top[1]
         /\ (top \o under)[Len(top \o under)] = under[Len(under)]
<1>1. /\ top \o under \in Seq(Tasks) /\ Len(top \o under) = Len(top) + Len(under)
      /\ \A i \in 1 .. Len(top) : (top \o under)[i] = top[i]
      /\ \A i \in 1 .. Len(under) : (top \o under)[Len(top) + i] = under[i]
  BY ConcatProperties DEF OnTop
<1>2. /\ WellFormed(top \o under) /\ top \o under # <<>>
      /\ (top \o under)[Len(top \o under)] = under[Len(under)]
  BY OnTopOf DEF OnTop
<1>3. Len(top) \in Nat \ {0} /\ Len(under) \in Nat
  BY EmptySeq, LenProperties DEF OnTop
<1>4. \A i \in 1 .. Len(top \o under) : (top \o under)[i].do # "finish"
  <2> SUFFICES ASSUME NEW i \in 1 .. Len(top \o under)
               PROVE  (top \o under)[i].do # "finish"
    OBVIOUS
  <2>1. i \in 1 .. Len(top) \/ (i - Len(top) \in 1 .. Len(under)
                                /\ i = Len(top) + (i - Len(top)))
    BY <1>1, <1>3
  <2> QED
    BY <1>1, <2>1 DEF OnTop
<1> QED
  BY <1>1, <1>2, <1>3, <1>4 DEF OnTop

(* And three of them are the same however they are put together. *)
LEMMA ThreeTogether ==
  ASSUME NEW a, OnTop(a), NEW b, OnTop(b), NEW c, OnTop(c)
  PROVE  (a \o b) \o c = a \o (b \o c)
<1>1. a \in Seq(Tasks) /\ b \in Seq(Tasks) /\ c \in Seq(Tasks)
  BY DEF OnTop
<1> QED
  BY <1>1, ConcatAssociative

(* What a function of the runner comes to may be put on top: one task, a    *)
(* frame, a settle and a press.                                             *)
LEMMA OneTask ==
  ASSUME NEW t \in Tasks, t.do \notin {"draw", "flush", "frame", "finish"}
  PROVE  OnTop(<<t>>)
BY DEF OnTop, WellFormed

(* See OneTask. *)
LEMMA WhatIsRun ==
  /\ OnTop(Start) /\ Start[1].do = "start" /\ Start[Len(Start)].do = "start"
  /\ OnTop(Emit) /\ Emit[1].do = "draw" /\ Emit[Len(Emit)].do = "frame"
  /\ OnTop(Settle) /\ Settle[Len(Settle)].do = "settle"
  /\ OnTop(Press) /\ Press[Len(Press)].do = "settle"
<1>1. OnTop(Start) /\ Start[1].do = "start" /\ Start[Len(Start)].do = "start"
  BY OneTask DEF Start, Do, Tasks
<1>2. OnTop(Emit) /\ Emit[1].do = "draw" /\ Emit[Len(Emit)].do = "frame"
  <2>1. /\ Emit \in Seq(Tasks) /\ Len(Emit) = 3
        /\ Emit[1].do = "draw" /\ Emit[2].do = "flush" /\ Emit[3].do = "frame"
    BY DEF Emit, Do, Tasks
  <2>2. Emit # <<>>
    BY <2>1, EmptySeq
  <2>3. \A i \in 1 .. 3 : i = 1 \/ i = 2 \/ i = 3
    OBVIOUS
  <2> HIDE DEF Emit
  <2>4. WellFormed(Emit)
    BY <2>1, <2>3 DEF WellFormed
  <2>5. \A i \in 1 .. Len(Emit) : Emit[i].do # "finish"
    BY <2>1, <2>3
  <2> QED
    BY <2>1, <2>2, <2>4, <2>5 DEF OnTop
<1>3. OnTop(Settle) /\ Settle[Len(Settle)].do = "settle"
  BY OneTask, SceneAssumption DEF Settle, Tasks
<1> QED
  BY <1>1, <1>2, <1>3, OnTopTogether DEF Press

-----------------------------------------------------------------------------
(* The lines of a script.                                                   *)

(* A line that begins keeps the invariant, provided that what it does comes *)
(* after the scene's start, and ends with a settle where it has to.         *)
LEMMA LineBegins ==
  ASSUME SceneInv, NEW verb \in Lines, NEW tasks, Begin(verb, tasks),
         tasks = <<>> \/ OnTop(tasks),
         pace' \in Delays, started => pace' = pace,
         ~started => tasks = <<>> \/ tasks[1].do = "start",
         verb \in {"key", "frame", "verb"} =>
           tasks # <<>> /\ tasks[Len(tasks)].do = "settle"
  PROVE  SceneInv'
<1> USE DEF SceneInv
<1>1. /\ todo = <<>> /\ ~finished /\ todo' = tasks /\ line' = verb
      /\ UNCHANGED <<sink, started, finished, frames, delay, moving, since,
                     timed, spent, failed>>
  BY DEF Begin, runVars
<1>2. tasks \in Seq(Tasks) /\ WellFormed(tasks)
        /\ (tasks # <<>> => Head(tasks) = tasks[1] /\ tasks[1].do # "frame")
  <2>1. CASE tasks = <<>>
    <3>1. Len(tasks) = 0 /\ tasks \in Seq(Tasks)
      BY <2>1, EmptySeq
    <3> QED
      BY <2>1, <3>1 DEF WellFormed
  <2>2. CASE OnTop(tasks)
    BY <2>2, HeadTailProperties DEF OnTop
  <2> QED
    BY <2>1, <2>2
<1>3. TypeOK'
  BY <1>1, <1>2 DEF TypeOK
<1>4. InOrder'
  BY <1>1, <1>2 DEF InOrder
<1>5. DelaysSoFar'
  BY <1>1, <1>2 DEF DelaysSoFar, Taking
<1>6. TimeIsKept'
  BY <1>1 DEF TimeIsKept, InOrder
<1>7. IntervalLeft'
  BY <1>1 DEF IntervalLeft, InOrder, Emitting
<1>8. EndsSettled'
  BY <1>1 DEF EndsSettled
<1> QED
  BY <1>3, <1>4, <1>5, <1>6, <1>7, <1>8

(* What the lines do is what LineBegins asks of them.                       *)
LEMMA LinesInOrder ==
  /\ \A t \in Tasks : t.do \in {"hold", "expect", "run"} =>
       OnTop(Start \o <<t>>) /\ (Start \o <<t>>)[1].do = "start"
  /\ \A own \in {Press, Press \o Press, Emit \o Settle} :
       /\ OnTop(own) /\ OnTop(Start \o own) /\ (Start \o own)[1].do = "start"
       /\ (Start \o own)[Len(Start \o own)].do = "settle"
  /\ \A own \in {Emit, Settle, Press, Emit \o Settle} :
       /\ OnTop((Start \o <<Do("run")>>) \o own)
       /\ ((Start \o <<Do("run")>>) \o own)[1].do = "start"
       /\ ((Start \o <<Do("run")>>) \o own)[Len((Start \o <<Do("run")>>) \o own)]
            = own[Len(own)]
  /\ OnTop(<<Do("look")>> \o Emit)
  /\ (Emit \o Settle)[Len(Emit \o Settle)].do = "settle"
<1> USE WhatIsRun
<1>1. ASSUME NEW t \in Tasks, t.do \in {"hold", "expect", "run"}
      PROVE  OnTop(Start \o <<t>>) /\ (Start \o <<t>>)[1].do = "start"
  BY <1>1, OneTask, OnTopTogether
<1>2. ASSUME NEW own \in {Press, Press \o Press, Emit \o Settle}
      PROVE  /\ OnTop(own) /\ OnTop(Start \o own) /\ (Start \o own)[1].do = "start"
             /\ (Start \o own)[Len(Start \o own)].do = "settle"
  <2>1. OnTop(own) /\ own[Len(own)].do = "settle"
    <3>1. CASE own = Press
      BY <3>1
    <3>2. CASE own = Press \o Press
      BY <3>2, OnTopTogether
    <3>3. CASE own = Emit \o Settle
      BY <3>3, OnTopTogether
    <3> QED
      BY <3>1, <3>2, <3>3
  <2> HIDE DEF Start
  <2> QED
    BY <2>1, OnTopTogether
<1>3. ASSUME NEW own \in {Emit, Settle, Press, Emit \o Settle}
      PROVE  /\ OnTop((Start \o <<Do("run")>>) \o own)
             /\ ((Start \o <<Do("run")>>) \o own)[1].do = "start"
             /\ ((Start \o <<Do("run")>>) \o own)[Len((Start \o <<Do("run")>>) \o own)]
                  = own[Len(own)]
  <2>1. OnTop(own)
    BY OnTopTogether
  <2>2. Do("run") \in Tasks /\ Do("run").do = "run"
    BY DEF Do, Tasks
  <2>3. OnTop(Start \o <<Do("run")>>) /\ (Start \o <<Do("run")>>)[1].do = "start"
    BY <1>1, <2>2
  <2> QED
    BY <2>1, <2>3, OnTopTogether
<1>4. OnTop(<<Do("look")>> \o Emit)
  <2>1. OnTop(<<Do("look")>>)
    BY OneTask DEF Do, Tasks
  <2> QED
    BY <2>1, OnTopTogether
<1>5. (Emit \o Settle)[Len(Emit \o Settle)].do = "settle"
  BY OnTopTogether
<1> QED
  BY <1>1, <1>2, <1>3, <1>4, <1>5

(* Every line keeps the invariant, and so does a finish.                    *)
LEMMA CallStep == SceneInv /\ Call => SceneInv'
<1> SUFFICES ASSUME SceneInv, Call
             PROVE  SceneInv'
  OBVIOUS
<1> USE SceneAssumption
<1>1. CASE RefusedLine
  BY <1>1 DEF RefusedLine, runVars, SceneInv, TypeOK, InOrder, DelaysSoFar,
              TimeIsKept, IntervalLeft, EndsSettled
<1>2. CASE SetupLine
  BY <1>2, LineBegins DEF SetupLine, Lines
<1>3. CASE ThemeLine
  <2>1. pace' \in Delays
    BY <1>3 DEF ThemeLine, SceneInv, TypeOK
  <2> QED
    BY <1>3, <2>1, LineBegins, LinesInOrder DEF ThemeLine, Lines
<1>4. CASE PointerLine
  <2>1. pace' \in Delays
    BY <1>4 DEF PointerLine, SceneInv, TypeOK
  <2> QED
    BY <1>4, <2>1, LineBegins, WhatIsRun DEF PointerLine, Lines
<1>5. CASE KeyLine
  <2>1. pace' \in Delays /\ pace' = pace
    BY <1>5 DEF KeyLine, SceneInv, TypeOK
  <2>2. CASE Begin("bare", Start)
    BY <2>1, <2>2, LineBegins, WhatIsRun DEF Lines
  <2>3. CASE Begin("key", Start \o Press)
    BY <2>1, <2>3, LineBegins, LinesInOrder DEF Lines, OnTop
  <2>4. CASE Begin("key", Start \o Press \o Press)
    <3>1. OnTop(Start) /\ OnTop(Press)
      BY WhatIsRun
    <3>2. (Start \o Press) \o Press = Start \o (Press \o Press)
      BY <3>1, ThreeTogether
    <3> QED
      BY <2>1, <2>4, <3>2, LineBegins, LinesInOrder DEF Lines, OnTop
  <2> QED
    BY <1>5, <2>2, <2>3, <2>4 DEF KeyLine
<1>6. CASE FrameLine
  <2>1. pace' \in Delays /\ pace' = pace
    BY <1>6 DEF FrameLine, SceneInv, TypeOK
  <2>2. (Start \o Emit) \o Settle = Start \o (Emit \o Settle)
    <3>1. OnTop(Start) /\ OnTop(Emit) /\ OnTop(Settle)
      BY WhatIsRun
    <3> QED
      BY <3>1, ThreeTogether
  <2> QED
    BY <1>6, <2>1, <2>2, LineBegins, LinesInOrder DEF FrameLine, Lines, OnTop
<1>7. ASSUME NEW ms \in Holds, HoldLine(ms)
      PROVE  SceneInv'
  <2>1. pace' \in Delays /\ pace' = pace
    BY <1>7 DEF HoldLine, SceneInv, TypeOK
  <2>2. [do |-> "hold", n |-> ms] \in Tasks /\ [do |-> "hold", n |-> ms].do = "hold"
    BY DEF Tasks
  <2> QED
    BY <1>7, <2>1, <2>2, LineBegins, LinesInOrder DEF HoldLine, Lines
<1>8. CASE ExpectLine
  <2>1. pace' \in Delays /\ pace' = pace
    BY <1>8 DEF ExpectLine, SceneInv, TypeOK
  <2>2. Do("expect") \in Tasks /\ Do("expect").do = "expect"
    BY DEF Tasks, Do
  <2> QED
    BY <1>8, <2>1, <2>2, LineBegins, LinesInOrder DEF ExpectLine, Lines
<1>9. CASE VerbLine
  <2>1. pace' \in Delays /\ pace' = pace
    BY <1>9 DEF VerbLine, SceneInv, TypeOK
  <2>2. OnTop(Start \o <<Do("run")>>)
    BY LinesInOrder DEF Tasks, Do
  <2>3. ((Start \o <<Do("run")>>) \o Emit) \o Settle
          = (Start \o <<Do("run")>>) \o (Emit \o Settle)
    <3>1. OnTop(Emit) /\ OnTop(Settle)
      BY WhatIsRun
    <3> QED
      BY <2>2, <3>1, ThreeTogether
  <2> QED
    BY <1>9, <2>1, <2>3, LineBegins, LinesInOrder DEF VerbLine, Lines, OnTop
<1>10. CASE BareVerbLine
  <2>1. pace' \in Delays /\ pace' = pace
    BY <1>10 DEF BareVerbLine, SceneInv, TypeOK
  <2>2. PICK own \in {<<>>, Emit, Settle, Press} :
          Begin("bare", (Start \o <<Do("run")>>) \o own)
    BY <1>10 DEF BareVerbLine
  <2>3. OnTop(Start \o <<Do("run")>>) /\ (Start \o <<Do("run")>>)[1].do = "start"
    BY LinesInOrder DEF Tasks, Do
  <2>4. CASE own = <<>>
    <3>1. (Start \o <<Do("run")>>) \o <<>> = Start \o <<Do("run")>>
      BY <2>3, ConcatEmptySeq DEF OnTop
    <3> QED
      BY <2>1, <2>2, <2>3, <2>4, <3>1, LineBegins DEF Lines
  <2>5. CASE own \in {Emit, Settle, Press}
    BY <2>1, <2>2, <2>5, LineBegins, LinesInOrder DEF Lines
  <2> QED
    BY <2>4, <2>5
<1>11. CASE Finish
  <2>1. /\ todo = <<>> /\ todo' = Start \o <<Do("finish")>> /\ line' = "finish"
        /\ UNCHANGED <<sink, pace, started, finished, frames, delay, moving,
                       since, timed, spent, failed>>
    BY <1>11 DEF Finish, runVars
  <2>2. <<Do("finish")>> \in Seq(Tasks) /\ WellFormed(<<Do("finish")>>)
          /\ <<Do("finish")>>[1].do # "frame"
    BY DEF Do, Tasks, WellFormed
  <2>3. /\ todo' \in Seq(Tasks) /\ WellFormed(todo') /\ todo' # <<>>
        /\ Head(todo').do = "start"
    BY <2>1, <2>2, WhatIsRun, OnTopOf
  <2>4. todo' # LastFlush
    BY <2>3 DEF LastFlush, Do
  <2>5. TypeOK'
    BY <2>1, <2>3 DEF SceneInv, TypeOK, Lines
  <2>6. InOrder'
    BY <2>1, <2>3 DEF SceneInv, InOrder, AfterFinish
  <2>7. DelaysSoFar'
    <3>1. todo # LastFlush
      BY <2>1 DEF LastFlush
    <3> QED
      BY <2>1, <2>3, <2>4, <3>1 DEF SceneInv, DelaysSoFar, Taking
  <2>8. TimeIsKept' /\ IntervalLeft' /\ EndsSettled'
    BY <2>1, <2>3 DEF SceneInv, TimeIsKept, IntervalLeft, Emitting, EndsSettled
  <2> QED
    BY <2>5, <2>6, <2>7, <2>8 DEF SceneInv
<1> QED
  BY <1>1, <1>2, <1>3, <1>4, <1>5, <1>6, <1>7, <1>8, <1>9, <1>10, <1>11 DEF Call

-----------------------------------------------------------------------------
(* What is left to run.                                                     *)

(* What the task at hand leaves behind it, when it is done.                 *)
LEMMA RestOfTheCall ==
  ASSUME SceneInv, ~finished, todo # <<>>
  PROVE  /\ Tail(todo) \in Seq(Tasks) /\ WellFormed(Tail(todo))
         /\ Head(todo) \in Tasks
         /\ Tail(todo) # <<>> =>
              /\ Head(Tail(todo)) = Tail(todo)[1]
              /\ Head(Tail(todo)).do = "frame" => Head(todo).do = "flush"
              /\ Head(todo).do = "flush" => Head(Tail(todo)).do = "frame"
              /\ Head(todo).do = "draw" => Head(Tail(todo)).do = "flush"
              /\ Tail(todo)[Len(Tail(todo))] = todo[Len(todo)]
         /\ Head(todo).do \in {"draw", "flush"} => Tail(todo) # <<>>
         /\ Head(todo).do = "finish" => Tail(todo) = <<>>
         /\ Tail(todo) = <<>> => todo[Len(todo)] = Head(todo)
<1>1. todo \in Seq(Tasks) /\ WellFormed(todo)
  BY DEF SceneInv, TypeOK, InOrder
<1>2. /\ Tail(todo) \in Seq(Tasks) /\ WellFormed(Tail(todo))
      /\ Head(todo) \in Tasks /\ Head(todo) = todo[1]
      /\ Tail(todo) = <<>> <=> Len(todo) = 1
      /\ Tail(todo) # <<>> => /\ Head(Tail(todo)) = todo[2]
                              /\ Tail(todo)[Len(Tail(todo))] = todo[Len(todo)]
  BY <1>1, RestIsInOrder
<1>3. Tail(todo) # <<>> => Head(Tail(todo)) = Tail(todo)[1]
  BY <1>2, HeadTailProperties
<1>4. Len(todo) \in Nat \ {0}
  BY <1>1, EmptySeq, LenProperties
<1>5. /\ todo[1].do = "draw"  => 1 < Len(todo) /\ todo[2].do = "flush"
      /\ todo[1].do = "flush" => 1 < Len(todo) /\ todo[2].do = "frame"
      /\ todo[1].do = "finish" => 1 = Len(todo)
      /\ Len(todo) > 1 /\ todo[2].do = "frame" => todo[1].do = "flush"
  <2>1. 1 \in 1 .. Len(todo) /\ (Len(todo) > 1 => 2 \in 1 .. Len(todo))
    BY <1>4
  <2>2. /\ todo[1].do = "draw"  => 1 < Len(todo) /\ todo[1 + 1].do = "flush"
        /\ todo[1].do = "flush" => 1 < Len(todo) /\ todo[1 + 1].do = "frame"
        /\ todo[1].do = "finish" => 1 = Len(todo)
    BY <1>1, <2>1 DEF WellFormed
  <2>3. Len(todo) > 1 /\ todo[2].do = "frame" => todo[2 - 1].do = "flush"
    BY <1>1, <2>1 DEF WellFormed
  <2>4. 1 + 1 = 2 /\ 2 - 1 = 1
    OBVIOUS
  <2> QED
    BY <2>2, <2>3, <2>4
<1> QED
  BY <1>2, <1>3, <1>4, <1>5

(* One task on top of another. *)
LEMMA TwoTasks ==
  ASSUME NEW s \in Tasks, NEW e \in Tasks
  PROVE  <<s>> \o <<e>> = <<s, e>>
<1>1. <<s>> \in Seq(Tasks) /\ <<e>> \in Seq(Tasks) /\ <<s, e>> \in Seq(Tasks)
  OBVIOUS
<1>2. <<s>> \o <<e>> \in Seq(Tasks) /\ Len(<<s>> \o <<e>>) = 2
        /\ (<<s>> \o <<e>>)[1] = s /\ (<<s>> \o <<e>>)[2] = e
  BY <1>1, ConcatProperties
<1>3. Len(<<s, e>>) = 2 /\ <<s, e>>[1] = s /\ <<s, e>>[2] = e
  OBVIOUS
<1> DEFINE both == <<s>> \o <<e>>
           pair == <<s, e>>
<1>4. both \in Seq(Tasks) /\ pair \in Seq(Tasks) /\ Len(both) = Len(pair)
        /\ \A i \in 1 .. Len(both) : both[i] = pair[i]
  BY <1>1, <1>2, <1>3
<1> HIDE DEF both, pair
<1>5. both = pair
  BY <1>4, SeqEqual
<1> QED
  BY <1>5 DEF both, pair

(* The same after a finish. *)
LEMMA AfterTheFinish ==
  ASSUME SceneInv, finished, todo # <<>>
  PROVE  /\ Tail(todo) \in AfterFinish /\ Tail(todo) # LastFlush
         /\ Head(todo).do \in {"start", "flush", "finish"}
         /\ Head(todo).do = "flush" <=> todo = LastFlush
         /\ Head(todo).do = "finish" => Tail(todo) = <<>>
         /\ failed \/ line \notin {"key", "frame", "verb"}
<1> DEFINE s == Do("start")  e == Do("finish")  f == Do("flush")
<1>1. s \in Tasks /\ e \in Tasks /\ s.do = "start" /\ e.do = "finish" /\ f.do = "flush"
  BY DEF Do, Tasks
<1>2. Start = <<s>> /\ LastFlush = <<f>> /\ AfterFinish = {<<>>, <<f>>, <<e>>, Start \o <<e>>}
  BY DEF Start, AfterFinish, LastFlush
<1> HIDE DEF s, e, f
<1>3. LastFlush = <<f>> /\ AfterFinish = {<<>>, <<f>>, <<e>>, <<s, e>>}
  BY <1>1, <1>2, TwoTasks
<1>4. \/ todo = <<f>> \/ todo = <<e>> \/ todo = <<s, e>>
  BY <1>3 DEF SceneInv, InOrder
<1>5. failed \/ line \notin {"key", "frame", "verb"}
  BY <1>4, <1>1 DEF SceneInv, EndsSettled
<1>6. CASE todo = <<f>>
  BY <1>1, <1>3, <1>5, <1>6
<1>7. CASE todo = <<e>>
  <2>1. Head(todo) = e /\ Tail(todo) = <<>> /\ todo # <<f>>
    BY <1>1, <1>7
  <2> QED
    BY <1>1, <1>3, <1>5, <2>1
<1>8. CASE todo = <<s, e>>
  <2>1. Head(todo) = s /\ Tail(todo) = <<e>> /\ todo # <<f>> /\ <<e>> # <<f>>
    BY <1>1, <1>8
  <2> QED
    BY <1>1, <1>3, <1>5, <2>1
<1> QED
  BY <1>4, <1>6, <1>7, <1>8

(* A call that fails is over, and nothing is asked of it but its types. *)
LEMMA FailStep ==
  ASSUME SceneInv, todo # <<>>, Fail, started' = TRUE, frames' = frames,
         UNCHANGED <<sink, pace, finished, delay, moving, since, timed, line, spent>>
  PROVE  SceneInv'
<1>1. todo' = <<>> /\ failed' = TRUE
  BY DEF Fail
<1>2. <<>> \in Seq(Tasks) /\ WellFormed(<<>>)
  BY DEF WellFormed
<1>3. TypeOK'
  BY <1>1, <1>2 DEF SceneInv, TypeOK
<1>4. InOrder'
  BY <1>1, <1>2 DEF SceneInv, InOrder, AfterFinish
<1> QED
  BY <1>1, <1>3, <1>4 DEF SceneInv, DelaysSoFar, TimeIsKept, IntervalLeft, EndsSettled

(* A task that has run, and had nothing to do with frames. *)
LEMMA DoneStep ==
  ASSUME SceneInv, todo # <<>>, Head(todo).do \notin {"draw", "flush", "frame"},
         Done, UNCHANGED <<sink, pace, runVars, since, timed, line, failed>>,
         spent' \in BOOLEAN,
         Tail(todo) = <<>> => Head(todo).do # "settle" \/ spent' = moving,
         started, Head(todo).do # "finish" \/ finished
  PROVE  SceneInv'
<1>1. /\ todo' = Tail(todo)
      /\ UNCHANGED <<sink, pace, started, finished, frames, delay, moving,
                     since, timed, line, failed>>
  BY DEF Done, runVars
<1>2. CASE ~finished
  <2>1. TypeOK' /\ InOrder'
    BY <1>1, <1>2, RestOfTheCall DEF SceneInv, TypeOK, InOrder
  <2>2. ~Taking /\ ~Taking'
    BY <1>1, <1>2, RestOfTheCall DEF Taking
  <2>3. DelaysSoFar'
    BY <1>1, <1>2, <2>2 DEF SceneInv, DelaysSoFar
  <2>4. TimeIsKept' /\ IntervalLeft'
    BY <1>1 DEF SceneInv, TimeIsKept, IntervalLeft, Emitting
  <2>5. EndsSettled'
    BY <1>1, <1>2, RestOfTheCall DEF SceneInv, EndsSettled, TypeOK
  <2> QED
    BY <2>1, <2>3, <2>4, <2>5 DEF SceneInv
<1>3. CASE finished
  <2>1. TypeOK' /\ InOrder'
    <3>1. Tail(todo) \in Seq(Tasks)
      BY HeadTailProperties DEF SceneInv, TypeOK
    <3> QED
      BY <1>1, <1>3, <3>1, AfterTheFinish DEF SceneInv, TypeOK, InOrder
  <2>2. DelaysSoFar'
    BY <1>1, <1>3, AfterTheFinish DEF SceneInv, DelaysSoFar
  <2>3. TimeIsKept' /\ IntervalLeft' /\ EndsSettled'
    BY <1>1, <1>3, AfterTheFinish DEF SceneInv, TimeIsKept, IntervalLeft, EndsSettled
  <2> QED
    BY <2>1, <2>2, <2>3 DEF SceneInv
<1> QED
  BY <1>2, <1>3

(* Tasks put on top of the rest of the call, with no frame half done.       *)
LEMMA ThenStep ==
  ASSUME SceneInv, ~finished, todo # <<>>,
         Head(todo).do \in {"start", "settle"},
         NEW top, OnTop(top), top[1].do = "draw", Then(top),
         Head(todo).do = "settle" => top[Len(top)].do = "settle",
         started' = TRUE, since' \in 0 .. Ceiling,
         frames > 0 /\ ~failed /\ pace >= FrameMs /\ delay < Ceiling => since' <= delay,
         UNCHANGED <<sink, pace, finished, frames, delay, moving, timed, line,
                     spent, failed>>
  PROVE  SceneInv'
<1> DEFINE rest == Tail(todo)
<1>1. /\ rest \in Seq(Tasks) /\ WellFormed(rest)
      /\ rest # <<>> => rest[1].do # "frame" /\ rest[Len(rest)] = todo[Len(todo)]
      /\ rest = <<>> => todo[Len(todo)] = Head(todo)
  BY RestOfTheCall
<1>2. todo' = top \o rest
  BY DEF Then
<1> HIDE DEF rest
<1>3. /\ todo' \in Seq(Tasks) /\ WellFormed(todo') /\ todo' # <<>>
      /\ Head(todo').do = "draw"
      /\ todo'[Len(todo')] = IF rest = <<>> THEN top[Len(top)] ELSE rest[Len(rest)]
  BY <1>1, <1>2, OnTopOf
<1>4. TypeOK' /\ InOrder'
  BY <1>3 DEF SceneInv, TypeOK, InOrder
<1>5. DelaysSoFar'
  BY <1>3 DEF SceneInv, DelaysSoFar, Taking
<1>6. TimeIsKept' /\ IntervalLeft'
  BY <1>3 DEF TimeIsKept, IntervalLeft, Emitting
<1>7. EndsSettled'
  BY <1>1, <1>3 DEF SceneInv, EndsSettled
<1> QED
  BY <1>4, <1>5, <1>6, <1>7 DEF SceneInv

(* Each task keeps the invariant, whether it is done or fails.              *)
LEMMA TaskStep == SceneInv /\ Task => SceneInv'
<1> SUFFICES ASSUME SceneInv, Task
             PROVE  SceneInv'
  OBVIOUS
<1> USE SceneAssumption
<1>1. TypeOK /\ (todo # <<>> /\ Head(todo).do # "start" => started)
        /\ (finished => started)
  BY DEF SceneInv, InOrder
<1>2. CASE StartScene
  <2>1. todo # <<>> /\ Head(todo).do = "start" /\ UNCHANGED spent
    BY <1>2 DEF StartScene, Runs
  <2>2. CASE started
    BY <1>1, <1>2, <2>1, <2>2, DoneStep DEF StartScene, runVars, TypeOK
  <2>3. CASE ~started /\ Fail
    BY <1>2, <2>1, <2>3, FailStep DEF StartScene
  <2>4. CASE ~started /\ Then(Emit) /\ failed' = failed
    <3>1. ~finished /\ frames = 0 /\ since' \in 0 .. Ceiling
      BY <1>1, <1>2, <2>4 DEF StartScene, SceneInv, InOrder, TypeOK
    <3>2. /\ OnTop(Emit) /\ Emit[1].do = "draw"
          /\ started' = TRUE
          /\ UNCHANGED <<sink, pace, finished, frames, delay, moving, timed, line,
                         spent, failed>>
      BY <1>2, <2>4, WhatIsRun DEF StartScene
    <3> QED
      BY <2>1, <2>4, <3>1, <3>2, ThenStep
  <2> QED
    BY <1>2, <2>2, <2>3, <2>4 DEF StartScene
<1>3. CASE Draw
  <2>1. /\ todo # <<>> /\ Head(todo).do = "draw" /\ todo' = Tail(todo)
        /\ moving' \in BOOLEAN
        /\ UNCHANGED <<sink, pace, started, finished, frames, delay, since,
                       timed, line, spent, failed>>
    BY <1>3 DEF Draw, Runs, Done
  <2>2. ~finished /\ started
    BY <1>1, <2>1, AfterTheFinish
  <2>3. /\ Tail(todo) \in Seq(Tasks) /\ WellFormed(Tail(todo)) /\ Tail(todo) # <<>>
        /\ Head(Tail(todo)).do = "flush"
        /\ Tail(todo)[Len(Tail(todo))] = todo[Len(todo)]
    BY <2>1, <2>2, RestOfTheCall
  <2>4. TypeOK' /\ InOrder'
    BY <2>1, <2>2, <2>3 DEF SceneInv, TypeOK, InOrder
  <2>5. DelaysSoFar'
    BY <2>1, <2>2, <2>3 DEF SceneInv, DelaysSoFar, Taking
  <2>6. TimeIsKept' /\ IntervalLeft' /\ EndsSettled'
    BY <2>1, <2>3 DEF SceneInv, TimeIsKept, IntervalLeft, Emitting, EndsSettled
  <2> QED
    BY <2>4, <2>5, <2>6 DEF SceneInv
<1>4. CASE FlushDelay
  <2>1. /\ todo # <<>> /\ Head(todo).do = "flush"
        /\ UNCHANGED <<sink, pace, started, finished, frames, delay, moving,
                       since, line, spent>>
    BY <1>4 DEF FlushDelay, Runs, runVars
  <2>2. CASE Fail /\ timed' = timed
    BY <1>1, <2>1, <2>2, FailStep
  <2>3. CASE Done /\ failed' = failed
            /\ \/ (frames = 0 \/ ~sink.delay) /\ timed' = timed
               \/ frames > 0 /\ sink.delay
                  /\ timed' = (IF timed > frames THEN timed ELSE timed + 1)
    <3>1. started /\ todo' = Tail(todo) /\ Tail(todo) \in Seq(Tasks)
      BY <1>1, <2>1, <2>3, HeadTailProperties DEF Done, TypeOK
    <3>2. TypeOK'
      BY <2>1, <2>3, <3>1 DEF SceneInv, TypeOK
    <3>3. ~failed /\ sink.delay => timed' = frames
      <4>1. ~Taking
        BY <2>1 DEF Taking
      <4>2. finished => todo = LastFlush
        BY <2>1, AfterTheFinish
      <4> QED
        BY <2>3, <4>1, <4>2 DEF SceneInv, DelaysSoFar, TypeOK
    <3>4. CASE finished
      <4>1. Tail(todo) \in AfterFinish /\ Tail(todo) # LastFlush
              /\ (failed \/ line \notin {"key", "frame", "verb"})
        BY <2>1, <3>4, AfterTheFinish
      <4> QED
        BY <2>1, <2>3, <3>1, <3>2, <3>3, <3>4, <4>1
           DEF SceneInv, InOrder, DelaysSoFar, TimeIsKept, IntervalLeft, EndsSettled
    <3>5. CASE ~finished
      <4>1. /\ WellFormed(Tail(todo)) /\ Tail(todo) # <<>>
            /\ Head(Tail(todo)).do = "frame"
            /\ Tail(todo)[Len(Tail(todo))] = todo[Len(todo)]
        BY <2>1, <3>5, RestOfTheCall
      <4> QED
        BY <2>1, <2>3, <3>1, <3>2, <3>3, <3>5, <4>1
           DEF SceneInv, InOrder, DelaysSoFar, Taking, TimeIsKept, IntervalLeft,
               Emitting, EndsSettled
    <3> QED
      BY <3>4, <3>5
  <2> QED
    BY <1>4, <2>2, <2>3 DEF FlushDelay
<1>5. CASE TakeFrame
  <2>1. /\ todo # <<>> /\ Head(todo).do = "frame"
        /\ UNCHANGED <<sink, pace, started, finished, moving, timed, line, spent>>
    BY <1>5 DEF TakeFrame, Runs
  <2>2. ~finished /\ started
    BY <1>1, <2>1, AfterTheFinish
  <2>3. CASE Fail /\ UNCHANGED <<frames, delay, since>>
    BY <2>1, <2>2, <2>3, FailStep
  <2>4. CASE /\ Done /\ frames' = frames + 1 /\ since' = 0 /\ failed' = failed
             /\ delay' = IF moving /\ pace > FrameMs THEN FrameMs ELSE pace
    <3>1. todo' = Tail(todo)
      BY <2>4 DEF Done
    <3>2. pace \in 0 .. Ceiling /\ FrameMs \in Nat \ {0} /\ frames \in Nat /\ Ceiling \in Nat
      BY <1>1 DEF TypeOK
    <3>3. /\ Tail(todo) \in Seq(Tasks) /\ WellFormed(Tail(todo))
          /\ Tail(todo) # <<>> => /\ Head(Tail(todo)).do # "frame"
                                  /\ Tail(todo)[Len(Tail(todo))] = todo[Len(todo)]
          /\ Tail(todo) = <<>> => todo[Len(todo)].do = "frame"
      BY <2>1, <2>2, RestOfTheCall
    <3>4. delay' \in 0 .. Ceiling /\ (moving /\ pace >= FrameMs => FrameMs = delay')
      BY <2>4, <3>2
    <3>5. TypeOK' /\ InOrder'
      BY <1>1, <2>1, <2>2, <2>4, <3>1, <3>2, <3>3, <3>4 DEF SceneInv, TypeOK, InOrder
    <3>6. DelaysSoFar'
      <4>1. Taking /\ ~Taking'
        BY <2>1, <3>1, <3>3 DEF Taking
      <4> QED
        BY <2>1, <2>2, <2>4, <3>2, <4>1 DEF SceneInv, DelaysSoFar
    <3>7. TimeIsKept' /\ IntervalLeft'
      BY <2>1, <2>4, <3>2, <3>4 DEF TimeIsKept, IntervalLeft
    <3>8. EndsSettled'
      BY <2>1, <2>4, <3>1, <3>3 DEF SceneInv, EndsSettled
    <3> QED
      BY <3>5, <3>6, <3>7, <3>8 DEF SceneInv
  <2> QED
    BY <1>5, <2>3, <2>4 DEF TakeFrame
<1>6. CASE ApplyTheme \/ AskHost
  <2>1. /\ todo # <<>> /\ Head(todo).do \in {"look", "expect", "run"} /\ started
        /\ UNCHANGED <<sink, pace, runVars, since, timed, line, spent>>
        /\ (Done /\ failed' = failed) \/ Fail
    BY <1>1, <1>6 DEF ApplyTheme, AskHost, Runs
  <2>2. CASE Fail
    BY <2>1, <2>2, FailStep DEF runVars
  <2>3. CASE Done /\ failed' = failed
    BY <1>1, <2>1, <2>3, DoneStep DEF TypeOK
  <2> QED
    BY <2>1, <2>2, <2>3
<1>7. CASE SettleStep
  <2>1. /\ todo # <<>> /\ Head(todo).do = "settle" /\ started
        /\ UNCHANGED <<sink, pace, runVars, timed, line, failed>>
    BY <1>1, <1>7 DEF SettleStep, Runs
  <2>2. ~finished
    BY <2>1, AfterTheFinish
  <2>3. CASE Done /\ spent' = moving /\ since' = since
    BY <1>1, <2>1, <2>3, DoneStep DEF TypeOK
  <2>4. CASE /\ moving /\ Head(todo).n > 0 /\ Advance(FrameMs) /\ spent' = spent
             /\ Then(Emit \o <<[do |-> "settle", n |-> Head(todo).n - 1]>>)
    <3> DEFINE again == [do |-> "settle", n |-> Head(todo).n - 1]
               top   == Emit \o <<again>>
    <3>1. Head(todo) \in Tasks
      BY <2>1, <2>2, RestOfTheCall
    <3>2. again \in Tasks /\ again.do = "settle"
      BY <2>4, <3>1 DEF Tasks
    <3>3. Then(top)
      BY <2>4
    <3> HIDE DEF again
    <3>4. OnTop(<<again>>) /\ <<again>>[Len(<<again>>)].do = "settle"
      BY <3>2, OneTask
    <3>5. OnTop(top) /\ top[1].do = "draw" /\ top[Len(top)].do = "settle"
      BY <3>4, WhatIsRun, OnTopTogether
    <3> HIDE DEF top
    <3>6. since \in 0 .. Ceiling /\ delay \in 0 .. Ceiling /\ FrameMs \in Nat
            /\ since' = IF since + FrameMs > Ceiling THEN Ceiling ELSE since + FrameMs
      BY <1>1, <2>4 DEF TypeOK, Advance, Capped
    <3>7. since' \in 0 .. Ceiling
      BY <3>6
    <3>8. frames > 0 /\ ~failed /\ pace >= FrameMs /\ delay < Ceiling => since' <= delay
      <4>1. frames > 0 /\ ~failed /\ pace >= FrameMs /\ delay < Ceiling
              => since + FrameMs <= delay
        BY <2>1, <2>2, <2>4 DEF SceneInv, IntervalLeft, Emitting
      <4> QED
        BY <3>6, <4>1
    <3> QED
      BY <2>1, <2>2, <2>4, <3>3, <3>5, <3>7, <3>8, ThenStep DEF runVars
  <2> QED
    BY <1>7, <2>3, <2>4 DEF SettleStep
<1>8. CASE Hold
  <2>1. /\ todo # <<>> /\ Head(todo).do = "hold" /\ started
        /\ UNCHANGED <<sink, pace, started, finished, frames, moving, timed,
                       line, spent>>
    BY <1>1, <1>8 DEF Hold, Runs
  <2>2. CASE Fail /\ UNCHANGED <<delay, since>>
    BY <2>1, <2>2, FailStep
  <2>3. CASE /\ frames > 0 /\ Done /\ failed' = failed
             /\ delay' = Capped(delay + Head(todo).n) /\ Advance(Head(todo).n)
    <3>1. ~finished
      BY <2>1, AfterTheFinish
    <3>2. todo' = Tail(todo)
      BY <2>3 DEF Done
    <3>3. /\ Tail(todo) \in Seq(Tasks) /\ WellFormed(Tail(todo))
          /\ Tail(todo) # <<>> => /\ Head(Tail(todo)).do # "frame"
                                  /\ Tail(todo)[Len(Tail(todo))] = todo[Len(todo)]
          /\ Tail(todo) = <<>> => todo[Len(todo)].do = "hold"
          /\ Head(todo).n \in Nat
      BY <2>1, <3>1, RestOfTheCall DEF Tasks
    <3>4. PICK ms \in Nat : ms = Head(todo).n
      BY <3>3
    <3>5. /\ delay' = IF delay + ms > Ceiling THEN Ceiling ELSE delay + ms
          /\ since' = IF since + ms > Ceiling THEN Ceiling ELSE since + ms
          /\ delay \in 0 .. Ceiling /\ since \in 0 .. Ceiling
          /\ FrameMs \in Nat /\ Ceiling \in Nat
      BY <1>1, <2>3, <3>4 DEF Capped, Advance, TypeOK
    <3>6. delay' \in 0 .. Ceiling /\ since' \in 0 .. Ceiling
      BY <3>5
    <3>7. TypeOK' /\ InOrder'
      BY <1>1, <2>1, <2>3, <3>1, <3>2, <3>3, <3>6 DEF SceneInv, TypeOK, InOrder
    <3>8. DelaysSoFar'
      BY <2>1, <2>3, <3>1, <3>2, <3>3 DEF SceneInv, DelaysSoFar, Taking
    <3>9. delay' < Ceiling => delay < Ceiling /\ delay' = delay + ms
      BY <3>5
    <3>10. TimeIsKept'
      <4>1. since <= delay /\ delay' < Ceiling => since' <= delay'
        BY <3>5
      <4> QED
        BY <2>1, <2>3, <3>9, <4>1 DEF SceneInv, TimeIsKept
    <3>11. IntervalLeft'
      <4>1. ~Emitting
        BY <2>1 DEF Emitting
      <4>2. since + FrameMs <= delay /\ delay' < Ceiling => since' + FrameMs <= delay'
        BY <3>5
      <4> QED
        BY <2>1, <2>3, <3>1, <3>9, <4>1, <4>2 DEF SceneInv, IntervalLeft
    <3>12. EndsSettled'
      BY <2>1, <2>3, <3>2, <3>3 DEF SceneInv, EndsSettled
    <3> QED
      BY <3>7, <3>8, <3>10, <3>11, <3>12 DEF SceneInv
  <2> QED
    BY <1>8, <2>2, <2>3 DEF Hold
<1>9. CASE FinishScene
  <2>1. /\ todo # <<>> /\ Head(todo).do = "finish" /\ started /\ finished' = TRUE
        /\ UNCHANGED <<sink, pace, started, frames, delay, moving, since,
                       timed, line, spent, failed>>
    BY <1>1, <1>9 DEF FinishScene, Runs
  <2>2. CASE finished
    BY <1>1, <1>9, <2>1, <2>2, DoneStep DEF FinishScene, runVars, TypeOK
  <2>3. CASE ~finished
    <3>1. Tail(todo) = <<>> /\ todo[Len(todo)].do = "finish"
      BY <2>1, <2>3, RestOfTheCall
    <3>2. LastFlush \in Seq(Tasks) /\ Head(LastFlush).do = "flush" /\ LastFlush # <<>>
      BY DEF LastFlush, Do, Tasks
    <3>3. todo' = LastFlush
      <4>1. todo' = LastFlush \o <<>>
        BY <1>9, <2>3, <3>1 DEF FinishScene, Then, LastFlush
      <4> QED
        BY <3>2, <4>1, ConcatEmptySeq
    <3>4. TypeOK' /\ InOrder'
      BY <1>1, <2>1, <3>2, <3>3 DEF TypeOK, InOrder, AfterFinish
    <3>5. DelaysSoFar'
      BY <2>1, <2>3, <3>2, <3>3 DEF SceneInv, DelaysSoFar, Taking
    <3>6. TimeIsKept' /\ IntervalLeft' /\ EndsSettled'
      BY <2>1, <3>1 DEF SceneInv, TimeIsKept, IntervalLeft, EndsSettled
    <3> QED
      BY <3>4, <3>5, <3>6 DEF SceneInv
  <2> QED
    BY <2>2, <2>3
<1> QED
  BY <1>2, <1>3, <1>4, <1>5, <1>6, <1>7, <1>8, <1>9 DEF Task

-----------------------------------------------------------------------------
(* The invariant holds of every scene.                                      *)
LEMMA SceneInvHolds == Spec => []SceneInv
<1>1. Init => SceneInv
  <2> SUFFICES ASSUME Init
               PROVE  SceneInv
    OBVIOUS
  <2>1. <<>> \in Seq(Tasks) /\ WellFormed(<<>>)
    BY DEF WellFormed
  <2>2. TypeOK
    <3>1. delay \in 0 .. Ceiling /\ since \in 0 .. Ceiling
      BY SceneAssumption DEF Init
    <3>2. todo \in Seq(Tasks)
      BY <2>1 DEF Init
    <3> QED
      BY <3>1, <3>2 DEF Init, TypeOK, Lines
  <2>3. InOrder
    BY <2>1 DEF Init, InOrder
  <2>4. DelaysSoFar /\ TimeIsKept /\ IntervalLeft /\ EndsSettled
    BY DEF Init, DelaysSoFar, TimeIsKept, IntervalLeft, EndsSettled
  <2> QED
    BY <2>2, <2>3, <2>4 DEF SceneInv
<1>2. SceneInv /\ [Next]_vars => SceneInv'
  <2>1. SceneInv /\ UNCHANGED vars => SceneInv'
    BY DEF vars, runVars, SceneInv, TypeOK, InOrder, DelaysSoFar, Taking, TimeIsKept,
           IntervalLeft, Emitting, EndsSettled
  <2> QED
    BY <2>1, CallStep, TaskStep DEF Next
<1> QED
  BY <1>1, <1>2, PTL DEF Spec

(* Whatever the lines, as long as nothing fails, each delay is handed over  *)
(* once, and the clock moves no further under a frame than the film holds   *)
(* it for: for every interval, delay, hold, cap and ceiling.                *)
THEOREM FilmAndClockAgree == Spec => []FilmKeepsTime
<1>1. SceneInv => FilmKeepsTime
  <2> SUFFICES ASSUME SceneInv
               PROVE  EachDelayOnce
    BY DEF SceneInv, FilmKeepsTime
  <2>1. todo = <<>> => ~Taking /\ todo # LastFlush
    BY DEF Taking, LastFlush
  <2> QED
    BY <2>1 DEF SceneInv, DelaysSoFar, EachDelayOnce
<1> QED
  BY <1>1, SceneInvHolds, PTL

(* Whatever a press, a frame or a verb sets moving is filmed until it rests *)
(* or the cap is spent, however many there are on a line.                   *)
THEOREM MotionIsFilmed == Spec => []NothingMovesUnseen
<1>1. SceneInv => NothingMovesUnseen
  BY DEF SceneInv, EndsSettled, NothingMovesUnseen
<1> QED
  BY <1>1, SceneInvHolds, PTL
=============================================================================
