--------------------------- MODULE MCControlSend ---------------------------
(***************************************************************************)
(* Who may meet at one path.                                               *)
(***************************************************************************)
EXTENDS ControlSend, TLC

CONSTANTS a, b, s1, s2

plain == [verb |-> "plain", ms |-> 0]
blank == [verb |-> "blank", ms |-> 0]
long  == [verb |-> "long", ms |-> 0]
wait(n) == [verb |-> "wait", ms |-> n]
tabwait(n) == [verb |-> "tabwait", ms |-> n]

Scripts == (s1 :> <<wait(1), blank, plain>>) @@ (s2 :> <<tabwait(2), long>>)

(* Two programs and somebody else at the path; one sender with a program and *)
(* somebody else; and two senders at one program.                           *)
Plays ==
  {[programs |-> {a, b}, senders |-> {},       moves |-> 2],
   [programs |-> {a},    senders |-> {s1},     moves |-> 1],
   [programs |-> {a},    senders |-> {s1, s2}, moves |-> 0]}
=============================================================================
