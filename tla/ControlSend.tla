---------------------------- MODULE ControlSend ----------------------------
(***************************************************************************)
(* The sending end of src/app/control.c, inkstand_control_send: it         *)
(* connects to whatever program's socket is at the path of SocketFile,     *)
(* says its commands one at a time and prints each answer.                 *)
(*                                                                         *)
(* The listening end is what Control shows of it: one connection at a time *)
(* is heard, its commands are answered in order, one each.  A command is   *)
(* [verb, ms]: "plain"; "wait", spelled with a space; "tabwait", spelled   *)
(* with a tab; "blank"; or "long", past what a line may be.                *)
(***************************************************************************)
EXTENDS SocketFile, Sequences, SequencesExt

CONSTANTS
  Senders,
  Script,       (* What each has to send, a sequence of commands.          *)
  AnswerMs      (* INKSTAND_CONTROL_ANSWER_MS, in ticks.                   *)

ASSUME ControlSendAssumption ==
  /\ AnswerMs \in Nat \ {0}
  /\ Script \in [Senders -> Seq([verb : {"plain", "wait", "tabwait", "blank", "long"},
                                 ms : Nat])]

VARIABLES
  prompt,       (* Programs accept, and answer what they have accepted,    *)
                (* within ANSWER_MS of when they could.                    *)
  crowded,      (* Other peers fill the backlog of the socket.             *)
  step,         (* Where a sender is: "away", "connect", "send", "read",   *)
                (* "done".                                                 *)
  at,           (* How many of its commands it has gone through.           *)
  elapsed,      (* Ticks since it began to wait.                           *)
  status,       (* What it returned, "none" before.                        *)
  printed,      (* What it printed, a sequence of <<command, answer>>.     *)
  link,         (* Its connection: "none", "backlog", "served", "closed"   *)
  peer,         (* {} or {the program it is with}                          *)
  asked,        (* Its command is on the wire.                             *)
  reply,        (* {} or {the answer on the wire}                          *)
  ran           (* Its commands that were run, in order.                   *)

linkVars == <<link, peer, asked, reply, ran>>
sendVars == <<prompt, crowded, step, at, elapsed, status, printed, linkVars>>
vars == <<fileVars, sendVars>>

Is(f, s, v) == f' = [f EXCEPT ![s] = v]

Init ==
  /\ FileInit
  /\ prompt \in BOOLEAN /\ crowded = FALSE
  /\ step = [s \in Senders |-> "away"] /\ at = [s \in Senders |-> 0]
  /\ elapsed = at /\ status = [s \in Senders |-> "none"]
  /\ printed = [s \in Senders |-> <<>>] /\ ran = printed
  /\ link = status /\ peer = [s \in Senders |-> {}] /\ reply = peer
  /\ asked = [s \in Senders |-> FALSE]

-----------------------------------------------------------------------------
Command(s) == Script[s][at[s]]

(* It returns, and its end of the connection is closed. *)
Return(s, what) == Is(step, s, "done") /\ Is(status, s, what)

Start(s) ==
  /\ step[s] = "away" /\ s \in plan.senders /\ Is(step, s, "connect")
  /\ UNCHANGED <<fileVars, prompt, crowded, at, elapsed, status, printed, linkVars>>

(* The program whose open socket is the file at the path. *)
Listening == {p \in Programs : pc[p] \in {"stat", "setup", "up"} /\ \E f \in path : Mine(p, f)}

(* Slip: no deadline on a full backlog. *)
ConnectForever(s) ==
  /\ step[s] = "connect"
  /\ \/ path = {} /\ Return(s, "ENOENT") /\ UNCHANGED <<link, peer>>
     \/ path # {} /\ Listening = {} /\ Return(s, "ECONNREFUSED") /\ UNCHANGED <<link, peer>>
     \/ /\ Listening # {} /\ ~crowded /\ Is(step, s, "send") /\ UNCHANGED status
        /\ Is(link, s, "backlog") /\ Is(peer, s, Listening)
  /\ Is(elapsed, s, 0)
  /\ UNCHANGED <<fileVars, prompt, crowded, at, printed, asked, reply, ran>>

(* inkstand_control_connect: refused at once where nobody listens, tried    *)
(* again until the deadline while the backlog is full.                      *)
Connect(s) ==
  /\ step[s] = "connect"
  /\ \/ path = {} /\ Return(s, "ENOENT") /\ UNCHANGED <<link, peer>>
     \/ path # {} /\ Listening = {} /\ Return(s, "ECONNREFUSED") /\ UNCHANGED <<link, peer>>
     \/ /\ Listening # {} /\ ~crowded /\ Is(step, s, "send") /\ UNCHANGED status
        /\ Is(link, s, "backlog") /\ Is(peer, s, Listening)
     \/ /\ Listening # {} /\ crowded /\ elapsed[s] >= AnswerMs
        /\ Return(s, "ETIMEDOUT") /\ UNCHANGED <<link, peer>>
  /\ Is(elapsed, s, 0)
  /\ UNCHANGED <<fileVars, prompt, crowded, at, printed, asked, reply, ran>>

(* The loop of inkstand_control_send, up to its answer: the commands are    *)
(* through, or the next is left out, refused or sent.                       *)
SendEnd(s) ==
  /\ step[s] = "send" /\ at[s] = Len(Script[s]) /\ Return(s, "0")
  /\ UNCHANGED <<fileVars, prompt, crowded, at, elapsed, printed, linkVars>>

SendNext(s) ==
  /\ step[s] = "send" /\ at[s] < Len(Script[s])
  /\ Is(at, s, at[s] + 1)
  /\ LET command == Script[s][at[s] + 1]
     IN \/ command.verb = "blank" /\ UNCHANGED <<step, status, asked>>
        \/ command.verb = "long" /\ Return(s, "E2BIG") /\ UNCHANGED asked
        \/ /\ command.verb \notin {"blank", "long"} /\ link[s] = "closed"
           /\ Return(s, "EPIPE") /\ UNCHANGED asked
        \/ /\ command.verb \notin {"blank", "long"} /\ link[s] # "closed"
           /\ Is(step, s, "read") /\ Is(asked, s, TRUE) /\ UNCHANGED status
  /\ UNCHANGED <<fileVars, prompt, crowded, elapsed, printed, link, peer, reply, ran>>

(* Slip: a wait has no time of its own. *)
BudgetPlain(command) == AnswerMs

(* How long it waits for the answer: a wait, by its spelling, has its own   *)
(* time on top.                                                             *)
Budget(command) == AnswerMs + IF command.verb = "wait" THEN command.ms ELSE 0

(* Slips: an error does not stop it; a closed connection is the end of it.  *)
ReadOn(s) ==
  /\ step[s] = "read"
  /\ \/ /\ \E a \in reply[s] : Is(printed, s, Append(printed[s], <<at[s], a>>))
        /\ Is(step, s, "send") /\ Is(reply, s, {}) /\ UNCHANGED status
     \/ /\ reply[s] = {} /\ UNCHANGED <<printed, reply>>
        /\ \/ link[s] = "closed" /\ Return(s, "ECONNRESET")
           \/ link[s] # "closed" /\ elapsed[s] >= Budget(Command(s)) /\ Return(s, "ETIMEDOUT")
  /\ Is(elapsed, s, 0)
  /\ UNCHANGED <<fileVars, prompt, crowded, at, link, peer, asked, ran>>
ReadEof(s) ==
  /\ step[s] = "read"
  /\ \/ /\ \E a \in reply[s] :
             /\ Is(printed, s, Append(printed[s], <<at[s], a>>))
             /\ IF a = "ok" THEN Is(step, s, "send") /\ UNCHANGED status
                            ELSE Return(s, "EPROTO")
        /\ Is(reply, s, {})
     \/ /\ reply[s] = {} /\ UNCHANGED <<printed, reply>>
        /\ \/ link[s] = "closed" /\ Return(s, "0")
           \/ link[s] # "closed" /\ elapsed[s] >= Budget(Command(s)) /\ Return(s, "ETIMEDOUT")
  /\ Is(elapsed, s, 0)
  /\ UNCHANGED <<fileVars, prompt, crowded, at, link, peer, asked, ran>>

(* inkstand_control_read_line and what follows it: the answer is printed,   *)
(* and anything but ok is the last; the connection has ended; or time has.  *)
Read(s) ==
  /\ step[s] = "read"
  /\ \/ /\ \E a \in reply[s] :
             /\ Is(printed, s, Append(printed[s], <<at[s], a>>))
             /\ IF a = "ok" THEN Is(step, s, "send") /\ UNCHANGED status
                            ELSE Return(s, "EPROTO")
        /\ Is(reply, s, {})
     \/ /\ reply[s] = {} /\ UNCHANGED <<printed, reply>>
        /\ \/ link[s] = "closed" /\ Return(s, "ECONNRESET")
           \/ link[s] # "closed" /\ elapsed[s] >= Budget(Command(s)) /\ Return(s, "ETIMEDOUT")
  /\ Is(elapsed, s, 0)
  /\ UNCHANGED <<fileVars, prompt, crowded, at, link, peer, asked, ran>>

SenderStep(s) == Connect(s) \/ SendEnd(s) \/ SendNext(s) \/ Read(s)

-----------------------------------------------------------------------------
(* The listening end, of a program that is up. *)
OfListener(p, s) == pc[p] = "up" /\ peer[s] = {p}

ListenerOnly == UNCHANGED <<fileVars, prompt, crowded, step, at, elapsed, status, printed, peer>>

(* One connection at a time; a second is told busy, and one the loop has no *)
(* place for is closed.                                                     *)
Accept(p, s) ==
  /\ OfListener(p, s) /\ link[s] = "backlog"
  /\ IF \E t \in Senders : peer[t] = {p} /\ link[t] = "served"
     THEN Is(link, s, "closed") /\ Is(reply, s, {"error"})
     ELSE link' \in {[link EXCEPT ![s] = l] : l \in {"served", "closed"}} /\ UNCHANGED reply
  /\ UNCHANGED <<asked, ran>> /\ ListenerOnly

(* It runs the command and answers it; a wait when its time is over. *)
Answer(p, s) ==
  /\ OfListener(p, s) /\ link[s] = "served" /\ asked[s]
  /\ Is(asked, s, FALSE) /\ Is(ran, s, Append(ran[s], at[s]))
  /\ IF Command(s).verb \in {"wait", "tabwait"}
     THEN elapsed[s] >= Command(s).ms /\ Is(reply, s, {"ok"})
     ELSE reply' \in {[reply EXCEPT ![s] = {a}] : a \in {"ok", "error"}}
  /\ UNCHANGED link /\ ListenerOnly

(* It lets go of a sender that has returned. *)
LetGo(p, s) ==
  /\ OfListener(p, s) /\ link[s] = "served" /\ step[s] = "done"
  /\ Is(link, s, "closed") /\ Is(asked, s, FALSE)
  /\ UNCHANGED <<reply, ran>> /\ ListenerOnly

ListenerStep(p) == \E s \in Senders : Accept(p, s) \/ Answer(p, s) \/ LetGo(p, s)

(* A program closes its socket or is over: so is every connection to it. *)
Cut(p) ==
  /\ link' = [s \in Senders |-> IF peer[s] = {p} THEN "closed" ELSE link[s]]
  /\ UNCHANGED <<peer, asked, reply, ran>>
Quietly == UNCHANGED <<prompt, crowded, step, at, elapsed, status, printed>>

-----------------------------------------------------------------------------
(* Other peers come and go; it is only to a connect that it matters. *)
Crowd ==
  /\ \E s \in Senders : step[s] = "connect"
  /\ crowded' = ~crowded
  /\ UNCHANGED <<fileVars, prompt, step, at, elapsed, status, printed, linkVars>>

Awaits(s) == step[s] = "read" /\ reply[s] = {} /\ link[s] # "closed"
Waiting(s) == step[s] = "connect" \/ Awaits(s)

(* The most a sender waits for an answer of a prompt program: ANSWER_MS     *)
(* past the time the command itself takes, and less.                        *)
Patience(s) ==
  AnswerMs + IF Awaits(s) /\ Command(s).verb \in {"wait", "tabwait"}
             THEN Command(s).ms ELSE 0

Tick ==
  /\ \E s \in Senders : Waiting(s)
  /\ \A s \in Senders :
       Waiting(s) => elapsed[s] + (IF prompt /\ Awaits(s) THEN 1 ELSE 0) < Patience(s)
  /\ elapsed' = [s \in Senders |-> IF Waiting(s) THEN elapsed[s] + 1 ELSE elapsed[s]]
  /\ UNCHANGED <<fileVars, prompt, crowded, step, at, status, printed, linkVars>>

ProgramStep(p) ==
  \/ (Opens(p) \/ Closes(p)) /\ UNCHANGED sendVars
  \/ SetUp(p) /\ Quietly
     /\ IF pc'[p] = "up" THEN UNCHANGED linkVars ELSE Cut(p)

Next ==
  \/ \E s \in Senders : Start(s)
  \/ \E s \in Senders : Connect(s) \/ SendEnd(s) \/ SendNext(s) \/ Read(s)
  \/ \E p \in Programs : ListenerStep(p) \/ ProgramStep(p)
  \/ \E p \in Programs : (CloseSocket(p) \/ Over(p)) /\ Cut(p) /\ Quietly
  \/ (Clear \/ \E b \in BOOLEAN : Put(b)) /\ UNCHANGED sendVars
  \/ Crowd
  \/ Tick

Spec == Init /\ [][Next]_vars

(* A sender runs and time passes; a program that is prompt goes on, with    *)
(* its open as with its peers.                                              *)
Fairness ==
  /\ \A s \in Senders : WF_vars(SenderStep(s))
  /\ WF_vars(Tick)
  /\ \A p \in Programs :
       /\ WF_vars(prompt /\ ListenerStep(p))
       /\ WF_vars(prompt /\ pc[p] # "down" /\ ProgramStep(p))

FairSpec == Spec /\ Fairness

-----------------------------------------------------------------------------
(* The commands of a sender that are commands, and those it printed a line  *)
(* for.                                                                     *)
Real(s)  == {i \in DOMAIN Script[s] : Script[s][i].verb # "blank"}
Lines(s) == [n \in DOMAIN printed[s] |-> printed[s][n][1]]
Ok(s, n) == printed[s][n][2] = "ok"

(* A sequence is the least elements of a set of numbers, in their order.    *)
AreFirst(q, set) ==
  /\ \A n \in DOMAIN q : q[n] \in set
  /\ \A m, n \in DOMAIN q : m < n => q[m] < q[n]
  /\ \A i \in set \ Range(q) : \A n \in DOMAIN q : q[n] < i

(* What a sender prints and returns is what happened: its lines are for its *)
(* commands, in order, none left out; an ok is of a command that ran, and   *)
(* at most one ran whose answer it has not; after an error nothing more is  *)
(* sent; and it returns 0 exactly when it was connected and all it had to   *)
(* send ran and was ok.                                                     *)
SendTellsTheTruth ==
  \A s \in Senders :
    /\ AreFirst(Lines(s), Real(s)) /\ AreFirst(ran[s], Real(s))
    /\ Len(ran[s]) <= Len(Lines(s)) + 1
    /\ \A n \in DOMAIN Lines(s) :
         IF Ok(s, n) THEN n <= Len(ran[s]) /\ ran[s][n] = Lines(s)[n]
                     ELSE n = Len(Lines(s)) /\ Len(ran[s]) <= n
    /\ status[s] = "0" <=>
         /\ step[s] = "done" /\ peer[s] # {}
         /\ \A i \in Real(s) : \E n \in DOMAIN Lines(s) : Lines(s)[n] = i /\ Ok(s, n)
    /\ status[s] = "EPROTO" <=> \E n \in DOMAIN Lines(s) : ~Ok(s, n)

(* Once connected to a program that is prompt no answer is given up on,     *)
(* except that of a wait that is not spelled with a space.                  *)
HealthyIsInTime ==
  \A s \in Senders :
    prompt /\ status[s] = "ETIMEDOUT" =>
      peer[s] = {} \/ Command(s).verb = "tabwait"

(* A sender returns, whatever becomes of the program and of the path. *)
SendReturns == \A s \in Senders : step[s] = "connect" ~> step[s] = "done"
=============================================================================
