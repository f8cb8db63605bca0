------------------------------- MODULE Control -------------------------------
(***************************************************************************)
(* The listening end of src/app/control.c: a Unix socket on the program's  *)
(* loop that takes one command a line from one connection at a time and    *)
(* answers each with one line, parking the connection on a timer for the   *)
(* two commands that are about time passing.                               *)
(*                                                                         *)
(* A line is named by its sender and its place in what the sender says,    *)
(* <<c, i>> for Script[c][i], so that an answer can be told from the same  *)
(* answer to somebody else.  Its verb is one of                            *)
(*    "ping"   anything answered at once with no more to it: ping, screen, *)
(*             an unknown command, arguments that are refused              *)
(*    "blank"  an empty line, which is not answered                        *)
(*    "key", "wait", "shot", "quit"                                        *)
(*    "part"   a piece of a line without its newline.                      *)
(* The peers are external: they connect, say part of their script, stop    *)
(* writing ("half") or close ("gone") whenever they like.                  *)
(***************************************************************************)
EXTENDS EventLoop, Integers, Sequences, Functions

CONSTANTS
  Clients,      (* The peers that may connect.                             *)
  Script,       (* What each of them has to say, a sequence of verbs.      *)
  InMax,        (* sizeof control->in, counted in lines or pieces of one   *)
  None,         (* No client: client_fd is -1.                             *)
  Deaf          (* The peers that may stop reading: a send to one of them  *)
                (* may come upon a full socket buffer.                     *)

Verbs == {"ping", "blank", "key", "wait", "shot", "quit", "part"}

ASSUME ControlAssumption ==
  /\ Script \in [Clients -> Seq(Verbs)]
  /\ InMax \in Nat \ {0}
  /\ None \notin Clients

ASSUME DeafAssumption == Deaf \subseteq Clients

VARIABLES
  armMayFail,   (* inkwell_timer_arm_once may refuse.                      *)
  client,       (* control->client_fd, the peer at its other end           *)
  in,           (* control->in[0 .. in_len - 1]                            *)
  waiting,      (* control->waiting                                        *)
  ctimer,       (* the timer behind timer_fd: "off", "set", "expired"      *)
  late,         (* the clock has reached control->deadline_ms              *)
  pc,           (* "idle" between callbacks, "timer" in                    *)
                (* inkstand_control_on_timer, "run" in                     *)
                (* inkstand_control_run, "drop" in it with the peer to be  *)
                (* dropped after it, "closed" after inkstand_control_close *)
  stopping,     (* inkwell_loop_request_stop was called                    *)
  conn,         (* each peer's connection: "away", "backlog", "served",    *)
                (* "refused" (told busy), "ended" (closed on it)           *)
  backlog,      (* the connections waiting for accept, in order            *)
  wire,         (* what a peer has written and nobody has read             *)
  said,         (* how much of its script a peer has written               *)
  ends,         (* each peer's own end: "open", "half", "gone"             *)
  settled,      (* what inkstand_frame_scheduler_settled answers           *)
  parked,       (* the line an answer is owed to later, or None            *)
  answers,      (* the lines each peer has had answers to, in order        *)
  lost          (* lines thrown away, not run, with a peer that was served *)

peerVars    == <<wire, said, ends>>
historyVars == <<answers, lost>>
controlVars == <<armMayFail, client, in, waiting, ctimer, late, pc, stopping,
                 conn, backlog, peerVars, settled, parked, historyVars>>
vars == <<controlVars, watched, batch>>

Lines == Clients \X Nat

TypeOK ==
  /\ client \in Clients \union {None}
  /\ in \in Seq(Lines) /\ Len(in) <= InMax
  /\ batch \subseteq watched
  /\ waiting \in {"READY", "SLEEPING", "SETTLING"}
  /\ ctimer \in {"off", "set", "expired"}
  /\ armMayFail \in BOOLEAN
  /\ late \in BOOLEAN /\ stopping \in BOOLEAN /\ settled \in BOOLEAN
  /\ pc \in {"idle", "timer", "run", "drop", "closed"}
  /\ conn \in [Clients -> {"away", "backlog", "served", "refused", "ended"}]
  /\ backlog \in Seq(Clients)
  /\ wire \in [Clients -> Seq(Lines)]
  /\ said \in [Clients -> Nat]
  /\ ends \in [Clients -> {"open", "half", "gone"}]
  /\ parked \in {None} \union Lines
  /\ answers \in [Clients -> Seq(Lines)]
  /\ lost \subseteq Lines

(* inkstand_control_open has succeeded: the listener and the timer are on   *)
(* the loop, and nobody has connected.                                      *)
Init ==
  /\ watched = {"listen", "ctimer"} /\ batch = {}
  /\ armMayFail \in BOOLEAN
  /\ client = None /\ in = <<>> /\ waiting = "READY" /\ ctimer = "off"
  /\ late = FALSE /\ pc = "idle" /\ stopping = FALSE /\ settled \in BOOLEAN
  /\ conn = [c \in Clients |-> "away"] /\ backlog = <<>>
  /\ wire = [c \in Clients |-> <<>>] /\ said = [c \in Clients |-> 0]
  /\ ends = [c \in Clients |-> "open"]
  /\ parked = None /\ answers = [c \in Clients |-> <<>>] /\ lost = {}

-----------------------------------------------------------------------------
(* The static functions the handlers are made of.                          *)

(* What a line reads as: with a piece before it in the same line, as no     *)
(* command there is, which is answered like the plainest of them.           *)
Reads(line) ==
  LET says == Script[line[1]]
      i    == line[2]
  IN  IF i > 1 /\ says[i - 1] = "part" /\ says[i] # "part" THEN "ping" ELSE says[i]

Parks(line) == Reads(line) \in {"wait", "shot"}
Completes(piece) == Reads(piece) # "part"

(* memchr: the buffer holds a newline, and the place of the first. *)
HasLine == \E i \in DOMAIN in : Completes(in[i])
FirstLine == CHOOSE i \in DOMAIN in :
               Completes(in[i]) /\ \A j \in 1 .. i - 1 : ~Completes(in[j])

(* inkstand_control_arm, and what a timer that held t holds after it. *)
Armed(t) == {"set"} \union (IF armMayFail THEN {t} ELSE {})
Disarmed(t) == {"off"} \union (IF armMayFail THEN {t} ELSE {})

(* Slip: the timer left as it is. *)
DropClientKeepsTimer(unheard) ==
  /\ client' = None /\ in' = <<>> /\ waiting' = "READY" /\ parked' = None
  /\ UNCHANGED ctimer
  /\ Unwatch({"client"})
  /\ conn' = [conn EXCEPT ![client] = "ended"]
  /\ wire' = [wire EXCEPT ![client] = <<>>]
  /\ lost' = lost \union unheard

(* inkstand_control_drop_client, of a client, and with it the lines it had  *)
(* sent that were not run.                                                  *)
DropClient(unheard) ==
  /\ client' = None /\ in' = <<>> /\ waiting' = "READY" /\ parked' = None
  /\ ctimer' \in Disarmed(ctimer)
  /\ Unwatch({"client"})
  /\ conn' = [conn EXCEPT ![client] = "ended"]
  /\ wire' = [wire EXCEPT ![client] = <<>>]
  /\ lost' = lost \union unheard

(* Of what the buffer still holds and the wire behind it, the whole lines.  *)
Unheard(rest) == {line \in Range(rest \o wire[client]) : Completes(line)}

(* The connection stays, with `rest` in the buffer. *)
KeepClient(rest) ==
  /\ in' = rest
  /\ UNCHANGED <<client, watched, batch, conn, wire, lost>>

(* Nobody takes the answer: the peer is gone, or has not read the ones      *)
(* before, whether it still writes or not.                                  *)
Untaken(c) == ends[c] = "gone" \/ c \in Deaf

(* inkstand_control_reply to `line`: it is sent whole, or the peer is let   *)
(* go of.                                                                   *)
Reply(line, rest) ==
  \/ /\ ends[client] # "gone"
     /\ answers' = [answers EXCEPT ![client] = Append(@, line)]
     /\ waiting' = "READY" /\ parked' = None
     /\ KeepClient(rest)
     /\ UNCHANGED ctimer
  \/ /\ Untaken(client)
     /\ DropClient(Unheard(rest))
     /\ UNCHANGED answers

(* A command whose answer comes later: the timer is armed for it. *)
Park(line, rest, why) ==
  /\ waiting' = why /\ parked' = line
  /\ ctimer' \in Armed(ctimer)
  /\ KeepClient(rest)
  /\ UNCHANGED answers

-----------------------------------------------------------------------------
(* inkstand_control_run, a line at a time: no other callback runs between   *)
(* two of them, but the peers do.                                           *)

Running == pc \in {"run", "drop"}

(* Slips: lines run past a parked command; none run for a peer that hung    *)
(* up.                                                                      *)
CanRunPastParked == Running /\ client # None
CanRunUnlessDropped == pc = "run" /\ client # None /\ waiting = "READY"

(* The condition of its while. *)
CanRun == Running /\ client # None /\ waiting = "READY"

(* inkstand_control_command on the first line of the buffer, by its verb. *)
RunLine ==
  /\ CanRun /\ HasLine
  /\ LET line == in[FirstLine]
         rest == SubSeq(in, FirstLine + 1, Len(in))
         verb == Reads(line)
     IN \/ /\ verb = "blank"
           /\ KeepClient(rest)
           /\ UNCHANGED <<waiting, parked, ctimer, late, answers, stopping>>
        \/ /\ verb \in {"ping", "key"}
           /\ Reply(line, rest)
           /\ UNCHANGED <<late, stopping>>
        \/ /\ verb = "quit"
           /\ Reply(line, rest)
           /\ stopping' = TRUE
           /\ UNCHANGED late
        \/ /\ verb = "wait"
           /\ Park(line, rest, "SLEEPING")
           /\ UNCHANGED <<late, stopping>>
        \/ /\ verb = "shot"
           /\ Park(line, rest, "SETTLING")
           /\ late' = FALSE
           /\ UNCHANGED stopping
  /\ UNCHANGED <<armMayFail, pc, backlog, said, ends, settled>>

(* A buffer full of one line: the peer is told, and let go of with whatever *)
(* it sent behind that line.                                                *)
RunTooLong ==
  /\ CanRun /\ ~HasLine /\ Len(in) = InMax
  /\ DropClient(Unheard(in))
  /\ UNCHANGED <<armMayFail, late, pc, stopping, backlog, said, ends, settled,
                 answers>>

(* No line to run any more: the callback drops the peer that hung up, if    *)
(* it is still there, and returns.                                          *)
RunEnd ==
  /\ Running
  /\ CanRun => ~HasLine /\ Len(in) < InMax
  /\ pc' = "idle"
  /\ IF pc = "drop" /\ client # None
     THEN DropClient(Unheard(in))
     ELSE UNCHANGED <<client, in, waiting, parked, ctimer, conn, wire, lost,
                      watched, batch>>
  /\ UNCHANGED <<armMayFail, late, stopping, backlog, said, ends, settled,
                 answers>>

-----------------------------------------------------------------------------
(* Handlers, called from the loop. *)

HungUp(c) == c # None /\ ends[c] # "open"

(* Slips: more is read than there is room for; the end of the stream is     *)
(* taken for nothing to read.                                               *)
OnClientOverrun ==
  /\ pc = "idle" /\ Turn("client") /\ Served("client")
  /\ in'   = in \o wire[client]
  /\ wire' = [wire EXCEPT ![client] = <<>>]
  /\ pc'   = (IF HungUp(client) THEN "drop" ELSE "run")
  /\ UNCHANGED <<armMayFail, client, waiting, ctimer, late, stopping, conn,
                 backlog, said, ends, settled, parked, historyVars, watched>>
OnClientEndUnseen ==
  /\ pc = "idle" /\ Turn("client") /\ Served("client")
  /\ in'   = in \o wire[client]
  /\ wire' = [wire EXCEPT ![client] = <<>>]
  /\ pc'   = "run"
  /\ UNCHANGED <<armMayFail, client, waiting, ctimer, late, stopping, conn,
                 backlog, said, ends, settled, parked, historyVars, watched>>

(* inkstand_control_on_client, with something to read: it reads what there  *)
(* is room for, and only a read with room left comes upon the end.          *)
OnClient ==
  /\ pc = "idle" /\ Turn("client") /\ Served("client")
  /\ LET room  == InMax - Len(in)
         there == Len(wire[client])
         got   == IF there < room THEN there ELSE room
     IN /\ in'   = in \o SubSeq(wire[client], 1, got)
        /\ wire' = [wire EXCEPT ![client] = SubSeq(@, got + 1, there)]
        /\ pc'   = (IF there < room /\ HungUp(client) THEN "drop" ELSE "run")
  /\ UNCHANGED <<armMayFail, client, waiting, ctimer, late, stopping, conn,
                 backlog, said, ends, settled, parked, historyVars, watched>>

(* inkstand_control_on_client, told of a hang-up and of nothing to read. *)
OnHangUp ==
  /\ pc = "idle" /\ Turn("client")
  /\ ends[client] = "gone" /\ wire[client] = <<>>
  /\ DropClient(Unheard(in))
  /\ UNCHANGED <<armMayFail, late, pc, stopping, backlog, said, ends, settled,
                 answers>>

(* inkstand_control_on_accept: one connection at a time; `watches` is       *)
(* whether the loop takes the new descriptor.                               *)
OnAccept(watches) ==
  /\ pc = "idle" /\ Turn("listen") /\ Served("listen")
  /\ backlog # <<>>
  /\ backlog' = Tail(backlog)
  /\ LET c == Head(backlog)
     IN IF client = None /\ watches
        THEN /\ client' = c /\ in' = <<>> /\ waiting' = "READY"
             /\ conn' = [conn EXCEPT ![c] = "served"]
             /\ watched' = watched \union {"client"}
             /\ UNCHANGED wire
        ELSE /\ conn' = [conn EXCEPT ![c] = IF client = None THEN "ended"
                                                             ELSE "refused"]
             /\ wire' = [wire EXCEPT ![c] = <<>>]
             /\ UNCHANGED <<client, in, waiting, watched>>
  /\ UNCHANGED <<armMayFail, ctimer, late, pc, stopping, said, ends, settled,
                 parked, historyVars>>

(* inkstand_control_on_timer, up to its switch: inkwell_timer_read takes an *)
(* expiry and leaves a deadline to come.                                    *)
OnTimer ==
  /\ pc = "idle" /\ Turn("ctimer") /\ Served("ctimer")
  /\ pc' = "timer"
  /\ ctimer' = (IF ctimer = "expired" THEN "off" ELSE ctimer)
  /\ UNCHANGED <<armMayFail, client, in, waiting, late, stopping, conn,
                 backlog, peerVars, settled, parked, historyVars, watched>>

(* What the parked command waits for has come. *)
ParkIsOver ==
  \/ waiting = "SLEEPING"
  \/ waiting = "SETTLING" /\ (settled \/ late)

(* Slips: the lines behind the answer left for the next read; a screen      *)
(* still moving not looked at again.                                        *)
AnswerParkedOnly ==
  /\ pc = "timer" /\ pc' = "idle"
  /\ IF ParkIsOver
     THEN Reply(parked, in)
     ELSE /\ ctimer' \in (IF waiting = "SETTLING" THEN Armed(ctimer) ELSE {ctimer})
          /\ KeepClient(in) /\ UNCHANGED <<waiting, parked, answers>>
  /\ UNCHANGED <<armMayFail, late, stopping, backlog, said, ends, settled>>
AnswerParkedOnce ==
  /\ pc = "timer" /\ pc' = "run"
  /\ IF ParkIsOver
     THEN Reply(parked, in)
     ELSE KeepClient(in) /\ UNCHANGED <<waiting, parked, answers, ctimer>>
  /\ UNCHANGED <<armMayFail, late, stopping, backlog, said, ends, settled>>

(* The switch of inkstand_control_on_timer, inkstand_control_shoot with it: *)
(* what the parked command waited for has come, is looked at again shortly, *)
(* or nothing is parked any more.  The lines behind it run next.            *)
AnswerParked ==
  /\ pc = "timer" /\ pc' = "run"
  /\ \/ /\ ParkIsOver
        /\ Reply(parked, in)
     \/ /\ waiting = "SETTLING" /\ ~ParkIsOver
        /\ Park(parked, in, "SETTLING")
     \/ /\ waiting = "READY"
        /\ KeepClient(in)
        /\ UNCHANGED <<waiting, parked, answers, ctimer>>
  /\ UNCHANGED <<armMayFail, late, stopping, backlog, said, ends, settled>>

(* inkstand_control_close: every connection ends, accepted or not. *)
Close ==
  /\ pc = "idle" /\ pc' = "closed"
  /\ client' = None /\ in' = <<>> /\ waiting' = "READY" /\ parked' = None
  /\ ctimer' = "off"
  /\ Unwatch({"client", "ctimer", "listen"})
  /\ conn' = [c \in Clients |->
                IF c = client \/ c \in Range(backlog) THEN "ended" ELSE conn[c]]
  /\ wire' = [c \in Clients |-> <<>>]
  /\ backlog' = <<>>
  /\ UNCHANGED <<armMayFail, late, stopping, said, ends, settled, historyVars>>

-----------------------------------------------------------------------------
(* The world around it. *)

Outside == UNCHANGED <<armMayFail, client, in, waiting, pc, stopping, parked,
                       historyVars, watched>>

Connect(c) ==
  /\ pc # "closed" /\ conn[c] = "away"
  /\ conn' = [conn EXCEPT ![c] = "backlog"]
  /\ backlog' = Append(backlog, c)
  /\ Outside /\ UNCHANGED <<batch, ctimer, late, peerVars, settled>>

(* A peer writes the next of what it has to say. *)
Say(c) ==
  /\ conn[c] \in {"backlog", "served"} /\ ends[c] = "open"
  /\ said[c] < Len(Script[c])
  /\ said' = [said EXCEPT ![c] = @ + 1]
  /\ wire' = [wire EXCEPT ![c] = Append(@, <<c, said'[c]>>)]
  /\ Outside /\ UNCHANGED <<batch, ctimer, late, conn, backlog, ends, settled>>

(* A peer stops writing, or closes. *)
Leave(c, how) ==
  /\ conn[c] \in {"backlog", "served"}
  /\ ends[c] = "open" \/ (ends[c] = "half" /\ how = "gone")
  /\ ends' = [ends EXCEPT ![c] = how]
  /\ Outside /\ UNCHANGED <<batch, ctimer, late, conn, backlog, wire, said,
                            settled>>

(* The frames of the host start or stop moving. *)
FrameTurns ==
  /\ pc \in {"idle", "closed"}
  /\ settled' = ~settled
  /\ Outside /\ UNCHANGED <<batch, ctimer, late, conn, backlog, peerVars>>

Expire ==
  /\ ctimer = "set" /\ ctimer' = "expired"
  /\ Outside /\ UNCHANGED <<batch, late, conn, backlog, peerVars, settled>>

DeadlinePasses ==
  /\ waiting = "SETTLING" /\ ~late /\ late' = TRUE
  /\ Outside /\ UNCHANGED <<batch, ctimer, conn, backlog, peerVars, settled>>

ListenReady == IF backlog = <<>> THEN {} ELSE {"listen"}
TimerReady  == IF ctimer = "expired" THEN {"ctimer"} ELSE {}
ClientReady == IF client # None /\ (wire[client] # <<>> \/ HungUp(client))
               THEN {"client"} ELSE {}

Poll ==
  /\ pc = "idle" /\ ~stopping
  /\ Collect(ListenReady \union TimerReady \union ClientReady)
  /\ UNCHANGED controlVars

Next ==
  \/ RunLine \/ RunTooLong \/ RunEnd
  \/ OnClient
  \/ OnHangUp
  \/ \E watches \in BOOLEAN : OnAccept(watches)
  \/ OnTimer
  \/ AnswerParked
  \/ Close
  \/ \E c \in Clients : Connect(c) \/ Say(c)
  \/ \E c \in Clients, how \in {"half", "gone"} : Leave(c, how)
  \/ FrameTurns
  \/ Expire
  \/ DeadlinePasses
  \/ Poll

Spec == Init /\ [][Next]_vars

(* The loop polls until it is asked to stop, serves every descriptor of a   *)
(* batch, a callback returns, and time passes.  Peers promise nothing.      *)
Fairness ==
  /\ WF_vars(Poll)
  /\ WF_vars(OnClient \/ OnHangUp)
  /\ WF_vars(\E watches \in BOOLEAN : OnAccept(watches))
  /\ WF_vars(OnTimer) /\ WF_vars(AnswerParked)
  /\ WF_vars(RunLine \/ RunTooLong \/ RunEnd)
  /\ WF_vars(Expire) /\ WF_vars(DeadlinePasses)

FairSpec == Spec /\ Fairness

-----------------------------------------------------------------------------
(* Safety. *)

(* What a peer is owed an answer to, of what it has said. *)
Due(c) ==
  {line \in {c} \X (1 .. said[c]) : Reads(line) \notin {"blank", "part"}}

(* Its answers follow its commands, with none left out on the way. *)
AnsweredInOrder(c) ==
  /\ Range(answers[c]) \subseteq Due(c)
  /\ \A m, n \in DOMAIN answers[c] : m < n => answers[c][m][2] < answers[c][n][2]
  /\ \A line \in Due(c) \ Range(answers[c]) :
       \A n \in DOMAIN answers[c] : answers[c][n][2] < line[2]

(* "One command a line, answered by one line": whatever was parked, cut     *)
(* into pieces or hung up between, the answers a peer has had are to its    *)
(* own commands, one each, in order, with none left out; and a timer event  *)
(* older than the command that is parked now - of the connection before, in *)
(* the same batch - never answers it early.                                 *)
AnswersInOrder ==
  /\ \A c \in Clients : AnsweredInOrder(c)
  /\ ~armMayFail /\ "ctimer" \in batch /\ waiting # "READY" => ctimer = "expired"

(* Between callbacks no whole line is left in the buffer of a connection    *)
(* that is not parked, nor a buffer with no room: nothing would come back   *)
(* for them until the peer says more.  Nor does the buffer ever hold more   *)
(* than it has room for.                                                    *)
NoLineLeftBehind ==
  /\ TypeOK
  /\ pc = "idle" /\ client # None /\ waiting = "READY" =>
       ~HasLine /\ Len(in) < InMax

(* What a line may be behind that keeps it from being run: a parked command *)
(* that never got its answer, or one line that fills the buffer.            *)
BehindParked(line) ==
  \E i \in 1 .. line[2] - 1 :
    LET before == <<line[1], i>>
    IN  Parks(before) /\ before \notin Range(answers[line[1]])

BehindTooLong(line) ==
  \E i \in 1 .. line[2] - InMax :
    \A j \in i .. i + InMax - 1 : ~Completes(<<line[1], j>>)

(* A peer that was served, stays and reads its answers is heard out, also   *)
(* when it stops writing: until the control is closed, lines it sent while  *)
(* it was served are thrown away only with a command still parked before    *)
(* them, or behind a line too long for the buffer.  A parked command that   *)
(* was answered, and any other line, cost those behind it nothing.          *)
ServedIsHeardOut ==
  \A line \in lost :
    Untaken(line[1]) \/ BehindParked(line) \/ BehindTooLong(line)

-----------------------------------------------------------------------------
(* Liveness, while arming works and until the loop is asked to stop.        *)

(* Every command is answered in the end, a parked one and those behind it   *)
(* too, however long the screen moves, or its connection is over: however   *)
(* much a peer says, its answers catch up with it again and again.          *)
EveryCommandIsAnswered ==
  \A c \in Clients :
    []<>(\/ Range(answers[c]) = Due(c)
         \/ conn[c] \in {"refused", "ended"}
         \/ stopping \/ armMayFail)

(* A peer that hung up is let go of, and makes room for the next, although  *)
(* a full buffer hides its end while its command is parked.                 *)
HungUpIsLetGo ==
  \A c \in Clients :
    (client = c /\ ends[c] # "open" /\ ~armMayFail) ~> client # c \/ stopping
=============================================================================
