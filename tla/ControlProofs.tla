---------------------------- MODULE ControlProofs ----------------------------
(***************************************************************************)
(* Theorems about Control, for any peers, whatever they have to say, and   *)
(* any size of the buffer.                                                 *)
(***************************************************************************)
EXTENDS Control, SequenceTheorems, WellFoundedInduction, TLAPS

-----------------------------------------------------------------------------
(* The invariant the theorems rest on.                                     *)

(* Who is served, and who is waited for.                                    *)
PeersKnown ==
  /\ client # None => conn[client] = "served"
  /\ \A c \in Clients : conn[c] = "served" => client = c
  /\ \A k \in DOMAIN backlog : conn[backlog[k]] = "backlog"
  /\ \A k, l \in DOMAIN backlog : backlog[k] = backlog[l] => k = l
  /\ \A c \in Clients : conn[c] = "backlog" => \E k \in DOMAIN backlog : backlog[k] = c
  /\ "client" \in watched => client # None
  /\ batch \subseteq watched

(* How many of its lines have left c's end of the wire, and how many of     *)
(* those the buffer.                                                        *)
Left(c) == said[c] - Len(wire[c])
Run     == Left(client) - Len(in)

(* The wire, and the buffer before it, hold the last lines said.            *)
WireKept(c) ==
  /\ Len(wire[c]) <= said[c]
  /\ \A i \in 1 .. Len(wire[c]) : wire[c][i] = <<c, Left(c) + i>>
  /\ conn[c] \in {"away", "backlog"} => Left(c) = 0 /\ answers[c] = <<>>
  /\ conn[c] = "away" => wire[c] = <<>>

BufferKept ==
  /\ client = None => in = <<>>
  /\ client # None => Run >= 0 /\ \A i \in 1 .. Len(in) : in[i] = <<client, Run + i>>

StreamKept ==
  /\ \A c \in Clients : WireKept(c)
  /\ BufferKept

(* Of the lines run, each that is due an answer has had it, except for the  *)
(* one that is parked, the last of them.                                    *)
RunAnswered ==
  /\ client = None => waiting = "READY"
  /\ client # None =>
       /\ \A n \in DOMAIN answers[client] : answers[client][n][2] <= Run
       /\ \A line \in Due(client) : line[2] <= Run =>
            line \in Range(answers[client]) \/ (waiting # "READY" /\ line = parked)
  /\ waiting # "READY" =>
       /\ parked \in Due(client) /\ parked[2] <= Run /\ Parks(parked)
       /\ \A n \in DOMAIN answers[client] : answers[client][n][2] < parked[2]

(* The timer is off when nothing is parked; a timer event in the batch is   *)
(* either the parked command's own, or is there with nothing parked and     *)
(* with no line that could be run before it is served.                      *)
TimerKnown ==
  /\ pc = "timer" => "ctimer" \notin batch
  /\ ~armMayFail =>
       /\ waiting = "READY" => ctimer = "off"
       /\ pc = "timer" => ctimer = "off"
       /\ "ctimer" \in batch =>
            IF waiting = "READY" THEN "client" \notin batch /\ (Running => client = None)
                                 ELSE ctimer = "expired"

(* A peer about to be dropped has hung up and has been read to its end.     *)
DropIsDue ==
  pc = "drop" /\ client # None => ends[client] # "open" /\ wire[client] = <<>>

(* The peer of a line thrown away is served no more.                        *)
LostIsOver == \A line \in lost : conn[line[1]] = "ended"

ControlInv ==
  /\ TypeOK
  /\ PeersKnown
  /\ StreamKept
  /\ RunAnswered
  /\ TimerKnown
  /\ DropIsDue
  /\ AnswersInOrder
  /\ NoLineLeftBehind
  /\ LostIsOver
  /\ ServedIsHeardOut

-----------------------------------------------------------------------------
(* The helpers. *)

(* Some number of a set of numbers is the least of them.                    *)
LEMMA First ==
  ASSUME NEW S \in SUBSET Nat, S # {}
  PROVE  \E i \in S : \A j \in S : i <= j
<1> DEFINE R == OpToRel(<, Nat)
<1>1. IsWellFoundedOn(R, Nat)
  BY NatLessThanWellFounded
<1>2. \A m, n \in Nat : <<m, n>> \in R <=> m < n
  BY DEF OpToRel
<1> HIDE DEF R
<1>3. PICK i \in S : \A j \in S : ~(<<j, i>> \in R)
  BY <1>1, WFMin
<1>4. i \in Nat /\ \A j \in S : j \in Nat /\ ~(j < i)
  BY <1>2, <1>3
<1> QED
  BY <1>3, <1>4

(* A sequence without its first, and with one more. *)
LEMMA TailIs ==
  ASSUME NEW S, NEW s \in Seq(S), s # <<>>
  PROVE  /\ Head(s) = s[1] /\ Head(s) \in S /\ Tail(s) \in Seq(S)
         /\ Len(s) \in Nat \ {0} /\ DOMAIN s = 1 .. Len(s)
         /\ DOMAIN Tail(s) = 1 .. Len(s) - 1
         /\ \A k \in 1 .. Len(s) - 1 : Tail(s)[k] = s[k + 1]
<1>1. Len(s) \in Nat \ {0} /\ DOMAIN s = 1 .. Len(s)
  BY EmptySeq, LenProperties
<1>2. /\ Head(s) \in S /\ Tail(s) \in Seq(S) /\ Len(Tail(s)) = Len(s) - 1
      /\ \A k \in 1 .. Len(Tail(s)) : Tail(s)[k] = s[k + 1]
  BY HeadTailProperties
<1>3. DOMAIN Tail(s) = 1 .. Len(s) - 1
  BY <1>2, LenProperties
<1>4. Head(s) = s[1]
  OBVIOUS
<1> QED
  BY <1>1, <1>2, <1>3, <1>4

(* A sequence with one more at its end.                                    *)
LEMMA AppendIs ==
  ASSUME NEW S, NEW s \in Seq(S), NEW e \in S
  PROVE  /\ Append(s, e) \in Seq(S) /\ Len(s) \in Nat /\ DOMAIN s = 1 .. Len(s)
         /\ DOMAIN Append(s, e) = 1 .. Len(s) + 1
         /\ Append(s, e)[Len(s) + 1] = e
         /\ \A k \in 1 .. Len(s) : Append(s, e)[k] = s[k]
<1>1. Len(s) \in Nat /\ DOMAIN s = 1 .. Len(s)
  BY LenProperties
<1>2. Append(s, e) \in Seq(S) /\ Len(Append(s, e)) = Len(s) + 1
  BY AppendProperties
<1>3. DOMAIN Append(s, e) = 1 .. Len(s) + 1
  BY <1>2, LenProperties
<1>4. /\ Append(s, e)[Len(s) + 1] = e
      /\ \A k \in 1 .. Len(s) : Append(s, e)[k] = s[k]
  BY AppendProperties
<1> QED
  BY <1>1, <1>2, <1>3, <1>4

(* The first line of a buffer that holds one. *)
LEMMA FirstLineIs ==
  ASSUME TypeOK, HasLine
  PROVE  /\ FirstLine \in 1 .. Len(in)
         /\ Completes(in[FirstLine])
         /\ \A j \in 1 .. FirstLine - 1 : ~Completes(in[j])
<1> DEFINE S == {i \in 1 .. Len(in) : Completes(in[i])}
<1>1. DOMAIN in = 1 .. Len(in) /\ Len(in) \in Nat
  BY DEF TypeOK
<1>2. S # {} /\ S \in SUBSET Nat
  BY <1>1 DEF HasLine
<1> HIDE DEF S
<1>3. PICK i \in S : \A j \in S : i <= j
  BY <1>2, First
<1>4. \A j \in 1 .. i - 1 : ~Completes(in[j])
  BY <1>3, <1>1 DEF S
<1>5. \E k \in DOMAIN in : Completes(in[k]) /\ \A j \in 1 .. k - 1 : ~Completes(in[j])
  BY <1>3, <1>4, <1>1 DEF S
<1> QED
  BY <1>5, <1>1 DEF FirstLine

(* What is left of the buffer behind place f. *)
LEMMA RestIs ==
  ASSUME TypeOK, NEW f \in 1 .. Len(in)
  PROVE  /\ SubSeq(in, f + 1, Len(in)) \in Seq(Lines)
         /\ Len(SubSeq(in, f + 1, Len(in))) = Len(in) - f
         /\ \A i \in 1 .. Len(in) - f : SubSeq(in, f + 1, Len(in))[i] = in[f + i]
<1>1. in \in Seq(Lines) /\ Len(in) \in Nat
  BY DEF TypeOK
<1>2. \A i \in f + 1 .. Len(in) : in[i] \in Lines
  BY <1>1, ElementOfSeq
<1> QED
  BY <1>1, <1>2, SubSeqProperties

(* What OnClient reads, of `got` lines of the wire. *)
LEMMA ReadIs ==
  ASSUME TypeOK, client \in Clients, NEW got \in 0 .. Len(wire[client])
  PROVE  LET more == SubSeq(wire[client], 1, got)
             rest == SubSeq(wire[client], got + 1, Len(wire[client]))
         IN  /\ in \o more \in Seq(Lines) /\ Len(in \o more) = Len(in) + got
             /\ \A i \in 1 .. Len(in) : (in \o more)[i] = in[i]
             /\ \A i \in 1 .. got : (in \o more)[Len(in) + i] = wire[client][i]
             /\ rest \in Seq(Lines) /\ Len(rest) = Len(wire[client]) - got
             /\ \A i \in 1 .. Len(wire[client]) - got : rest[i] = wire[client][got + i]
<1> DEFINE w    == wire[client]
           more == SubSeq(w, 1, got)
           rest == SubSeq(w, got + 1, Len(w))
<1>1. in \in Seq(Lines) /\ Len(in) \in Nat /\ w \in Seq(Lines) /\ Len(w) \in Nat
  BY DEF TypeOK
<1>2. \A i \in 1 .. Len(w) : w[i] \in Lines
  BY <1>1, ElementOfSeq
<1> HIDE DEF w
<1>3. /\ more \in Seq(Lines) /\ Len(more) = got
      /\ \A i \in 1 .. got : more[i] = w[i]
  BY <1>1, <1>2, SubSeqProperties DEF w
<1>4. /\ rest \in Seq(Lines) /\ Len(rest) = Len(w) - got
      /\ \A i \in 1 .. Len(w) - got : rest[i] = w[got + i]
  BY <1>1, <1>2, SubSeqProperties DEF w
<1> HIDE DEF more, rest
<1>5. /\ in \o more \in Seq(Lines) /\ Len(in \o more) = Len(in) + got
      /\ \A i \in 1 .. Len(in) + got :
           (in \o more)[i] = IF i <= Len(in) THEN in[i] ELSE more[i - Len(in)]
  BY <1>1, <1>3, ConcatProperties
<1>6. \A i \in 1 .. Len(in) : (in \o more)[i] = in[i]
  BY <1>5, <1>1
<1>7. \A i \in 1 .. got : (in \o more)[Len(in) + i] = w[i]
  BY <1>5, <1>3, <1>1
<1> QED
  BY <1>3, <1>4, <1>5, <1>6, <1>7 DEF w, more, rest

(* What comes of the line RunLine takes from place f of the buffer. *)
RunsFrom(f, rest) ==
  /\ \/ /\ Reads(in[f]) = "blank"
        /\ KeepClient(rest) /\ UNCHANGED <<waiting, parked, ctimer, answers>>
     \/ /\ Reads(in[f]) \notin {"blank", "part"}
        /\ Reply(in[f], rest)
     \/ /\ Reads(in[f]) \notin {"blank", "part"} /\ Parks(in[f])
        /\ \E why \in {"SLEEPING", "SETTLING"} : Park(in[f], rest, why)
  /\ UNCHANGED <<armMayFail, pc, backlog, said, ends, settled>>

(* The line run is the first whole one, and what is kept is all behind it. *)
LEMMA RunLineIs ==
  ASSUME TypeOK, RunLine
  PROVE  /\ Running /\ client \in Clients /\ waiting = "READY"
         /\ \E f \in 1 .. Len(in), rest \in Seq(Lines) :
              /\ in[f] \in Lines
              /\ \A j \in 1 .. f - 1 : Reads(in[j]) = "part"
              /\ Len(rest) = Len(in) - f
              /\ \A i \in 1 .. Len(in) - f : rest[i] = in[f + i]
              /\ RunsFrom(f, rest)
<1> DEFINE f    == FirstLine
           rest == SubSeq(in, f + 1, Len(in))
<1>1. /\ f \in 1 .. Len(in) /\ Reads(in[f]) # "part"
      /\ \A j \in 1 .. f - 1 : Reads(in[j]) = "part"
  BY FirstLineIs DEF RunLine, Completes
<1>2. Running /\ client \in Clients /\ waiting = "READY"
  BY DEF RunLine, CanRun, TypeOK
<1>3. in[f] \in Lines
  BY <1>1, ElementOfSeq DEF TypeOK
<1> HIDE DEF f
<1>4. /\ rest \in Seq(Lines) /\ Len(rest) = Len(in) - f
      /\ \A i \in 1 .. Len(in) - f : rest[i] = in[f + i]
  BY <1>1, RestIs
<1> HIDE DEF rest
<1>5. RunsFrom(f, rest)
  BY <1>1 DEF RunLine, RunsFrom, Parks, f, rest
<1> QED
  BY <1>1, <1>2, <1>3, <1>4, <1>5

(* What comes of the command parked. *)
LEMMA AnswerParkedIs ==
  ASSUME AnswerParked
  PROVE  /\ pc = "timer" /\ pc' = "run"
         /\ \/ waiting # "READY" /\ Reply(parked, in)
            \/ waiting = "SETTLING" /\ Park(parked, in, "SETTLING")
            \/ KeepClient(in) /\ UNCHANGED <<waiting, parked, answers, ctimer>>
         /\ UNCHANGED <<armMayFail, late, stopping, backlog, said, ends, settled>>
BY DEF AnswerParked, ParkIsOver

(* What comes of an accept. *)
LEMMA Accepts ==
  ASSUME \E watches \in BOOLEAN : OnAccept(watches)
  PROVE  /\ pc = "idle" /\ "listen" \in batch /\ batch' = batch \ {"listen"}
         /\ backlog # <<>> /\ backlog' = Tail(backlog)
         /\ \/ /\ client = None /\ client' = Head(backlog) /\ in' = <<>>
               /\ waiting' = "READY"
               /\ conn' = [conn EXCEPT ![Head(backlog)] = "served"]
               /\ watched' = watched \union {"client"} /\ wire' = wire
            \/ /\ \E how \in {"ended", "refused"} :
                    conn' = [conn EXCEPT ![Head(backlog)] = how]
               /\ wire' = [wire EXCEPT ![Head(backlog)] = <<>>]
               /\ UNCHANGED <<client, in, waiting, watched>>
         /\ UNCHANGED <<armMayFail, ctimer, late, pc, stopping, said, ends,
                        settled, parked, answers, lost>>
<1>1. PICK watches \in BOOLEAN : OnAccept(watches)
  OBVIOUS
<1>2. CASE client = None /\ watches
  BY <1>1, <1>2 DEF OnAccept, Turn, Served, historyVars
<1>3. CASE ~(client = None /\ watches)
  BY <1>1, <1>3 DEF OnAccept, Turn, Served, historyVars
<1> QED
  BY <1>2, <1>3

-----------------------------------------------------------------------------
(* The types. *)

(* The types of what the helpers change. *)
ChangedTypes ==
  /\ client \in Clients \union {None}
  /\ in \in Seq(Lines) /\ Len(in) <= InMax
  /\ batch \subseteq watched
  /\ waiting \in {"READY", "SLEEPING", "SETTLING"}
  /\ ctimer \in {"off", "set", "expired"}
  /\ conn \in [Clients -> {"away", "backlog", "served", "refused", "ended"}]
  /\ wire \in [Clients -> Seq(Lines)]
  /\ parked \in {None} \union Lines
  /\ answers \in [Clients -> Seq(Lines)]
  /\ lost \subseteq Lines

(* The lines thrown away with a peer are lines. *)
LEMMA UnheardTypes ==
  ASSUME TypeOK, client \in Clients, NEW rest \in Seq(Lines)
  PROVE  Unheard(rest) \subseteq Lines
<1>1. wire[client] \in Seq(Lines)
  BY DEF TypeOK
<1>2. rest \o wire[client] \in Seq(Lines)
  BY <1>1, ConcatProperties
<1>3. \A i \in DOMAIN (rest \o wire[client]) : (rest \o wire[client])[i] \in Lines
  BY <1>2, ElementOfSeq, LenProperties
<1> QED
  BY <1>3 DEF Unheard, Range

(* A client let go of. *)
LEMMA DropTypes ==
  ASSUME TypeOK, ControlAssumption, client \in Clients,
         NEW u \in SUBSET Lines, DropClient(u), UNCHANGED answers
  PROVE  ChangedTypes'
BY EmptySeq DEF TypeOK, ChangedTypes, DropClient, Disarmed, Unwatch, ControlAssumption

(* A line answered, by an answer or by letting go. *)
LEMMA ReplyTypes ==
  ASSUME TypeOK, ControlAssumption, client \in Clients, NEW line \in Lines,
         NEW rest \in Seq(Lines), Len(rest) <= InMax, Reply(line, rest)
  PROVE  ChangedTypes'
<1>1. CASE DropClient(Unheard(rest)) /\ UNCHANGED answers
  BY <1>1, DropTypes, UnheardTypes
<1>2. CASE /\ answers' = [answers EXCEPT ![client] = Append(@, line)]
           /\ waiting' = "READY" /\ parked' = None
           /\ KeepClient(rest) /\ UNCHANGED ctimer
  <2>1. Append(answers[client], line) \in Seq(Lines)
    BY AppendProperties DEF TypeOK
  <2> QED
    BY <1>2, <2>1 DEF KeepClient, TypeOK, ChangedTypes
<1> QED
  BY <1>1, <1>2 DEF Reply

(* A line parked. *)
LEMMA ParkTypes ==
  ASSUME TypeOK, NEW line \in Lines, NEW rest \in Seq(Lines), Len(rest) <= InMax,
         NEW why \in {"SLEEPING", "SETTLING"}, Park(line, rest, why)
  PROVE  ChangedTypes'
BY DEF Park, KeepClient, Armed, TypeOK, ChangedTypes

(* Every step keeps the types.                                             *)
LEMMA TypeStep ==
  ASSUME TypeOK, PeersKnown, RunAnswered, ControlAssumption, [Next]_vars
  PROVE  TypeOK'
<1>0. client # None => client \in Clients
  BY DEF TypeOK
<1>1. CASE RunLine
  <2>1. client \in Clients
    BY <1>1, RunLineIs
  <2>2. PICK f \in 1 .. Len(in), rest \in Seq(Lines) :
          /\ in[f] \in Lines /\ Len(rest) = Len(in) - f
          /\ RunsFrom(f, rest)
    BY <1>1, RunLineIs
  <2>3. Len(rest) <= InMax
    BY <2>2 DEF TypeOK, ControlAssumption
  <2>4. ChangedTypes'
    <3>1. CASE KeepClient(rest) /\ UNCHANGED <<waiting, parked, ctimer, answers>>
      BY <3>1, <2>3 DEF KeepClient, TypeOK, ChangedTypes
    <3> QED
      BY <3>1, <2>1, <2>2, <2>3, ReplyTypes, ParkTypes DEF RunsFrom
  <2>5. /\ UNCHANGED <<armMayFail, pc, backlog, said, ends, settled>>
        /\ stopping' \in BOOLEAN /\ late' \in BOOLEAN
    BY <1>1 DEF RunLine, TypeOK
  <2> QED
    BY <2>4, <2>5 DEF TypeOK, ChangedTypes
<1>2. CASE RunTooLong \/ OnHangUp
  <2>1. client \in Clients
    BY <1>0, <1>2 DEF RunTooLong, CanRun, OnHangUp, Turn, PeersKnown
  <2>2. in \in Seq(Lines)
    BY DEF TypeOK
  <2>3. ChangedTypes'
    BY <1>2, <2>1, <2>2, DropTypes, UnheardTypes DEF RunTooLong, OnHangUp
  <2> QED
    BY <1>2, <2>3 DEF RunTooLong, OnHangUp, TypeOK, ChangedTypes
<1>3. CASE RunEnd
  <2>1. in \in Seq(Lines)
    BY DEF TypeOK
  <2>2. CASE pc = "drop" /\ client # None
    <3>1. ChangedTypes'
      BY <1>0, <1>3, <2>1, <2>2, DropTypes, UnheardTypes DEF RunEnd
    <3> QED
      BY <1>3, <3>1 DEF RunEnd, TypeOK, ChangedTypes
  <2>3. CASE ~(pc = "drop" /\ client # None)
    BY <1>3, <2>3 DEF RunEnd, TypeOK
  <2> QED
    BY <2>2, <2>3
<1>4. CASE OnClient
  <2>1. client \in Clients
    BY <1>0, <1>4 DEF OnClient, Turn, PeersKnown
  <2> DEFINE room  == InMax - Len(in)
             there == Len(wire[client])
             got   == IF there < room THEN there ELSE room
  <2>2. got \in 0 .. Len(wire[client]) /\ Len(in) + got <= InMax
    BY <2>1 DEF TypeOK, ControlAssumption
  <2>3. /\ in' = in \o SubSeq(wire[client], 1, got)
        /\ wire' = [wire EXCEPT ![client] = SubSeq(@, got + 1, there)]
        /\ pc' \in {"run", "drop"}
        /\ batch' = batch \ {"client"}
        /\ UNCHANGED <<armMayFail, client, waiting, ctimer, late, stopping, conn,
                       backlog, said, ends, settled, parked, historyVars, watched>>
    BY <1>4 DEF OnClient, Served
  <2> HIDE DEF got
  <2>4. in' \in Seq(Lines) /\ Len(in') <= InMax /\ wire' \in [Clients -> Seq(Lines)]
    BY <2>1, <2>2, <2>3, ReadIs DEF TypeOK
  <2>5. batch' \subseteq watched' /\ pc' \in {"idle", "timer", "run", "drop", "closed"}
    BY <2>3 DEF TypeOK
  <2> QED
    BY <2>3, <2>4, <2>5 DEF TypeOK, historyVars
<1>5. CASE \E watches \in BOOLEAN : OnAccept(watches)
  <2>1. Head(backlog) \in Clients /\ Tail(backlog) \in Seq(Clients)
    BY <1>5, Accepts, HeadTailProperties DEF TypeOK
  <2>2. <<>> \in Seq(Lines) /\ Len(<<>>) <= InMax
    BY EmptySeq DEF ControlAssumption
  <2>3. in' \in Seq(Lines) /\ Len(in') <= InMax
    <3>1. in' = <<>> \/ in' = in
      BY <1>5, Accepts
    <3> QED
      BY <2>2, <3>1 DEF TypeOK
  <2>4. wire' \in [Clients -> Seq(Lines)]
    <3>1. wire' = wire \/ wire' = [wire EXCEPT ![Head(backlog)] = <<>>]
      BY <1>5, Accepts
    <3> QED
      BY <2>2, <3>1 DEF TypeOK
  <2>5. client' \in Clients \union {None} /\ backlog' \in Seq(Clients)
    BY <1>5, Accepts, <2>1 DEF TypeOK
  <2>6. conn' \in [Clients -> {"away", "backlog", "served", "refused", "ended"}]
    <3>1. \E how \in {"served", "ended", "refused"} :
             conn' = [conn EXCEPT ![Head(backlog)] = how]
      BY <1>5, Accepts
    <3> QED
      BY <3>1, <2>1 DEF TypeOK
  <2>7. batch' \subseteq watched' /\ waiting' \in {"READY", "SLEEPING", "SETTLING"}
    BY <1>5, Accepts DEF TypeOK
  <2>8. UNCHANGED <<armMayFail, ctimer, late, pc, stopping, said, ends,
                    settled, parked, answers, lost>>
    BY <1>5, Accepts
  <2> QED
    BY <2>3, <2>4, <2>5, <2>6, <2>7, <2>8 DEF TypeOK
<1>6. CASE OnTimer
  BY <1>6 DEF OnTimer, Served, TypeOK, peerVars, historyVars
<1>7. CASE AnswerParked
  <2>1. /\ waiting # "READY" => parked \in Lines /\ client \in Clients
        /\ in \in Seq(Lines) /\ Len(in) <= InMax
    BY <1>0 DEF TypeOK, RunAnswered, Due, Lines
  <2>2. ChangedTypes'
    <3>1. CASE KeepClient(in) /\ UNCHANGED <<waiting, parked, answers, ctimer>>
      BY <3>1 DEF KeepClient, TypeOK, ChangedTypes
    <3> QED
      BY <1>7, <3>1, <2>1, AnswerParkedIs, ReplyTypes, ParkTypes
  <2> QED
    BY <1>7, <2>2, AnswerParkedIs DEF TypeOK, ChangedTypes
<1>8. CASE Close
  BY <1>8, EmptySeq DEF Close, Unwatch, TypeOK, historyVars, ControlAssumption
<1>9. CASE \E c \in Clients : Connect(c)
  <2>1. backlog' \in Seq(Clients)
    BY <1>9, AppendProperties DEF Connect, TypeOK
  <2> QED
    BY <1>9, <2>1 DEF Connect, Outside, TypeOK, peerVars, historyVars
<1>10. CASE \E c \in Clients : Say(c)
  <2>1. PICK c \in Clients : Say(c)
    BY <1>10
  <2>2. said' \in [Clients -> Nat]
    BY <2>1 DEF Say, TypeOK
  <2>3. Append(wire[c], <<c, said'[c]>>) \in Seq(Lines)
    <3>1. <<c, said'[c]>> \in Lines
      BY <2>2 DEF Lines
    <3> QED
      BY <3>1, AppendProperties DEF TypeOK
  <2>4. wire' \in [Clients -> Seq(Lines)]
    BY <2>1, <2>3 DEF Say, TypeOK
  <2>5. UNCHANGED <<armMayFail, client, in, waiting, ctimer, late, pc, stopping,
                    conn, backlog, ends, settled, parked, answers, lost, watched,
                    batch>>
    BY <2>1 DEF Say, Outside, historyVars
  <2>6. /\ client' \in Clients \union {None}
        /\ in' \in Seq(Lines) /\ Len(in') <= InMax
        /\ batch' \subseteq watched'
        /\ parked' \in {None} \union Lines /\ lost' \subseteq Lines
    BY <2>5 DEF TypeOK
  <2> QED
    BY <2>2, <2>4, <2>5, <2>6 DEF TypeOK
<1>11. CASE \E c \in Clients, how \in {"half", "gone"} : Leave(c, how)
  BY <1>11 DEF Leave, Outside, TypeOK, historyVars
<1>12. CASE FrameTurns \/ Expire \/ DeadlinePasses
  <2>1. CASE FrameTurns
    BY <2>1 DEF FrameTurns, Outside, TypeOK, peerVars, historyVars
  <2>2. CASE Expire
    BY <2>2 DEF Expire, Outside, TypeOK, peerVars, historyVars
  <2>3. CASE DeadlinePasses
    BY <2>3 DEF DeadlinePasses, Outside, TypeOK, peerVars, historyVars
  <2> QED
    BY <1>12, <2>1, <2>2, <2>3
<1>13. CASE Poll
  BY <1>13 DEF Poll, Collect, controlVars, TypeOK, peerVars, historyVars
<1>14. CASE UNCHANGED vars
  BY <1>14 DEF vars, controlVars, TypeOK, peerVars, historyVars
<1> QED
  BY <1>1, <1>2, <1>3, <1>4, <1>5, <1>6, <1>7, <1>8, <1>9, <1>10, <1>11, <1>12,
     <1>13, <1>14 DEF Next

-----------------------------------------------------------------------------
(* Who is served, and who is waited for. *)

(* The connections stay as they are. *)
SamePeers ==
  /\ UNCHANGED <<client, conn, backlog>>
  /\ "client" \in watched' => "client" \in watched
  /\ batch' \subseteq watched'

(* Every step keeps who is served, who waits and what is on the loop.      *)
LEMMA PeersStep ==
  ASSUME TypeOK, PeersKnown, RunAnswered, ControlAssumption, [Next]_vars
  PROVE  PeersKnown'
<1>0. SamePeers => PeersKnown'
  BY DEF SamePeers, PeersKnown, TypeOK
<1>1. ASSUME client # None, NEW u, DropClient(u), UNCHANGED backlog
      PROVE  PeersKnown'
  BY <1>1 DEF DropClient, Unwatch, PeersKnown, TypeOK
<1>2. ASSUME client # None, NEW line, NEW rest, Reply(line, rest), UNCHANGED backlog
      PROVE  PeersKnown'
  BY <1>0, <1>1, <1>2 DEF Reply, KeepClient, SamePeers, PeersKnown
<1>3. CASE RunLine
  <2>1. client # None
    BY <1>3 DEF RunLine, CanRun
  <2>2. PICK f, rest : RunsFrom(f, rest)
    BY <1>3, RunLineIs
  <2>3. SamePeers \/ Reply(in[f], rest)
    BY <2>2 DEF RunsFrom, KeepClient, Park, SamePeers, PeersKnown
  <2> QED
    BY <1>0, <1>2, <2>1, <2>2, <2>3 DEF RunsFrom
<1>4. CASE RunTooLong \/ OnHangUp \/ RunEnd
  <2>1. SamePeers \/ (client # None /\ UNCHANGED backlog /\ \E u : DropClient(u))
    BY <1>4 DEF RunTooLong, CanRun, OnHangUp, RunEnd, Turn, SamePeers, PeersKnown
  <2> QED
    BY <2>1, <1>0, <1>1
<1>5. CASE \E watches \in BOOLEAN : OnAccept(watches)
  <2> DEFINE h == Head(backlog)
  <2>0. backlog # <<>> /\ backlog \in Seq(Clients) /\ backlog' = Tail(backlog)
    BY <1>5, Accepts DEF TypeOK
  <2>1. /\ h \in Clients /\ h = backlog[1] /\ 1 \in DOMAIN backlog
        /\ Len(backlog) \in Nat \ {0} /\ DOMAIN backlog = 1 .. Len(backlog)
        /\ DOMAIN backlog' = 1 .. Len(backlog) - 1
        /\ \A k \in DOMAIN backlog' : backlog'[k] = backlog[k + 1]
    BY <2>0, TailIs
  <2>2. /\ conn[h] = "backlog"
        /\ \A k \in DOMAIN backlog' : backlog'[k] # h /\ backlog'[k] \in Clients
    BY <2>0, <2>1, ElementOfSeq DEF PeersKnown
  <2>3. \E how \in {"served", "ended", "refused"} :
          conn' = [conn EXCEPT ![h] = how] /\ (how = "served" => client = None /\ client' = h)
    BY <1>5, Accepts
  <2>4. \A c \in Clients : c # h => conn'[c] = conn[c]
    BY <2>3 DEF TypeOK
  <2>5. conn'[h] # "backlog" /\ (conn'[h] = "served" => client' = h)
    BY <2>1, <2>3 DEF TypeOK
  <2>6. \A k \in DOMAIN backlog' : conn'[backlog'[k]] = "backlog"
    BY <2>1, <2>2, <2>4 DEF PeersKnown
  <2>7. \A k, l \in DOMAIN backlog' : backlog'[k] = backlog'[l] => k = l
    <3> SUFFICES ASSUME NEW k \in DOMAIN backlog', NEW l \in DOMAIN backlog',
                        backlog'[k] = backlog'[l]
                 PROVE  k = l
      OBVIOUS
    <3>1. k + 1 \in DOMAIN backlog /\ l + 1 \in DOMAIN backlog
      BY <2>1
    <3>2. backlog[k + 1] = backlog[l + 1]
      BY <2>1
    <3>3. k + 1 = l + 1
      BY <3>1, <3>2 DEF PeersKnown
    <3> QED
      BY <2>1, <3>3
  <2>8. \A c \in Clients : conn'[c] = "backlog" => \E k \in DOMAIN backlog' : backlog'[k] = c
    <3> SUFFICES ASSUME NEW c \in Clients, conn'[c] = "backlog"
                 PROVE  \E k \in DOMAIN backlog' : backlog'[k] = c
      OBVIOUS
    <3>1. c # h /\ conn[c] = "backlog"
      BY <2>4, <2>5
    <3>2. PICK k \in DOMAIN backlog : backlog[k] = c
      BY <3>1 DEF PeersKnown
    <3>3. k - 1 \in DOMAIN backlog' /\ backlog'[k - 1] = c
      BY <2>1, <3>1, <3>2
    <3> QED
      BY <3>3
  <2>9. /\ client' # None => conn'[client'] = "served"
        /\ "client" \in watched' => client' # None
        /\ batch' \subseteq watched'
    <3>1. CASE client' = h /\ conn' = [conn EXCEPT ![h] = "served"]
               /\ watched' = watched \union {"client"}
      <4>1. h # None /\ batch' \subseteq batch
        BY <1>5, Accepts, <2>1 DEF ControlAssumption
      <4> QED
        BY <3>1, <4>1, <2>1 DEF TypeOK, PeersKnown
    <3>2. CASE UNCHANGED <<client, watched>>
      <4>1. client # None => client \in Clients /\ client # h
        BY <2>2 DEF PeersKnown, TypeOK
      <4>2. client # None => conn'[client] = "served"
        BY <2>4, <4>1 DEF PeersKnown
      <4>3. batch' \subseteq batch
        BY <1>5, Accepts
      <4> QED
        BY <3>2, <4>2, <4>3 DEF PeersKnown
    <3> QED
      BY <1>5, Accepts, <3>1, <3>2
  <2>10. \A c \in Clients : conn'[c] = "served" => client' = c
    <3> SUFFICES ASSUME NEW c \in Clients, conn'[c] = "served"  PROVE  client' = c
      OBVIOUS
    <3>1. CASE c = h
      BY <3>1, <2>5
    <3>2. CASE c # h
      <4>1. client = c
        BY <2>4, <3>2 DEF PeersKnown
      <4>2. client # None
        BY <4>1 DEF ControlAssumption
      <4> QED
        BY <1>5, Accepts, <4>1, <4>2
    <3> QED
      BY <3>1, <3>2
  <2> QED
    BY <2>6, <2>7, <2>8, <2>9, <2>10 DEF PeersKnown
<1>6. CASE AnswerParked
  <2>1. SamePeers \/ (client # None /\ Reply(parked, in))
    BY <1>6, AnswerParkedIs DEF KeepClient, Park, SamePeers, PeersKnown, RunAnswered
  <2> QED
    BY <1>0, <1>2, <1>6, <2>1, AnswerParkedIs
<1>7. CASE Close
  <2>1. /\ client' = None /\ backlog' = <<>> /\ "client" \notin watched'
        /\ batch' \subseteq watched'
    BY <1>7 DEF Close, Unwatch, PeersKnown
  <2>2. \A c \in Clients : conn'[c] \notin {"served", "backlog"}
    BY <1>7 DEF Close, PeersKnown, Range
  <2>3. DOMAIN backlog' = {}
    BY <2>1
  <2> QED
    BY <2>1, <2>2, <2>3 DEF PeersKnown
<1>8. CASE \E c \in Clients : Connect(c)
  <2>1. PICK c \in Clients : Connect(c)
    BY <1>8
  <2>2. /\ DOMAIN backlog = 1 .. Len(backlog) /\ Len(backlog) \in Nat
        /\ DOMAIN backlog' = 1 .. Len(backlog) + 1
        /\ backlog'[Len(backlog) + 1] = c
        /\ \A k \in DOMAIN backlog : backlog'[k] = backlog[k]
    <3>1. backlog \in Seq(Clients) /\ backlog' = Append(backlog, c)
      BY <2>1 DEF Connect, TypeOK
    <3> QED
      BY <3>1, AppendIs
  <2>3. /\ conn[c] = "away" /\ conn'[c] = "backlog"
        /\ \A d \in Clients : d # c => conn'[d] = conn[d]
        /\ UNCHANGED <<client, watched, batch>>
    BY <2>1 DEF Connect, Outside, TypeOK
  <2>4. \A k \in DOMAIN backlog : backlog[k] # c /\ backlog[k] \in Clients
    BY <2>2, <2>3 DEF PeersKnown, TypeOK
  <2>5. \A k \in DOMAIN backlog' : conn'[backlog'[k]] = "backlog"
    BY <2>2, <2>3, <2>4 DEF PeersKnown
  <2>6. \A k, l \in DOMAIN backlog' : backlog'[k] = backlog'[l] => k = l
    BY <2>2, <2>4 DEF PeersKnown
  <2>7. \A d \in Clients : conn'[d] = "backlog" => \E k \in DOMAIN backlog' : backlog'[k] = d
    BY <2>2, <2>3 DEF PeersKnown
  <2>8. client' # None => client' # c /\ client' \in Clients
    BY <2>3 DEF PeersKnown, TypeOK
  <2>9. client' # None => conn'[client'] = "served"
    BY <2>3, <2>8 DEF PeersKnown
  <2>10. \A d \in Clients : conn'[d] = "served" => client' = d
    BY <2>3 DEF PeersKnown
  <2>11. ("client" \in watched' => client' # None) /\ batch' \subseteq watched'
    BY <2>3 DEF PeersKnown
  <2> QED
    BY <2>5, <2>6, <2>7, <2>9, <2>10, <2>11 DEF PeersKnown
<1>9. CASE OnClient \/ OnTimer
  <2>1. SamePeers
    BY <1>9 DEF OnClient, OnTimer, Served, SamePeers, PeersKnown
  <2> QED
    BY <1>0, <2>1
<1>10. CASE \E c \in Clients : Say(c) \/ \E how \in {"half", "gone"} : Leave(c, how)
  <2>1. SamePeers
    BY <1>10 DEF Say, Leave, Outside, SamePeers, PeersKnown
  <2> QED
    BY <1>0, <2>1
<1>11. CASE FrameTurns \/ Expire \/ DeadlinePasses
  <2>1. SamePeers
    BY <1>11 DEF FrameTurns, Expire, DeadlinePasses, Outside, SamePeers, PeersKnown
  <2> QED
    BY <1>0, <2>1
<1>12. CASE Poll
  <2>1. SamePeers
    BY <1>12 DEF Poll, Collect, controlVars, SamePeers, PeersKnown
  <2> QED
    BY <1>0, <2>1
<1>13. CASE UNCHANGED vars
  <2>1. SamePeers
    BY <1>13 DEF vars, controlVars, SamePeers, PeersKnown
  <2> QED
    BY <1>0, <2>1
<1> QED
  BY <1>3, <1>4, <1>5, <1>6, <1>7, <1>8, <1>9, <1>10, <1>11, <1>12, <1>13 DEF Next

-----------------------------------------------------------------------------
(* The wire and the buffer. *)

(* The lines of c are where they were, or it has none any more. *)
LEMMA WireStays ==
  ASSUME TypeOK, NEW c \in Clients, WireKept(c), said'[c] = said[c],
         \/ /\ wire'[c] = wire[c]
            /\ conn'[c] \in {"away", "backlog"} =>
                 answers'[c] = answers[c] /\ conn[c] \in {"away", "backlog"}
            /\ conn'[c] = "away" => conn[c] = "away"
         \/ wire'[c] = <<>> /\ conn'[c] \notin {"away", "backlog"}
         \/ wire'[c] = <<>> /\ UNCHANGED <<conn[c], answers[c]>> /\ conn[c] = "away"
  PROVE  WireKept(c)'
<1>1. said[c] \in Nat /\ wire[c] \in Seq(Lines) /\ Len(wire[c]) \in Nat
  BY DEF TypeOK
<1>2. CASE wire'[c] = wire[c]
  BY <1>2, <1>1 DEF WireKept, Left
<1>3. CASE wire'[c] = <<>>
  <2>1. Len(wire'[c]) = 0 /\ Left(c)' = said[c]
    BY <1>1, <1>3 DEF Left
  <2> QED
    BY <1>1, <1>3, <2>1 DEF WireKept, Left
<1> QED
  BY <1>2, <1>3

(* The buffer once a peer is let go of, and once lines are taken from it.   *)
LEMMA BufferRest ==
  ASSUME TypeOK, BufferKept, client \in Clients, client # None,
         NEW f \in 0 .. Len(in), NEW rest \in Seq(Lines), Len(rest) = Len(in) - f,
         \A i \in 1 .. Len(in) - f : rest[i] = in[f + i],
         in' = rest, UNCHANGED client, wire'[client] = wire[client],
         said'[client] = said[client]
  PROVE  BufferKept' /\ Run' = Run + f
<1>1. /\ said[client] \in Nat /\ Len(wire[client]) \in Nat /\ Len(in) \in Nat
      /\ Run >= 0 /\ \A i \in 1 .. Len(in) : in[i] = <<client, Run + i>>
  BY DEF TypeOK, BufferKept
<1>2. Left(client)' = Left(client) /\ Left(client) \in Int
  BY <1>1 DEF Left
<1>3. Run' = Run + f /\ Run \in Int
  BY <1>1, <1>2 DEF Run
<1> HIDE DEF Run
<1>4. \A i \in 1 .. Len(in) - f : rest[i] = <<client, Run + f + i>>
  <2> SUFFICES ASSUME NEW i \in 1 .. Len(in) - f
               PROVE  rest[i] = <<client, Run + f + i>>
    OBVIOUS
  <2>1. f + i \in 1 .. Len(in) /\ Run + (f + i) = Run + f + i
    BY <1>1, <1>3
  <2>2. in[f + i] = <<client, Run + (f + i)>>
    BY <1>1, <2>1
  <2> QED
    BY <2>1, <2>2
<1> QED
  BY <1>1, <1>3, <1>4 DEF BufferKept

(* What a step does that keeps a client and leaves `rest` in the buffer. *)
Keeps(rest) ==
  /\ in' = rest
  /\ UNCHANGED <<client, conn, wire, said>>
  /\ \A c \in Clients : c # client => answers'[c] = answers[c]

(* What a step does that lets go of it. *)
Drops ==
  /\ client # None /\ client' = None /\ in' = <<>> /\ waiting' = "READY"
  /\ conn' = [conn EXCEPT ![client] = "ended"]
  /\ wire' = [wire EXCEPT ![client] = <<>>]
  /\ UNCHANGED <<said, answers>>

(* A reply does the one or the other. *)
LEMMA ReplyKeepsOrDrops ==
  ASSUME TypeOK, client \in Clients, client # None, NEW line, NEW rest,
         Reply(line, rest), UNCHANGED said
  PROVE  Drops \/ Keeps(rest)
BY DEF Reply, DropClient, KeepClient, Drops, Keeps, TypeOK

(* Letting go of the client leaves every other peer's bytes as they were.  *)
LEMMA DropKeepsStream ==
  ASSUME TypeOK, PeersKnown, StreamKept, Drops, NEW c \in Clients
  PROVE  WireKept(c)' /\ BufferKept'
<1>1. client \in Clients
  BY DEF TypeOK, Drops
<1>2. WireKept(c)'
  <2>1. CASE c = client
    BY <1>1, <2>1, WireStays DEF Drops, StreamKept, TypeOK
  <2>2. CASE c # client
    BY <1>1, <2>2, WireStays DEF Drops, StreamKept, TypeOK
  <2> QED
    BY <2>1, <2>2
<1> QED
  BY <1>2 DEF BufferKept, Drops

(* Taking lines off the front of the buffer keeps it the end of what was said. *)
LEMMA KeepKeepsStream ==
  ASSUME TypeOK, PeersKnown, StreamKept, client \in Clients, client # None,
         NEW f \in 0 .. Len(in), NEW rest \in Seq(Lines), Len(rest) = Len(in) - f,
         \A i \in 1 .. Len(in) - f : rest[i] = in[f + i],
         Keeps(rest), NEW c \in Clients
  PROVE  WireKept(c)' /\ BufferKept'
<1>1. conn[client] = "served"
  BY DEF PeersKnown
<1>2. WireKept(c)'
  <2>1. CASE c = client
    BY <1>1, <2>1, WireStays DEF Keeps, StreamKept
  <2>2. CASE c # client
    BY <2>2, WireStays DEF Keeps, StreamKept
  <2> QED
    BY <2>1, <2>2
<1> QED
  BY <1>2, BufferRest DEF StreamKept, Keeps

(* Every step keeps what is buffered and on the wire the last of what was said. *)
LEMMA StreamStep ==
  ASSUME TypeOK, PeersKnown, StreamKept, RunAnswered, ControlAssumption, [Next]_vars
  PROVE  StreamKept'
<1> DEFINE Goal == (\A c \in Clients : WireKept(c)') /\ BufferKept'
<1>a. SUFFICES Goal
  BY DEF StreamKept
<1>b. in \in Seq(Lines) /\ Len(in) \in Nat
  BY DEF TypeOK
<1>c. client # None => client \in Clients
  BY DEF TypeOK
<1>1. Drops => Goal
  <2> SUFFICES ASSUME Drops  PROVE  Goal
    OBVIOUS
  <2>1. client \in Clients
    BY <1>c DEF Drops
  <2> QED
    BY <2>1, DropKeepsStream
<1>2. client # None /\ Keeps(in) => Goal
  BY <1>b, <1>c, KeepKeepsStream
<1>3. ASSUME UNCHANGED <<client, in, wire, said, conn, answers>>
      PROVE  Goal
  BY <1>3 DEF StreamKept, WireKept, BufferKept, Left, Run
<1> HIDE DEF Goal
<1>4. CASE RunLine
  <2>1. client \in Clients /\ client # None
    BY <1>4, RunLineIs DEF ControlAssumption
  <2>2. PICK f \in 1 .. Len(in), rest \in Seq(Lines) :
          /\ Len(rest) = Len(in) - f
          /\ \A i \in 1 .. Len(in) - f : rest[i] = in[f + i]
          /\ RunsFrom(f, rest)
    BY <1>4, RunLineIs
  <2>3. Drops \/ Keeps(rest)
    BY <2>1, <2>2, ReplyKeepsOrDrops DEF RunsFrom, Keeps, KeepClient, Park
  <2>4. Keeps(rest) => Goal
    <3>1. f \in 0 .. Len(in)
      BY <1>b
    <3> QED
      BY <2>1, <2>2, <3>1, KeepKeepsStream DEF Goal
  <2> QED
    BY <2>3, <2>4, <1>1
<1>5. CASE RunTooLong \/ OnHangUp \/ RunEnd
  <2>1. Drops \/ UNCHANGED <<client, in, wire, said, conn, answers>>
    BY <1>5 DEF RunTooLong, CanRun, OnHangUp, RunEnd, Turn, DropClient, Drops, PeersKnown
  <2> QED
    BY <2>1, <1>1, <1>3
<1>6. CASE OnClient
  <2>1. client \in Clients /\ client # None /\ "client" \in batch
    BY <1>6, <1>c DEF OnClient, Turn, PeersKnown
  <2> DEFINE w    == wire[client]
             room == InMax - Len(in)
             got  == IF Len(w) < room THEN Len(w) ELSE room
  <2>2. /\ got \in 0 .. Len(w) /\ w \in Seq(Lines) /\ Len(w) \in Nat
        /\ said[client] \in Nat
    BY <2>1 DEF TypeOK, ControlAssumption
  <2>3. /\ in' = in \o SubSeq(w, 1, got)
        /\ wire' = [wire EXCEPT ![client] = SubSeq(w, got + 1, Len(w))]
        /\ UNCHANGED <<client, conn, said, answers>>
    BY <1>6 DEF OnClient, historyVars
  <2>4. wire'[client] = SubSeq(w, got + 1, Len(w))
    BY <2>1, <2>3 DEF TypeOK
  <2> HIDE DEF got
  <2>5. /\ Len(in') = Len(in) + got
        /\ \A i \in 1 .. Len(in) : in'[i] = in[i]
        /\ \A i \in 1 .. got : in'[Len(in) + i] = w[i]
        /\ Len(wire'[client]) = Len(w) - got
        /\ \A i \in 1 .. Len(w) - got : wire'[client][i] = w[got + i]
    <3> DEFINE more == SubSeq(w, 1, got)
               rest == SubSeq(w, got + 1, Len(w))
    <3>1. /\ Len(in \o more) = Len(in) + got
          /\ \A i \in 1 .. Len(in) : (in \o more)[i] = in[i]
          /\ \A i \in 1 .. got : (in \o more)[Len(in) + i] = w[i]
          /\ Len(rest) = Len(w) - got
          /\ \A i \in 1 .. Len(w) - got : rest[i] = w[got + i]
      BY <2>1, <2>2, ReadIs
    <3>2. in' = in \o more /\ wire'[client] = rest
      BY <2>3, <2>4
    <3> HIDE DEF more, rest, w
    <3> QED
      BY <3>1, <3>2
  <2>6. /\ Len(w) <= said[client] /\ conn[client] = "served"
        /\ \A i \in 1 .. Len(w) : w[i] = <<client, Left(client) + i>>
        /\ Run >= 0 /\ \A i \in 1 .. Len(in) : in[i] = <<client, Run + i>>
        /\ Left(client) \in Int /\ Run \in Int /\ Left(client) = Run + Len(in)
    BY <2>1, <2>2, <1>b DEF StreamKept, WireKept, BufferKept, PeersKnown, Left, Run
  <2>7. /\ \A c \in Clients : c = client => Left(c)' = Left(client) + got
        /\ Run' = Run
    <3>1. said'[client] - Len(wire'[client]) = Left(client) + got
      BY <2>2, <2>3, <2>5 DEF Left
    <3>2. Left(client)' = Left(client) + got
      BY <2>3, <3>1 DEF Left
    <3>3. \A c \in Clients : c = client => Left(c)' = Left(client) + got
      BY <3>1 DEF Left
    <3>4. Run' = Left(client)' - (Len(in) + got)
      BY <2>5 DEF Run
    <3> QED
      BY <2>2, <2>6, <3>2, <3>3, <3>4, <1>b
  <2> HIDE DEF w
  <2>8. ASSUME NEW c \in Clients, c = client
        PROVE  WireKept(c)'
    <3>1. \A i \in 1 .. Len(w) - got :
            wire'[client][i] = <<client, Left(client) + got + i>>
      <4> SUFFICES ASSUME NEW i \in 1 .. Len(w) - got
                   PROVE  wire'[client][i] = <<client, Left(client) + got + i>>
        OBVIOUS
      <4>1. got + i \in 1 .. Len(w) /\ Left(client) + (got + i) = Left(client) + got + i
        BY <2>2, <2>6
      <4>2. w[got + i] = <<client, Left(client) + (got + i)>>
        BY <2>6, <4>1
      <4> QED
        BY <2>5, <4>1, <4>2
    <3>2. Len(wire'[client]) <= said'[client] /\ conn'[client] = "served"
      BY <2>2, <2>3, <2>5, <2>6
    <3> QED
      BY <2>3, <2>5, <2>7, <2>8, <3>1, <3>2 DEF WireKept
  <2>9. ASSUME NEW c \in Clients, c # client
        PROVE  WireKept(c)'
    BY <2>1, <2>3, <2>9, WireStays DEF StreamKept, TypeOK
  <2>10. BufferKept'
    <3>1. \A i \in 1 .. Len(in) + got : in'[i] = <<client, Run + i>>
      <4> SUFFICES ASSUME NEW i \in 1 .. Len(in) + got
                   PROVE  in'[i] = <<client, Run + i>>
        OBVIOUS
      <4>1. CASE i <= Len(in)
        <5>1. i \in 1 .. Len(in)
          BY <4>1, <1>b
        <5>2. in'[i] = in[i] /\ in[i] = <<client, Run + i>>
          BY <5>1, <2>5, <2>6
        <5> QED
          BY <5>2
      <4>2. CASE i > Len(in)
        <5>1. i - Len(in) \in 1 .. got /\ i - Len(in) \in 1 .. Len(w)
          BY <4>2, <2>2, <1>b
        <5>2. in'[i] = w[i - Len(in)]
          <6>1. Len(in) + (i - Len(in)) = i
            BY <1>b
          <6> QED
            BY <5>1, <6>1, <2>5
        <5>3. Left(client) + (i - Len(in)) = Run + i
          BY <2>6, <1>b
        <5> QED
          BY <5>1, <5>2, <5>3, <2>6
      <4> QED
        BY <4>1, <4>2, <2>2, <1>b
    <3> QED
      BY <2>1, <2>3, <2>5, <2>6, <2>7, <3>1 DEF BufferKept
  <2> QED
    BY <2>8, <2>9, <2>10 DEF Goal
<1>7. CASE \E watches \in BOOLEAN : OnAccept(watches)
  <2>1. PICK h \in Clients : h = Head(backlog) /\ conn[h] = "backlog"
    <3>1. backlog \in Seq(Clients) /\ backlog # <<>>
      BY <1>7, Accepts DEF TypeOK
    <3>2. Head(backlog) \in Clients /\ Head(backlog) = backlog[1] /\ 1 \in DOMAIN backlog
      BY <3>1, TailIs
    <3> QED
      BY <3>2 DEF PeersKnown
  <2>2. /\ \E how \in {"served", "ended", "refused"} : conn' = [conn EXCEPT ![h] = how]
        /\ UNCHANGED <<said, answers>>
        /\ wire' = wire \/ wire' = [wire EXCEPT ![h] = <<>>]
    BY <1>7, <2>1, Accepts
  <2>3. ASSUME NEW c \in Clients
        PROVE  WireKept(c)'
    <3>1. CASE c = h
      <4>1. conn'[c] \notin {"away", "backlog"} /\ (wire'[c] = wire[c] \/ wire'[c] = <<>>)
        BY <2>1, <2>2, <3>1 DEF TypeOK
      <4> QED
        BY <2>2, <4>1, WireStays DEF StreamKept
    <3>2. CASE c # h
      <4>1. UNCHANGED <<conn[c], wire[c], answers[c], said[c]>>
        BY <2>1, <2>2, <3>2 DEF TypeOK
      <4> QED
        BY <4>1, WireStays DEF StreamKept
    <3> QED
      BY <3>1, <3>2
  <2>4. BufferKept'
    <3>1. CASE client' = h /\ in' = <<>> /\ wire' = wire
      <4>1. Left(h)' = 0
        BY <2>1, <2>2, <3>1 DEF StreamKept, WireKept, Left
      <4>2. Len(in') = 0
        BY <3>1
      <4>3. Run' = 0
        <5>1. Left(client)' = Left(h)'
          BY <3>1 DEF Left
        <5> QED
          BY <4>1, <4>2, <5>1 DEF Run
      <4> QED
        BY <2>1, <3>1, <4>2, <4>3 DEF BufferKept, ControlAssumption
    <3>2. CASE wire' = [wire EXCEPT ![h] = <<>>] /\ UNCHANGED <<client, in>>
      <4>1. CASE client = None
        BY <3>2, <4>1 DEF StreamKept, BufferKept
      <4>2. CASE client # None
        <5>1. client \in Clients /\ client # h
          BY <2>1, <4>2, <1>c DEF PeersKnown
        <5>2. wire'[client] = wire[client]
          BY <3>2, <5>1 DEF TypeOK
        <5> QED
          BY <2>2, <3>2, <4>2, <5>2 DEF StreamKept, BufferKept, Run, Left
      <4> QED
        BY <4>1, <4>2
    <3> QED
      BY <1>7, Accepts, <2>1, <3>1, <3>2
  <2> QED
    BY <2>3, <2>4 DEF Goal
<1>8. CASE AnswerParked
  <2>1. \/ UNCHANGED <<client, in, wire, said, conn, answers>>
        \/ client # None /\ Reply(parked, in) /\ UNCHANGED said
    BY <1>8, AnswerParkedIs DEF KeepClient, Park, RunAnswered
  <2> QED
    BY <2>1, <1>c, <1>1, <1>2, <1>3, ReplyKeepsOrDrops
<1>9. CASE Close
  <2>1. BufferKept'
    BY <1>9 DEF Close, BufferKept
  <2>2. ASSUME NEW c \in Clients
        PROVE  WireKept(c)'
    <3>1. wire'[c] = <<>> /\ UNCHANGED <<said, answers>>
      BY <1>9 DEF Close, historyVars
    <3>2. conn'[c] \notin {"away", "backlog"} \/ (conn[c] = "away" /\ conn'[c] = conn[c])
      BY <1>9 DEF Close, PeersKnown, Range
    <3> QED
      BY <3>1, <3>2, WireStays DEF StreamKept
  <2> QED
    BY <2>1, <2>2 DEF Goal
<1>10. CASE \E c \in Clients : Connect(c)
  <2>1. PICK d \in Clients : Connect(d)
    BY <1>10
  <2>2. /\ UNCHANGED <<client, in, wire, said, answers>>
        /\ conn[d] = "away" /\ conn'[d] = "backlog"
        /\ \A c \in Clients : c # d => conn'[c] = conn[c]
    BY <2>1 DEF Connect, Outside, peerVars, historyVars, TypeOK
  <2>3. \A c \in Clients : WireKept(c)'
    BY <2>2 DEF StreamKept, WireKept, Left
  <2>4. BufferKept'
    BY <2>2 DEF StreamKept, BufferKept, Run, Left
  <2> QED
    BY <2>3, <2>4 DEF Goal
<1>11. CASE \E c \in Clients : Say(c)
  <2>1. PICK d \in Clients : Say(d)
    BY <1>11
  <2> DEFINE w == wire[d]
             i == said[d] + 1
  <2>2. /\ UNCHANGED <<client, in, conn, answers>> /\ conn[d] # "away"
        /\ said' = [said EXCEPT ![d] = i] /\ wire' = [wire EXCEPT ![d] = Append(w, <<d, i>>)]
    BY <2>1 DEF Say, Outside, historyVars, TypeOK
  <2>3. said'[d] = i /\ wire'[d] = Append(w, <<d, i>>) /\ said[d] \in Nat
    BY <2>2 DEF TypeOK
  <2>4. /\ Len(w) \in Nat /\ Len(wire'[d]) = Len(w) + 1
        /\ wire'[d][Len(w) + 1] = <<d, i>>
        /\ \A k \in 1 .. Len(w) : wire'[d][k] = w[k]
    <3>0. w \in Seq(Lines) /\ i \in Nat
      BY <2>3 DEF TypeOK
    <3>1. w \in Seq(Lines) /\ <<d, i>> \in Lines
      BY <3>0 DEF Lines
    <3>2. /\ Append(w, <<d, i>>) \in Seq(Lines) /\ Len(w) \in Nat
          /\ DOMAIN Append(w, <<d, i>>) = 1 .. Len(w) + 1
          /\ Append(w, <<d, i>>)[Len(w) + 1] = <<d, i>>
          /\ \A k \in 1 .. Len(w) : Append(w, <<d, i>>)[k] = w[k]
      BY <3>1, AppendIs
    <3>3. Len(Append(w, <<d, i>>)) = Len(w) + 1
      BY <3>1, AppendProperties
    <3> QED
      BY <2>3, <3>2, <3>3
  <2>5. Left(d)' = Left(d) /\ Left(d) \in Int /\ Left(d) + Len(w) + 1 = i
    <3>1. Left(d)' = said'[d] - Len(wire'[d]) /\ Left(d) = said[d] - Len(w)
      BY DEF Left
    <3>2. Left(d) \in Int /\ Left(d) + Len(w) + 1 = i
      BY <2>3, <2>4, <3>1
    <3>3. said'[d] - Len(wire'[d]) = said[d] - Len(w)
      <4>1. said'[d] = said[d] + 1 /\ said[d] \in Nat
        BY <2>3
      <4>2. Len(wire'[d]) = Len(w) + 1 /\ Len(w) \in Nat
        BY <2>4
      <4>3. said'[d] - Len(wire'[d]) = (said[d] + 1) - (Len(w) + 1)
        BY <4>1, <4>2, Zenon
      <4>4. \A a, b \in Nat : (a + 1) - (b + 1) = a - b
        OBVIOUS
      <4> QED
        BY <4>1, <4>2, <4>3, <4>4
    <3> QED
      BY <3>1, <3>2, <3>3
  <2> HIDE DEF w
  <2>6. WireKept(d)'
    <3>1. Len(w) <= said[d] /\ \A k \in 1 .. Len(w) : w[k] = <<d, Left(d) + k>>
      BY DEF StreamKept, WireKept, w
    <3>2. \A k \in 1 .. Len(w) + 1 : wire'[d][k] = <<d, Left(d) + k>>
      <4> SUFFICES ASSUME NEW k \in 1 .. Len(w) + 1
                   PROVE  wire'[d][k] = <<d, Left(d) + k>>
        OBVIOUS
      <4>1. CASE k = Len(w) + 1
        <5>1. Left(d) + k = i
          BY <4>1, <2>4, <2>5
        <5> QED
          BY <4>1, <5>1, <2>4
      <4>2. CASE k # Len(w) + 1
        <5>1. k \in 1 .. Len(w)
          BY <4>2, <2>4
        <5> QED
          BY <5>1, <2>4, <3>1
      <4> QED
        BY <4>1, <4>2
    <3>3. conn'[d] \in {"away", "backlog"} => Left(d) = 0 /\ answers'[d] = <<>>
      BY <2>2 DEF StreamKept, WireKept
    <3>4. Len(wire'[d]) <= said'[d] /\ conn'[d] # "away"
      BY <2>2, <2>3, <2>4, <3>1
    <3> QED
      BY <2>4, <2>5, <3>2, <3>3, <3>4 DEF WireKept
  <2>7. ASSUME NEW c \in Clients, c # d
        PROVE  WireKept(c)' /\ Left(c)' = Left(c)
    <3>1. UNCHANGED <<conn[c], wire[c], answers[c], said[c]>>
      BY <2>2, <2>7 DEF TypeOK
    <3> QED
      BY <3>1, WireStays DEF StreamKept, Left
  <2>8. BufferKept'
    <3>1. client # None => Left(client)' = Left(client)
      BY <2>2, <2>5, <2>7, <1>c
    <3> QED
      BY <2>2, <3>1 DEF StreamKept, BufferKept, Run
  <2> QED
    BY <2>6, <2>7, <2>8 DEF Goal
<1>12. CASE \E c \in Clients, how \in {"half", "gone"} : Leave(c, how)
  BY <1>12, <1>3 DEF Leave, Outside, historyVars
<1>13. CASE OnTimer \/ FrameTurns \/ Expire \/ DeadlinePasses \/ Poll \/ UNCHANGED vars
  BY <1>13, <1>3 DEF OnTimer, FrameTurns, Expire, DeadlinePasses, Poll, Outside, vars,
     controlVars, peerVars, historyVars
<1> QED
  BY <1>4, <1>5, <1>6, <1>7, <1>8, <1>9, <1>10, <1>11, <1>12, <1>13 DEF Next

-----------------------------------------------------------------------------
(* The answers. *)

(* What is due is a line said. *)
LEMMA DueIs ==
  ASSUME TypeOK, NEW c \in Clients
  PROVE  /\ said[c] \in Nat
         /\ \A line : line \in Due(c) <=>
              /\ \E i \in 1 .. said[c] : line = <<c, i>>
              /\ Reads(line) \notin {"blank", "part"}
         /\ \A line \in Due(c) : line[2] \in Nat /\ line = <<c, line[2]>>
<1>1. said[c] \in Nat
  BY DEF TypeOK
<1> QED
  BY <1>1 DEF Due

(* One more answer, to the first of the lines that are due it.  Up to place *)
(* r there is no other.                                                     *)
LEMMA Answering ==
  ASSUME TypeOK, NEW c \in Clients, AnsweredInOrder(c),
         NEW line \in Due(c), NEW r \in Int, line[2] <= r,
         \A n \in DOMAIN answers[c] : answers[c][n][2] < line[2],
         \A l \in Due(c) : l[2] <= r => l \in Range(answers[c]) \/ l = line,
         answers'[c] = Append(answers[c], line), said'[c] = said[c]
  PROVE  /\ AnsweredInOrder(c)'
         /\ \A n \in DOMAIN answers'[c] : answers'[c][n][2] <= r
         /\ \A l \in Due(c)' : l[2] <= r => l \in Range(answers'[c])
<1> DEFINE a == answers[c]
           b == answers'[c]
           D == Due(c)
<1>1. Due(c)' = D
  BY DEF Due
<1>2. \A l \in D : l[2] \in Nat /\ l \in Lines
  BY DueIs DEF Lines
<1>3. a \in Seq(Lines) /\ line \in Lines /\ line[2] \in Nat
  BY <1>2 DEF TypeOK
<1>4. /\ Len(a) \in Nat /\ DOMAIN a = 1 .. Len(a) /\ DOMAIN b = 1 .. Len(a) + 1
      /\ b[Len(a) + 1] = line /\ \A n \in 1 .. Len(a) : b[n] = a[n]
  BY <1>3, AppendIs
<1>5. /\ \A n \in 1 .. Len(a) : a[n] \in D /\ a[n][2] < line[2]
      /\ \A m, n \in 1 .. Len(a) : m < n => a[m][2] < a[n][2]
  BY <1>4 DEF AnsweredInOrder, Range
<1> HIDE DEF a, b, D
<1>6. \A n \in 1 .. Len(a) + 1 : b[n] \in D /\ b[n][2] <= line[2]
  BY <1>2, <1>3, <1>4, <1>5 DEF D
<1>7. \A m, n \in 1 .. Len(a) + 1 : m < n => b[m][2] < b[n][2]
  <2> SUFFICES ASSUME NEW m \in 1 .. Len(a) + 1, NEW n \in 1 .. Len(a) + 1, m < n
               PROVE  b[m][2] < b[n][2]
    OBVIOUS
  <2>1. m \in 1 .. Len(a) /\ b[m] = a[m]
    BY <1>4
  <2>2. CASE n = Len(a) + 1
    BY <2>1, <2>2, <1>4, <1>5
  <2>3. CASE n # Len(a) + 1
    <3>1. n \in 1 .. Len(a) /\ b[n] = a[n]
      BY <2>3, <1>4
    <3> QED
      BY <2>1, <3>1, <1>5
  <2> QED
    BY <2>2, <2>3
<1>8. \A n \in 1 .. Len(a) + 1 : b[n][2] <= r
  BY <1>2, <1>3, <1>6
<1>9. \A l \in D : l[2] <= r => l \in Range(b)
  <2> SUFFICES ASSUME NEW l \in D, l[2] <= r
               PROVE  l \in Range(b)
    OBVIOUS
  <2>1. CASE l = line
    BY <2>1, <1>4 DEF Range
  <2>2. CASE l # line
    <3>1. PICK n \in 1 .. Len(a) : l = a[n]
      BY <2>2, <1>4 DEF D, a, Range
    <3> QED
      BY <3>1, <1>4 DEF Range
  <2> QED
    BY <2>1, <2>2
<1>10. Range(b) \subseteq D
  BY <1>4, <1>6 DEF Range
<1>11. \A l \in D \ Range(b) : \A n \in DOMAIN b : b[n][2] < l[2]
  BY <1>2, <1>4, <1>6, <1>8, <1>9
<1>12. AnsweredInOrder(c)'
  BY <1>1, <1>4, <1>7, <1>10, <1>11 DEF AnsweredInOrder, b
<1> QED
  BY <1>1, <1>4, <1>8, <1>9, <1>12 DEF b

(* What OnClient reads stays behind what was run. *)
LEMMA ReadKeepsRun ==
  ASSUME TypeOK, PeersKnown, ControlAssumption, OnClient
  PROVE  client \in Clients /\ client # None /\ Run' = Run
<1>1. client \in Clients /\ client # None
  BY DEF OnClient, Turn, PeersKnown, TypeOK
<1> DEFINE w    == wire[client]
           room == InMax - Len(in)
           got  == IF Len(w) < room THEN Len(w) ELSE room
<1>2. /\ got \in 0 .. Len(w) /\ Len(w) \in Nat /\ Len(in) \in Nat
      /\ said[client] \in Nat
  BY <1>1 DEF TypeOK, ControlAssumption
<1>3. /\ in' = in \o SubSeq(w, 1, got)
      /\ wire'[client] = SubSeq(w, got + 1, Len(w))
      /\ UNCHANGED <<client, said>>
  BY <1>1 DEF OnClient, TypeOK
<1> HIDE DEF got
<1>4. Len(in') = Len(in) + got /\ Len(wire'[client]) = Len(w) - got
  BY <1>1, <1>2, <1>3, ReadIs
<1> HIDE DEF w
<1>5. /\ Run' = said[client] - Len(wire'[client]) - Len(in')
      /\ Run = said[client] - Len(w) - Len(in)
  BY <1>3 DEF Run, Left, w
<1> QED
  BY <1>1, <1>2, <1>4, <1>5

(* Run does not move when neither the wire nor the buffer does. *)
LEMMA RunStays ==
  ASSUME UNCHANGED <<client, in>>, said'[client] = said[client],
         wire'[client] = wire[client]
  PROVE  Run' = Run
BY DEF Run, Left

(* Every step keeps one answer a line, in order.                           *)
LEMMA AnswersStep ==
  ASSUME TypeOK, PeersKnown, StreamKept, RunAnswered, ControlAssumption,
         \A c \in Clients : AnsweredInOrder(c), [Next]_vars
  PROVE  RunAnswered' /\ \A c \in Clients : AnsweredInOrder(c)'
<1> DEFINE Goal == RunAnswered' /\ \A c \in Clients : AnsweredInOrder(c)'
<1> SUFFICES Goal
  OBVIOUS
<1>a. \A c \in Clients : AnsweredInOrder(c)
  OBVIOUS
<1>b. client # None => client \in Clients
  BY DEF TypeOK
<1>c. \A c \in Clients : UNCHANGED <<said[c], answers[c]>> => AnsweredInOrder(c)'
  BY <1>a DEF AnsweredInOrder, Due
<1>1. Drops => Goal
  BY <1>c DEF Drops, RunAnswered
(* Nothing is run, answered or parked. *)
<1>2. ASSUME UNCHANGED <<client, waiting, parked, answers, said>>,
             client # None => Run' = Run
      PROVE  Goal
  <2>1. RunAnswered'
    BY <1>2 DEF RunAnswered, Due
  <2> QED
    BY <1>2, <1>c, <2>1
(* The line at place p is answered, f lines from where the run was. *)
<1>3. ASSUME client # None, NEW rest, NEW line, Reply(line, rest), UNCHANGED said,
             NEW f \in Nat, Run \in Int,
             ~Drops => Run' = Run + f,
             line \in Due(client), line[2] <= Run + f,
             \A n \in DOMAIN answers[client] : answers[client][n][2] < line[2],
             \A l \in Due(client) :
               l[2] <= Run + f => l \in Range(answers[client]) \/ l = line
      PROVE  Goal
  <2>1. CASE Drops
    BY <1>1, <2>1
  <2>2. CASE ~Drops
    <3>1. /\ answers' = [answers EXCEPT ![client] = Append(@, line)]
          /\ waiting' = "READY" /\ UNCHANGED client
      BY <1>3, <1>b, <2>2, ReplyKeepsOrDrops DEF Reply, DropClient, Drops, KeepClient
    <3>2. client \in Clients /\ answers'[client] = Append(answers[client], line)
      BY <1>3, <1>b, <3>1 DEF TypeOK
    <3> HIDE DEF Goal
    <3>3. \A c \in Clients : c = client =>
            /\ AnsweredInOrder(c)'
            /\ \A n \in DOMAIN answers'[c] : answers'[c][n][2] <= Run + f
            /\ \A l \in Due(c)' : l[2] <= Run + f => l \in Range(answers'[c])
      <4> SUFFICES ASSUME NEW c \in Clients, c = client
                   PROVE  /\ AnsweredInOrder(c)'
                          /\ \A n \in DOMAIN answers'[c] : answers'[c][n][2] <= Run + f
                          /\ \A l \in Due(c)' : l[2] <= Run + f => l \in Range(answers'[c])
        OBVIOUS
      <4> DEFINE r == Run + f
      <4>1. r \in Int
        BY <1>3
      <4> HIDE DEF r
      <4>2. /\ line \in Due(c) /\ line[2] <= r
            /\ \A n \in DOMAIN answers[c] : answers[c][n][2] < line[2]
            /\ \A l \in Due(c) : l[2] <= r => l \in Range(answers[c]) \/ l = line
            /\ answers'[c] = Append(answers[c], line) /\ said'[c] = said[c]
        BY <1>3, <3>2 DEF r
      <4>3. /\ AnsweredInOrder(c)'
            /\ \A n \in DOMAIN answers'[c] : answers'[c][n][2] <= r
            /\ \A l \in Due(c)' : l[2] <= r => l \in Range(answers'[c])
        BY <4>1, <4>2, <1>a, Answering
      <4> QED
        BY <4>3 DEF r
    <3>4. \A c \in Clients : AnsweredInOrder(c)'
      <4>1. \A c \in Clients : c # client => UNCHANGED <<said[c], answers[c]>>
        BY <1>3, <3>1 DEF TypeOK
      <4> QED
        BY <3>3, <4>1, <1>c
    <3>5. RunAnswered'
      <4>1. \A c \in Clients : c = client => Due(c)' = Due(client)'
        BY <3>1 DEF Due
      <4>2. /\ \A n \in DOMAIN answers'[client] : answers'[client][n][2] <= Run + f
            /\ \A l \in Due(client)' : l[2] <= Run + f => l \in Range(answers'[client])
        BY <3>2, <3>3, <4>1
      <4> QED
        BY <1>3, <2>2, <3>1, <4>2 DEF RunAnswered
    <3> QED
      BY <3>4, <3>5 DEF Goal
  <2> QED
    BY <2>1, <2>2
<1> HIDE DEF Goal
<1>d. /\ Len(in) \in Nat /\ in \in Seq(Lines)
      /\ client # None => /\ said[client] \in Nat /\ Len(wire[client]) \in Nat
                          /\ Run \in Int /\ Run + Len(in) <= said[client]
                          /\ Run >= 0
                          /\ \A i \in 1 .. Len(in) : in[i] = <<client, Run + i>>
  <2>1. Len(in) \in Nat /\ in \in Seq(Lines)
    BY DEF TypeOK
  <2>2. client # None => /\ said[client] \in Nat /\ Len(wire[client]) \in Nat
                         /\ Run = said[client] - Len(wire[client]) - Len(in)
    BY <1>b DEF TypeOK, Run, Left
  <2>3. client # None => Run >= 0 /\ \A i \in 1 .. Len(in) : in[i] = <<client, Run + i>>
    BY DEF StreamKept, BufferKept
  <2> QED
    BY <2>1, <2>2, <2>3
<1>4. CASE RunLine
  <2>1. client \in Clients /\ client # None /\ waiting = "READY"
    BY <1>4, RunLineIs DEF ControlAssumption
  <2>2. PICK f \in 1 .. Len(in), rest \in Seq(Lines) :
          /\ \A j \in 1 .. f - 1 : Reads(in[j]) = "part"
          /\ Len(rest) = Len(in) - f
          /\ \A i \in 1 .. Len(in) - f : rest[i] = in[f + i]
          /\ RunsFrom(f, rest)
    BY <1>4, RunLineIs
  <2> DEFINE line == in[f]
  <2>3. /\ f \in Nat /\ f >= 1 /\ f <= Len(in) /\ f \in 0 .. Len(in)
        /\ line = <<client, Run + f>> /\ Run + f \in 1 .. said[client]
    BY <2>1, <1>d
  <2>4. Keeps(rest) => Run' = Run + f /\ UNCHANGED <<client, said>>
    BY <2>1, <2>2, <2>3, BufferRest DEF Keeps, StreamKept
  <2>5. UNCHANGED said
    BY <2>2 DEF RunsFrom
  <2> HIDE DEF line
  <2>6. Reads(line) \notin {"blank", "part"} => line \in Due(client)
    BY <2>1, <2>3, DueIs
  <2>7. \A n \in DOMAIN answers[client] :
          answers[client][n][2] < line[2] /\ answers[client][n][2] <= Run + f
    <3> SUFFICES ASSUME NEW n \in DOMAIN answers[client]
                 PROVE  answers[client][n][2] < line[2] /\ answers[client][n][2] <= Run + f
      OBVIOUS
    <3>1. answers[client][n][2] <= Run
      BY <2>1 DEF RunAnswered
    <3>2. answers[client][n] \in Due(client)
      BY <2>1, <1>a DEF AnsweredInOrder, Range
    <3>3. answers[client][n][2] \in Nat
      BY <2>1, <3>2, DueIs
    <3> QED
      BY <2>1, <2>3, <3>1, <3>3, <1>d
  <2>8. \A l \in Due(client) : l[2] <= Run + f => l \in Range(answers[client]) \/ l = line
    <3> SUFFICES ASSUME NEW l \in Due(client), l[2] <= Run + f
                 PROVE  l \in Range(answers[client]) \/ l = line
      OBVIOUS
    <3>1. l[2] \in Nat /\ l = <<client, l[2]>> /\ Reads(l) # "part"
      BY <2>1, DueIs
    <3>2. CASE l[2] <= Run
      BY <2>1, <3>2 DEF RunAnswered
    <3>3. CASE l[2] > Run
      <4> DEFINE j == l[2] - Run
      <4>1. j \in 1 .. f /\ j \in 1 .. Len(in) /\ Run + j = l[2]
        BY <3>1, <3>3, <2>1, <2>3, <1>d
      <4> HIDE DEF j
      <4>2. in[j] = l
        BY <2>1, <3>1, <4>1, <1>d
      <4>3. j \notin 1 .. f - 1
        BY <2>2, <3>1, <4>2
      <4>4. j = f
        BY <2>3, <4>1, <4>3
      <4> QED
        BY <4>2, <4>4 DEF line
    <3> QED
      BY <3>1, <3>2, <3>3, <2>1, <1>d
  <2>9. CASE Reads(line) \notin {"blank", "part"} /\ Reply(line, rest)
    <3>1. ~Drops => Run' = Run + f
      BY <2>1, <2>4, <2>5, <2>9, ReplyKeepsOrDrops
    <3>2. line \in Due(client) /\ line[2] <= Run + f
      BY <2>1, <2>3, <2>6, <2>9, <1>d
    <3> QED
      BY <1>3, <2>1, <2>3, <2>5, <2>7, <2>8, <2>9, <3>1, <3>2, <1>d
  <2>10. CASE /\ Reads(line) = "blank"
              /\ KeepClient(rest) /\ UNCHANGED <<waiting, parked, answers>>
    <3>1. Run' = Run + f /\ UNCHANGED client
      BY <2>4, <2>5, <2>10 DEF KeepClient, Keeps
    <3>2. line \notin Due(client)
      BY <2>1, <2>10, DueIs
    <3>3. \A l \in Due(client) : l[2] <= Run + f => l \in Range(answers[client])
      BY <2>8, <3>2
    <3>4. RunAnswered'
      BY <2>1, <2>5, <2>7, <2>10, <3>1, <3>3 DEF RunAnswered, Due
    <3> QED
      BY <2>5, <2>10, <3>4, <1>c DEF Goal
  <2>11. CASE /\ Reads(line) \notin {"blank", "part"} /\ Parks(line)
              /\ \E why \in {"SLEEPING", "SETTLING"} : Park(line, rest, why)
    <3>1. Run' = Run + f /\ UNCHANGED client
      BY <2>4, <2>5, <2>11 DEF Park, KeepClient, Keeps
    <3>2. line \in Due(client) /\ line[2] <= Run + f
      BY <2>1, <2>3, <2>6, <2>11, <1>d
    <3>3. waiting' # "READY" /\ parked' = line /\ UNCHANGED answers
      BY <2>11 DEF Park
    <3>4. RunAnswered'
      BY <2>1, <2>5, <2>7, <2>8, <2>11, <3>1, <3>2, <3>3
         DEF RunAnswered, Due, Parks, Reads
    <3> QED
      BY <2>5, <3>3, <3>4, <1>c DEF Goal
  <2> QED
    BY <2>2, <2>9, <2>10, <2>11 DEF RunsFrom, line
<1>5. CASE RunTooLong \/ OnHangUp \/ RunEnd
  <2>1. \/ Drops
        \/ UNCHANGED <<client, in, wire, waiting, parked, answers, said>>
    BY <1>5 DEF RunTooLong, CanRun, OnHangUp, RunEnd, Turn, DropClient, Drops, PeersKnown
  <2> QED
    BY <2>1, <1>1, <1>2, <1>b, RunStays
<1>6. CASE OnClient
  <2>1. UNCHANGED <<client, waiting, parked, answers, said>>
    BY <1>6 DEF OnClient, historyVars
  <2> QED
    BY <1>2, <1>6, <2>1, ReadKeepsRun
<1>7. CASE \E watches \in BOOLEAN : OnAccept(watches)
  <2>1. PICK h \in Clients : h = Head(backlog) /\ conn[h] = "backlog"
    <3>1. backlog \in Seq(Clients) /\ backlog # <<>>
      BY <1>7, Accepts DEF TypeOK
    <3>2. Head(backlog) \in Clients /\ Head(backlog) = backlog[1] /\ 1 \in DOMAIN backlog
      BY <3>1, TailIs
    <3> QED
      BY <3>2 DEF PeersKnown
  <2>2. UNCHANGED <<said, answers, parked>>
    BY <1>7, Accepts
  <2>3. CASE client' = h /\ in' = <<>> /\ wire' = wire /\ waiting' = "READY"
    <3>1. answers[h] = <<>> /\ Left(h) = 0
      BY <2>1 DEF StreamKept, WireKept
    <3>2. Run' = 0
      <4>1. Left(client)' = said[h] - Len(wire[h]) /\ Len(in') = 0
        BY <2>2, <2>3 DEF Left
      <4> QED
        BY <3>1, <4>1 DEF Run, Left
    <3>3. \A l \in Due(h) : ~(l[2] <= 0)
      BY DueIs
    <3>4. Due(client)' = Due(h) /\ answers'[client'] = <<>>
      BY <2>2, <2>3, <3>1 DEF Due
    <3>5. RunAnswered'
      BY <2>1, <2>2, <2>3, <3>2, <3>3, <3>4 DEF RunAnswered
    <3> QED
      BY <2>2, <3>5, <1>c DEF Goal
  <2>4. CASE wire' = [wire EXCEPT ![h] = <<>>] /\ UNCHANGED <<client, in, waiting>>
    <3>1. client # None => client # h
      BY <2>1 DEF PeersKnown
    <3>2. client # None => wire'[client] = wire[client]
      BY <2>1, <2>4, <3>1, <1>b DEF TypeOK
    <3> QED
      BY <2>2, <2>4, <3>2, <1>2, RunStays
  <2> QED
    BY <1>7, <2>1, <2>3, <2>4, Accepts
<1>8. CASE AnswerParked
  <2>1. UNCHANGED said
    BY <1>8, AnswerParkedIs
  <2>2. CASE waiting # "READY" /\ Reply(parked, in)
    <3>1. /\ client # None /\ parked \in Due(client) /\ parked[2] <= Run
          /\ \A n \in DOMAIN answers[client] : answers[client][n][2] < parked[2]
          /\ \A l \in Due(client) :
               l[2] <= Run => l \in Range(answers[client]) \/ l = parked
      BY <2>2 DEF RunAnswered
    <3>2. ~Drops => Run' = Run
      BY <1>b, <2>1, <2>2, <3>1, ReplyKeepsOrDrops, RunStays DEF Keeps
    <3>3. Run + 0 = Run /\ Run \in Int /\ 0 \in Nat
      BY <3>1, <1>d
    <3> QED
      BY <1>3, <2>1, <2>2, <3>1, <3>2, <3>3
  <2>3. CASE waiting = "SETTLING" /\ Park(parked, in, "SETTLING")
    <3>1. UNCHANGED <<client, waiting, parked, answers, said, in, wire>>
      BY <2>1, <2>3 DEF Park, KeepClient
    <3> QED
      BY <3>1, <1>2, RunStays
  <2>4. CASE KeepClient(in) /\ UNCHANGED <<waiting, parked, answers>>
    <3>1. UNCHANGED <<client, waiting, parked, answers, said, in, wire>>
      BY <2>1, <2>4 DEF KeepClient
    <3> QED
      BY <3>1, <1>2, RunStays
  <2> QED
    BY <1>8, <2>2, <2>3, <2>4, AnswerParkedIs
<1>9. CASE Close
  <2>1. client' = None /\ waiting' = "READY" /\ UNCHANGED <<said, answers>>
    BY <1>9 DEF Close, historyVars
  <2> QED
    BY <2>1, <1>c DEF Goal, RunAnswered
<1>10. CASE \E c \in Clients : Say(c)
  <2>1. PICK d \in Clients : Say(d)
    BY <1>10
  <2>2. /\ UNCHANGED <<client, in, waiting, parked, answers>> /\ said[d] \in Nat
        /\ said' = [said EXCEPT ![d] = said[d] + 1]
        /\ wire' = [wire EXCEPT ![d] = Append(wire[d], <<d, said[d] + 1>>)]
    BY <2>1 DEF Say, Outside, historyVars, TypeOK
  <2>3. \A c \in Clients : /\ Due(c) \subseteq Due(c)'
                           /\ \A l \in Due(c)' : l \notin Due(c) => l[2] = said[c] + 1
    <3> SUFFICES ASSUME NEW c \in Clients
                 PROVE  /\ Due(c) \subseteq Due(c)'
                        /\ \A l \in Due(c)' : l \notin Due(c) => l[2] = said[c] + 1
      OBVIOUS
    <3>1. said'[c] \in {said[c], said[c] + 1} /\ said[c] \in Nat
      BY <2>2 DEF TypeOK
    <3> QED
      BY <3>1 DEF Due
  <2>4. \A c \in Clients : AnsweredInOrder(c)'
    <3> SUFFICES ASSUME NEW c \in Clients
                 PROVE  AnsweredInOrder(c)'
      OBVIOUS
    <3>1. AnsweredInOrder(c) /\ answers'[c] = answers[c] /\ said[c] \in Nat
      BY <1>a, <2>2 DEF TypeOK
    <3>2. \A n \in DOMAIN answers[c] : answers[c][n][2] \in 1 .. said[c]
      BY <3>1, DueIs DEF AnsweredInOrder, Range
    <3> QED
      BY <2>3, <3>1, <3>2 DEF AnsweredInOrder
  <2>5. client # None => Run' = Run
    <3>1. CASE client # None /\ client = d
      <4>1. wire[d] \in Seq(Lines) /\ <<d, said[d] + 1>> \in Lines
        BY <2>2 DEF TypeOK, Lines
      <4>2. Len(wire'[d]) = Len(wire[d]) + 1 /\ said'[d] = said[d] + 1
        BY <2>2, <4>1, AppendProperties DEF TypeOK
      <4>3. said'[d] - Len(wire'[d]) = said[d] - Len(wire[d])
        BY <2>2, <4>1, <4>2, LenProperties
      <4> QED
        BY <2>2, <3>1, <4>3 DEF Run, Left
    <3>2. CASE client # None /\ client # d
      <4>1. wire'[client] = wire[client] /\ said'[client] = said[client]
        BY <2>2, <3>2, <1>b DEF TypeOK
      <4> QED
        BY <2>2, <4>1, RunStays
    <3> QED
      BY <3>1, <3>2
  <2>6. RunAnswered'
    <3>1. CASE client = None
      BY <2>2, <3>1 DEF RunAnswered
    <3>2. CASE client # None
      <4>1. Due(client)' = {l \in Due(client)' : TRUE} /\ client \in Clients
        BY <3>2, <1>b
      <4>2. PICK c \in Clients : c = client
        BY <4>1
      <4>3. Due(client)' = Due(c)'
        BY <2>2, <4>2 DEF Due
      <4>4. \A l \in Due(c)' : l[2] <= Run => l \in Due(c)
        <5>1. ~(said[c] + 1 <= Run)
          BY <3>2, <4>2, <1>d
        <5> QED
          BY <2>3, <5>1
      <4> QED
        BY <2>2, <2>3, <2>5, <3>2, <4>2, <4>3, <4>4 DEF RunAnswered
    <3> QED
      BY <3>1, <3>2
  <2> QED
    BY <2>4, <2>6 DEF Goal
<1>11. CASE \/ \E c \in Clients : Connect(c) \/ \E how \in {"half", "gone"} : Leave(c, how)
            \/ OnTimer \/ FrameTurns \/ Expire \/ DeadlinePasses \/ Poll \/ UNCHANGED vars
  <2>1. UNCHANGED <<client, in, waiting, parked, answers, said, wire>>
    BY <1>11 DEF Connect, Leave, OnTimer, FrameTurns, Expire, DeadlinePasses, Poll, Outside,
       vars, controlVars, peerVars, historyVars
  <2> QED
    BY <2>1, <1>2, RunStays
<1> QED
  BY <1>4, <1>5, <1>6, <1>7, <1>8, <1>9, <1>10, <1>11 DEF Next

-----------------------------------------------------------------------------
(* The timer. *)

(* Every step keeps what is known of the timer.                            *)
LEMMA TimerStep ==
  ASSUME TypeOK, PeersKnown, RunAnswered, TimerKnown, ControlAssumption, [Next]_vars
  PROVE  TimerKnown'
(* A client let go of, with the timer off if arming works.                  *)
<1>1. ASSUME client # None, NEW u, DropClient(u), UNCHANGED armMayFail,
             pc' # "timer" \/ pc' = pc
      PROVE  TimerKnown'
  BY <1>1 DEF DropClient, Disarmed, Unwatch, TimerKnown
(* Nothing it speaks of changes but the place between callbacks.            *)
<1>2. ASSUME UNCHANGED <<waiting, ctimer, armMayFail>>, batch' \subseteq batch,
             pc' = pc \/ pc' = "idle" \/ pc' = "closed"
               \/ (pc' = "run" /\ pc = "timer"),
             client' = client \/ pc = "idle"
      PROVE  TimerKnown'
  BY <1>2 DEF TimerKnown, Running
<1>3. CASE RunLine
  <2>1. Running /\ client # None /\ waiting = "READY"
    BY <1>3, RunLineIs DEF ControlAssumption
  <2>2. PICK f, rest : RunsFrom(f, rest)
    BY <1>3, RunLineIs
  <2>3. UNCHANGED <<armMayFail, pc>> /\ pc # "timer"
    BY <2>1, <2>2 DEF RunsFrom, Running
  <2>4. ~armMayFail => "ctimer" \notin batch
    BY <2>1 DEF TimerKnown
  <2>5. CASE Reply(in[f], rest)
    <3>1. CASE DropClient(Unheard(rest))
      BY <1>1, <2>1, <2>3, <3>1
    <3>2. CASE waiting' = "READY" /\ KeepClient(rest) /\ UNCHANGED ctimer
      BY <2>1, <2>3, <2>4, <3>2 DEF KeepClient, TimerKnown
    <3> QED
      BY <2>5, <3>1, <3>2 DEF Reply
  <2>6. CASE \E why \in {"SLEEPING", "SETTLING"} : Park(in[f], rest, why)
    BY <2>1, <2>3, <2>4, <2>6 DEF Park, KeepClient, TimerKnown
  <2>7. CASE KeepClient(rest) /\ UNCHANGED <<waiting, ctimer>>
    BY <1>2, <2>3, <2>7 DEF KeepClient
  <2> QED
    BY <2>2, <2>5, <2>6, <2>7 DEF RunsFrom
<1>4. CASE RunTooLong \/ OnHangUp \/ RunEnd
  <2>1. CASE client # None /\ \E u : DropClient(u)
    BY <1>1, <1>4, <2>1 DEF RunTooLong, OnHangUp, RunEnd
  <2>2. CASE RunEnd /\ ~(pc = "drop" /\ client # None)
    BY <1>2, <2>2 DEF RunEnd
  <2> QED
    BY <1>4, <2>1, <2>2 DEF RunTooLong, CanRun, OnHangUp, RunEnd, Turn, PeersKnown
<1>5. CASE OnClient
  BY <1>5 DEF OnClient, Turn, Served, TimerKnown, Running
<1>6. CASE \E watches \in BOOLEAN : OnAccept(watches)
  <2>1. /\ pc = "idle" /\ batch' \subseteq batch
        /\ UNCHANGED <<armMayFail, ctimer, pc>>
        /\ client = None \/ UNCHANGED waiting
        /\ waiting' \in {waiting, "READY"}
    BY <1>6, Accepts
  <2> QED
    BY <2>1, <1>2 DEF RunAnswered
<1>7. CASE OnTimer
  BY <1>7 DEF OnTimer, Turn, Served, TimerKnown
<1>8. CASE AnswerParked
  <2>1. /\ pc = "timer" /\ pc' = "run" /\ UNCHANGED armMayFail /\ "ctimer" \notin batch
    BY <1>8, AnswerParkedIs DEF TimerKnown
  <2>2. CASE waiting # "READY" /\ Reply(parked, in)
    <3>1. CASE DropClient(Unheard(in))
      BY <1>1, <2>1, <2>2, <3>1 DEF RunAnswered
    <3>2. CASE waiting' = "READY" /\ KeepClient(in) /\ UNCHANGED ctimer
      BY <2>1, <2>2, <3>2 DEF KeepClient, TimerKnown
    <3> QED
      BY <2>2, <3>1, <3>2 DEF Reply
  <2>3. CASE Park(parked, in, "SETTLING")
    BY <2>1, <2>3 DEF Park, KeepClient, TimerKnown
  <2>4. CASE KeepClient(in) /\ UNCHANGED <<waiting, ctimer>>
    BY <1>2, <2>1, <2>4 DEF KeepClient
  <2> QED
    BY <1>8, <2>2, <2>3, <2>4, AnswerParkedIs
<1>9. CASE Close
  BY <1>9 DEF Close, Unwatch, TimerKnown
<1>10. CASE Expire
  <2>1. ctimer = "set" /\ ctimer' = "expired" /\ UNCHANGED <<waiting, batch, pc, armMayFail, client>>
    BY <1>10 DEF Expire, Outside
  <2> QED
    BY <2>1 DEF TimerKnown, Running
<1>11. CASE Poll
  <2>1. /\ pc = "idle" /\ UNCHANGED <<armMayFail, pc, waiting, ctimer>>
        /\ "ctimer" \in batch' => ctimer = "expired"
    BY <1>11 DEF Poll, Collect, ListenReady, ClientReady, TimerReady, controlVars
  <2> QED
    BY <2>1 DEF TimerKnown
<1>12. CASE \E c \in Clients : \/ Connect(c) \/ Say(c)
                               \/ \E how \in {"half", "gone"} : Leave(c, how)
  BY <1>2, <1>12 DEF Connect, Say, Leave, Outside
<1>13. CASE FrameTurns \/ DeadlinePasses \/ UNCHANGED vars
  BY <1>2, <1>13 DEF FrameTurns, DeadlinePasses, Outside, vars, controlVars
<1> QED
  BY <1>3, <1>4, <1>5, <1>6, <1>7, <1>8, <1>9, <1>10, <1>11, <1>12, <1>13 DEF Next

-----------------------------------------------------------------------------
(* The buffer between callbacks, and the peer that hung up.                 *)

(* Every step keeps a waiting program's buffer run dry.                    *)
LEMMA BufferStep ==
  ASSUME TypeOK, PeersKnown, RunAnswered, NoLineLeftBehind, ControlAssumption,
         [Next]_vars
  PROVE  pc' = "idle" /\ client' # None /\ waiting' = "READY" =>
           ~HasLine' /\ Len(in') < InMax
<1> DEFINE Goal == pc' = "idle" /\ client' # None /\ waiting' = "READY" =>
                     ~HasLine' /\ Len(in') < InMax
<1> SUFFICES Goal
  OBVIOUS
<1>1. ASSUME UNCHANGED <<pc, client, waiting, in>>
      PROVE  Goal
  BY <1>1 DEF NoLineLeftBehind, HasLine
<1>2. CASE RunLine \/ RunTooLong
  BY <1>2 DEF RunLine, RunTooLong, CanRun, Running
<1>3. CASE RunEnd
  <2>1. CASE pc = "drop" /\ client # None
    BY <1>3, <2>1 DEF RunEnd, DropClient
  <2>2. CASE ~(pc = "drop" /\ client # None)
    BY <1>3, <2>2 DEF RunEnd, CanRun, HasLine
  <2> QED
    BY <2>1, <2>2
<1>4. CASE OnClient \/ OnTimer \/ AnswerParked \/ Close
  BY <1>4 DEF OnClient, OnTimer, AnswerParked, Close
<1>5. CASE OnHangUp
  BY <1>5 DEF OnHangUp, DropClient
<1>6. CASE \E watches \in BOOLEAN : OnAccept(watches)
  <2>1. in' = <<>> \/ UNCHANGED <<pc, client, waiting, in>>
    BY <1>6, Accepts
  <2>2. in' = <<>> => ~HasLine' /\ Len(in') < InMax
    BY DEF HasLine, ControlAssumption
  <2> QED
    BY <1>1, <2>1, <2>2
<1>7. CASE \E c \in Clients : \/ Connect(c) \/ Say(c)
                              \/ \E how \in {"half", "gone"} : Leave(c, how)
  BY <1>1, <1>7 DEF Connect, Say, Leave, Outside
<1>8. CASE FrameTurns \/ Expire \/ DeadlinePasses \/ Poll \/ UNCHANGED vars
  BY <1>1, <1>8 DEF FrameTurns, Expire, DeadlinePasses, Poll, Outside, vars, controlVars
<1> QED
  BY <1>2, <1>3, <1>4, <1>5, <1>6, <1>7, <1>8 DEF Next

(* Every step keeps a drop to a peer there is reason to drop.              *)
LEMMA DropStep ==
  ASSUME TypeOK, PeersKnown, RunAnswered, DropIsDue, ControlAssumption, [Next]_vars
  PROVE  DropIsDue'
<1>1. ASSUME UNCHANGED <<pc, client, wire, ends>>
      PROVE  DropIsDue'
  BY <1>1 DEF DropIsDue
<1>2. CASE RunLine
  <2>1. client \in Clients /\ client # None
    BY <1>2, RunLineIs DEF ControlAssumption
  <2>2. PICK f, rest : RunsFrom(f, rest)
    BY <1>2, RunLineIs
  <2>3. client' = None \/ UNCHANGED <<pc, client, wire, ends>>
    BY <2>2 DEF RunsFrom, Reply, Park, KeepClient, DropClient
  <2> QED
    BY <1>1, <2>3 DEF DropIsDue
<1>3. CASE RunTooLong \/ OnHangUp
  BY <1>3 DEF RunTooLong, OnHangUp, DropClient, DropIsDue
<1>4. CASE RunEnd \/ OnTimer \/ AnswerParked \/ Close
  BY <1>4 DEF RunEnd, OnTimer, AnswerParked, Close, DropIsDue
<1>5. CASE OnClient
  <2>1. client \in Clients /\ client # None
    BY <1>5, ReadKeepsRun
  <2> DEFINE w == wire[client]
  <2>2. /\ pc' = "drop" => Len(w) < InMax - Len(in) /\ ends[client] # "open"
        /\ Len(w) < InMax - Len(in) =>
             wire' = [wire EXCEPT ![client] = SubSeq(w, Len(w) + 1, Len(w))]
        /\ UNCHANGED <<client, ends>>
    BY <1>5 DEF OnClient, HungUp
  <2>3. SubSeq(w, Len(w) + 1, Len(w)) = <<>>
    <3>1. Len(w) \in Nat
      BY <2>1 DEF TypeOK
    <3> QED
      BY <3>1, SubSeqEmpty
  <2> QED
    BY <2>1, <2>2, <2>3 DEF DropIsDue, TypeOK
<1>6. CASE \E watches \in BOOLEAN : OnAccept(watches)
  BY <1>6, Accepts DEF DropIsDue
<1>7. CASE \E c \in Clients : Say(c) \/ \E how \in {"half", "gone"} : Leave(c, how)
  <2>1. PICK c \in Clients : Say(c) \/ \E how \in {"half", "gone"} : Leave(c, how)
    BY <1>7
  <2>2. UNCHANGED <<pc, client>>
    BY <2>1 DEF Say, Leave, Outside
  <2>3. ASSUME pc = "drop", client # None
        PROVE  ends'[client] # "open" /\ wire'[client] = <<>>
    <3>1. ends[client] # "open" /\ wire[client] = <<>> /\ client \in Clients
      BY <2>3 DEF DropIsDue, TypeOK
    <3>2. CASE Say(c)
      BY <3>1, <3>2 DEF Say, TypeOK
    <3>3. CASE \E how \in {"half", "gone"} : Leave(c, how)
      BY <3>1, <3>3 DEF Leave, TypeOK
    <3> QED
      BY <2>1, <3>2, <3>3
  <2> QED
    BY <2>2, <2>3 DEF DropIsDue
<1>8. CASE \E c \in Clients : Connect(c)
  BY <1>1, <1>8 DEF Connect, Outside, peerVars
<1>9. CASE FrameTurns \/ Expire \/ DeadlinePasses \/ Poll \/ UNCHANGED vars
  BY <1>1, <1>9 DEF FrameTurns, Expire, DeadlinePasses, Poll, Outside, vars, controlVars,
     peerVars
<1> QED
  BY <1>2, <1>3, <1>4, <1>5, <1>6, <1>7, <1>8, <1>9 DEF Next

-----------------------------------------------------------------------------
(* The lines thrown away.                                                   *)

(* The lines thrown away with a served peer are its own, not run yet, in    *)
(* the buffer or on the wire.                                               *)
LEMMA UnheardIs ==
  ASSUME TypeOK, StreamKept, client \in Clients, client # None,
         NEW f \in 0 .. Len(in), NEW rest \in Seq(Lines), Len(rest) = Len(in) - f,
         \A i \in 1 .. Len(in) - f : rest[i] = in[f + i],
         NEW line \in Unheard(rest)
  PROVE  /\ Completes(line)
         /\ line[1] = client /\ line[2] \in Int /\ line[2] > Run
         /\ \/ \E i \in 1 .. Len(in) : line = in[i]
            \/ \E i \in 1 .. Len(wire[client]) : line = wire[client][i]
<1> DEFINE w == wire[client]
<1>1. /\ Len(in) \in Nat /\ w \in Seq(Lines) /\ Len(w) \in Nat /\ said[client] \in Nat
      /\ Run \in Int /\ Left(client) \in Int /\ Left(client) = Run + Len(in)
      /\ Len(rest) \in Nat
  BY DEF TypeOK, Run, Left
<1>2. /\ \A i \in 1 .. Len(w) : w[i] = <<client, Left(client) + i>>
      /\ \A i \in 1 .. Len(in) : in[i] = <<client, Run + i>>
  BY DEF StreamKept, WireKept, BufferKept
<1>3. /\ Completes(line)
      /\ line \in Range(rest \o w)
  BY DEF Unheard
<1> HIDE DEF w
<1>4. /\ DOMAIN (rest \o w) = 1 .. Len(rest) + Len(w)
      /\ \A i \in 1 .. Len(rest) + Len(w) :
           (rest \o w)[i] = IF i <= Len(rest) THEN rest[i] ELSE w[i - Len(rest)]
  <2>1. /\ rest \o w \in Seq(Lines) /\ Len(rest \o w) = Len(rest) + Len(w)
        /\ \A i \in 1 .. Len(rest) + Len(w) :
             (rest \o w)[i] = IF i <= Len(rest) THEN rest[i] ELSE w[i - Len(rest)]
    <3>1. rest \in Seq(Lines) /\ w \in Seq(Lines)
      BY <1>1
    <3> QED
      BY <3>1, ConcatProperties
  <2>2. DOMAIN (rest \o w) = 1 .. Len(rest \o w)
    BY <2>1, LenProperties
  <2> QED
    BY <2>1, <2>2
<1>5. PICK i \in 1 .. Len(rest) + Len(w) : line = (rest \o w)[i]
  BY <1>3, <1>4 DEF Range
<1>6. CASE i <= Len(rest)
  <2>1. f + i \in 1 .. Len(in) /\ line = in[f + i]
    BY <1>1, <1>4, <1>5, <1>6
  <2>2. line = <<client, Run + (f + i)>>
    BY <1>2, <2>1
  <2>3. line[1] = client /\ line[2] = Run + (f + i) /\ Run + (f + i) > Run
    BY <1>1, <2>1, <2>2
  <2> QED
    BY <1>1, <1>3, <2>1, <2>3
<1>7. CASE ~(i <= Len(rest))
  <2>1. i - Len(rest) \in 1 .. Len(w) /\ line = w[i - Len(rest)]
    <3>1. i - Len(rest) \in 1 .. Len(w)
      BY <1>1, <1>5, <1>7
    <3>2. line = (rest \o w)[i] /\ (rest \o w)[i] = w[i - Len(rest)]
      BY <1>4, <1>5, <1>7
    <3> QED
      BY <3>1, <3>2
  <2> DEFINE j == i - Len(rest)
  <2> HIDE DEF j
  <2>2. line = <<client, Left(client) + j>>
    BY <1>2, <2>1 DEF j
  <2>3. line[1] = client /\ line[2] = Left(client) + j /\ j \in 1 .. Len(w)
    BY <2>1, <2>2 DEF j
  <2>4. line[2] \in Int /\ line[2] > Run
    BY <1>1, <2>3
  <2>5. \E k \in 1 .. Len(w) : line = w[k]
    BY <2>1
  <2> QED
    BY <1>3, <2>3, <2>4, <2>5 DEF w
<1> QED
  BY <1>6, <1>7

(* What was behind a command parked for good, or behind a line too long, is *)
(* so still once its peer is served no more.                                *)
LEMMA ExcuseStays ==
  ASSUME TypeOK, PeersKnown, LostIsOver, ServedIsHeardOut, ControlAssumption,
         \A c \in Clients : ends[c] = "gone" => ends'[c] = "gone",
         \A c \in Clients : c # client => answers'[c] = answers[c],
         NEW line \in lost
  PROVE  (Untaken(line[1]) \/ BehindParked(line) \/ BehindTooLong(line))'
<1>1. line[1] \in Clients /\ conn[line[1]] = "ended"
  BY DEF TypeOK, Lines, LostIsOver
<1>2. line[1] # client
  BY <1>1 DEF PeersKnown, ControlAssumption
<1>3. answers'[line[1]] = answers[line[1]]
  BY <1>1, <1>2
<1>4. CASE Untaken(line[1])
  BY <1>1, <1>4 DEF Untaken
<1>5. CASE BehindParked(line)
  BY <1>3, <1>5 DEF BehindParked, Parks, Reads
<1>6. CASE BehindTooLong(line)
  BY <1>6 DEF BehindTooLong, Completes, Reads
<1> QED
  BY <1>4, <1>5, <1>6 DEF ServedIsHeardOut

(* Letting go of the client throws away lines of its own only.              *)
LEMMA DropLoses ==
  ASSUME TypeOK, PeersKnown, StreamKept, LostIsOver, ServedIsHeardOut,
         ControlAssumption, client \in Clients, client # None,
         UNCHANGED <<ends, answers>>,
         NEW f \in 0 .. Len(in), NEW rest \in Seq(Lines), Len(rest) = Len(in) - f,
         \A i \in 1 .. Len(in) - f : rest[i] = in[f + i],
         DropClient(Unheard(rest)),
         \A line \in Unheard(rest) :
           Untaken(line[1]) \/ BehindParked(line) \/ BehindTooLong(line)
  PROVE  LostIsOver' /\ ServedIsHeardOut'
<1>1. \A line \in Unheard(rest) : line[1] = client
  BY UnheardIs
<1>2. /\ lost' = lost \union Unheard(rest)
      /\ conn' = [conn EXCEPT ![client] = "ended"]
  BY DEF DropClient
<1>3. LostIsOver'
  BY <1>1, <1>2 DEF LostIsOver, TypeOK, Lines
<1>4. ASSUME NEW line \in lost'
      PROVE  (Untaken(line[1]) \/ BehindParked(line) \/ BehindTooLong(line))'
  <2>1. CASE line \in lost
    BY <2>1, ExcuseStays
  <2>2. CASE line \in Unheard(rest)
    BY <2>2 DEF Untaken, BehindParked, BehindTooLong, Parks, Completes, Reads
  <2> QED
    BY <1>2, <1>4, <2>1, <2>2
<1> QED
  BY <1>3, <1>4 DEF ServedIsHeardOut

(* A whole line still in the buffer when nothing more can be run is behind  *)
(* the command that is parked.                                              *)
LEMMA BufferedIsBehindParked ==
  ASSUME TypeOK, StreamKept, RunAnswered, client \in Clients, client # None,
         waiting # "READY", NEW line, line[1] = client, line[2] \in Int,
         line[2] > Run
  PROVE  BehindParked(line)
<1>1. /\ parked \in Due(client) /\ parked[2] <= Run /\ Parks(parked)
      /\ \A n \in DOMAIN answers[client] : answers[client][n][2] < parked[2]
  BY DEF RunAnswered
<1>2. /\ parked[2] \in Nat /\ parked[2] >= 1 /\ parked = <<client, parked[2]>>
  BY <1>1, DueIs
<1>3. Run \in Int
  BY DEF Run, Left, TypeOK
<1>4. parked[2] \in 1 .. line[2] - 1
  BY <1>1, <1>2, <1>3
<1>5. parked \notin Range(answers[client])
  BY <1>1, <1>2 DEF Range
<1>6. parked = <<line[1], parked[2]>>
  BY <1>2
<1> QED
  BY <1>1, <1>4, <1>5, <1>6 DEF BehindParked

(* Whatever is on the wire when pieces of one line fill the buffer is       *)
(* behind that line.                                                        *)
LEMMA WireIsBehindTooLong ==
  ASSUME TypeOK, StreamKept, ControlAssumption, client \in Clients, client # None,
         ~HasLine, Len(in) = InMax, NEW line \in Unheard(in)
  PROVE  BehindTooLong(line)
<1> DEFINE w == wire[client]
<1>1. /\ Len(in) \in Nat /\ w \in Seq(Lines) /\ Len(w) \in Nat /\ said[client] \in Nat
      /\ Run \in Int /\ Left(client) \in Int /\ Left(client) = Run + Len(in)
      /\ InMax \in Nat /\ in \in Seq(Lines)
  BY DEF TypeOK, Run, Left, ControlAssumption
<1>2. /\ \A i \in 1 .. Len(w) : w[i] = <<client, Left(client) + i>>
      /\ Run >= 0 /\ \A i \in 1 .. Len(in) : in[i] = <<client, Run + i>>
  BY DEF StreamKept, WireKept, BufferKept
<1>3. 0 \in 0 .. Len(in) /\ Len(in) = Len(in) - 0
      /\ \A i \in 1 .. Len(in) - 0 : in[i] = in[0 + i]
  BY <1>1
<1>4. /\ Completes(line) /\ line[1] = client
      /\ \/ \E i \in 1 .. Len(in) : line = in[i]
         \/ \E i \in 1 .. Len(w) : line = w[i]
  BY <1>1, <1>3, UnheardIs
<1>5. \A i \in 1 .. Len(in) : ~Completes(in[i])
  BY <1>1 DEF HasLine
<1>6. PICK i \in 1 .. Len(w) : line = w[i]
  BY <1>4, <1>5
<1> HIDE DEF w
<1>7. line[2] = Run + InMax + i /\ i \in Nat /\ i >= 1
  BY <1>1, <1>2, <1>6
<1> DEFINE first == Run + 1
<1>8. first \in 1 .. line[2] - InMax
  BY <1>1, <1>2, <1>7
<1>9. ASSUME NEW j \in first .. first + InMax - 1
      PROVE  ~Completes(<<line[1], j>>)
  <2>1. j - Run \in 1 .. Len(in) /\ Run + (j - Run) = j
    BY <1>1
  <2>2. in[j - Run] = <<client, j>>
    BY <1>2, <2>1
  <2> QED
    BY <1>4, <1>5, <2>1, <2>2
<1> HIDE DEF first
<1> QED
  BY <1>8, <1>9 DEF BehindTooLong

(* Every step loses only lines that may be lost.                           *)
LEMMA LostStep ==
  ASSUME TypeOK, PeersKnown, StreamKept, RunAnswered, DropIsDue, LostIsOver,
         ServedIsHeardOut, ControlAssumption, [Next]_vars
  PROVE  LostIsOver' /\ ServedIsHeardOut'
<1>0. /\ in \in Seq(Lines) /\ Len(in) \in Nat /\ (client # None => client \in Clients)
      /\ 0 \in 0 .. Len(in) /\ Len(in) = Len(in) - 0
      /\ \A i \in 1 .. Len(in) - 0 : in[i] = in[0 + i]
  BY DEF TypeOK
(* Nothing is lost, and no peer let go of comes back.                       *)
<1>1. ASSUME UNCHANGED lost,
             \A c \in Clients : conn[c] = "ended" => conn'[c] = "ended",
             \A c \in Clients : ends[c] = "gone" => ends'[c] = "gone",
             \A c \in Clients : c # client => answers'[c] = answers[c]
      PROVE  LostIsOver' /\ ServedIsHeardOut'
  <2>1. LostIsOver'
    BY <1>1 DEF LostIsOver, TypeOK, Lines
  <2>2. \A line \in lost :
          (Untaken(line[1]) \/ BehindParked(line) \/ BehindTooLong(line))'
    BY <1>1, ExcuseStays
  <2> QED
    BY <1>1, <2>1, <2>2 DEF ServedIsHeardOut
(* A peer that takes no answer. *)
<1>2. ASSUME client # None, Untaken(client), UNCHANGED <<ends, answers>>,
             NEW f \in 0 .. Len(in), NEW rest \in Seq(Lines), Len(rest) = Len(in) - f,
             \A i \in 1 .. Len(in) - f : rest[i] = in[f + i],
             DropClient(Unheard(rest))
      PROVE  LostIsOver' /\ ServedIsHeardOut'
  <2>1. \A line \in Unheard(rest) : line[1] = client
    BY <1>0, <1>2, UnheardIs
  <2>2. \A line \in Unheard(rest) : Untaken(line[1])
    BY <1>2, <2>1
  <2> QED
    BY <1>0, <1>2, <2>2, DropLoses
(* A reply, which is taken or is not. *)
<1>3. ASSUME client # None, UNCHANGED ends, NEW line,
             NEW f \in 0 .. Len(in), NEW rest \in Seq(Lines), Len(rest) = Len(in) - f,
             \A i \in 1 .. Len(in) - f : rest[i] = in[f + i],
             Reply(line, rest)
      PROVE  LostIsOver' /\ ServedIsHeardOut'
  <2>1. CASE Untaken(client) /\ DropClient(Unheard(rest)) /\ UNCHANGED answers
    BY <1>2, <1>3, <2>1
  <2>2. CASE /\ answers' = [answers EXCEPT ![client] = Append(@, line)]
             /\ KeepClient(rest)
    BY <1>0, <1>1, <1>3, <2>2 DEF KeepClient, TypeOK
  <2> QED
    BY <1>3, <2>1, <2>2 DEF Reply
<1>4. CASE RunLine
  <2>1. client \in Clients /\ client # None
    BY <1>4, RunLineIs DEF ControlAssumption
  <2>2. PICK f \in 1 .. Len(in), rest \in Seq(Lines) :
          /\ Len(rest) = Len(in) - f
          /\ \A i \in 1 .. Len(in) - f : rest[i] = in[f + i]
          /\ RunsFrom(f, rest)
    BY <1>4, RunLineIs
  <2>3. f \in 0 .. Len(in) /\ UNCHANGED ends
    BY <2>2, <1>0 DEF RunsFrom
  <2>4. \/ Reply(in[f], rest)
        \/ UNCHANGED <<lost, conn, answers>>
    BY <2>2 DEF RunsFrom, Park, KeepClient
  <2> QED
    BY <1>1, <1>3, <2>1, <2>2, <2>3, <2>4
<1>5. CASE RunTooLong
  <2>1. /\ client # None /\ ~HasLine /\ Len(in) = InMax
        /\ DropClient(Unheard(in)) /\ UNCHANGED <<ends, answers>>
    BY <1>5 DEF RunTooLong, CanRun
  <2>2. \A line \in Unheard(in) : BehindTooLong(line)
    BY <1>0, <2>1, WireIsBehindTooLong
  <2> QED
    BY <1>0, <2>1, <2>2, DropLoses
<1>6. CASE OnHangUp
  <2>1. /\ client # None /\ Untaken(client) /\ DropClient(Unheard(in))
        /\ UNCHANGED <<ends, answers>>
    BY <1>6 DEF OnHangUp, Turn, PeersKnown, Untaken
  <2> QED
    BY <1>0, <1>2, <2>1
<1>7. CASE RunEnd
  <2>1. CASE pc = "drop" /\ client # None
    <3>1. /\ DropClient(Unheard(in)) /\ UNCHANGED <<ends, answers>>
          /\ waiting = "READY" => ~HasLine
          /\ wire[client] = <<>>
      BY <1>7, <2>1 DEF RunEnd, CanRun, Running, DropIsDue
    <3>2. ASSUME NEW line \in Unheard(in)
          PROVE  BehindParked(line)
      <4>1. /\ line[1] = client /\ line[2] \in Int /\ line[2] > Run /\ Completes(line)
            /\ \/ \E i \in 1 .. Len(in) : line = in[i]
               \/ \E i \in 1 .. Len(wire[client]) : line = wire[client][i]
        BY <1>0, <2>1, UnheardIs
      <4>2. \E i \in 1 .. Len(in) : line = in[i]
        BY <3>1, <4>1
      <4>3. waiting # "READY"
        BY <1>0, <3>1, <4>1, <4>2 DEF HasLine
      <4> QED
        BY <1>0, <2>1, <4>1, <4>3, BufferedIsBehindParked
    <3> QED
      BY <1>0, <2>1, <3>1, <3>2, DropLoses
  <2>2. CASE ~(pc = "drop" /\ client # None)
    BY <1>1, <1>7, <2>2 DEF RunEnd
  <2> QED
    BY <2>1, <2>2
<1>8. CASE AnswerParked
  <2>1. UNCHANGED ends
    BY <1>8, AnswerParkedIs
  <2>2. \/ client # None /\ Reply(parked, in)
        \/ UNCHANGED <<lost, conn, answers>>
    BY <1>8, AnswerParkedIs DEF Park, KeepClient, RunAnswered
  <2> QED
    BY <1>0, <1>1, <1>3, <2>1, <2>2
<1>9. CASE \E c \in Clients, how \in {"half", "gone"} : Leave(c, how)
  <2>1. UNCHANGED <<lost, conn, answers>>
    BY <1>9 DEF Leave, Outside, historyVars
  <2>2. \A c \in Clients : ends[c] = "gone" => ends'[c] = "gone"
    BY <1>9 DEF Leave, TypeOK
  <2> QED
    BY <1>1, <2>1, <2>2
<1>10. CASE \E watches \in BOOLEAN : OnAccept(watches)
  <2>1. UNCHANGED <<lost, ends, answers>>
    BY <1>10, Accepts
  <2>2. \A c \in Clients : conn[c] = "ended" => conn'[c] = "ended"
    <3>1. backlog # <<>> /\ backlog \in Seq(Clients)
      BY <1>10, Accepts DEF TypeOK
    <3>2. Head(backlog) \in Clients /\ conn[Head(backlog)] = "backlog"
      <4>1. Head(backlog) = backlog[1] /\ 1 \in DOMAIN backlog /\ Head(backlog) \in Clients
        BY <3>1, TailIs
      <4> QED
        BY <4>1 DEF PeersKnown
    <3>3. PICK how : conn' = [conn EXCEPT ![Head(backlog)] = how]
      BY <1>10, Accepts
    <3> QED
      BY <3>2, <3>3 DEF TypeOK
  <2> QED
    BY <1>1, <2>1, <2>2
<1>11. CASE OnClient \/ OnTimer
  BY <1>1, <1>11 DEF OnClient, OnTimer, historyVars, peerVars
<1>12. CASE Close
  BY <1>1, <1>12 DEF Close, historyVars, TypeOK
<1>13. CASE \E c \in Clients : Connect(c) \/ Say(c)
  BY <1>1, <1>13 DEF Connect, Say, Outside, historyVars, peerVars, TypeOK
<1>14. CASE FrameTurns \/ Expire \/ DeadlinePasses \/ Poll \/ UNCHANGED vars
  BY <1>1, <1>14 DEF FrameTurns, Expire, DeadlinePasses, Poll, Outside, vars, controlVars,
     peerVars, historyVars
<1> QED
  BY <1>4, <1>5, <1>6, <1>7, <1>8, <1>9, <1>10, <1>11, <1>12, <1>13, <1>14 DEF Next

-----------------------------------------------------------------------------
(* The theorems. *)

(* The invariant of every behaviour: whose lines are where, which of them   *)
(* have had answers, and what the timer can still mean.                     *)
THEOREM ControlInvHolds == Spec => []ControlInv
<1> USE ControlAssumption
<1>1. Init => ControlInv
  <2> SUFFICES ASSUME Init  PROVE  ControlInv
    OBVIOUS
  <2>1. <<>> \in Seq(Lines) /\ <<>> \in Seq(Clients) /\ Len(<<>>) = 0 /\ DOMAIN <<>> = {}
    BY EmptySeq
  <2>2. TypeOK
    <3>1. /\ conn \in [Clients -> {"away", "backlog", "served", "refused", "ended"}]
          /\ wire \in [Clients -> Seq(Lines)] /\ answers \in [Clients -> Seq(Lines)]
          /\ said \in [Clients -> Nat] /\ ends \in [Clients -> {"open", "half", "gone"}]
      BY <2>1 DEF Init
    <3>2. in \in Seq(Lines) /\ Len(in) <= InMax /\ backlog \in Seq(Clients)
      BY <2>1 DEF Init, ControlAssumption
    <3> QED
      BY <3>1, <3>2 DEF Init, TypeOK
  <2>3. PeersKnown
    BY <2>1 DEF Init, PeersKnown
  <2>4. StreamKept
    BY <2>1 DEF Init, StreamKept, WireKept, BufferKept, Left
  <2>5. RunAnswered /\ TimerKnown /\ DropIsDue /\ LostIsOver /\ ServedIsHeardOut
    BY DEF Init, RunAnswered, TimerKnown, DropIsDue, LostIsOver, ServedIsHeardOut
  <2>6. AnswersInOrder /\ NoLineLeftBehind
    BY <2>1, <2>2 DEF Init, AnswersInOrder, AnsweredInOrder, NoLineLeftBehind, Range
  <2> QED
    BY <2>2, <2>3, <2>4, <2>5, <2>6 DEF ControlInv
<1>2. ControlInv /\ [Next]_vars => ControlInv'
  <2> SUFFICES ASSUME ControlInv, [Next]_vars  PROVE  ControlInv'
    OBVIOUS
  <2>1. TypeOK' /\ PeersKnown' /\ StreamKept' /\ TimerKnown' /\ DropIsDue'
    BY TypeStep, PeersStep, StreamStep, TimerStep, DropStep DEF ControlInv
  <2>2. RunAnswered' /\ \A c \in Clients : AnsweredInOrder(c)'
    BY AnswersStep DEF ControlInv, AnswersInOrder
  <2>3. AnswersInOrder'
    BY <2>1, <2>2 DEF AnswersInOrder, TimerKnown
  <2>4. NoLineLeftBehind'
    BY <2>1, BufferStep DEF ControlInv, NoLineLeftBehind
  <2>5. LostIsOver' /\ ServedIsHeardOut'
    BY LostStep DEF ControlInv
  <2> QED
    BY <2>1, <2>2, <2>3, <2>4, <2>5 DEF ControlInv
<1> QED
  BY <1>1, <1>2, PTL DEF Spec

(* One answer a command, in order and to the peer that gave it, and a timer *)
(* event older than the command that is parked never answers it.            *)
THEOREM OneAnswerACommand == Spec => []AnswersInOrder
<1>1. ControlInv => AnswersInOrder
  BY DEF ControlInv
<1> QED
  BY <1>1, ControlInvHolds, PTL

(* No callback returns with a whole line, or with no room, in the buffer of *)
(* a connection that is not parked.                                         *)
THEOREM BufferIsRunDry == Spec => []NoLineLeftBehind
<1>1. ControlInv => NoLineLeftBehind
  BY DEF ControlInv
<1> QED
  BY <1>1, ControlInvHolds, PTL

(* What a served peer sends, whether it stops writing or not, is thrown     *)
(* away before the control is closed only when the peer takes no answer,    *)
(* behind a command still parked, or behind a line that fills the buffer.   *)
THEOREM PeersAreHeardOut == Spec => []ServedIsHeardOut
<1>1. ControlInv => ServedIsHeardOut
  BY DEF ControlInv
<1> QED
  BY <1>1, ControlInvHolds, PTL
=============================================================================
