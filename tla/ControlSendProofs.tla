-------------------------- MODULE ControlSendProofs --------------------------
(***************************************************************************)
(* Theorems about the file of the control socket and the sending end, for  *)
(* any programs, inodes, plans, senders and scripts.                       *)
(***************************************************************************)
EXTENDS ControlSend, SequenceTheorems, TLAPS

USE SocketFileAssumption, ControlSendAssumption

-----------------------------------------------------------------------------
(* The path and the programs at it.                                        *)

Places == {"down", "listen", "stat", "setup", "up", "lstat", "unlink", "without"}

Files == [ino : Inodes, by : Programs \union {Outsider}, socket : BOOLEAN,
          amid : SUBSET Programs]

FileTypeOK ==
  /\ plan \in Plans /\ moves \in Nat
  /\ path = {} \/ \E f \in Files : path = {f}
  /\ pc \in [Programs -> Places]
  /\ own \in [Programs -> SUBSET Inodes] /\ saw \in [Programs -> SUBSET Inodes]
  /\ \A p \in Programs : own[p] = {} \/ \E i \in Inodes : own[p] = {i}
  /\ blind \in [Programs -> BOOLEAN] /\ robbed \in [Programs -> BOOLEAN]

(* Steps that touch the file or what a program knows of it. *)
FileNext ==
  \/ \E p \in Programs : Opens(p) \/ SetUp(p) \/ CloseSocket(p) \/ Closes(p) \/ Over(p)
  \/ Clear \/ \E b \in BOOLEAN : Put(b)

(* A file made is on an inode no open socket and no path holds, and knows   *)
(* who was within its close.                                                *)
LEMMA NewFile ==
  ASSUME FileTypeOK, NEW who \in Programs \union {Outsider}, NEW b
  PROVE  \A f \in NewFiles(who, b) :
           /\ b \in BOOLEAN => f \in Files
           /\ f.by = who /\ f.socket = b /\ f.amid = Amid
           /\ \A p \in Programs : Open(p) => f.ino \notin own[p]
BY DEF NewFiles, FileTypeOK, Files, Amid

(* The same of the file a program's bind makes. *)
LEMMA NewSocket ==
  ASSUME FileTypeOK, NEW who \in Programs
  PROVE  \A f \in NewFiles(who, TRUE) :
           /\ f \in Files /\ f.ino \in Inodes
           /\ f.by = who /\ f.socket /\ f.amid = Amid
           /\ \A p \in Programs : Open(p) => f.ino \notin own[p]
<1> SUFFICES ASSUME NEW f \in NewFiles(who, TRUE)
             PROVE  /\ f \in Files /\ f.ino \in Inodes
                    /\ f.by = who /\ f.socket /\ f.amid = Amid
                    /\ \A p \in Programs : Open(p) => f.ino \notin own[p]
  OBVIOUS
<1>1. PICK i \in Inodes \ UNION {own[p] : p \in {p \in Programs : Open(p)}} :
        f = [ino |-> i, by |-> who, socket |-> TRUE, amid |-> Amid]
  BY DEF NewFiles
<1>2. Amid \in SUBSET Programs
  BY DEF Amid
<1> QED
  BY <1>1, <1>2 DEF Files

(* Who is robbed when a file goes from the path. *)
LEMMA Robbed ==
  ASSUME NEW taker, Rob(taker)
  PROVE  \A p \in Programs :
           robbed'[p] <=> robbed[p] \/ (p # taker /\ \E f \in path : Mine(p, f))
BY DEF Rob

(* No call and no move of an outsider takes a variable out of its type, and *)
(* there is never more than one file at the path.                           *)
LEMMA FileTypeStep == FileTypeOK /\ [FileNext]_fileVars => FileTypeOK'
<1> SUFFICES ASSUME FileTypeOK, [FileNext]_fileVars PROVE FileTypeOK'
  OBVIOUS
<1> USE DEF FileTypeOK, Places, Go
<1>1. ASSUME NEW p \in Programs, Bind(p) PROVE FileTypeOK'
  <2>1. PICK f \in NewFiles(p, TRUE) :
          path' = {f} /\ own' = [own EXCEPT ![p] = {f.ino}]
    BY <1>1 DEF Bind
  <2>2. f \in Files /\ f.ino \in Inodes
    BY NewSocket
  <2> QED
    BY <1>1, <2>1, <2>2 DEF Bind
<1>2. ASSUME NEW p \in Programs, BindRefused(p) \/ Listen(p) \/ SetUp(p) \/ CloseSocket(p)
      PROVE  FileTypeOK'
  BY <1>2 DEF BindRefused, Listen, SetUp, CloseSocket
<1>3. ASSUME NEW p \in Programs, Stat(p) PROVE FileTypeOK'
  <2>1. {f.ino : f \in path} \in SUBSET Inodes
    BY DEF Files
  <2> QED
    BY <1>3, <2>1 DEF Stat
<1>4. ASSUME NEW p \in Programs, Lstat(p) \/ Unlink(p) \/ Over(p) PROVE FileTypeOK'
  BY <1>4 DEF Lstat, Unlink, Over, Rob
<1>5. CASE Clear
  BY <1>5 DEF Clear, Rob
<1>6. ASSUME NEW b \in BOOLEAN, Put(b) PROVE FileTypeOK'
  BY <1>6, NewFile DEF Put
<1>7. CASE UNCHANGED fileVars
  BY <1>7 DEF fileVars
<1> QED
  BY <1>1, <1>2, <1>3, <1>4, <1>5, <1>6, <1>7 DEF FileNext, Opens, Closes

-----------------------------------------------------------------------------
(* What a program that is down holds; whose a file at the path can be; and  *)
(* what a program that saw its own file knows of the path.                  *)
DownHoldsNothing ==
  \A p \in Programs :
    pc[p] = "down" => own[p] = {} /\ saw[p] = {} /\ ~blind[p] /\ ~robbed[p]

(* A program's file is a socket, and one on the inode of a program that is  *)
(* not through with its close is its own or was made within that close.     *)
InodesAreHeld ==
  \A f \in path :
    /\ f.by \in Programs => f.socket
    /\ \A p \in Programs :
         /\ pc[p] \notin {"down", "without"} /\ f.ino \in own[p]
              => f.by = p \/ p \in f.amid
         /\ pc[p] = "unlink" /\ saw[p] \subseteq own[p]
              => Mine(p, f) \/ p \in f.amid

(* A program past its stat that is not blind knows its file while it is     *)
(* there.                                                                   *)
SeesItsOwn ==
  \A p \in Programs, f \in path :
    pc[p] \in {"setup", "up", "lstat", "unlink"} /\ ~blind[p] /\ Mine(p, f)
      => saw[p] = own[p]

FileInv ==
  FileTypeOK /\ DownHoldsNothing /\ InodesAreHeld /\ SeesItsOwn /\ PathTellsWhoRuns

(* What a program at the path believes of it stays true whatever the others *)
(* do there between two of its calls.                                       *)
LEMMA FileInvStep == FileInv /\ [FileNext]_fileVars => FileInv'
<1> DEFINE Goal == DownHoldsNothing /\ InodesAreHeld /\ SeesItsOwn /\ PathTellsWhoRuns
<1> SUFFICES ASSUME FileInv, [FileNext]_fileVars PROVE Goal'
  BY FileTypeStep DEF FileInv
<1>1. ASSUME NEW p \in Programs, NEW f \in NewFiles(p, TRUE)
      PROVE  /\ f.by = p /\ f.socket
             /\ \A q \in Programs : Open(q) => f.ino \notin own[q]
             /\ \A q \in Programs : pc[q] \in {"lstat", "unlink"} => q \in f.amid
  <2>1. /\ f.by = p /\ f.socket /\ f.amid = Amid
        /\ \A q \in Programs : Open(q) => f.ino \notin own[q]
    BY NewSocket DEF FileInv
  <2> QED
    BY <2>1 DEF Amid
<1>2. ASSUME NEW b \in BOOLEAN, NEW f \in NewFiles(Outsider, b)
      PROVE  /\ f.by = Outsider
             /\ \A q \in Programs : Open(q) => f.ino \notin own[q]
             /\ \A q \in Programs : pc[q] \in {"lstat", "unlink"} => q \in f.amid
  <2>1. /\ f.by = Outsider /\ f.amid = Amid
        /\ \A q \in Programs : Open(q) => f.ino \notin own[q]
    BY NewFile DEF FileInv
  <2> QED
    BY <2>1 DEF Amid
<1> USE DEF FileInv, FileTypeOK, DownHoldsNothing, InodesAreHeld, SeesItsOwn,
            PathTellsWhoRuns, Mine, Open, Go
<1>3. ASSUME NEW p \in Programs, Bind(p) PROVE Goal'
  <2>1. PICK f \in NewFiles(p, TRUE) :
          path' = {f} /\ own' = [own EXCEPT ![p] = {f.ino}]
    BY <1>3 DEF Bind
  <2>2. /\ path = {} /\ pc[p] = "down" /\ pc' = [pc EXCEPT ![p] = "listen"]
        /\ UNCHANGED <<saw, blind, robbed>>
    BY <1>3 DEF Bind
  <2>3. /\ f.by = p /\ f.socket
        /\ \A q \in Programs : Open(q) => f.ino \notin own[q]
        /\ \A q \in Programs : pc[q] \in {"lstat", "unlink"} => q \in f.amid
    BY <1>1
  <2>4. \A q \in Programs :
          /\ own'[q] = IF q = p THEN {f.ino} ELSE own[q]
          /\ pc'[q] = IF q = p THEN "listen" ELSE pc[q]
          /\ saw'[q] = saw[q] /\ blind'[q] = blind[q] /\ robbed'[q] = robbed[q]
    BY <2>1, <2>2
  <2>5. path' = {f}
    BY <2>1
  <2>6. DownHoldsNothing'
    BY <2>4
  <2>7. InodesAreHeld'
    <3>1. \A q \in Programs : f.ino \in own'[q] /\ q # p
            => pc[q] \in {"down", "lstat", "unlink", "without"}
      BY <2>3, <2>4 DEF Places
    <3> QED
      BY <2>2, <2>3, <2>4, <2>5, <3>1
  <2>8. SeesItsOwn'
    BY <2>3, <2>4, <2>5
  <2>9. PathTellsWhoRuns'
    BY <2>2, <2>3, <2>4, <2>5
  <2> QED
    BY <2>6, <2>7, <2>8, <2>9
<1>4. ASSUME NEW p \in Programs, BindRefused(p) PROVE Goal'
  BY <1>4 DEF BindRefused
<1>5. ASSUME NEW p \in Programs, Listen(p) PROVE Goal'
  <2>1. /\ pc[p] = "listen"
        /\ \/ pc' = [pc EXCEPT ![p] = "stat"] /\ blind' = blind
           \/ /\ pc' = [pc EXCEPT ![p] = "without"]
              /\ blind' = [blind EXCEPT ![p] = TRUE]
        /\ UNCHANGED <<path, own, saw, robbed>>
    BY <1>5 DEF Listen
  <2>2. DownHoldsNothing'
    BY <2>1
  <2>3. InodesAreHeld'
    BY <2>1 DEF Places
  <2>4. SeesItsOwn'
    BY <2>1
  <2>5. PathTellsWhoRuns'
    BY <2>1
  <2> QED
    BY <2>2, <2>3, <2>4, <2>5
<1>6. ASSUME NEW p \in Programs, Stat(p) PROVE Goal'
  <2>1. /\ pc[p] = "stat" /\ pc' = [pc EXCEPT ![p] = "setup"]
        /\ saw'[p] = {} \/ saw'[p] = {f.ino : f \in path}
        /\ blind'[p] = (saw'[p] = {})
        /\ \A q \in Programs \ {p} : saw'[q] = saw[q] /\ blind'[q] = blind[q]
        /\ UNCHANGED <<path, own, robbed>>
    BY <1>6 DEF Stat
  <2>2. DownHoldsNothing' /\ InodesAreHeld'
    BY <2>1
  <2>3. SeesItsOwn'
    <3>1. \A f \in path : f.ino \in own[p] => {g.ino : g \in path} = own[p]
      OBVIOUS
    <3>2. ~blind'[p] => saw'[p] = {g.ino : g \in path}
      BY <2>1
    <3>3. pc'[p] = "setup" /\ \A q \in Programs \ {p} : pc'[q] = pc[q]
      BY <2>1
    <3>4. \A f \in path : ~blind'[p] /\ Mine(p, f) => saw'[p] = own[p]
      BY <3>1, <3>2
    <3> QED
      BY <2>1, <3>3, <3>4
  <2>4. PathTellsWhoRuns'
    BY <2>1
  <2> QED
    BY <2>2, <2>3, <2>4
<1>7. ASSUME NEW p \in Programs, SetUp(p) \/ CloseSocket(p) PROVE Goal'
  <2>1. /\ pc[p] \in {"setup", "up"}
        /\ \E where \in {"up", "lstat"} : pc' = [pc EXCEPT ![p] = where]
        /\ UNCHANGED <<path, own, saw, blind, robbed>>
    BY <1>7 DEF SetUp, CloseSocket
  <2>2. DownHoldsNothing'
    BY <2>1
  <2>3. InodesAreHeld'
    BY <2>1 DEF Places
  <2>4. SeesItsOwn'
    BY <2>1
  <2>5. PathTellsWhoRuns'
    BY <2>1
  <2> QED
    BY <2>2, <2>3, <2>4, <2>5
<1>8. ASSUME NEW p \in Programs, Lstat(p) PROVE Goal'
  <2>1. CASE IsBound(p)
    BY <1>8, <2>1 DEF Lstat, IsBound
  <2>2. CASE ~IsBound(p)
    BY <1>8, <2>2 DEF Lstat, IsBound
  <2> QED
    BY <2>1, <2>2
<1>9. ASSUME NEW p \in Programs, Unlink(p) PROVE Goal'
  <2>1. /\ pc[p] = "unlink" /\ pc' = [pc EXCEPT ![p] = "without"] /\ path' = {}
        /\ saw' = [saw EXCEPT ![p] = {}] /\ UNCHANGED <<own, blind>>
        /\ robbed' = [q \in Programs |->
                        robbed[q] \/ (q # p /\ \E f \in path : Mine(q, f))]
    BY <1>9 DEF Unlink, Rob
  <2>2. DownHoldsNothing'
    BY <2>1
  <2>3. InodesAreHeld'
    BY <2>1 DEF Places
  <2>4. SeesItsOwn'
    BY <2>1
  <2>5. PathTellsWhoRuns'
    <3>1. \A q \in Programs \ {p} :
            /\ pc'[q] = pc[q] /\ saw'[q] = saw[q]
            /\ robbed'[q] <=> robbed[q] \/ \E f \in path : Mine(q, f)
      BY <1>9, <2>1, Robbed DEF Unlink
    <3>2. pc'[p] = "without" /\ saw'[p] = {}
      BY <2>1
    <3> QED
      BY <2>1, <3>1, <3>2
  <2> QED
    BY <2>2, <2>3, <2>4, <2>5
<1>10. ASSUME NEW p \in Programs, Over(p) PROVE Goal'
  BY <1>10 DEF Over
<1>11. CASE Clear
  <2>1. /\ path' = {} /\ UNCHANGED <<pc, own, saw, blind>>
        /\ robbed' = [q \in Programs |->
                        robbed[q] \/ (q # Outsider /\ \E f \in path : Mine(q, f))]
    BY <1>11 DEF Clear, Rob
  <2>2. DownHoldsNothing'
    BY <2>1
  <2>3. InodesAreHeld'
    BY <2>1 DEF Places
  <2>4. SeesItsOwn'
    BY <2>1
  <2>5. PathTellsWhoRuns'
    BY <2>1
  <2> QED
    BY <2>2, <2>3, <2>4, <2>5
<1>12. ASSUME NEW b \in BOOLEAN, Put(b) PROVE Goal'
  <2>1. PICK f \in NewFiles(Outsider, b) : path' = {f}
    BY <1>12 DEF Put
  <2>2. path = {} /\ UNCHANGED <<pc, own, saw, blind, robbed>>
    BY <1>12 DEF Put
  <2>3. /\ f.by = Outsider
        /\ \A q \in Programs : Open(q) => f.ino \notin own[q]
        /\ \A q \in Programs : pc[q] \in {"lstat", "unlink"} => q \in f.amid
    BY <1>2, <2>1
  <2>4. DownHoldsNothing' /\ SeesItsOwn' /\ PathTellsWhoRuns'
    BY <2>1, <2>2, <2>3
  <2>5. InodesAreHeld'
    <3>1. \A q \in Programs : f.ino \in own[q]
            => pc[q] \in {"down", "lstat", "unlink", "without"}
      BY <2>3 DEF Places
    <3> QED
      BY <2>1, <2>2, <2>3, <3>1
  <2> QED
    BY <2>4, <2>5
<1>13. CASE UNCHANGED fileVars
  BY <1>13 DEF fileVars
<1> QED
  BY <1>3, <1>4, <1>5, <1>6, <1>7, <1>8, <1>9, <1>10, <1>11, <1>12, <1>13
     DEF FileNext, Opens, Closes

-----------------------------------------------------------------------------
(* A step of the programs, the outsider and the senders together is at the  *)
(* path a step of one of the first two, or none.                            *)
LEMMA StepAtThePath == [Next]_vars => [FileNext]_fileVars
BY DEF Next, FileNext, ProgramStep, vars, Start, Connect, SendEnd, SendNext, Read,
       ListenerStep, Accept, Answer, LetGo, ListenerOnly, Crowd, Tick

(* The path and the programs at it, in every behaviour.                    *)
LEMMA FileInvHolds == Spec => []FileInv
<1>1. Init => FileInv
  BY DEF Init, FileInit, FileInv, FileTypeOK, Places, DownHoldsNothing,
         InodesAreHeld, SeesItsOwn, PathTellsWhoRuns, Open
<1> QED
  BY <1>1, FileInvStep, StepAtThePath, PTL DEF Spec

(* Whatever programs and others do at one path, and wherever they are       *)
(* killed: a program with its socket open is found there unless robbed, one *)
(* that closed has left nothing, and none takes another's file for its own  *)
(* while it has not been robbed.                                            *)
THEOREM PathIsTrue == Spec => []PathTellsWhoRuns
BY FileInvHolds, PTL DEF FileInv

(* A close takes only the file its own bind made, or one put there between  *)
(* its own lstat and unlink.                                                *)
THEOREM UnlinkTakesItsOwn == Spec => TakesOnlyItsOwn
<1>1. FileInv /\ [Next]_vars
        => [\A f \in path \ path', p \in Programs :
              pc[p] = "unlink" /\ pc'[p] = "without" /\ saw[p] \subseteq own[p]
                => Mine(p, f) \/ p \in f.amid]_fileVars
  BY DEF FileInv, InodesAreHeld
<1> QED
  BY <1>1, FileInvHolds, PTL DEF Spec, TakesOnlyItsOwn

-----------------------------------------------------------------------------
(* The sending end.                                                        *)

Statuses == {"none", "0", "ENOENT", "ECONNREFUSED", "ETIMEDOUT", "E2BIG",
             "EPIPE", "ECONNRESET", "EPROTO"}

(* At most one answer is on the wire. *)
Replies == {{}} \union {{a} : a \in {"ok", "error"}}

SendTypeOK ==
  /\ prompt \in BOOLEAN
  /\ step \in [Senders -> {"away", "connect", "send", "read", "done"}]
  /\ at \in [Senders -> Nat] /\ elapsed \in [Senders -> Nat]
  /\ status \in [Senders -> Statuses]
  /\ link \in [Senders -> {"none", "backlog", "served", "closed"}]
  /\ peer \in [Senders -> SUBSET Programs]
  /\ reply \in [Senders -> Replies]
  /\ asked \in [Senders -> BOOLEAN]

(* A sender waits from zero for each thing it waits for, and no answer of a *)
(* prompt program is still out when its time is up.                         *)
WaitsInTime(s) ==
  /\ at[s] <= Len(Script[s])
  /\ step[s] = "send" => elapsed[s] = 0
  /\ step[s] = "read" => at[s] > 0
  /\ step[s] \in {"away", "connect"} => peer[s] = {}
  /\ prompt /\ Awaits(s) => elapsed[s] < Patience(s)
  /\ status[s] = "ETIMEDOUT" => step[s] = "done"
  /\ prompt /\ status[s] = "ETIMEDOUT" =>
       peer[s] = {} \/ Command(s).verb = "tabwait"

SendInv == SendTypeOK /\ \A s \in Senders : WaitsInTime(s)

Commands == [verb : {"plain", "wait", "tabwait", "blank", "long"}, ms : Nat]

(* What a script says is a command.                                        *)
LEMMA Scripted ==
  ASSUME NEW s \in Senders, NEW i \in 1 .. Len(Script[s])
  PROVE  Script[s][i] \in Commands
<1>1. Script[s] \in Seq(Commands)
  BY DEF Commands
<1> QED
  BY <1>1, ElementOfSeq

(* The time a sender gives a command, spelled as the program reads it, is   *)
(* the time the program may take.                                           *)
LEMMA Budgets ==
  ASSUME SendTypeOK, NEW s \in Senders, at[s] \in 1 .. Len(Script[s])
  PROVE  /\ Command(s) \in Commands
         /\ Budget(Command(s)) \in Nat /\ Patience(s) \in Nat
         /\ Awaits(s) /\ Command(s).verb # "tabwait" => Patience(s) = Budget(Command(s))
<1>1. Command(s) \in Commands
  BY Scripted DEF Command
<1> QED
  BY <1>1 DEF Budget, Patience, Commands

(* A sender's time is its own: it is not touched by what happens to others, *)
(* nor by what its listener does as long as that takes no answer back.      *)
LEMMA OthersKeepTheirTime ==
  ASSUME NEW s \in Senders, WaitsInTime(s), prompt' = prompt, step'[s] = step[s],
         at'[s] = at[s], elapsed'[s] = elapsed[s], status'[s] = status[s],
         peer'[s] = peer[s], Awaits(s)' => Awaits(s)
  PROVE  WaitsInTime(s)'
<1>1. Awaits(s)' => Patience(s)' = Patience(s)
  BY DEF Patience, Command
<1>2. Command(s)' = Command(s)
  BY DEF Command
<1> QED
  BY <1>1, <1>2 DEF WaitsInTime

(* A listener's step puts an answer on the wire and takes none back. *)
LEMMA Answered ==
  ASSUME NEW p \in Programs, NEW s \in Senders,
         Accept(p, s) \/ Answer(p, s) \/ LetGo(p, s)
  PROVE  \/ reply' = reply
         \/ \E v \in Replies \ {{}} : reply' = [reply EXCEPT ![s] = v]
<1>1. reply' = reply \/ \E a \in {"ok", "error"} : reply' = [reply EXCEPT ![s] = {a}]
  BY DEF Accept, Answer, LetGo, Is
<1>2. \A a \in {"ok", "error"} : {a} \in Replies /\ {a} # {}
  BY DEF Replies
<1> QED
  BY <1>1, <1>2, Zenon

(* Every step keeps the types of the senders.                              *)
LEMMA SendTypeStep == SendInv /\ [Next]_vars => SendTypeOK'
<1> SUFFICES ASSUME SendInv, [Next]_vars PROVE SendTypeOK'
  OBVIOUS
<1> USE DEF SendInv, SendTypeOK, Is
<1>1. ASSUME NEW s \in Senders, Start(s) PROVE SendTypeOK'
  BY <1>1 DEF Start, linkVars
<1>2. ASSUME NEW s \in Senders, Connect(s) PROVE SendTypeOK'
  <2>1. Listening \in SUBSET Programs
    BY DEF Listening
  <2>2. elapsed' \in [Senders -> Nat] /\ step' \in [Senders -> {"away", "connect", "send", "read", "done"}]
    BY <1>2 DEF Connect, Return
  <2>3. link' \in [Senders -> {"none", "backlog", "served", "closed"}]
    BY <1>2 DEF Connect
  <2>4. peer' \in [Senders -> SUBSET Programs]
    BY <1>2, <2>1 DEF Connect
  <2>5. status' \in [Senders -> Statuses]
    BY <1>2 DEF Connect, Return, Statuses
  <2> QED
    BY <1>2, <2>2, <2>3, <2>4, <2>5 DEF Connect
<1>3. ASSUME NEW s \in Senders, SendEnd(s) PROVE SendTypeOK'
  BY <1>3 DEF SendEnd, Return, Statuses, linkVars
<1>4. ASSUME NEW s \in Senders, SendNext(s) PROVE SendTypeOK'
  <2>1. step' \in [Senders -> {"away", "connect", "send", "read", "done"}]
    BY <1>4 DEF SendNext, Return
  <2>2. status' \in [Senders -> Statuses]
    BY <1>4 DEF SendNext, Return, Statuses
  <2>3. asked' \in [Senders -> BOOLEAN]
    BY <1>4 DEF SendNext
  <2>4. at' \in [Senders -> Nat] /\ UNCHANGED <<prompt, elapsed, link, peer, reply>>
    BY <1>4 DEF SendNext
  <2> QED
    BY <2>1, <2>2, <2>3, <2>4
<1>5. ASSUME NEW s \in Senders, Read(s) PROVE SendTypeOK'
  <2>1. {} \in Replies
    BY DEF Replies
  <2>2. step' \in [Senders -> {"away", "connect", "send", "read", "done"}]
    BY <1>5 DEF Read, Return
  <2>3. status' \in [Senders -> Statuses]
    BY <1>5 DEF Read, Return, Statuses
  <2>4. reply' \in [Senders -> Replies] /\ elapsed' \in [Senders -> Nat]
    BY <1>5, <2>1 DEF Read
  <2> QED
    BY <1>5, <2>2, <2>3, <2>4 DEF Read
<1>6. ASSUME NEW p \in Programs, NEW s \in Senders,
             Accept(p, s) \/ Answer(p, s) \/ LetGo(p, s)
      PROVE  SendTypeOK'
  <2>1. link' \in [Senders -> {"none", "backlog", "served", "closed"}]
    BY <1>6 DEF Accept, Answer, LetGo
  <2>2. reply' \in [Senders -> Replies]
    BY <1>6, Answered
  <2>3. asked' \in [Senders -> BOOLEAN]
    BY <1>6 DEF Accept, Answer, LetGo
  <2>4. UNCHANGED <<prompt, step, at, elapsed, status, peer>>
    BY <1>6 DEF Accept, Answer, LetGo, ListenerOnly
  <2> QED
    BY <2>1, <2>2, <2>3, <2>4
<1>7. ASSUME NEW p \in Programs, Cut(p), Quietly PROVE SendTypeOK'
  BY <1>7 DEF Cut, Quietly
<1>8. CASE UNCHANGED sendVars
  BY <1>8 DEF sendVars, linkVars
<1>9. CASE Crowd
  BY <1>9 DEF Crowd, linkVars
<1>10. CASE Tick
  BY <1>10 DEF Tick, linkVars
<1> QED
  BY <1>1, <1>2, <1>3, <1>4, <1>5, <1>6, <1>7, <1>8, <1>9, <1>10
     DEF Next, ProgramStep, ListenerStep, vars, Quietly, sendVars

(* Every step keeps what is known of a sender's waits.                     *)
LEMMA WaitsStep ==
  ASSUME SendInv, [Next]_vars, NEW r \in Senders
  PROVE  WaitsInTime(r)'
<1> USE DEF SendInv, SendTypeOK, Is
<1>1. ASSUME NEW s \in Senders, Start(s) PROVE WaitsInTime(r)'
  <2>1. CASE s = r
    BY <1>1, <2>1 DEF Start, linkVars, WaitsInTime, Awaits
  <2>2. CASE s # r
    BY <1>1, <2>2, OthersKeepTheirTime DEF Start, linkVars, Awaits
  <2> QED
    BY <2>1, <2>2
<1>2. ASSUME NEW s \in Senders, Connect(s) PROVE WaitsInTime(r)'
  <2>1. CASE s = r
    BY <1>2, <2>1 DEF Connect, Return, WaitsInTime, Awaits
  <2>2. CASE s # r
    BY <1>2, <2>2, OthersKeepTheirTime DEF Connect, Return, Awaits
  <2> QED
    BY <2>1, <2>2
<1>3. ASSUME NEW s \in Senders, SendEnd(s) PROVE WaitsInTime(r)'
  <2>1. CASE s = r
    BY <1>3, <2>1 DEF SendEnd, Return, linkVars, WaitsInTime, Awaits
  <2>2. CASE s # r
    BY <1>3, <2>2, OthersKeepTheirTime DEF SendEnd, Return, linkVars, Awaits
  <2> QED
    BY <2>1, <2>2
<1>4. ASSUME NEW s \in Senders, SendNext(s) PROVE WaitsInTime(r)'
  <2>1. CASE s = r
    <3>1. at'[r] = at[r] + 1 /\ at'[r] \in 1 .. Len(Script[r])
      BY <1>4, <2>1 DEF SendNext
    <3>2. Patience(r)' > 0
      <4>1. Command(r)' \in Commands
        BY <3>1, Scripted DEF Command
      <4> QED
        BY <4>1 DEF Patience, Commands
    <3>3. step[r] = "send" /\ elapsed'[r] = 0 /\ status[r] # "ETIMEDOUT"
      BY <1>4, <2>1 DEF SendNext, WaitsInTime
    <3>4. status'[r] # "ETIMEDOUT" /\ step'[r] \notin {"away", "connect"}
      BY <1>4, <2>1, <3>3 DEF SendNext, Return
    <3> QED
      BY <3>1, <3>2, <3>3, <3>4 DEF WaitsInTime
  <2>2. CASE s # r
    BY <1>4, <2>2, OthersKeepTheirTime DEF SendNext, Return, Awaits
  <2> QED
    BY <2>1, <2>2
<1>5. ASSUME NEW s \in Senders, Read(s) PROVE WaitsInTime(r)'
  <2>1. CASE s = r
    <3>1. /\ step[r] = "read" /\ elapsed'[r] = 0 /\ at[r] \in 1 .. Len(Script[r])
          /\ at' = at /\ peer' = peer /\ prompt' = prompt /\ status[r] # "ETIMEDOUT"
      BY <1>5, <2>1 DEF Read, WaitsInTime
    <3>2. step'[r] \in {"send", "done"} /\ (status'[r] = "ETIMEDOUT" => step'[r] = "done")
      BY <1>5, <2>1, <3>1 DEF Read, Return
    <3>3. status'[r] = "ETIMEDOUT" => Awaits(r) /\ elapsed[r] >= Budget(Command(r))
      BY <1>5, <2>1, <3>1 DEF Read, Return, Awaits
    <3>4. prompt /\ status'[r] = "ETIMEDOUT" => Command(r).verb = "tabwait"
      BY <3>1, <3>3, Budgets DEF WaitsInTime
    <3>5. Command(r)' = Command(r)
      BY <3>1 DEF Command
    <3> QED
      BY <3>1, <3>2, <3>4, <3>5 DEF WaitsInTime, Awaits
  <2>2. CASE s # r
    BY <1>5, <2>2, OthersKeepTheirTime DEF Read, Return, Awaits
  <2> QED
    BY <2>1, <2>2
<1>6. ASSUME NEW p \in Programs, NEW s \in Senders,
             Accept(p, s) \/ Answer(p, s) \/ LetGo(p, s)
      PROVE  WaitsInTime(r)'
  <2>1. UNCHANGED <<prompt, step, at, elapsed, status, peer>>
    BY <1>6 DEF Accept, Answer, LetGo, ListenerOnly
  <2>2. /\ link' = link \/ \E l \in {"served", "closed"} : link' = [link EXCEPT ![s] = l]
        /\ link[s] # "closed"
    BY <1>6 DEF Accept, Answer, LetGo
  <2>3. reply'[r] = {} => reply[r] = {}
    BY <1>6, Answered
  <2>4. link'[r] # "closed" => link[r] # "closed"
    BY <2>2
  <2>5. Awaits(r)' => Awaits(r)
    BY <2>1, <2>3, <2>4 DEF Awaits
  <2> QED
    BY <2>1, <2>5, OthersKeepTheirTime
<1>7. ASSUME NEW p \in Programs, Cut(p), Quietly PROVE WaitsInTime(r)'
  BY <1>7, OthersKeepTheirTime DEF Cut, Quietly, Awaits
<1>8. CASE UNCHANGED sendVars
  BY <1>8, OthersKeepTheirTime DEF sendVars, linkVars, Awaits
<1>9. CASE Crowd
  BY <1>9, OthersKeepTheirTime DEF Crowd, linkVars, Awaits
<1>10. CASE Tick
  <2>1. UNCHANGED <<prompt, step, at, status, peer, reply, link>>
    BY <1>10 DEF Tick, linkVars
  <2>2. /\ Awaits(r)' <=> Awaits(r)
        /\ Command(r)' = Command(r) /\ Patience(r)' = Patience(r)
    BY <2>1 DEF Awaits, Command, Patience
  <2>3. step[r] = "send" => elapsed'[r] = elapsed[r]
    BY <1>10 DEF Tick, Waiting, Awaits
  <2>4. prompt /\ Awaits(r) => elapsed'[r] = elapsed[r] + 1 /\ elapsed[r] + 1 < Patience(r)
    BY <1>10 DEF Tick, Waiting
  <2> QED
    BY <2>1, <2>2, <2>3, <2>4 DEF WaitsInTime
<1> QED
  BY <1>1, <1>2, <1>3, <1>4, <1>5, <1>6, <1>7, <1>8, <1>9, <1>10
     DEF Next, ProgramStep, ListenerStep, vars, Quietly, sendVars

(* The senders, in every behaviour.                                         *)
LEMMA SendInvHolds == Spec => []SendInv
<1>1. Init => SendInv
  <2>1. SUFFICES ASSUME Init PROVE SendInv
    OBVIOUS
  <2>2. \A s \in Senders : Len(Script[s]) \in Nat
    <3>1. \A s \in Senders : Script[s] \in Seq(Commands)
      BY DEF Commands
    <3> QED
      BY <3>1, LenProperties
  <2>3. {} \in Replies
    BY DEF Replies
  <2> QED
    BY <2>1, <2>2, <2>3
       DEF Init, SendInv, SendTypeOK, Statuses, WaitsInTime, Awaits
<1>2. SendInv /\ [Next]_vars => SendInv'
  BY SendTypeStep, WaitsStep DEF SendInv
<1> QED
  BY <1>1, <1>2, PTL DEF Spec

(* Once connected to a program that is prompt a sender gives up on no       *)
(* answer, except that of a wait not spelled as a sender knows it.          *)
THEOREM AnswersComeInTime == Spec => []HealthyIsInTime
<1>1. SendInv => HealthyIsInTime
  BY DEF SendInv, WaitsInTime, HealthyIsInTime
<1> QED
  BY <1>1, SendInvHolds, PTL

-----------------------------------------------------------------------------
(* What a sender is told.                                                   *)

(* Its command is a real one, past all that it printed a line for.          *)
IsNext(s) == at[s] \in Real(s) /\ \A n \in DOMAIN printed[s] : Lines(s)[n] < at[s]

(* Every real command before the one it is at has its line, in order.       *)
LinesAreKnown(s) ==
  /\ \A n \in DOMAIN printed[s] : Lines(s)[n] \in Real(s) /\ Lines(s)[n] <= at[s]
  /\ \A m, n \in DOMAIN printed[s] : m < n => Lines(s)[m] < Lines(s)[n]
  /\ \A i \in Real(s) : i < at[s] => \E n \in DOMAIN printed[s] : Lines(s)[n] = i
  /\ status[s] = "EPROTO" <=> \E n \in DOMAIN printed[s] : ~Ok(s, n)

(* What ran is what it printed an ok for, and perhaps the command it is at. *)
RunsAreKnown(s) ==
  /\ Len(ran[s]) <= Len(printed[s]) + 1
  /\ \A n \in DOMAIN ran[s] : n <= Len(printed[s]) => ran[s][n] = Lines(s)[n]
  /\ \A n \in DOMAIN printed[s] :
       IF Ok(s, n) THEN n <= Len(ran[s]) ELSE n = Len(printed[s]) /\ Len(ran[s]) <= n
  /\ Len(ran[s]) = Len(printed[s]) + 1 => IsNext(s) /\ ran[s][Len(ran[s])] = at[s]

(* What is on the wire is about the command it is at.                       *)
WireIsKnown(s) ==
  /\ asked[s] /\ link[s] # "closed" =>
       IsNext(s) /\ Len(ran[s]) = Len(printed[s]) /\ status[s] # "EPROTO"
  /\ reply[s] # {} => ~asked[s] \/ link[s] = "closed"
  /\ step[s] = "send" => (reply[s] = {} /\ ~asked[s]) \/ link[s] = "closed"
  /\ step[s] = "read" /\ reply[s] = {"ok"} => Len(ran[s]) = Len(printed[s]) + 1

(* Where it is, and why it returned.                                        *)
StepIsKnown(s) ==
  /\ step[s] \in {"away", "connect"} => at[s] = 0 /\ ~asked[s] /\ reply[s] = {} /\ ran[s] = <<>>
  /\ step[s] \in {"send", "read"} => peer[s] # {}
  /\ status[s] = "none" <=> step[s] # "done"
  /\ step[s] = "send" \/ status[s] = "0" =>
       /\ at[s] \in Real(s) => \E n \in DOMAIN printed[s] : Lines(s)[n] = at[s]
       /\ Len(ran[s]) = Len(printed[s])
  /\ step[s] = "read" => IsNext(s)
  /\ status[s] = "0" => peer[s] # {} /\ at[s] = Len(Script[s])
  /\ step[s] = "done" => status[s] \in {"0", "EPROTO"} \/ peer[s] = {} \/ IsNext(s)

ToldTypeOK ==
  /\ printed \in [Senders -> Seq(Nat \X {"ok", "error"})]
  /\ ran \in [Senders -> Seq(Nat)]

Told(s) == LinesAreKnown(s) /\ RunsAreKnown(s) /\ WireIsKnown(s) /\ StepIsKnown(s)

ToldInv == ToldTypeOK /\ \A s \in Senders : Told(s)

(* The lines printed and the commands run are sequences.                    *)
LEMMA ToldSequences ==
  ASSUME ToldTypeOK, NEW s \in Senders
  PROVE  /\ Len(printed[s]) \in Nat /\ DOMAIN printed[s] = 1 .. Len(printed[s])
         /\ Len(ran[s]) \in Nat /\ DOMAIN ran[s] = 1 .. Len(ran[s])
         /\ DOMAIN Lines(s) = DOMAIN printed[s] /\ Len(Lines(s)) = Len(printed[s])
         /\ \A n \in DOMAIN printed[s] :
              Lines(s)[n] = printed[s][n][1] /\ Lines(s)[n] \in Nat
         /\ \A n \in DOMAIN ran[s] : ran[s][n] \in Nat
<1>1. printed[s] \in Seq(Nat \X {"ok", "error"}) /\ ran[s] \in Seq(Nat)
  BY DEF ToldTypeOK
<1>2. /\ Len(printed[s]) \in Nat /\ DOMAIN printed[s] = 1 .. Len(printed[s])
      /\ Len(ran[s]) \in Nat /\ DOMAIN ran[s] = 1 .. Len(ran[s])
  BY <1>1, LenProperties
<1>3. /\ \A n \in DOMAIN printed[s] : printed[s][n] \in Nat \X {"ok", "error"}
      /\ \A n \in DOMAIN ran[s] : ran[s][n] \in Nat
  BY <1>1, <1>2, ElementOfSeq
<1>4. /\ DOMAIN Lines(s) = DOMAIN printed[s]
      /\ \A n \in DOMAIN printed[s] :
           Lines(s)[n] = printed[s][n][1] /\ Lines(s)[n] \in Nat
  BY <1>3 DEF Lines
<1>5. Len(Lines(s)) = Len(printed[s])
  BY <1>2, <1>4
<1> QED
  BY <1>2, <1>3, <1>4, <1>5

(* One more printed or run.                                                 *)
LEMMA OneMore ==
  ASSUME NEW S, NEW q \in Seq(S), NEW e \in S
  PROVE  /\ Append(q, e) \in Seq(S) /\ Len(Append(q, e)) = Len(q) + 1
         /\ DOMAIN Append(q, e) = 1 .. Len(q) + 1
         /\ \A n \in 1 .. Len(q) : Append(q, e)[n] = q[n]
         /\ Append(q, e)[Len(q) + 1] = e
<1>1. /\ Append(q, e) \in Seq(S) /\ Len(Append(q, e)) = Len(q) + 1
      /\ \A n \in 1 .. Len(q) : Append(q, e)[n] = q[n]
      /\ Append(q, e)[Len(q) + 1] = e
  BY AppendProperties
<1> QED
  BY <1>1, LenProperties

(* What is known says what the sender claims.                               *)
LEMMA ToldIsTheTruth == SendInv /\ ToldInv => SendTellsTheTruth
<1> SUFFICES ASSUME SendInv, ToldInv, NEW s \in Senders
             PROVE  /\ AreFirst(Lines(s), Real(s)) /\ AreFirst(ran[s], Real(s))
                    /\ Len(ran[s]) <= Len(Lines(s)) + 1
                    /\ \A n \in DOMAIN Lines(s) :
                         IF Ok(s, n) THEN n <= Len(ran[s]) /\ ran[s][n] = Lines(s)[n]
                                     ELSE n = Len(Lines(s)) /\ Len(ran[s]) <= n
                    /\ status[s] = "0" <=>
                         /\ step[s] = "done" /\ peer[s] # {}
                         /\ \A i \in Real(s) : \E n \in DOMAIN Lines(s) :
                              Lines(s)[n] = i /\ Ok(s, n)
                    /\ status[s] = "EPROTO" <=> \E n \in DOMAIN Lines(s) : ~Ok(s, n)
  BY DEF SendTellsTheTruth
<1>1. LinesAreKnown(s) /\ RunsAreKnown(s) /\ StepIsKnown(s)
  BY DEF ToldInv, Told
<1>2. /\ Len(printed[s]) \in Nat /\ DOMAIN printed[s] = 1 .. Len(printed[s])
      /\ Len(ran[s]) \in Nat /\ DOMAIN ran[s] = 1 .. Len(ran[s])
      /\ DOMAIN Lines(s) = DOMAIN printed[s] /\ Len(Lines(s)) = Len(printed[s])
      /\ \A n \in DOMAIN printed[s] : Lines(s)[n] \in Nat
      /\ \A n \in DOMAIN ran[s] : ran[s][n] \in Nat
  BY ToldSequences DEF ToldInv
<1>3. at[s] \in Nat /\ Real(s) \subseteq Nat /\ \A i \in Real(s) : i <= Len(Script[s])
  <2>1. Script[s] \in Seq(Commands)
    BY DEF Commands
  <2>2. DOMAIN Script[s] = 1 .. Len(Script[s]) /\ Len(Script[s]) \in Nat
    BY <2>1, LenProperties
  <2> QED
    BY <2>2 DEF Real, SendInv, SendTypeOK
<1>4. AreFirst(Lines(s), Real(s))
  <2>1. ASSUME NEW i \in Real(s) \ Range(Lines(s)), NEW n \in DOMAIN Lines(s)
        PROVE  Lines(s)[n] < i
    <3>1. i >= at[s]
      BY <1>1, <1>2, <1>3, <2>1 DEF LinesAreKnown, Range
    <3>2. Lines(s)[n] # i
      BY <2>1 DEF Range
    <3> QED
      BY <1>1, <1>2, <1>3, <2>1, <3>1, <3>2 DEF LinesAreKnown
  <2> QED
    BY <1>1, <1>2, <2>1 DEF AreFirst, LinesAreKnown
<1>5. AreFirst(ran[s], Real(s))
  <2>1. ASSUME NEW n \in DOMAIN ran[s]
        PROVE  /\ ran[s][n] \in Real(s) /\ ran[s][n] <= at[s]
               /\ \A k \in DOMAIN printed[s] : k < n => Lines(s)[k] < ran[s][n]
               /\ \A k \in DOMAIN printed[s] : n < k => ran[s][n] < Lines(s)[k]
    <3>1. CASE n <= Len(printed[s])
      BY <1>1, <1>2, <2>1, <3>1 DEF LinesAreKnown, RunsAreKnown
    <3>2. CASE n > Len(printed[s])
      <4>1. n = Len(ran[s]) /\ Len(ran[s]) = Len(printed[s]) + 1
        <5>1. Len(ran[s]) <= Len(printed[s]) + 1 /\ n \in 1 .. Len(ran[s])
          BY <1>1, <1>2, <2>1 DEF RunsAreKnown
        <5> QED
          BY <1>2, <3>2, <5>1
      <4>2. ran[s][n] = at[s] /\ IsNext(s)
        BY <1>1, <4>1 DEF RunsAreKnown
      <4>3. \A k \in DOMAIN printed[s] : k < n
        BY <1>2, <4>1
      <4> QED
        BY <1>2, <1>3, <4>1, <4>2, <4>3 DEF IsNext
    <3> QED
      BY <1>2, <3>1, <3>2
  <2>2. ASSUME NEW m \in DOMAIN ran[s], NEW n \in DOMAIN ran[s], m < n
        PROVE  ran[s][m] < ran[s][n]
    <3>1. m \in DOMAIN printed[s]
      <4>1. Len(ran[s]) <= Len(printed[s]) + 1
        BY <1>1 DEF RunsAreKnown
      <4> QED
        BY <1>2, <2>2, <4>1
    <3>2. ran[s][m] = Lines(s)[m]
      BY <1>1, <1>2, <2>2, <3>1 DEF RunsAreKnown
    <3> QED
      BY <2>1, <2>2, <3>1, <3>2
  <2>3. ASSUME NEW i \in Real(s) \ Range(ran[s]), NEW n \in DOMAIN ran[s]
        PROVE  ran[s][n] < i
    <3>1. ran[s][n] # i
      BY <2>3 DEF Range
    <3>2. CASE i >= at[s]
      BY <1>2, <1>3, <2>1, <2>3, <3>1, <3>2
    <3>3. CASE i < at[s]
      <4>1. PICK k \in DOMAIN printed[s] : Lines(s)[k] = i
        BY <1>1, <3>3 DEF LinesAreKnown
      <4>2. k > Len(ran[s])
        <5>1. k \in DOMAIN ran[s] => ran[s][k] = i
          BY <1>1, <1>2, <4>1 DEF RunsAreKnown
        <5> QED
          BY <1>2, <2>3, <5>1 DEF Range
      <4> QED
        BY <1>2, <2>1, <2>3, <4>1, <4>2
    <3> QED
      BY <1>3, <3>2, <3>3
  <2> QED
    BY <2>1, <2>2, <2>3 DEF AreFirst
<1>6. /\ Len(ran[s]) <= Len(Lines(s)) + 1
      /\ \A n \in DOMAIN Lines(s) :
           IF Ok(s, n) THEN n <= Len(ran[s]) /\ ran[s][n] = Lines(s)[n]
                       ELSE n = Len(Lines(s)) /\ Len(ran[s]) <= n
  BY <1>1, <1>2 DEF RunsAreKnown
<1>7. status[s] = "EPROTO" <=> \E n \in DOMAIN Lines(s) : ~Ok(s, n)
  BY <1>1, <1>2 DEF LinesAreKnown
<1>8. ASSUME status[s] = "0"
      PROVE  /\ step[s] = "done" /\ peer[s] # {}
             /\ \A i \in Real(s) : \E n \in DOMAIN Lines(s) : Lines(s)[n] = i /\ Ok(s, n)
  <2>1. /\ step[s] = "done" /\ peer[s] # {} /\ at[s] = Len(Script[s])
        /\ at[s] \in Real(s) => \E n \in DOMAIN printed[s] : Lines(s)[n] = at[s]
    BY <1>1, <1>8 DEF StepIsKnown
  <2>2. \A i \in Real(s) : \E n \in DOMAIN printed[s] : Lines(s)[n] = i
    BY <1>1, <1>3, <2>1 DEF LinesAreKnown
  <2> QED
    BY <1>2, <1>7, <1>8, <2>1, <2>2
<1>9. ASSUME step[s] = "done", peer[s] # {},
             \A i \in Real(s) : \E n \in DOMAIN Lines(s) : Lines(s)[n] = i /\ Ok(s, n)
      PROVE  status[s] = "0"
  <2>1. status[s] \in {"0", "EPROTO"} \/ IsNext(s)
    BY <1>1, <1>9 DEF StepIsKnown
  <2>2. ~IsNext(s)
    BY <1>2, <1>3, <1>9 DEF IsNext
  <2>3. status[s] # "EPROTO"
    <3>1. SUFFICES ASSUME status[s] = "EPROTO" PROVE FALSE
      OBVIOUS
    <3>2. PICK n \in DOMAIN printed[s] : ~Ok(s, n)
      BY <1>1, <3>1 DEF LinesAreKnown
    <3>3. PICK k \in DOMAIN printed[s] : Lines(s)[k] = Lines(s)[n] /\ Ok(s, k)
      BY <1>1, <1>2, <1>9, <3>2 DEF LinesAreKnown
    <3>4. k # n
      BY <3>2, <3>3
    <3>5. k < n \/ n < k
      BY <1>2, <3>4
    <3> QED
      BY <1>1, <1>2, <3>3, <3>5 DEF LinesAreKnown
  <2> QED
    BY <2>1, <2>2, <2>3
<1> QED
  BY <1>4, <1>5, <1>6, <1>7, <1>8, <1>9

(* What is known of a sender is not touched by what happens to others, nor  *)
(* by its connection's end.                                                 *)
LEMMA OthersAreTold ==
  ASSUME NEW s \in Senders, Told(s), step'[s] = step[s], at'[s] = at[s],
         printed'[s] = printed[s], ran'[s] = ran[s], status'[s] = status[s],
         peer'[s] = peer[s], reply'[s] = reply[s], asked'[s] = asked[s],
         link'[s] \in {link[s], "closed"}
  PROVE  Told(s)'
<1>1. Lines(s)' = Lines(s) /\ \A n : Ok(s, n)' = Ok(s, n)
  BY DEF Lines, Ok
<1>2. IsNext(s)' <=> IsNext(s)
  BY <1>1 DEF IsNext, Real
<1>3. LinesAreKnown(s)'
  BY <1>1 DEF Told, LinesAreKnown, Real
<1>4. RunsAreKnown(s)'
  BY <1>1, <1>2 DEF Told, RunsAreKnown
<1>5. WireIsKnown(s)'
  BY <1>2 DEF Told, WireIsKnown
<1>6. StepIsKnown(s)'
  BY <1>1, <1>2 DEF Told, StepIsKnown, Real
<1> QED
  BY <1>3, <1>4, <1>5, <1>6 DEF Told

(* Every step keeps the types of what is printed and run.                   *)
LEMMA ToldTypeStep ==
  ASSUME SendInv, ToldTypeOK, [Next]_vars
  PROVE  ToldTypeOK'
<1> USE DEF Is
<1>1. ASSUME NEW s \in Senders, Read(s) PROVE ToldTypeOK'
  <2>1. CASE \E a \in reply[s] : printed' = [printed EXCEPT ![s] = Append(printed[s], <<at[s], a>>)]
    <3>1. PICK a \in reply[s] : printed' = [printed EXCEPT ![s] = Append(printed[s], <<at[s], a>>)]
      BY <2>1
    <3>2. a \in {"ok", "error"} /\ at[s] \in Nat
      <4>1. \A v \in Replies : v \subseteq {"ok", "error"}
        BY DEF Replies
      <4> QED
        BY <3>1, <4>1 DEF SendInv, SendTypeOK
    <3>3. Append(printed[s], <<at[s], a>>) \in Seq(Nat \X {"ok", "error"})
      BY <3>2, OneMore DEF ToldTypeOK
    <3>4. ran' = ran
      BY <1>1 DEF Read
    <3> QED
      BY <3>1, <3>3, <3>4 DEF ToldTypeOK
  <2>2. CASE UNCHANGED printed
    BY <1>1, <2>2 DEF Read, ToldTypeOK
  <2> QED
    BY <1>1, <2>1, <2>2 DEF Read
<1>2. ASSUME NEW p \in Programs, NEW s \in Senders, Answer(p, s) PROVE ToldTypeOK'
  <2>1. ran' = [ran EXCEPT ![s] = Append(ran[s], at[s])] /\ printed' = printed
    BY <1>2 DEF Answer, ListenerOnly
  <2>2. Append(ran[s], at[s]) \in Seq(Nat)
    BY OneMore DEF SendInv, SendTypeOK, ToldTypeOK
  <2> QED
    BY <2>1, <2>2 DEF ToldTypeOK
<1>3. CASE UNCHANGED <<printed, ran>>
  BY <1>3 DEF ToldTypeOK
<1> QED
  BY <1>1, <1>2, <1>3
     DEF Next, Start, Connect, SendEnd, SendNext, ProgramStep, ListenerStep, Accept, LetGo,
         ListenerOnly, Cut, Quietly, Crowd, Tick, vars, sendVars, linkVars

(* Before it is connected a sender has printed nothing, and nothing ran.    *)
LEMMA NothingYet ==
  ASSUME SendInv, ToldInv, NEW s \in Senders, step[s] \in {"away", "connect"}
  PROVE  /\ at[s] = 0 /\ ~asked[s] /\ reply[s] = {} /\ peer[s] = {} /\ status[s] = "none"
         /\ Len(printed[s]) = 0 /\ Len(ran[s]) = 0 /\ at[s] \notin Real(s)
<1>1. at[s] = 0 /\ ~asked[s] /\ reply[s] = {} /\ ran[s] = <<>> /\ status[s] = "none"
  BY DEF ToldInv, Told, StepIsKnown
<1>2. peer[s] = {}
  BY DEF SendInv, WaitsInTime
<1>3. \A i \in Real(s) : i \in Nat /\ i > 0
  <2>1. Script[s] \in Seq(Commands)
    BY DEF Commands
  <2>2. DOMAIN Script[s] = 1 .. Len(Script[s]) /\ Len(Script[s]) \in Nat
    BY <2>1, LenProperties
  <2> QED
    BY <2>2 DEF Real
<1>4. ~\E n : n \in DOMAIN printed[s]
  BY <1>1, <1>3 DEF ToldInv, Told, LinesAreKnown
<1>5. Len(printed[s]) \in Nat /\ DOMAIN printed[s] = 1 .. Len(printed[s])
  BY ToldSequences DEF ToldInv
<1>6. Len(printed[s]) = 0
  <2>1. Len(printed[s]) # 0 => 1 \in 1 .. Len(printed[s])
    BY <1>5
  <2> QED
    BY <1>4, <1>5, <2>1
<1> QED
  BY <1>1, <1>2, <1>3, <1>6

(* A sender that is done with a command goes on to the next.                *)
LEMMA SendNextTold ==
  ASSUME SendInv, ToldInv, NEW s \in Senders, SendNext(s)
  PROVE  Told(s)'
<1> USE DEF Is
<1>1. LinesAreKnown(s) /\ RunsAreKnown(s) /\ WireIsKnown(s) /\ StepIsKnown(s)
  BY DEF ToldInv, Told
<1>2. /\ Len(printed[s]) \in Nat /\ DOMAIN printed[s] = 1 .. Len(printed[s])
      /\ Len(ran[s]) \in Nat
      /\ \A n \in DOMAIN printed[s] : Lines(s)[n] \in Nat
  BY ToldSequences DEF ToldInv
<1>3. /\ at[s] \in Nat /\ at'[s] = at[s] + 1 /\ at'[s] <= Len(Script[s])
      /\ step[s] = "send" /\ status[s] = "none" /\ peer[s] # {}
      /\ printed'[s] = printed[s] /\ ran'[s] = ran[s] /\ peer'[s] = peer[s]
      /\ reply'[s] = reply[s] /\ link'[s] = link[s]
  <2>1. Len(Script[s]) \in Nat
    <3>1. Script[s] \in Seq(Commands)
      BY DEF Commands
    <3> QED
      BY <3>1, LenProperties
  <2> QED
    BY <1>1, <2>1 DEF SendNext, SendInv, SendTypeOK, StepIsKnown
<1>4. at'[s] \in DOMAIN Script[s]
  <2>1. Script[s] \in Seq(Commands)
    BY DEF Commands
  <2>2. DOMAIN Script[s] = 1 .. Len(Script[s]) /\ Len(Script[s]) \in Nat
    BY <2>1, LenProperties
  <2> QED
    BY <1>3, <2>2
<1>5. Lines(s)' = Lines(s) /\ (\A n : Ok(s, n)' = Ok(s, n)) /\ Real(s)' = Real(s)
  BY <1>3 DEF Lines, Ok, Real
<1>6. /\ \A n \in DOMAIN printed[s] : Lines(s)[n] < at'[s] /\ Ok(s, n)
      /\ Len(ran[s]) = Len(printed[s])
      /\ (reply[s] = {} /\ ~asked[s]) \/ link[s] = "closed"
  BY <1>1, <1>2, <1>3 DEF LinesAreKnown, StepIsKnown, WireIsKnown
<1>7. \A i \in Real(s) : i < at'[s] => \E n \in DOMAIN printed[s] : Lines(s)[n] = i
  <2>1. \A i \in Real(s) : i \in Nat
    <3>1. Script[s] \in Seq(Commands)
      BY DEF Commands
    <3>2. DOMAIN Script[s] = 1 .. Len(Script[s])
      BY <3>1, LenProperties
    <3> QED
      BY <3>2 DEF Real
  <2>2. \A i \in Real(s) : i < at'[s] => i < at[s] \/ i = at[s]
    BY <1>3, <2>1
  <2> QED
    BY <1>1, <1>3, <2>2 DEF LinesAreKnown, StepIsKnown
<1>8. Len(ran[s]) <= Len(printed[s]) + 1 /\ Len(ran[s]) # Len(printed[s]) + 1
  BY <1>2, <1>6
<1>9. IsNext(s)' <=> at'[s] \in Real(s)
  BY <1>3, <1>5, <1>6 DEF IsNext
<1>10. \/ /\ at'[s] \notin Real(s) /\ step'[s] = "send" /\ status'[s] = "none"
          /\ asked'[s] = asked[s]
       \/ /\ at'[s] \in Real(s) /\ step'[s] = "done" /\ status'[s] \in {"E2BIG", "EPIPE"}
          /\ asked'[s] = asked[s]
       \/ /\ at'[s] \in Real(s) /\ step'[s] = "read" /\ status'[s] = "none" /\ link[s] # "closed"
  BY <1>3, <1>4 DEF SendNext, Return, Real, SendInv, SendTypeOK
<1>11. LinesAreKnown(s)'
  <2>1. \A n \in DOMAIN printed[s] : Lines(s)[n] <= at'[s]
    BY <1>2, <1>3, <1>6
  <2>2. status'[s] # "EPROTO"
    BY <1>10
  <2> QED
    BY <1>1, <1>3, <1>5, <1>6, <1>7, <2>1, <2>2 DEF LinesAreKnown
<1>12. RunsAreKnown(s)'
  BY <1>1, <1>3, <1>5, <1>8 DEF RunsAreKnown
<1>13. WireIsKnown(s)'
  BY <1>3, <1>6, <1>9, <1>10 DEF WireIsKnown
<1>14. StepIsKnown(s)'
  BY <1>3, <1>5, <1>6, <1>9, <1>10 DEF StepIsKnown
<1> QED
  BY <1>11, <1>12, <1>13, <1>14 DEF Told

(* An answer is printed, and is the last unless it is ok.                   *)
LEMMA PrintsTold ==
  ASSUME SendInv, ToldInv, NEW s \in Senders, Read(s), NEW a \in reply[s],
         printed' = [printed EXCEPT ![s] = Append(printed[s], <<at[s], a>>)]
  PROVE  Told(s)'
<1> USE DEF Is
<1>1. LinesAreKnown(s) /\ RunsAreKnown(s) /\ WireIsKnown(s) /\ StepIsKnown(s)
  BY DEF ToldInv, Told
<1>2. /\ Len(printed[s]) \in Nat /\ DOMAIN printed[s] = 1 .. Len(printed[s])
      /\ Len(ran[s]) \in Nat /\ DOMAIN ran[s] = 1 .. Len(ran[s])
      /\ \A n \in DOMAIN printed[s] :
           Lines(s)[n] = printed[s][n][1] /\ Lines(s)[n] \in Nat
  BY ToldSequences DEF ToldInv
<1>3. /\ a \in {"ok", "error"} /\ at[s] \in Nat
      /\ a = "ok" => reply[s] = {"ok"}
  <2>1. \A v \in Replies : a \in v => a \in {"ok", "error"} /\ v = {a}
    BY DEF Replies
  <2>2. reply[s] \in Replies /\ at[s] \in Nat
    BY DEF SendInv, SendTypeOK
  <2> QED
    BY <2>1, <2>2
<1>4. /\ step[s] = "read" /\ status[s] = "none" /\ IsNext(s) /\ peer[s] # {}
      /\ at'[s] = at[s] /\ ran'[s] = ran[s] /\ peer'[s] = peer[s]
      /\ asked'[s] = asked[s] /\ link'[s] = link[s]
  BY <1>1 DEF Read, StepIsKnown
<1>5. /\ reply'[s] = {}
      /\ IF a = "ok" THEN step'[s] = "send" /\ status'[s] = "none"
                     ELSE step'[s] = "done" /\ status'[s] = "EPROTO"
  <2>1. printed' # printed
    <3>1. printed'[s] = Append(printed[s], <<at[s], a>>)
      BY DEF ToldInv, ToldTypeOK
    <3>2. Len(printed'[s]) = Len(printed[s]) + 1
      BY <1>3, <3>1, OneMore DEF ToldInv, ToldTypeOK
    <3> QED
      BY <1>2, <3>2
  <2>2. PICK b \in reply[s] :
          /\ printed' = [printed EXCEPT ![s] = Append(printed[s], <<at[s], b>>)]
          /\ IF b = "ok" THEN Is(step, s, "send") /\ UNCHANGED status
                         ELSE Return(s, "EPROTO")
          /\ Is(reply, s, {})
    BY <2>1 DEF Read
  <2>3. a = b
    <3>1. \A v \in Replies : \A x, y \in v : x = y
      BY DEF Replies
    <3> QED
      BY <3>1, <2>2 DEF SendInv, SendTypeOK
  <2> QED
    BY <1>4, <2>2, <2>3 DEF Return, SendInv, SendTypeOK
<1>0. PICK l \in Nat : l = Len(printed[s]) + 1
  BY <1>2
<1>6. /\ Len(printed'[s]) = l /\ DOMAIN printed'[s] = 1 .. l
      /\ \A n \in 1 .. Len(printed[s]) : printed'[s][n] = printed[s][n]
      /\ printed'[s][l] = <<at[s], a>>
  <2>1. printed'[s] = Append(printed[s], <<at[s], a>>)
    BY DEF ToldInv, ToldTypeOK
  <2>2. printed[s] \in Seq(Nat \X {"ok", "error"}) /\ <<at[s], a>> \in Nat \X {"ok", "error"}
    BY <1>3 DEF ToldInv, ToldTypeOK
  <2> QED
    BY <1>0, <2>1, <2>2, OneMore
<1>7. /\ \A n \in 1 .. Len(printed[s]) : Lines(s)'[n] = Lines(s)[n] /\ (Ok(s, n)' <=> Ok(s, n))
      /\ Lines(s)'[l] = at[s] /\ (Ok(s, l)' <=> a = "ok")
      /\ Real(s)' = Real(s)
  <2>1. \A n \in 1 .. l : Lines(s)'[n] = printed'[s][n][1]
    BY <1>6 DEF Lines
  <2>2. l \in 1 .. l /\ \A n \in 1 .. Len(printed[s]) : n \in 1 .. l
    BY <1>0, <1>2
  <2>3. \A n \in 1 .. Len(printed[s]) : Lines(s)'[n] = Lines(s)[n]
    BY <1>2, <1>6, <2>1, <2>2
  <2>4. Lines(s)'[l] = at[s]
    BY <1>6, <2>1, <2>2
  <2>5. \A n \in 1 .. Len(printed[s]) : Ok(s, n)' <=> Ok(s, n)
    BY <1>6 DEF Ok
  <2>6. Ok(s, l)' <=> a = "ok"
    BY <1>6 DEF Ok
  <2> QED
    BY <2>3, <2>4, <2>5, <2>6 DEF Real
<1>8. \A n \in 1 .. Len(printed[s]) :
        Ok(s, n) /\ Lines(s)[n] \in Real(s) /\ Lines(s)[n] < at[s] /\ n <= Len(ran[s])
  BY <1>1, <1>2, <1>4 DEF LinesAreKnown, RunsAreKnown, IsNext
<1>9. at[s] \in Real(s) /\ Len(ran[s]) <= l
      /\ (Len(ran[s]) = l => ran[s][l] = at[s]) /\ (a = "ok" => Len(ran[s]) = l)
  BY <1>0, <1>1, <1>3, <1>4 DEF RunsAreKnown, WireIsKnown, IsNext
<1>10. 1 .. l = (1 .. Len(printed[s])) \union {l} /\ l \in 1 .. l /\ l \in Nat
  BY <1>0, <1>2
<1>11. ~asked[s] \/ link[s] = "closed"
  BY <1>1 DEF WireIsKnown
<1>12. LinesAreKnown(s)'
  <2>1. ASSUME NEW n \in 1 .. l
        PROVE  Lines(s)'[n] \in Real(s) /\ Lines(s)'[n] <= at[s]
    <3>1. CASE n \in 1 .. Len(printed[s])
      <4>1. Lines(s)'[n] = Lines(s)[n] /\ Lines(s)[n] \in Real(s)
        BY <1>7, <1>8, <3>1
      <4>2. Lines(s)[n] \in Nat /\ Lines(s)[n] < at[s]
        BY <1>2, <1>8, <3>1
      <4> QED
        BY <1>3, <4>1, <4>2
    <3>2. CASE n = l
      BY <1>3, <1>7, <1>9, <3>2
    <3> QED
      BY <1>10, <3>1, <3>2
  <2>2. ASSUME NEW m \in 1 .. l, NEW n \in 1 .. l, m < n
        PROVE  Lines(s)'[m] < Lines(s)'[n]
    <3>1. m \in 1 .. Len(printed[s])
      BY <1>0, <1>2, <2>2
    <3>2. CASE n \in 1 .. Len(printed[s])
      BY <1>1, <1>2, <1>7, <2>2, <3>1, <3>2 DEF LinesAreKnown
    <3>3. CASE n = l
      BY <1>7, <1>8, <3>1, <3>3
    <3> QED
      BY <1>10, <3>2, <3>3
  <2>3. ASSUME NEW i \in Real(s), i < at[s] PROVE \E n \in 1 .. l : Lines(s)'[n] = i
    BY <1>1, <1>2, <1>7, <1>10, <2>3 DEF LinesAreKnown
  <2>4. status'[s] = "EPROTO" <=> \E n \in 1 .. l : ~Ok(s, n)'
    <3>1. CASE a = "ok"
      BY <1>5, <1>7, <1>8, <1>10, <3>1
    <3>2. CASE a # "ok"
      BY <1>5, <1>7, <1>10, <3>2
    <3> QED
      BY <3>1, <3>2
  <2> QED
    BY <1>4, <1>6, <1>7, <2>1, <2>2, <2>3, <2>4 DEF LinesAreKnown
<1>13. RunsAreKnown(s)'
  <2>1. Len(ran[s]) <= l + 1 /\ Len(ran[s]) # l + 1
    BY <1>2, <1>9, <1>10
  <2>2. ASSUME NEW n \in DOMAIN ran[s], n <= l PROVE ran[s][n] = Lines(s)'[n]
    <3>1. CASE n = l
      <4>1. Len(ran[s]) = l
        BY <1>2, <1>9, <1>10, <2>2, <3>1
      <4> QED
        BY <1>7, <1>9, <3>1, <4>1
    <3>2. CASE n # l
      <4>1. n \in 1 .. Len(printed[s])
        BY <1>0, <1>2, <1>10, <2>2, <3>2
      <4> QED
        BY <1>1, <1>2, <1>7, <2>2, <4>1 DEF RunsAreKnown
    <3> QED
      BY <3>1, <3>2
  <2>3. ASSUME NEW n \in 1 .. l
        PROVE  IF Ok(s, n)' THEN n <= Len(ran[s]) ELSE n = l /\ Len(ran[s]) <= n
    <3>1. CASE n \in 1 .. Len(printed[s])
      BY <1>7, <1>8, <3>1
    <3>2. CASE n = l
      BY <1>2, <1>7, <1>9, <1>10, <3>2
    <3> QED
      BY <1>10, <3>1, <3>2
  <2> QED
    BY <1>4, <1>6, <2>1, <2>2, <2>3 DEF RunsAreKnown
<1>14. WireIsKnown(s)'
  BY <1>4, <1>5, <1>11 DEF WireIsKnown
<1>15. StepIsKnown(s)'
  BY <1>4, <1>5, <1>6, <1>7, <1>9, <1>10 DEF StepIsKnown
<1> QED
  BY <1>12, <1>13, <1>14, <1>15 DEF Told

(* A command is run and its answer put on the wire.                         *)
LEMMA AnswerTold ==
  ASSUME SendInv, ToldInv, NEW p \in Programs, NEW s \in Senders, Answer(p, s)
  PROVE  Told(s)'
<1> USE DEF Is
<1>1. LinesAreKnown(s) /\ RunsAreKnown(s) /\ WireIsKnown(s) /\ StepIsKnown(s)
  BY DEF ToldInv, Told
<1>2. /\ Len(printed[s]) \in Nat /\ DOMAIN printed[s] = 1 .. Len(printed[s])
      /\ Len(ran[s]) \in Nat /\ DOMAIN ran[s] = 1 .. Len(ran[s])
      /\ \A n \in DOMAIN printed[s] : Lines(s)[n] \in Nat
  BY ToldSequences DEF ToldInv
<1>3. /\ asked[s] /\ link[s] = "served" /\ link'[s] = link[s] /\ ~asked'[s]
      /\ step'[s] = step[s] /\ status'[s] = status[s] /\ at'[s] = at[s] /\ peer[s] # {}
      /\ peer'[s] = peer[s] /\ printed'[s] = printed[s] /\ reply'[s] # {}
      /\ at[s] \in Nat
  <2>1. reply'[s] # {}
    <3>1. PICK x \in {"ok", "error"} : reply' = [reply EXCEPT ![s] = {x}]
      BY DEF Answer
    <3>2. reply'[s] = {x}
      BY <3>1 DEF SendInv, SendTypeOK
    <3> QED
      BY <3>2
  <2>2. ~asked'[s]
    BY DEF Answer, SendInv, SendTypeOK
  <2> QED
    BY <2>1, <2>2 DEF Answer, OfListener, ListenerOnly, SendInv, SendTypeOK
<1>4. IsNext(s) /\ Len(ran[s]) = Len(printed[s]) /\ status[s] # "EPROTO"
  BY <1>1, <1>3 DEF WireIsKnown
<1>5. Lines(s)' = Lines(s) /\ (\A n : Ok(s, n)' = Ok(s, n)) /\ IsNext(s)' /\ Real(s)' = Real(s)
  BY <1>3, <1>4 DEF Lines, Ok, IsNext, Real
<1>6. /\ Len(ran'[s]) = Len(printed[s]) + 1 /\ DOMAIN ran'[s] = 1 .. Len(printed[s]) + 1
      /\ \A n \in 1 .. Len(printed[s]) : ran'[s][n] = ran[s][n]
      /\ ran'[s][Len(printed[s]) + 1] = at[s]
  <2>1. ran'[s] = Append(ran[s], at[s])
    BY DEF Answer, ToldInv, ToldTypeOK
  <2> QED
    BY <1>3, <1>4, <2>1, OneMore DEF ToldInv, ToldTypeOK
<1>7. \A n \in DOMAIN printed[s] : Ok(s, n)
  BY <1>1, <1>4 DEF LinesAreKnown
<1>8. LinesAreKnown(s)'
  BY <1>1, <1>3, <1>5 DEF LinesAreKnown
<1>9. RunsAreKnown(s)'
  <2>1. ASSUME NEW n \in DOMAIN ran'[s], n <= Len(printed[s]) PROVE ran'[s][n] = Lines(s)[n]
    <3>1. n \in 1 .. Len(printed[s])
      BY <1>2, <1>6, <2>1
    <3> QED
      BY <1>1, <1>2, <1>4, <1>6, <3>1 DEF RunsAreKnown
  <2>2. \A n \in DOMAIN printed[s] : n <= Len(printed[s]) + 1
    BY <1>2
  <2> QED
    <3>1. /\ Len(ran'[s]) <= Len(printed'[s]) + 1
          /\ Len(ran'[s]) = Len(printed'[s]) + 1 => IsNext(s)' /\ ran'[s][Len(ran'[s])] = at'[s]
      BY <1>2, <1>3, <1>5, <1>6
    <3>2. \A n \in DOMAIN ran'[s] : n <= Len(printed'[s]) => ran'[s][n] = Lines(s)'[n]
      BY <1>3, <1>5, <2>1
    <3>3. \A n \in DOMAIN printed'[s] :
            IF Ok(s, n)' THEN n <= Len(ran'[s]) ELSE n = Len(printed'[s]) /\ Len(ran'[s]) <= n
      BY <1>3, <1>5, <1>6, <1>7, <2>2
    <3> QED
      BY <3>1, <3>2, <3>3 DEF RunsAreKnown
<1>10. WireIsKnown(s)'
  <2>1. step[s] # "send"
    BY <1>1, <1>3 DEF WireIsKnown
  <2> QED
    BY <1>3, <1>6, <2>1 DEF WireIsKnown
<1>11. StepIsKnown(s)'
  <2>1. \A n \in DOMAIN printed[s] : Lines(s)[n] # at[s]
    BY <1>2, <1>3, <1>4 DEF IsNext
  <2>2. step[s] # "send" /\ status[s] # "0" /\ step[s] \notin {"away", "connect"}
    BY <1>1, <1>3, <1>4, <2>1 DEF StepIsKnown, WireIsKnown, IsNext
  <2> QED
    BY <1>1, <1>3, <1>5, <2>2 DEF StepIsKnown
<1> QED
  BY <1>8, <1>9, <1>10, <1>11 DEF Told

(* Every step keeps what is known of what a sender is told.                 *)
LEMMA ToldStep ==
  ASSUME SendInv, ToldInv, [Next]_vars, NEW r \in Senders
  PROVE  Told(r)'
<1> USE DEF SendInv, SendTypeOK, Is
<1>0. Told(r) /\ LinesAreKnown(r) /\ RunsAreKnown(r) /\ WireIsKnown(r) /\ StepIsKnown(r)
  BY DEF ToldInv, Told
<1>a. ASSUME at'[r] = at[r], printed'[r] = printed[r]
      PROVE  /\ Lines(r)' = Lines(r) /\ (\A n : Ok(r, n)' = Ok(r, n))
             /\ Real(r)' = Real(r) /\ (IsNext(r)' <=> IsNext(r))
  BY <1>a DEF Lines, Ok, Real, IsNext
<1>1. ASSUME NEW s \in Senders, Start(s) PROVE Told(r)'
  <2>1. CASE s = r
    <3>1. /\ step[r] = "away" /\ step'[r] = "connect"
          /\ UNCHANGED <<at, printed, ran, status, link, peer, asked, reply>>
      BY <1>1, <2>1 DEF Start, linkVars
    <3> QED
      BY <1>0, <1>a, <3>1 DEF Told, LinesAreKnown, RunsAreKnown, WireIsKnown, StepIsKnown
  <2>2. CASE s # r
    BY <1>0, <1>1, <2>2, OthersAreTold DEF Start, linkVars
  <2> QED
    BY <2>1, <2>2
<1>2. ASSUME NEW s \in Senders, Connect(s) PROVE Told(r)'
  <2>1. CASE s = r
    <3>1. /\ at[r] = 0 /\ ~asked[r] /\ reply[r] = {} /\ peer[r] = {} /\ status[r] = "none"
          /\ Len(printed[r]) = 0 /\ Len(ran[r]) = 0 /\ at[r] \notin Real(r)
      BY <1>2, <2>1, NothingYet DEF Connect
    <3>2. UNCHANGED <<at, printed, ran, asked, reply>>
      BY <1>2 DEF Connect
    <3>3. \/ /\ step'[r] = "done" /\ peer'[r] = {}
             /\ status'[r] \in {"ENOENT", "ECONNREFUSED", "ETIMEDOUT"}
          \/ step'[r] = "send" /\ peer'[r] # {} /\ status'[r] = "none"
      BY <1>2, <2>1, <3>1 DEF Connect, Return
    <3>4. LinesAreKnown(r)'
      BY <1>0, <1>a, <3>1, <3>2, <3>3 DEF LinesAreKnown
    <3>5. RunsAreKnown(r)'
      BY <1>0, <1>a, <3>2 DEF RunsAreKnown
    <3>6. WireIsKnown(r)'
      BY <3>1, <3>2, <3>3 DEF WireIsKnown
    <3>7. StepIsKnown(r)'
      BY <1>a, <3>1, <3>2, <3>3 DEF StepIsKnown
    <3> QED
      BY <3>4, <3>5, <3>6, <3>7 DEF Told
  <2>2. CASE s # r
    BY <1>0, <1>2, <2>2, OthersAreTold DEF Connect, Return
  <2> QED
    BY <2>1, <2>2
<1>3. ASSUME NEW s \in Senders, SendEnd(s) PROVE Told(r)'
  <2>1. CASE s = r
    <3>1. /\ step[r] = "send" /\ at[r] = Len(Script[r]) /\ step'[r] = "done" /\ status'[r] = "0"
          /\ UNCHANGED <<at, printed, ran, link, peer, asked, reply>> /\ status[r] = "none"
      BY <1>0, <1>3, <2>1 DEF SendEnd, Return, linkVars, StepIsKnown
    <3> QED
      BY <1>0, <1>a, <3>1 DEF Told, LinesAreKnown, RunsAreKnown, WireIsKnown, StepIsKnown
  <2>2. CASE s # r
    BY <1>0, <1>3, <2>2, OthersAreTold DEF SendEnd, Return, linkVars
  <2> QED
    BY <2>1, <2>2
<1>4. ASSUME NEW s \in Senders, SendNext(s) PROVE Told(r)'
  <2>1. CASE s = r
    BY <1>4, <2>1, SendNextTold
  <2>2. CASE s # r
    BY <1>0, <1>4, <2>2, OthersAreTold DEF SendNext, Return
  <2> QED
    BY <2>1, <2>2
<1>5. ASSUME NEW s \in Senders, Read(s) PROVE Told(r)'
  <2>1. CASE s = r /\ UNCHANGED printed
    <3>1. reply[r] = {} /\ UNCHANGED reply
      <4>1. ASSUME NEW x \in reply[r], printed' = [printed EXCEPT ![r] = Append(printed[r], <<at[r], x>>)]
            PROVE  FALSE
        <5>1. x \in {"ok", "error"} /\ at[r] \in Nat
          <6>1. \A v \in Replies : v \subseteq {"ok", "error"}
            BY DEF Replies
          <6> QED
            BY <4>1, <6>1
        <5>2. printed[r] \in Seq(Nat \X {"ok", "error"}) /\ printed'[r] = printed[r]
          BY <2>1 DEF ToldInv, ToldTypeOK
        <5>3. printed'[r] = Append(printed[r], <<at[r], x>>)
          BY <4>1 DEF ToldInv, ToldTypeOK
        <5>4. Len(printed'[r]) = Len(printed[r]) + 1 /\ Len(printed[r]) \in Nat
          BY <5>1, <5>2, <5>3, OneMore, LenProperties
        <5> QED
          BY <5>2, <5>4
      <4> QED
        BY <1>5, <2>1, <4>1 DEF Read
    <3>2. /\ step[r] = "read" /\ status[r] = "none" /\ step'[r] = "done"
          /\ status'[r] \in {"ECONNRESET", "ETIMEDOUT"} /\ IsNext(r)
          /\ UNCHANGED <<at, printed, ran, link, peer, asked, reply>>
      BY <1>0, <1>5, <2>1, <3>1 DEF Read, Return, StepIsKnown
    <3> QED
      BY <1>0, <1>a, <3>2 DEF Told, LinesAreKnown, RunsAreKnown, WireIsKnown, StepIsKnown
  <2>2. CASE s = r /\ printed' # printed
    <3>1. PICK x \in reply[r] : printed' = [printed EXCEPT ![r] = Append(printed[r], <<at[r], x>>)]
      BY <1>5, <2>2 DEF Read
    <3> QED
      BY <1>5, <2>2, <3>1, PrintsTold
  <2>3. CASE s # r
    <3>1. printed'[r] = printed[r] /\ status'[r] = status[r] /\ step'[r] = step[r] /\ reply'[r] = reply[r]
      BY <1>5, <2>3 DEF Read, Return, ToldInv, ToldTypeOK
    <3> QED
      BY <1>0, <1>5, <3>1, OthersAreTold DEF Read
  <2> QED
    BY <2>1, <2>2, <2>3
<1>6. ASSUME NEW p \in Programs, NEW s \in Senders, Accept(p, s) PROVE Told(r)'
  <2>1. /\ link[s] = "backlog" /\ peer[s] # {}
        /\ UNCHANGED <<step, at, status, printed, peer, asked, ran>>
    BY <1>6 DEF Accept, OfListener, ListenerOnly
  <2>2. \/ /\ link' = [link EXCEPT ![s] = "closed"]
           /\ reply' = [reply EXCEPT ![s] = {"error"}] \/ reply' = reply
        \/ link' = [link EXCEPT ![s] = "served"] /\ reply' = reply
    BY <1>6 DEF Accept
  <2>3. CASE s = r
    <3>1. step[r] \notin {"away", "connect"}
      BY <2>1, <2>3 DEF WaitsInTime
    <3>2. /\ link'[r] = "closed" \/ (link'[r] = "served" /\ reply'[r] = reply[r])
          /\ reply'[r] = {"error"} \/ reply'[r] = reply[r]
      BY <2>2, <2>3
    <3>3. {"error"} # {"ok"}
      OBVIOUS
    <3>4. WireIsKnown(r)'
      BY <1>0, <1>a, <2>1, <2>3, <3>2, <3>3 DEF WireIsKnown
    <3> QED
      BY <1>0, <1>a, <2>1, <3>1, <3>4 DEF Told, LinesAreKnown, RunsAreKnown, StepIsKnown
  <2>4. CASE s # r
    BY <1>0, <2>1, <2>2, <2>4, OthersAreTold
  <2> QED
    BY <2>3, <2>4
<1>7. ASSUME NEW p \in Programs, NEW s \in Senders, Answer(p, s) PROVE Told(r)'
  <2>1. CASE s = r
    BY <1>7, <2>1, AnswerTold
  <2>2. CASE s # r
    <3>1. reply'[r] = reply[r] /\ asked'[r] = asked[r] /\ ran'[r] = ran[r]
      BY <1>7, <2>2 DEF Answer, ToldInv, ToldTypeOK
    <3> QED
      BY <1>0, <1>7, <3>1, OthersAreTold DEF Answer, ListenerOnly
  <2> QED
    BY <2>1, <2>2
<1>8. ASSUME NEW p \in Programs, NEW s \in Senders, LetGo(p, s) PROVE Told(r)'
  <2>1. CASE s = r
    <3>1. /\ step[r] = "done" /\ link'[r] = "closed" /\ ~asked'[r]
          /\ UNCHANGED <<step, at, status, printed, peer, reply, ran>>
      BY <1>8, <2>1 DEF LetGo, ListenerOnly
    <3> QED
      BY <1>0, <1>a, <3>1 DEF Told, LinesAreKnown, RunsAreKnown, WireIsKnown, StepIsKnown
  <2>2. CASE s # r
    BY <1>0, <1>8, <2>2, OthersAreTold DEF LetGo, ListenerOnly
  <2> QED
    BY <2>1, <2>2
<1>9. ASSUME NEW p \in Programs, Cut(p), Quietly PROVE Told(r)'
  BY <1>0, <1>9, OthersAreTold DEF Cut, Quietly
<1>10. CASE UNCHANGED <<step, at, printed, ran, status, peer, reply, asked, link>>
  BY <1>0, <1>10, OthersAreTold
<1> QED
  BY <1>1, <1>2, <1>3, <1>4, <1>5, <1>6, <1>7, <1>8, <1>9, <1>10
     DEF Next, ProgramStep, ListenerStep, vars, Quietly, sendVars, linkVars, Crowd, Tick

(* A sender's lines and its exit status say what ran, whatever became of    *)
(* the program, of the path and of the connection.                          *)
THEOREM SendersTellTheTruth == Spec => []SendTellsTheTruth
<1>1. Init => ToldInv
  <2> SUFFICES ASSUME Init PROVE ToldInv
    OBVIOUS
  <2>1. \A S : <<>> \in Seq(S) /\ Len(<<>>) = 0 /\ DOMAIN <<>> = {}
    BY EmptySeq
  <2>2. \A s \in Senders : \A i \in Real(s) : i \in Nat /\ i > 0
    <3>1. \A s \in Senders : Script[s] \in Seq(Commands)
      BY DEF Commands
    <3>2. \A s \in Senders : DOMAIN Script[s] = 1 .. Len(Script[s]) /\ Len(Script[s]) \in Nat
      BY <3>1, LenProperties
    <3> QED
      BY <3>2 DEF Real
  <2>3. ToldTypeOK
    BY <2>1 DEF Init, ToldTypeOK
  <2>4. ASSUME NEW s \in Senders PROVE Told(s)
    <3>1. /\ step[s] = "away" /\ at[s] = 0 /\ printed[s] = <<>> /\ ran[s] = <<>>
          /\ status[s] = "none" /\ peer[s] = {} /\ reply[s] = {} /\ asked[s] = FALSE
      BY DEF Init
    <3> QED
      BY <2>1, <2>2, <3>1
         DEF Told, LinesAreKnown, RunsAreKnown, WireIsKnown, StepIsKnown
  <2> QED
    BY <2>3, <2>4 DEF ToldInv
<1>2. SendInv /\ ToldInv /\ [Next]_vars => ToldInv'
  BY ToldTypeStep, ToldStep DEF ToldInv
<1> QED
  BY <1>1, <1>2, ToldIsTheTruth, SendInvHolds, PTL DEF Spec
=============================================================================
