----------------------------- MODULE SocketFile -----------------------------
(***************************************************************************)
(* The file of the control socket (inkstand_control_open and _close of     *)
(* src/app/control.c): programs bind it, and take it away when they close, *)
(* one system call a step, while others do the same at the same path.      *)
(*                                                                         *)
(* A file is [ino, by, socket, amid]: `by` is who made it, and `amid` the  *)
(* programs that were then within their close.  An inode is free for the   *)
(* next file once no path and no open socket holds it.                     *)
(***************************************************************************)
EXTENDS Naturals

CONSTANTS
  Programs,     (* Programs asked to listen at the path.                   *)
  Inodes,       (* The inodes of its file system.                          *)
  Outsider,     (* Whoever else puts files there.                          *)
  Plans         (* Who takes part: [programs, senders, moves], the last a  *)
                (* bound on how often the outsider touches the path.       *)

ASSUME SocketFileAssumption ==
  /\ Outsider \notin Programs
  /\ \A plan \in Plans : plan.programs \subseteq Programs /\ plan.moves \in Nat

VARIABLES
  plan,         (* The one of Plans that is played.                        *)
  path,         (* What is at the path: {} or {a file}.                    *)
  pc,           (* Where a program is: "down", or before the call named,   *)
                (* "up", or "without" a socket                             *)
  own,          (* {} or {the inode its bind made}                         *)
  saw,          (* bound and bound_inode: {} or {an inode}                 *)
  blind,        (* Its listen failed, or its stat showed it nothing.       *)
  robbed,       (* Somebody else took its file from the path.              *)
  moves         (* How often the outsider has touched the path.            *)

fileVars == <<plan, path, pc, own, saw, blind, robbed, moves>>

(* The socket is open, and the one of its inode. *)
Open(p) == pc[p] \in {"listen", "stat", "setup", "up"}

Amid == {p \in Programs : pc[p] \in {"lstat", "unlink"}}

NewFiles(who, socket) ==
  {[ino |-> i, by |-> who, socket |-> socket, amid |-> Amid] :
     i \in Inodes \ ({f.ino : f \in path} \union UNION {own[p] : p \in {p \in Programs : Open(p)}})}

Mine(p, f) == f.by = p /\ f.ino \in own[p]

FileInit ==
  /\ plan \in Plans /\ path = {} /\ moves = 0
  /\ pc = [p \in Programs |-> "down"]
  /\ own = [p \in Programs |-> {}] /\ saw = own
  /\ blind = [p \in Programs |-> FALSE] /\ robbed = blind

Go(p, where) == pc' = [pc EXCEPT ![p] = where]

(* Who loses a file that p, or the outsider, takes from the path. *)
Rob(taker) ==
  robbed' = [p \in Programs |-> robbed[p] \/ (p # taker /\ \E f \in path : Mine(p, f))]

-----------------------------------------------------------------------------
(* inkstand_control_open *)

(* Slip: what is there is removed first. *)
BindOver(p) ==
  /\ pc[p] = "down" /\ p \in plan.programs
  /\ \E f \in NewFiles(p, TRUE) :
       path' = {f} /\ own' = [own EXCEPT ![p] = {f.ino}]
  /\ Go(p, "listen")
  /\ UNCHANGED <<plan, saw, blind, robbed, moves>>

(* bind, where there is nothing. *)
Bind(p) ==
  /\ pc[p] = "down" /\ p \in plan.programs /\ path = {}
  /\ \E f \in NewFiles(p, TRUE) :
       path' = {f} /\ own' = [own EXCEPT ![p] = {f.ino}]
  /\ Go(p, "listen")
  /\ UNCHANGED <<plan, saw, blind, robbed, moves>>

(* bind refuses whatever is there: the program runs without the socket. *)
BindRefused(p) ==
  /\ pc[p] = "down" /\ p \in plan.programs /\ path # {}
  /\ Go(p, "without")
  /\ UNCHANGED <<plan, path, own, saw, blind, robbed, moves>>

(* listen; when it fails the socket is closed and its file left. *)
Listen(p) ==
  /\ pc[p] = "listen"
  /\ \/ Go(p, "stat") /\ UNCHANGED blind
     \/ Go(p, "without") /\ blind' = [blind EXCEPT ![p] = TRUE]
  /\ UNCHANGED <<plan, path, own, saw, robbed, moves>>

(* stat: whatever is at the path by now. *)
Stat(p) ==
  /\ pc[p] = "stat"
  /\ saw' \in {[saw EXCEPT ![p] = {}], [saw EXCEPT ![p] = {f.ino : f \in path}]}
  /\ blind' = [blind EXCEPT ![p] = saw'[p] = {}]
  /\ Go(p, "setup")
  /\ UNCHANGED <<plan, path, own, robbed, moves>>

(* The timer and the two descriptors on the loop; short of one of them the  *)
(* control is closed again.                                                 *)
SetUp(p) ==
  /\ pc[p] = "setup"
  /\ Go(p, "up") \/ Go(p, "lstat")
  /\ UNCHANGED <<plan, path, own, saw, blind, robbed, moves>>

-----------------------------------------------------------------------------
(* inkstand_control_close, up to its lstat: the socket is closed first. *)
CloseSocket(p) ==
  /\ pc[p] = "up" /\ Go(p, "lstat")
  /\ UNCHANGED <<plan, path, own, saw, blind, robbed, moves>>

(* Slips: any socket at the path is taken for its own; its own is not known *)
(* again.                                                                   *)
AnySocket(p) == saw[p] # {} /\ \E f \in path : f.socket
NoSocket(p) == FALSE

(* The file at the path is the socket that was bound. *)
IsBound(p) == \E f \in path : f.socket /\ f.ino \in saw[p]

Lstat(p) ==
  /\ pc[p] = "lstat"
  /\ Go(p, IF IsBound(p) THEN "unlink" ELSE "without")
  /\ saw' = (IF IsBound(p) THEN saw ELSE [saw EXCEPT ![p] = {}])
  /\ UNCHANGED <<plan, path, own, blind, robbed, moves>>

Unlink(p) ==
  /\ pc[p] = "unlink" /\ Go(p, "without")
  /\ path' = {} /\ Rob(p)
  /\ saw' = [saw EXCEPT ![p] = {}]
  /\ UNCHANGED <<plan, own, blind, moves>>

-----------------------------------------------------------------------------
(* A program is over: killed anywhere, or at its own end. *)
Over(p) ==
  /\ pc[p] # "down" /\ Go(p, "down")
  /\ own' = [own EXCEPT ![p] = {}] /\ saw' = [saw EXCEPT ![p] = {}]
  /\ blind' = [blind EXCEPT ![p] = FALSE] /\ robbed' = [robbed EXCEPT ![p] = FALSE]
  /\ UNCHANGED <<plan, path, moves>>

(* The outsider clears the path, or puts something there. *)
Clear ==
  /\ moves < plan.moves /\ moves' = moves + 1
  /\ path # {} /\ path' = {} /\ Rob(Outsider)
  /\ UNCHANGED <<plan, pc, own, saw, blind>>

Put(socket) ==
  /\ moves < plan.moves /\ moves' = moves + 1
  /\ path = {} /\ \E f \in NewFiles(Outsider, socket) : path' = {f}
  /\ UNCHANGED <<plan, pc, own, saw, blind, robbed>>

Opens(p) == Bind(p) \/ BindRefused(p) \/ Listen(p) \/ Stat(p)
Closes(p) == Lstat(p) \/ Unlink(p)

-----------------------------------------------------------------------------
(* The path says which program is listening: the file of one with its       *)
(* socket open is there, unless somebody took it; one that closed has left  *)
(* none, unless it never learnt which file was its own; and it takes        *)
(* another's for its own only where its own was taken first.                *)
PathTellsWhoRuns ==
  \A p \in Programs :
    /\ Open(p) /\ ~robbed[p] => \E f \in path : Mine(p, f)
    /\ pc[p] = "without" /\ ~blind[p] => ~\E f \in path : Mine(p, f)
    /\ saw[p] \subseteq own[p] \/ robbed[p]

(* A program whose stat showed it its own file takes nothing else from the  *)
(* path, or what was put there within its close.                            *)
TakesOnlyItsOwn ==
  [][\A f \in path \ path', p \in Programs :
       pc[p] = "unlink" /\ pc'[p] = "without" /\ saw[p] \subseteq own[p]
         => Mine(p, f) \/ p \in f.amid]_fileVars
=============================================================================
