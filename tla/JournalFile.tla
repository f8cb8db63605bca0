----------------------------- MODULE JournalFile -----------------------------
(***************************************************************************)
(* The files of src/persist/journal.c: append, replace, filter, forget and *)
(* forget_all, each a few calls of the C library on a file per subject and *)
(* a temporary beside it.  Any of those calls may fail and the program may *)
(* be killed between two of them; what stdio was still holding is then     *)
(* written whole, in part or not at all.                                   *)
(*                                                                         *)
(* A record is one line and is named by its number.  A file is the pieces  *)
(* that were written to it, each with its newline or torn before it.  The  *)
(* caller is the program of tests/suites/persist_journal.c: it appends     *)
(* numbered records, may append its last one again, and rewrites a file    *)
(* whenever it likes.                                                      *)
(***************************************************************************)
EXTENDS Naturals, SequencesExt

CONSTANTS
  Subjects,     (* The names files are kept under.                         *)
  MaxRecord,    (* Bound: the numbers of records.                          *)
  MaxPieces     (* Bound: how long appends make each file.                 *)

ASSUME JournalFileAssumption ==
  MaxRecord \in Nat /\ MaxPieces \in [Subjects -> Nat]

VARIABLES
  file,         (* Each subject's file: the set of its contents, so that   *)
                (* {} is no file and {<<>>} an empty one.                  *)
  temp,         (* The same of its temporary.                              *)
  op,           (* The call under way, and what it holds in its locals.    *)
  result,       (* What the last call returned: "ok", "error", or "none"   *)
                (* in the middle of one and after a kill there.            *)
  made,         (* The number of the caller's last record.                 *)
  acked,        (* Records the caller was told are written and has not     *)
                (* had removed since.                                      *)
  stray         (* Subjects whose temporary a kill or a failing remove     *)
                (* may have left behind.                                   *)

vars == <<file, temp, op, result, made, acked, stray>>

Records == 1 .. MaxRecord
Pieces  == [rec : Records, nl : BOOLEAN]
Line(r) == [rec |-> r, nl |-> TRUE]
Part(r) == [rec |-> r, nl |-> FALSE]

Idle == [call |-> "none"]
Contents(f) == CHOOSE text \in f : TRUE

TypeOK ==
  /\ \A s \in Subjects : \A text \in file[s] \union temp[s] : text \in Seq(Pieces)
  /\ op.call \in {"none", "append", "replace", "filter", "wipe"}
  /\ op.call = "append" => file[op.s] # {}
  /\ op.call \in {"replace", "filter"} => temp[op.s] # {}
  /\ result \in {"ok", "error", "none"}
  /\ made \in 0 .. MaxRecord
  /\ acked \in [Subjects -> SUBSET Records]
  /\ stray \subseteq Subjects

(* inkstand_journal_init has found or made its directory. *)
Init ==
  /\ file = [s \in Subjects |-> {}] /\ temp = [s \in Subjects |-> {}]
  /\ op = Idle /\ result = "ok" /\ made = 0
  /\ acked = [s \in Subjects |-> {}] /\ stray = {}

-----------------------------------------------------------------------------
(* What a reader sees of a file: inkwell_record_read's rule, which          *)
(* journal_next_line keeps to.                                              *)

(* The piece at i is a line of its own. *)
IsLine(text, i) == text[i].nl /\ (i > 1 => text[i - 1].nl)

(* The lines of a text are whole up to its last newline. *)
Whole(text) == {i \in DOMAIN text : \E j \in DOMAIN text : j >= i /\ text[j].nl}

(* The pieces of a text in some of its places, in their order: as many of   *)
(* them as are within its first n.                                          *)
Picks(text, places) ==
  LET pick[n \in 0 .. Len(text)] ==
        IF n = 0 THEN <<>>
        ELSE IF n \in places THEN Append(pick[n - 1], text[n])
        ELSE pick[n - 1]
  IN  pick
Picked(text, places) == Picks(text, places)[Len(text)]

(* The lines without the records in drops. *)
Without(lines, drops) ==
  Picked(lines, {i \in DOMAIN lines : lines[i].rec \notin drops})

Lines(text) == Picked(text, {i \in DOMAIN text : IsLine(text, i)})
Readable(f) == IF f = {} THEN <<>> ELSE Lines(Contents(f))

(* The newest n of what a reader sees, which is what the journal's ring     *)
(* holds after one pass.                                                    *)
Newest(f, n) ==
  LET seen == Readable(f)
  IN  IF Len(seen) <= n THEN seen ELSE SubSeq(seen, Len(seen) - n + 1, Len(seen))

(* What a filter that drops `drops` writes of the lines it is shown: a line *)
(* two appends are glued in is a line like any other.                       *)
Kept(f, drops) ==
  LET text == Contents(f)
  IN  Picked(text, {i \in Whole(text) : IsLine(text, i) => text[i].rec \notin drops})

-----------------------------------------------------------------------------
(* A call returns. *)
Return(r) == op' = Idle /\ result' = r
(* A call goes on. *)
Continue(next) == op' = next /\ result' = "none"

(* Slip: the file opened "wb". *)
AppendOpenTruncating(s) ==
  /\ op = Idle
  /\ \E r \in {made, made + 1} \intersect Records :
       made' = r /\ Continue([call |-> "append", s |-> s, rec |-> r])
  /\ file' = [file EXCEPT ![s] = {<<>>}]
  /\ UNCHANGED <<temp, acked, stray>>

(* inkstand_journal_append up to the writer: fopen "ab". *)
AppendOpen(s) ==
  /\ op = Idle
  /\ \A text \in file[s] : Len(text) < MaxPieces[s]
  /\ \E r \in {made, made + 1} \intersect Records :
       made' = r /\ Continue([call |-> "append", s |-> s, rec |-> r])
  /\ file' = [file EXCEPT ![s] = IF @ = {} THEN {<<>>} ELSE @]
  /\ UNCHANGED <<temp, acked, stray>>

(* What can be in the file once a write of r is over, and whether it is     *)
(* known to be: written; not, or in part; or written and then failed.       *)
Written(f, r) == {Append(Contents(f), Line(r))}
PartWritten(f, r) == {Append(Contents(f), Part(r))}

(* The writer, fflush, the size and fclose all succeed. *)
AppendDone ==
  /\ op.call = "append"
  /\ file'  = [file EXCEPT ![op.s] = Written(@, op.rec)]
  /\ acked' = [acked EXCEPT ![op.s] = @ \union {op.rec}]
  /\ Return("ok")
  /\ UNCHANGED <<temp, made, stray>>

(* One of them fails. *)
AppendFails ==
  /\ op.call = "append"
  /\ \E text \in {file[op.s], PartWritten(file[op.s], op.rec), Written(file[op.s], op.rec)} :
       file' = [file EXCEPT ![op.s] = text]
  /\ Return("error")
  /\ UNCHANGED <<temp, made, acked, stray>>

-----------------------------------------------------------------------------
(* Slips: a temporary opened "ab", on what an interrupted rewrite left; one *)
(* that could not be opened, and is written to.                             *)
TempOpenAppending(s) == IF temp[s] = {} THEN {<<>>} ELSE temp[s]
TempOpenUnchecked(s) == {}

(* fopen "wb" of the temporary. *)
TempOpen(s) == {<<>>}

(* inkstand_journal_replace, with the newest n records of a compaction. *)
Replace(s, n) ==
  /\ op = Idle
  /\ temp' = [temp EXCEPT ![s] = TempOpen(s)]
  /\ Continue([call |-> "replace", s |-> s, step |-> "write", keep |-> n,
               text |-> Newest(file[s], n)])
  /\ UNCHANGED <<file, made, acked, stray>>

(* inkstand_journal_filter, of a file there is, dropping what is in drops.  *)
Filter(s, drops) ==
  /\ op = Idle /\ file[s] # {}
  /\ temp' = [temp EXCEPT ![s] = TempOpen(s)]
  /\ Continue([call |-> "filter", s |-> s, step |-> "write", drops |-> drops,
               text |-> Kept(file[s], drops)])
  /\ UNCHANGED <<file, made, acked, stray>>

Rewriting(step) == op.call \in {"replace", "filter"} /\ op.step = step

(* The temporary is written and closed, as far as nothing goes wrong. *)
WriteTemp ==
  /\ Rewriting("write")
  /\ temp' = [temp EXCEPT ![op.s] = {Contents(@) \o op.text}]
  /\ Continue([op EXCEPT !.step = "publish"])
  /\ UNCHANGED <<file, made, acked, stray>>

(* What a write cut short leaves of it. *)
CutShort(f, text) ==
  {{Contents(f) \o SubSeq(text, 1, n)} : n \in 0 .. Len(text)}

(* Slip: a failed write is published all the same. *)
WriteTempFailsUnseen ==
  /\ Rewriting("write")
  /\ \E text \in CutShort(temp[op.s], op.text) : temp' = [temp EXCEPT ![op.s] = text]
  /\ Continue([op EXCEPT !.step = "publish"])
  /\ UNCHANGED <<file, made, acked, stray>>

(* The same, and the failure noticed. *)
WriteTempFails ==
  /\ Rewriting("write")
  /\ \E text \in CutShort(temp[op.s], op.text) : temp' = [temp EXCEPT ![op.s] = text]
  /\ Continue([op EXCEPT !.step = "remove"])
  /\ UNCHANGED <<file, made, acked, stray>>

(* A filter that dropped nothing: end() returned 0. *)
NothingDropped ==
  op.call = "filter" /\ \A i \in DOMAIN Readable(file[op.s]) :
                          Readable(file[op.s])[i].rec \notin op.drops

(* inkwell_file_replace puts the temporary in the file's place; a filter    *)
(* that dropped nothing removes it instead.                                 *)
Publish ==
  /\ Rewriting("publish") /\ ~NothingDropped
  /\ file' = [file EXCEPT ![op.s] = temp[op.s]]
  /\ temp' = [temp EXCEPT ![op.s] = {}]
  /\ acked' = [acked EXCEPT ![op.s] =
                 {r \in @ : \E i \in DOMAIN op.text : op.text[i] = Line(r)}]
  /\ Return("ok")
  /\ UNCHANGED <<made, stray>>

PublishFails ==
  /\ Rewriting("publish") /\ ~NothingDropped
  /\ Continue([op EXCEPT !.step = "remove"])
  /\ UNCHANGED <<file, temp, made, acked, stray>>

(* Slip: the temporary removed only when something failed. *)
RemoveTempWhenFailed ==
  /\ \/ /\ Rewriting("remove") /\ Return("error")
        /\ temp' = [temp EXCEPT ![op.s] = {}]
     \/ /\ Rewriting("publish") /\ NothingDropped /\ Return("ok")
        /\ UNCHANGED temp
  /\ UNCHANGED <<file, made, acked, stray>>

(* remove() of the temporary, whose own failure is ignored. *)
RemoveTemp ==
  /\ \/ Rewriting("remove") /\ Return("error")
     \/ Rewriting("publish") /\ NothingDropped /\ Return("ok")
  /\ \/ temp' = [temp EXCEPT ![op.s] = {}] /\ UNCHANGED stray
     \/ stray' = stray \union {op.s} /\ UNCHANGED temp
  /\ UNCHANGED <<file, made, acked>>

-----------------------------------------------------------------------------
(* inkstand_journal_forget: the file, and not a temporary beside it. *)
Forget(s) ==
  /\ op = Idle
  /\ \/ /\ file' = [file EXCEPT ![s] = {}] /\ acked' = [acked EXCEPT ![s] = {}]
        /\ Return("ok")
     \/ /\ file[s] # {}
        /\ Return("error") /\ UNCHANGED <<file, acked>>
  /\ UNCHANGED <<temp, made, stray>>

(* inkstand_journal_forget_all lists the directory. *)
WipeOpen ==
  /\ op = Idle
  /\ Continue([call |-> "wipe", failed |-> FALSE,
               left |-> {<<s, "file">> : s \in {s \in Subjects : file[s] # {}}}
                 \union {<<s, "temp">> : s \in {s \in Subjects : temp[s] # {}}}])
  /\ UNCHANGED <<file, temp, made, acked, stray>>

(* Slip: a later success forgets a failure. *)
WipeEntryForgiving(entry) ==
  /\ op.call = "wipe" /\ entry \in op.left
  /\ LET s == entry[1] IN
     \/ /\ IF entry[2] = "file"
           THEN /\ file' = [file EXCEPT ![s] = {}] /\ UNCHANGED <<temp, stray>>
                /\ acked' = [acked EXCEPT ![s] = {}]
           ELSE /\ temp' = [temp EXCEPT ![s] = {}] /\ UNCHANGED <<file, acked>>
                /\ stray' = stray \ {s}
        /\ Continue([op EXCEPT !.left = @ \ {entry}, !.failed = FALSE])
     \/ /\ Continue([op EXCEPT !.left = @ \ {entry}, !.failed = TRUE])
        /\ UNCHANGED <<file, temp, acked, stray>>
  /\ UNCHANGED made

(* journal_wipe_entry: one name of the journal's own, removed or not. *)
WipeEntry(entry) ==
  /\ op.call = "wipe" /\ entry \in op.left
  /\ LET s == entry[1] IN
     \/ /\ IF entry[2] = "file"
           THEN /\ file' = [file EXCEPT ![s] = {}] /\ UNCHANGED <<temp, stray>>
                /\ acked' = [acked EXCEPT ![s] = {}]
           ELSE /\ temp' = [temp EXCEPT ![s] = {}] /\ UNCHANGED <<file, acked>>
                /\ stray' = stray \ {s}
        /\ Continue([op EXCEPT !.left = @ \ {entry}])
     \/ /\ Continue([op EXCEPT !.left = @ \ {entry}, !.failed = TRUE])
        /\ UNCHANGED <<file, temp, acked, stray>>
  /\ UNCHANGED made

WipeDone ==
  /\ op.call = "wipe" /\ op.left = {}
  /\ Return(IF op.failed THEN "error" ELSE "ok")
  /\ UNCHANGED <<file, temp, made, acked, stray>>

-----------------------------------------------------------------------------
(* A call returns before it has changed anything: no stream to be had. *)
Refuse ==
  /\ op = Idle /\ Return("error")
  /\ UNCHANGED <<file, temp, made, acked, stray>>

(* The program is killed in a call, and started again. *)
Kill ==
  /\ op # Idle
  /\ \/ /\ op.call = "append"
        /\ \E text \in {file[op.s], PartWritten(file[op.s], op.rec),
                        Written(file[op.s], op.rec)} :
             file' = [file EXCEPT ![op.s] = text]
        /\ UNCHANGED <<temp, stray>>
     \/ /\ op.call \in {"replace", "filter"}
        /\ IF op.step = "write"
           THEN \E text \in CutShort(temp[op.s], op.text) : temp' = [temp EXCEPT ![op.s] = text]
           ELSE UNCHANGED temp
        /\ stray' = stray \union {op.s}
        /\ UNCHANGED file
     \/ op.call = "wipe" /\ UNCHANGED <<file, temp, stray>>
  /\ Return("none")
  /\ UNCHANGED <<made, acked>>

Next ==
  \/ \E s \in Subjects : AppendOpen(s) \/ Forget(s)
  \/ AppendDone \/ AppendFails
  \/ \E s \in Subjects, n \in Records : Replace(s, n)
  \/ \E s \in Subjects, drops \in SUBSET Records : Filter(s, drops)
  \/ WriteTemp \/ WriteTempFails
  \/ Publish \/ PublishFails \/ RemoveTemp
  \/ WipeOpen \/ WipeDone
  \/ \E entry \in Subjects \X {"file", "temp"} : WipeEntry(entry)
  \/ Refuse \/ Kill

Spec == Init /\ [][Next]_vars

-----------------------------------------------------------------------------
(* What a reader is shown only grows, whatever fails and wherever the       *)
(* program is killed, until a rewrite is published or a file removed.       *)
ReadersKeepWhatTheyHad ==
  [][\A s \in Subjects :
       \/ IsPrefix(Readable(file[s]), Readable(file'[s]))
       \/ op.call \in {"replace", "filter"} /\ op.step = "publish" /\ op.s = s
       \/ op.call \in {"none", "wipe"} /\ file'[s] = {}]_vars

(* "A reader sees the old file or the new one": a rewrite that changes a    *)
(* file leaves exactly the newest records of a compaction, or all but those *)
(* a filter was to drop - read off the file as it is at that moment, and    *)
(* with nothing of an earlier rewrite's temporary in it.                    *)
RewritesAreExact ==
  [][op.call \in {"replace", "filter"} /\ file' # file =>
       Readable(file'[op.s]) =
         IF op.call = "replace" THEN Newest(file[op.s], op.keep)
         ELSE Without(Readable(file[op.s]), op.drops)]_vars

(* "A wipe that left a file behind does not report success", and one that   *)
(* reports it has left nothing, interrupted rewrites' temporaries included. *)
WipeTellsTheTruth ==
  [][op.call = "wipe" /\ op' = Idle /\ result' = "ok" =>
       \A s \in Subjects : file'[s] = {} /\ temp'[s] = {}]_vars

TempsAreAccountedFor ==
  op = Idle => \A s \in Subjects : temp[s] # {} => s \in stray
AckedIsKept ==
  op = Idle => \A s \in Subjects : \A r \in acked[s] :
                 \E text \in file[s] : Line(r) \in Range(text)

(* What the caller was told is written stays in the file, newline and all,  *)
(* until it has it removed: no failure and no kill in any later call takes  *)
(* it away.  And a temporary outlives its call only where a kill or a       *)
(* failing remove left it.  Whether what is kept can be read is AckedIsRead.*)
FilesAreAccountedFor == TypeOK /\ AckedIsKept /\ TempsAreAccountedFor

(* What the caller was told is written is there to be read until it has it  *)
(* removed: a failed append is tried again and then is written.             *)
AckedIsRead ==
  op = Idle => \A s \in Subjects : \A r \in acked[s] :
                 Line(r) \in Range(Readable(file[s]))
=============================================================================
