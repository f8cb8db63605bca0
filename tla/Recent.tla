------------------------------- MODULE Recent -------------------------------
(***************************************************************************)
(* src/persist/recent.c: the things used last, in an array the caller      *)
(* owns, written as one line of a file and read back from it.  The caller  *)
(* rewrites its line when a call says that the list changed, and not       *)
(* otherwise; it may start on a line somebody else wrote.                  *)
(***************************************************************************)
EXTENDS Naturals, Sequences

CONSTANTS
  Names,        (* What list->same tells entries apart by.                 *)
  Spellings,    (* What it does not look at.                               *)
  Capacity,     (* list->capacity                                          *)
  Zero,         (* A slot of zeroes.                                       *)
  Refused,      (* A field of the line that is not an entry.               *)
  MaxFields     (* Bound: the fields of a line somebody else wrote.        *)

Entries == [name : Names, spelt : Spellings]

ASSUME RecentAssumption ==
  /\ Capacity \in Nat \ {0}
  /\ MaxFields \in Nat
  /\ Zero \notin Entries /\ Refused \notin Entries

VARIABLES
  entries,      (* list->entries                                           *)
  count,        (* list->count                                             *)
  text,         (* what inkstand_recent_parse has still to read            *)
  parsing,      (* it is at it                                             *)
  news,         (* what the last call returned: the list changed           *)
  saved         (* the fields of the caller's line                         *)

vars == <<entries, count, text, parsing, news, saved>>

Slots == 0 .. Capacity - 1

(* A slot in use holds an entry, and one that is not is zeroes: nothing     *)
(* refused, forgotten or pushed out is left in the caller's memory.         *)
TypeOK ==
  /\ entries \in [Slots -> Entries \union {Zero}]
  /\ count \in 0 .. Capacity
  /\ \A i \in Slots : i < count <=> entries[i] # Zero
  /\ text \in Seq(Entries \union {Refused})
  /\ parsing \in BOOLEAN /\ news \in BOOLEAN
  /\ saved \in Seq(Entries \union {Refused})

Foreign == UNION {[1 .. n -> Entries \union {Refused}] : n \in 0 .. MaxFields}

(* inkstand_recent_init, of an array with nothing in it, and the beginning  *)
(* of the first inkstand_recent_parse: the line is as it was found.         *)
Init ==
  /\ entries = [i \in Slots |-> Zero] /\ count = 0 /\ news = FALSE
  /\ saved \in Foreign /\ text = saved /\ parsing = TRUE

-----------------------------------------------------------------------------
Same(a, b) == a.name = b.name

(* rank_within, of the slots in use. *)
Ranks(e) == {i \in 0 .. count - 1 : Same(entries[i], e)}
Rank(e)  == CHOOSE i \in Ranks(e) : \A j \in Ranks(e) : i <= j

(* What inkstand_recent_write writes: the slots in use, in order. *)
Written == [i \in 1 .. count |-> entries[i - 1]]

(* The array with e put in front and the slots before `from` moved down. *)
Shifted(e, from) ==
  [i \in Slots |-> IF i = 0 THEN e ELSE IF i <= from THEN entries[i - 1]
                                                    ELSE entries[i]]

(* A call returns, and the caller saves what has changed. *)
Return(changed) ==
  /\ news' = changed
  /\ saved' = IF changed THEN Written' ELSE saved
  /\ UNCHANGED <<text, parsing>>

(* Slip: a list that is only put in another order said to be unchanged. *)
NoteNewOnly(e) ==
  /\ ~parsing
  /\ IF count > 0 /\ Same(entries[0], e)
     THEN UNCHANGED <<entries, count>> /\ Return(FALSE)
     ELSE /\ count' = (IF Ranks(e) = {} /\ count < Capacity THEN count + 1 ELSE count)
          /\ entries' = Shifted(e, IF Ranks(e) = {} THEN count' - 1 ELSE Rank(e))
          /\ Return(Ranks(e) = {})

(* inkstand_recent_note *)
Note(e) ==
  /\ ~parsing
  /\ IF count > 0 /\ Same(entries[0], e)
     THEN UNCHANGED <<entries, count>> /\ Return(FALSE)
     ELSE /\ count' = (IF Ranks(e) = {} /\ count < Capacity THEN count + 1 ELSE count)
          /\ entries' = Shifted(e, IF Ranks(e) = {} THEN count' - 1 ELSE Rank(e))
          /\ Return(TRUE)

(* Slip: the entry is read through the pointer once the slots have moved,   *)
(* and what slid into its place goes to the head.                           *)
NoteOwnLate(i) ==
  /\ i < count /\ ~parsing
  /\ IF i = 0
     THEN UNCHANGED <<entries, count>> /\ Return(FALSE)
     ELSE entries' = Shifted(entries[i - 1], i) /\ UNCHANGED count /\ Return(TRUE)

(* The same, handed a pointer to an entry of the list itself, which is      *)
(* copied out before any slot moves: Note's e is the entry as it was.       *)
NoteOwn(i) == i < count /\ Note(entries[i])

(* Slip: the gap filled with the last entry. *)
ForgetSwapping(name) ==
  LET e == [name |-> name, spelt |-> CHOOSE s \in Spellings : TRUE]
  IN  /\ ~parsing
      /\ IF Ranks(e) = {}
         THEN UNCHANGED <<entries, count>> /\ Return(FALSE)
         ELSE /\ count' = count - 1
              /\ entries' = [entries EXCEPT ![Rank(e)] = entries[count - 1],
                                           ![count - 1] = Zero]
              /\ Return(TRUE)

(* inkstand_recent_forget *)
Forget(name) ==
  LET e == [name |-> name, spelt |-> CHOOSE s \in Spellings : TRUE]
  IN  /\ ~parsing
      /\ IF Ranks(e) = {}
         THEN UNCHANGED <<entries, count>> /\ Return(FALSE)
         ELSE /\ count' = count - 1
              /\ entries' = [i \in Slots |->
                   IF i = count - 1 THEN Zero
                   ELSE IF Rank(e) <= i /\ i < count - 1 THEN entries[i + 1]
                   ELSE entries[i]]
              /\ Return(TRUE)

-----------------------------------------------------------------------------
(* inkstand_recent_parse, of the line as it was saved: the program is       *)
(* started again.                                                           *)
Parse ==
  /\ entries' = [i \in Slots |-> Zero] /\ count' = 0
  /\ text' = saved /\ parsing' = TRUE /\ news' = FALSE
  /\ UNCHANGED saved

(* Slip: a second copy left in the slot. *)
ParseFieldLeft ==
  /\ parsing /\ text # <<>> /\ count < Capacity
  /\ LET field == Head(text)
     IN IF field = Refused THEN UNCHANGED <<entries, count>>
        ELSE /\ entries' = [entries EXCEPT ![count] = field]
             /\ count' = (IF Ranks(field) = {} THEN count + 1 ELSE count)
  /\ text' = Tail(text)
  /\ UNCHANGED <<parsing, news, saved>>

(* A field: read into the first free slot, and kept by counting it.         *)
ParseField ==
  /\ parsing /\ text # <<>> /\ count < Capacity
  /\ LET field == Head(text)
     IN IF field # Refused /\ Ranks(field) = {}
        THEN entries' = [entries EXCEPT ![count] = field] /\ count' = count + 1
        ELSE entries' = [entries EXCEPT ![count] = Zero] /\ UNCHANGED count
  /\ text' = Tail(text)
  /\ UNCHANGED <<parsing, news, saved>>

ParseEnd ==
  /\ parsing /\ (text = <<>> \/ count = Capacity)
  /\ parsing' = FALSE /\ text' = <<>>
  /\ UNCHANGED <<entries, count, news, saved>>

Next ==
  \/ \E e \in Entries : Note(e)
  \/ \E i \in Slots : NoteOwn(i)
  \/ \E name \in Names : Forget(name)
  \/ Parse
  \/ ParseField
  \/ ParseEnd

Spec == Init /\ [][Next]_vars

-----------------------------------------------------------------------------
List == INSTANCE RecentList WITH list <- Written

(* The array is the list: whatever is noted, an entry of its own included,  *)
(* forgotten or read, the slots in use are the different things noted last, *)
(* newest first.                                                            *)
ImplementsList == List!Spec

(* The first fields of a line that are entries and not repeats. *)
Accepted(fields) ==
  {i \in DOMAIN fields :
     /\ fields[i] # Refused
     /\ \A j \in 1 .. i - 1 : fields[j] # Refused => ~Same(fields[j], fields[i])}

(* What a line reads as: from its first field on, all of those that there   *)
(* is room for, in their order.                                             *)
Reads(fields, list) ==
  \E at \in [DOMAIN list -> Accepted(fields)] :
    /\ \A k \in DOMAIN list : list[k] = fields[at[k]]
    /\ \A k, l \in DOMAIN list : k < l => at[k] < at[l]
    /\ \A i \in Accepted(fields) :
         \/ \E k \in DOMAIN list : at[k] = i
         \/ Len(list) = Capacity /\ \A k \in DOMAIN list : at[k] < i

(* The caller that saves only what it is told has changed can be killed at  *)
(* any moment: reading its line gives the list it had, in its order; and    *)
(* the slots behind the list hold nothing.                                  *)
SavedReadsBack == TypeOK /\ (~parsing => Reads(saved, Written))
=============================================================================
