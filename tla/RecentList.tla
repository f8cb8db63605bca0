----------------------------- MODULE RecentList -----------------------------
(***************************************************************************)
(* What a recent list is to its caller: the different things noted last,   *)
(* newest first, and no more of them than there is room for.  There is no  *)
(* array here, nothing is shifted, and nothing is read a piece at a time.  *)
(***************************************************************************)
EXTENDS Naturals, SequencesExt

CONSTANTS
  Names,        (* What an entry stands for.                               *)
  Spellings,    (* The bytes beyond that; two entries of one name are the  *)
                (* same entry however they are spelt.                      *)
  Capacity      (* How many there is room for.                             *)

Entries == [name : Names, spelt : Spellings]

VARIABLES
  list,         (* The entries, newest first.                              *)
  news          (* Whether the last call says that it changed something.   *)

lvars == <<list, news>>

Init == list = <<>> /\ news = FALSE

Room(s) == SubSeq(s, 1, IF Len(s) < Capacity THEN Len(s) ELSE Capacity)
At(name) == {i \in DOMAIN list : list[i].name = name}
Without(name) == IF At(name) = {} THEN list
                 ELSE RemoveAt(list, CHOOSE i \in At(name) : TRUE)

(* An entry goes to the front, in its newest spelling, and comes out of     *)
(* where it was.                                                            *)
Note(e) ==
  IF list # <<>> /\ Head(list).name = e.name
  THEN news' = FALSE /\ UNCHANGED list
  ELSE news' = TRUE  /\ list' = Room(<<e>> \o Without(e.name))

Forget(name) ==
  /\ list' = Without(name)
  /\ news' = (list' # list)

(* The list read anew is taken in the order it is written in. *)
Empty == list' = <<>> /\ news' = FALSE
Take(e) ==
  /\ Len(list) < Capacity /\ \A i \in DOMAIN list : list[i].name # e.name
  /\ list' = Append(list, e)
  /\ UNCHANGED news

Next ==
  \/ \E e \in Entries : Note(e) \/ Take(e)
  \/ \E name \in Names : Forget(name)
  \/ Empty

Spec == Init /\ [][Next]_lvars
=============================================================================
