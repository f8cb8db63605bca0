---------------------------- MODULE RecordProofs ----------------------------
(***************************************************************************)
(* Theorems about what an application keeps in its record file: Recent,    *)
(* for any names, spellings and lines and any capacity - what is saved     *)
(* reads back as the list, and the array the entries are shifted in is the *)
(* list the callers have in mind; and Form, for any forms, any widths and  *)
(* any lines a hand puts into the file - a row's text and its line read    *)
(* back as the row, and its keys walk it where it shows.                   *)
(***************************************************************************)
EXTENDS Form, Recent, Integers, SequenceTheorems, WellFoundedInduction, TLAPS

-----------------------------------------------------------------------------
(* What the two theorems rest on.                                          *)

(* No two slots in use hold entries that are the same.                      *)
Different ==
  \A i, j \in 0 .. count - 1 : Same(entries[i], entries[j]) => i = j

(* How many fields of the line have been read. *)
Done == Len(saved) - Len(text)

(* A line half read: what is left of it is its end, the slots in use are    *)
(* the fields kept of what is behind, in their order and with none left     *)
(* out, and whatever was not kept there is a repeat of one that was.        *)
ReadSoFar ==
  /\ Len(text) <= Len(saved)
  /\ \A i \in 1 .. Len(text) : text[i] = saved[Done + i]
  /\ \E at \in [1 .. count -> Accepted(saved)] :
       /\ \A k \in 1 .. count : entries[k - 1] = saved[at[k]] /\ at[k] <= Done
       /\ \A k, l \in 1 .. count : k < l => at[k] < at[l]
       /\ \A i \in Accepted(saved) : i <= Done => \E k \in 1 .. count : at[k] = i
  /\ \A j \in 1 .. Done :
       saved[j] # Refused => \E k \in 1 .. count : Same(entries[k - 1], saved[j])

RecentInv ==
  /\ TypeOK
  /\ Different
  /\ parsing => ReadSoFar
  /\ ~parsing => Reads(saved, Written)

-----------------------------------------------------------------------------
(* The slots in use are a sequence of entries. *)
LEMMA WrittenIs ==
  ASSUME TypeOK
  PROVE  /\ Written \in Seq(Entries) /\ Len(Written) = count
         /\ DOMAIN Written = 1 .. count
         /\ \A k \in 1 .. count : Written[k] = entries[k - 1]
         /\ \A i \in 0 .. count - 1 : entries[i] \in Entries
<1> USE RecentAssumption DEF TypeOK, Slots
<1>1. \A i \in 0 .. count - 1 : entries[i] \in Entries
  OBVIOUS
<1>2. \A k \in 1 .. count : entries[k - 1] \in Entries
  BY <1>1
<1>3. Written \in [1 .. count -> Entries]
  BY <1>2 DEF Written
<1> QED
  BY <1>1, <1>3 DEF Written

(* An entry has one rank at most. *)
LEMMA OneRank ==
  ASSUME Different, NEW e, Ranks(e) # {}
  PROVE  Ranks(e) = {Rank(e)}
<1>1. PICK r \in Ranks(e) : TRUE
  OBVIOUS
<1>2. Ranks(e) = {r}
  BY <1>1 DEF Ranks, Different, Same
<1>3. Rank(e) = r
  BY <1>2 DEF Rank, Ranks
<1> QED
  BY <1>2, <1>3

(* The array once e is noted, from slot to slot.  `last` is the slot that   *)
(* is written over.                                                         *)
LEMMA Noted ==
  ASSUME TypeOK, Different, NEW e \in Entries, Note(e),
         ~(count > 0 /\ Same(entries[0], e))
  PROVE  \E last \in 0 .. count' - 1 :
           /\ count' \in 1 .. Capacity
           /\ count' = IF Ranks(e) = {} /\ count < Capacity THEN count + 1
                                                           ELSE count
           /\ IF Ranks(e) = {} THEN last = count' - 1 ELSE Ranks(e) = {last}
           /\ entries' \in [Slots -> Entries \union {Zero}]
           /\ entries'[0] = e
           /\ \A i \in 1 .. last : entries'[i] = entries[i - 1]
           /\ \A i \in Slots : i > last => entries'[i] = entries[i]
<1> USE RecentAssumption DEF TypeOK, Slots
<1> DEFINE last == IF Ranks(e) = {} THEN count' - 1 ELSE Rank(e)
<1>1. /\ count' = IF Ranks(e) = {} /\ count < Capacity THEN count + 1 ELSE count
      /\ entries' = Shifted(e, last)
  BY DEF Note
<1>2. Ranks(e) # {} => Ranks(e) = {last} /\ last \in 0 .. count - 1
  <2>1. Ranks(e) # {} => Ranks(e) = {last}
    BY OneRank
  <2> QED
    BY <2>1 DEF Ranks
<1>3. count' \in 1 .. Capacity /\ last \in 0 .. count' - 1
  BY <1>1, <1>2
<1> HIDE DEF last
<1>4. /\ entries' \in [Slots -> Entries \union {Zero}]
      /\ entries'[0] = e
      /\ \A i \in 1 .. last : entries'[i] = entries[i - 1]
      /\ \A i \in Slots : i > last => entries'[i] = entries[i]
  BY <1>1, <1>3 DEF Shifted
<1> QED
  BY <1>1, <1>2, <1>3, <1>4 DEF last

(* The array once a name is forgotten, from slot to slot.                   *)
LEMMA Forgotten ==
  ASSUME TypeOK, Different, NEW name, Forget(name),
         NEW e, e.name = name, Ranks(e) # {}
  PROVE  /\ Rank(e) \in 0 .. count - 1 /\ Ranks(e) = {Rank(e)}
         /\ count' = count - 1
         /\ entries' \in [Slots -> Entries \union {Zero}]
         /\ \A i \in 0 .. Rank(e) - 1 : entries'[i] = entries[i]
         /\ \A i \in Rank(e) .. count - 2 : entries'[i] = entries[i + 1]
         /\ entries'[count - 1] = Zero
         /\ \A i \in count .. Capacity - 1 : entries'[i] = entries[i]
         /\ news' = TRUE /\ saved' = Written' /\ UNCHANGED <<text, parsing>>
<1> USE RecentAssumption DEF TypeOK, Slots
<1> DEFINE f == [name |-> name, spelt |-> CHOOSE s \in Spellings : TRUE]
<1>1. Ranks(f) = Ranks(e) /\ Rank(f) = Rank(e)
  BY DEF Ranks, Rank, Same
<1>2. Ranks(e) = {Rank(e)} /\ Rank(e) \in 0 .. count - 1
  <2>1. Ranks(e) = {Rank(e)}
    BY OneRank
  <2> QED
    BY <2>1 DEF Ranks
<1>3. /\ count' = count - 1
      /\ entries' = [i \in Slots |->
           IF i = count - 1 THEN Zero
           ELSE IF Rank(e) <= i /\ i < count - 1 THEN entries[i + 1]
           ELSE entries[i]]
      /\ Return(TRUE)
  BY <1>1 DEF Forget
<1>4. news' = TRUE /\ saved' = Written' /\ UNCHANGED <<text, parsing>>
  BY <1>3 DEF Return
<1> HIDE DEF f
<1> QED
  BY <1>2, <1>3, <1>4

-----------------------------------------------------------------------------
(* A line of different entries reads as itself, when there is room for it.  *)
LEMMA DifferentReadsBack ==
  ASSUME NEW list \in Seq(Entries),
         \A i, j \in DOMAIN list : Same(list[i], list[j]) => i = j
  PROVE  Reads(list, list)
<1>1. \A i \in DOMAIN list : list[i] # Refused
  BY RecentAssumption
<1>2. Accepted(list) = DOMAIN list
  <2>1. \A i \in DOMAIN list : \A j \in 1 .. i - 1 : j \in DOMAIN list /\ j # i
    BY LenProperties
  <2>2. \A i \in DOMAIN list : \A j \in 1 .. i - 1 : ~Same(list[j], list[i])
    BY <2>1
  <2> QED
    BY <1>1, <2>2 DEF Accepted
<1> DEFINE at == [i \in DOMAIN list |-> i]
<1>3. at \in [DOMAIN list -> Accepted(list)]
  BY <1>2
<1> QED
  BY <1>2, <1>3 DEF Reads

(* The array and the line keep their types under every call.                *)
LEMMA RecentTypeStep == TypeOK /\ Different /\ [Next]_vars => TypeOK'
<1> SUFFICES ASSUME TypeOK, Different, [Next]_vars
             PROVE  TypeOK'
  OBVIOUS
<1> USE RecentAssumption
<1>1. ASSUME NEW e \in Entries, Note(e)
      PROVE  TypeOK'
  <2>1. CASE count > 0 /\ Same(entries[0], e)
    BY <1>1, <2>1 DEF Note, Return, TypeOK
  <2>2. CASE ~(count > 0 /\ Same(entries[0], e))
    <3>1. PICK last \in 0 .. count' - 1 :
            /\ count' \in 1 .. Capacity
            /\ count' = IF Ranks(e) = {} /\ count < Capacity THEN count + 1
                                                            ELSE count
            /\ IF Ranks(e) = {} THEN last = count' - 1 ELSE Ranks(e) = {last}
            /\ entries' \in [Slots -> Entries \union {Zero}]
            /\ entries'[0] = e
            /\ \A i \in 1 .. last : entries'[i] = entries[i - 1]
            /\ \A i \in Slots : i > last => entries'[i] = entries[i]
      BY <1>1, <2>2, Noted
    <3>2. Ranks(e) = {last} => last < count
      BY DEF Ranks, TypeOK
    <3>3. \A i \in Slots : i < count' <=> entries'[i] # Zero
      BY <3>1, <3>2 DEF TypeOK, Slots
    <3>4. Written' \in Seq(Entries)
      <4>1. \A k \in 1 .. count' : entries'[k - 1] \in Entries
        BY <3>1, <3>3 DEF Slots
      <4> QED
        BY <3>1, <4>1 DEF Written
    <3>5. saved' = Written' /\ news' = TRUE /\ UNCHANGED <<text, parsing>>
      BY <1>1, <2>2 DEF Note, Return
    <3>6. saved' \in Seq(Entries \union {Refused})
      BY <3>4, <3>5
    <3> QED
      BY <3>1, <3>3, <3>5, <3>6 DEF TypeOK
  <2> QED
    BY <2>1, <2>2
<1>2. ASSUME NEW name, Forget(name)
      PROVE  TypeOK'
  <2> DEFINE e == [name |-> name, spelt |-> CHOOSE s \in Spellings : TRUE]
  <2>1. CASE Ranks(e) = {}
    BY <1>2, <2>1 DEF Forget, Return, TypeOK
  <2>2. CASE Ranks(e) # {}
    <3>1. e.name = name
      OBVIOUS
    <3> HIDE DEF e
    <3>2. /\ Rank(e) \in 0 .. count - 1
          /\ count' = count - 1
          /\ entries' \in [Slots -> Entries \union {Zero}]
          /\ \A i \in 0 .. Rank(e) - 1 : entries'[i] = entries[i]
          /\ \A i \in Rank(e) .. count - 2 : entries'[i] = entries[i + 1]
          /\ entries'[count - 1] = Zero
          /\ \A i \in count .. Capacity - 1 : entries'[i] = entries[i]
          /\ news' = TRUE /\ saved' = Written' /\ UNCHANGED <<text, parsing>>
      BY <1>2, <2>2, <3>1, Forgotten
    <3>3. \A i \in Slots : i < count' <=> entries'[i] # Zero
      BY <3>2 DEF TypeOK, Slots
    <3>4. Written' \in Seq(Entries)
      <4>1. \A k \in 1 .. count' : entries'[k - 1] \in Entries
        BY <3>2, <3>3 DEF TypeOK, Slots
      <4>2. count' \in Nat
        BY <3>2 DEF TypeOK
      <4> QED
        BY <4>1, <4>2 DEF Written
    <3>5. saved' \in Seq(Entries \union {Refused})
      BY <3>2, <3>4
    <3> QED
      BY <3>2, <3>3, <3>5 DEF TypeOK
  <2> QED
    BY <2>1, <2>2
<1>3. ASSUME NEW i \in Slots, NoteOwn(i)
      PROVE  TypeOK'
  BY <1>1, <1>3 DEF NoteOwn, TypeOK
<1>4. CASE Parse
  <2>1. entries' = [i \in Slots |-> Zero] /\ count' = 0
    BY <1>4 DEF Parse
  <2>2. entries' \in [Slots -> Entries \union {Zero}] /\ count' \in 0 .. Capacity
          /\ \A i \in Slots : i < count' <=> entries'[i] # Zero
    BY <2>1 DEF Slots
  <2> QED
    BY <1>4, <2>2 DEF Parse, TypeOK
<1>5. CASE ParseField
  <2>1. Head(text) \in Entries \union {Refused}
          /\ text' \in Seq(Entries \union {Refused})
    BY <1>5, HeadTailProperties DEF ParseField, TypeOK
  <2> QED
    BY <1>5, <2>1 DEF ParseField, TypeOK, Slots
<1>6. CASE ParseEnd
  <2>1. text' \in Seq(Entries \union {Refused})
    BY <1>6 DEF ParseEnd
  <2> QED
    BY <1>6, <2>1 DEF ParseEnd, TypeOK
<1>7. CASE UNCHANGED vars
  BY <1>7 DEF vars, TypeOK
<1> QED
  BY <1>1, <1>2, <1>3, <1>4, <1>5, <1>6, <1>7 DEF Next

(* The entries in use stay different, whatever is shifted and read.         *)
LEMMA DifferentStep == TypeOK /\ Different /\ [Next]_vars => Different'
<1> SUFFICES ASSUME TypeOK, Different, [Next]_vars
             PROVE  Different'
  OBVIOUS
<1> USE RecentAssumption
<1>1. UNCHANGED <<entries, count>> => Different'
  BY DEF Different, Same
<1>2. ASSUME NEW e \in Entries, Note(e)
      PROVE  Different'
  <2>1. CASE count > 0 /\ Same(entries[0], e)
    BY <1>1, <1>2, <2>1 DEF Note
  <2>2. CASE ~(count > 0 /\ Same(entries[0], e))
    <3>1. PICK last \in 0 .. count' - 1 :
            /\ count' \in 1 .. Capacity
            /\ count' = IF Ranks(e) = {} /\ count < Capacity THEN count + 1
                                                            ELSE count
            /\ IF Ranks(e) = {} THEN last = count' - 1 ELSE Ranks(e) = {last}
            /\ entries' \in [Slots -> Entries \union {Zero}]
            /\ entries'[0] = e
            /\ \A i \in 1 .. last : entries'[i] = entries[i - 1]
            /\ \A i \in Slots : i > last => entries'[i] = entries[i]
      BY <1>2, <2>2, Noted
    <3> DEFINE was(i) == IF i <= last THEN i - 1 ELSE i
    <3>2. \A i \in 1 .. count' - 1 :
            /\ was(i) \in (0 .. count - 1) \ Ranks(e)
            /\ entries'[i] = entries[was(i)]
      <4>1. \A i \in 1 .. count' - 1 : entries'[i] = entries[was(i)]
        BY <3>1 DEF Slots
      <4>2. \A i \in 1 .. count' - 1 : was(i) \in 0 .. count - 1
        BY <3>1 DEF TypeOK
      <4>3. \A i \in 1 .. count' - 1 : was(i) \notin Ranks(e)
        BY <3>1, <4>2
      <4> QED
        BY <4>1, <4>2, <4>3
    <3>3. \A i \in 1 .. count' - 1 : ~Same(entries'[i], e)
      BY <3>2 DEF Ranks
    <3>4. \A i, j \in 1 .. count' - 1 : was(i) = was(j) => i = j
      BY <3>1
    <3> HIDE DEF was
    <3> QED
      BY <3>1, <3>2, <3>3, <3>4 DEF Different, Same
  <2> QED
    BY <2>1, <2>2
<1>3. ASSUME NEW name, Forget(name)
      PROVE  Different'
  <2> DEFINE e == [name |-> name, spelt |-> CHOOSE s \in Spellings : TRUE]
  <2>1. CASE Ranks(e) = {}
    BY <1>1, <1>3, <2>1 DEF Forget
  <2>2. CASE Ranks(e) # {}
    <3>1. e.name = name
      OBVIOUS
    <3> HIDE DEF e
    <3>2. /\ Rank(e) \in 0 .. count - 1
          /\ count' = count - 1
          /\ \A i \in 0 .. Rank(e) - 1 : entries'[i] = entries[i]
          /\ \A i \in Rank(e) .. count - 2 : entries'[i] = entries[i + 1]
      BY <1>3, <2>2, <3>1, Forgotten
    <3> DEFINE was(i) == IF i < Rank(e) THEN i ELSE i + 1
    <3>3. \A i \in 0 .. count' - 1 :
            was(i) \in 0 .. count - 1 /\ entries'[i] = entries[was(i)]
      BY <3>2 DEF TypeOK
    <3>4. \A i, j \in 0 .. count' - 1 : was(i) = was(j) => i = j
      BY <3>2 DEF TypeOK
    <3> HIDE DEF was
    <3> QED
      BY <3>3, <3>4 DEF Different
  <2> QED
    BY <2>1, <2>2
<1>4. ASSUME NEW i \in Slots, NoteOwn(i)
      PROVE  Different'
  BY <1>2, <1>4 DEF NoteOwn, TypeOK
<1>5. CASE Parse
  BY <1>5 DEF Parse, Different
<1>6. CASE ParseField
  <2> DEFINE field == Head(text)
  <2>1. CASE field # Refused /\ Ranks(field) = {}
    <3>1. entries' = [entries EXCEPT ![count] = field] /\ count' = count + 1
            /\ count \in Slots
      BY <1>6, <2>1 DEF ParseField, TypeOK, Slots
    <3> HIDE DEF field
    <3>2. entries'[count] = field
            /\ \A i \in 0 .. count - 1 : entries'[i] = entries[i]
      BY <3>1 DEF TypeOK, Slots
    <3>3. \A i \in 0 .. count - 1 : ~Same(entries[i], field)
      BY <2>1 DEF Ranks
    <3> QED
      BY <3>1, <3>2, <3>3 DEF Different, Same, TypeOK
  <2>2. CASE ~(field # Refused /\ Ranks(field) = {})
    <3>1. entries' = [entries EXCEPT ![count] = Zero] /\ count' = count
      BY <1>6, <2>2 DEF ParseField
    <3>2. \A i \in 0 .. count - 1 : entries'[i] = entries[i]
      BY <3>1 DEF TypeOK, Slots
    <3> QED
      BY <3>1, <3>2 DEF Different
  <2> QED
    BY <2>1, <2>2
<1>7. CASE ParseEnd
  BY <1>1, <1>7 DEF ParseEnd
<1>8. CASE UNCHANGED vars
  BY <1>1, <1>8 DEF vars
<1> QED
  BY <1>2, <1>3, <1>4, <1>5, <1>6, <1>7, <1>8 DEF Next

-----------------------------------------------------------------------------
(* A field more is read: it is kept when it is an entry and no repeat, in   *)
(* the place its order gives it, and leaves no trace when it is not.        *)
LEMMA FieldLeft ==
  ASSUME TypeOK, ReadSoFar, ParseField
  PROVE  ReadSoFar'
<1> USE RecentAssumption
<1> DEFINE field == Head(text)
           p     == Done + 1
<1>1. /\ text \in Seq(Entries \union {Refused}) /\ text # <<>>
      /\ saved' = saved
      /\ Len(text') = Len(text) - 1
      /\ \A i \in 1 .. Len(text) - 1 : text'[i] = text[i + 1]
      /\ field = text[1]
  BY HeadTailProperties DEF ParseField, TypeOK
<1>2. /\ Len(text) \in Nat \ {0} /\ Len(saved) \in Nat /\ Len(text) <= Len(saved)
      /\ Done \in Nat /\ p \in 1 .. Len(saved)
      /\ Len(text') <= Len(saved')
      /\ Done' = p
  BY <1>1 DEF Done, ReadSoFar, TypeOK
<1>3. field = saved[p]
  BY <1>1, <1>2 DEF ReadSoFar
<1>4. \A i \in 1 .. Len(text') : text'[i] = saved'[Done' + i]
  BY <1>1, <1>2 DEF ReadSoFar
<1>5. PICK at \in [1 .. count -> Accepted(saved)] :
        /\ \A k \in 1 .. count : entries[k - 1] = saved[at[k]] /\ at[k] <= Done
        /\ \A k, l \in 1 .. count : k < l => at[k] < at[l]
        /\ \A i \in Accepted(saved) : i <= Done => \E k \in 1 .. count : at[k] = i
  BY DEF ReadSoFar
<1>6. \A i \in Accepted(saved) : i \in 1 .. Len(saved) /\ (i <= p => i <= Done \/ i = p)
  BY <1>2 DEF Accepted, TypeOK
<1>7. \A j \in 1 .. Done : saved[j] # Refused =>
        \E k \in 1 .. count : Same(entries[k - 1], saved[j])
  BY DEF ReadSoFar
<1>8. \A k \in 1 .. count : k - 1 \in 0 .. count - 1 /\ k - 1 \in Slots
  BY DEF TypeOK, Slots
<1>9. CASE field # Refused /\ Ranks(field) = {}
  <2>1. entries' = [entries EXCEPT ![count] = field] /\ count' = count + 1
          /\ count \in Slots
    BY <1>9 DEF ParseField, TypeOK, Slots
  <2>2. /\ entries'[count] = field
        /\ \A k \in 1 .. count : entries'[k - 1] = entries[k - 1]
    BY <1>8, <2>1 DEF TypeOK
  <2>3. \A k \in 1 .. count : ~Same(entries[k - 1], field)
    BY <1>8, <1>9 DEF Ranks
  <2>4. p \in Accepted(saved)
    <3>1. ASSUME NEW j \in 1 .. p - 1, saved[j] # Refused
          PROVE  ~Same(saved[j], saved[p])
      <4>1. j \in 1 .. Done
        BY <1>2
      <4>2. PICK k \in 1 .. count : Same(entries[k - 1], saved[j])
        BY <1>7, <3>1, <4>1
      <4> QED
        BY <1>3, <2>3, <4>2 DEF Same
    <3> QED
      BY <1>2, <1>3, <1>9, <3>1 DEF Accepted, TypeOK
  <2> DEFINE then == [k \in 1 .. count + 1 |-> IF k = count + 1 THEN p ELSE at[k]]
  <2> HIDE DEF field, p
  <2>5. then \in [1 .. count' -> Accepted(saved')]
    BY <1>1, <1>5, <2>1, <2>4 DEF TypeOK
  <2>6. \A k \in 1 .. count' : entries'[k - 1] = saved'[then[k]] /\ then[k] <= Done'
    <3>1. ASSUME NEW k \in 1 .. count
          PROVE  entries'[k - 1] = saved'[then[k]] /\ then[k] <= Done'
      <4>1. then[k] = at[k] /\ at[k] \in Nat
        BY <1>5, <1>6 DEF TypeOK
      <4>2. at[k] <= p
        BY <1>2, <1>5, <4>1 DEF p
      <4> QED
        BY <1>1, <1>2, <1>5, <2>2, <4>1, <4>2
    <3>2. then[count + 1] = p
      BY DEF TypeOK
    <3>3. ASSUME NEW k, k = count + 1
          PROVE  entries'[k - 1] = saved'[then[k]] /\ then[k] <= Done'
      <4>1. k - 1 = count /\ p <= p
        BY <1>2, <3>3 DEF TypeOK
      <4> QED
        BY <1>1, <1>2, <1>3, <2>2, <3>2, <3>3, <4>1
    <3>4. \A k \in 1 .. count' : k \in 1 .. count \/ k = count + 1
      BY <2>1 DEF TypeOK
    <3> HIDE DEF then
    <3> QED
      BY <3>1, <3>3, <3>4
  <2>7. \A k, l \in 1 .. count' : k < l => then[k] < then[l]
    <3>1. \A k \in 1 .. count : at[k] < p
      BY <1>2, <1>5, <1>6 DEF p
    <3>2. \A k \in 1 .. count : then[k] = at[k]
      BY DEF TypeOK
    <3>3. then[count + 1] = p
      BY DEF TypeOK
    <3> HIDE DEF then
    <3> SUFFICES ASSUME NEW k \in 1 .. count', NEW l \in 1 .. count', k < l
                 PROVE  then[k] < then[l]
      OBVIOUS
    <3>4. k \in 1 .. count
      BY <2>1 DEF TypeOK
    <3>5. CASE l \in 1 .. count
      BY <1>5, <3>2, <3>4, <3>5
    <3>6. CASE l = count + 1
      BY <3>1, <3>2, <3>3, <3>4, <3>6
    <3> QED
      BY <2>1, <3>5, <3>6 DEF TypeOK
  <2>8. \A i \in Accepted(saved') : i <= Done' => \E k \in 1 .. count' : then[k] = i
    <3>1. count + 1 \in 1 .. count' /\ then[count + 1] = p
      BY <2>1 DEF TypeOK
    <3>2. \A k \in 1 .. count : k \in 1 .. count' /\ then[k] = at[k]
      BY <2>1 DEF TypeOK
    <3> HIDE DEF then
    <3> QED
      BY <1>1, <1>2, <1>5, <1>6, <3>1, <3>2
  <2>9. \A j \in 1 .. Done' : saved'[j] # Refused =>
          \E k \in 1 .. count' : Same(entries'[k - 1], saved'[j])
    <3>1. ASSUME NEW j \in 1 .. Done, saved[j] # Refused
          PROVE  \E k \in 1 .. count' : Same(entries'[k - 1], saved[j])
      BY <1>7, <2>1, <2>2, <3>1 DEF TypeOK
    <3>2. \E k \in 1 .. count' : Same(entries'[k - 1], saved[p])
      <4>1. count + 1 \in 1 .. count' /\ (count + 1) - 1 = count
        BY <2>1 DEF TypeOK
      <4>2. Same(entries'[count], saved[p])
        BY <1>3, <2>2 DEF Same
      <4> QED
        BY <4>1, <4>2
    <3>3. \A j \in 1 .. Done' : j \in 1 .. Done \/ j = p
      BY <1>2 DEF p
    <3> QED
      BY <1>1, <3>1, <3>2, <3>3
  <2> HIDE DEF then
  <2> QED
    BY <1>2, <1>4, <2>5, <2>6, <2>7, <2>8, <2>9 DEF ReadSoFar
<1>10. CASE ~(field # Refused /\ Ranks(field) = {})
  <2>1. entries' = [entries EXCEPT ![count] = Zero] /\ count' = count
    BY <1>10 DEF ParseField
  <2>2. \A k \in 1 .. count : entries'[k - 1] = entries[k - 1]
    BY <1>8, <2>1 DEF TypeOK
  <2>3. field # Refused => \E k \in 1 .. count : Same(entries[k - 1], field)
    <3> HIDE DEF field
    <3>1. \A r \in Ranks(field) : r \in 0 .. count - 1 /\ Same(entries[r], field)
      BY DEF Ranks
    <3>2. ASSUME NEW r \in 0 .. count - 1, Same(entries[r], field)
          PROVE  \E k \in 1 .. count : Same(entries[k - 1], field)
      <4>1. r + 1 \in 1 .. count /\ (r + 1) - 1 = r
        BY DEF TypeOK
      <4> QED
        BY <3>2, <4>1
    <3> QED
      BY <1>10, <3>1, <3>2
  <2> HIDE DEF field
  <2>4. p \notin Accepted(saved)
    <3>1. ASSUME NEW k \in 1 .. count, Same(entries[k - 1], field)
          PROVE  p \notin Accepted(saved)
      <4>1. /\ at[k] \in 1 .. p - 1
            /\ saved[at[k]] # Refused
            /\ Same(saved[at[k]], saved[p])
        BY <1>2, <1>3, <1>5, <1>6, <3>1 DEF Accepted
      <4> QED
        BY <4>1 DEF Accepted
    <3> QED
      BY <1>3, <2>3, <3>1 DEF Accepted
  <2> HIDE DEF p
  <2>5. \A k \in 1 .. count' : entries'[k - 1] = saved'[at[k]] /\ at[k] <= Done'
    <3>1. \A k \in 1 .. count : at[k] \in Nat /\ at[k] <= p
      BY <1>2, <1>5, <1>6 DEF p
    <3> QED
      BY <1>1, <1>2, <1>5, <2>1, <2>2, <3>1
  <2>6. \A i \in Accepted(saved') : i <= Done' => \E k \in 1 .. count' : at[k] = i
    BY <1>1, <1>2, <1>5, <1>6, <2>1, <2>4
  <2>7. \A j \in 1 .. Done' : saved'[j] # Refused =>
          \E k \in 1 .. count' : Same(entries'[k - 1], saved'[j])
    BY <1>1, <1>2, <1>3, <1>7, <2>1, <2>2, <2>3 DEF p
  <2>8. at \in [1 .. count' -> Accepted(saved')]
    BY <1>1, <1>5, <2>1
  <2> QED
    BY <1>1, <1>2, <1>4, <1>5, <2>1, <2>5, <2>6, <2>7, <2>8 DEF ReadSoFar
<1> QED
  BY <1>9, <1>10

(* The line is read to its end, or as far as there is room.                 *)
LEMMA LineRead ==
  ASSUME TypeOK, ReadSoFar, text = <<>> \/ count = Capacity
  PROVE  Reads(saved, Written)
<1>1. PICK at \in [1 .. count -> Accepted(saved)] :
        /\ \A k \in 1 .. count : entries[k - 1] = saved[at[k]] /\ at[k] <= Done
        /\ \A k, l \in 1 .. count : k < l => at[k] < at[l]
        /\ \A i \in Accepted(saved) : i <= Done => \E k \in 1 .. count : at[k] = i
  BY DEF ReadSoFar
<1>2. DOMAIN Written = 1 .. count /\ Len(Written) = count
        /\ \A k \in 1 .. count : Written[k] = entries[k - 1]
  BY WrittenIs
<1>3. \A i \in Accepted(saved) : i \in 1 .. Len(saved)
  BY DEF Accepted, TypeOK
<1>4. ASSUME NEW i \in Accepted(saved)
      PROVE  \/ \E k \in 1 .. count : at[k] = i
             \/ count = Capacity /\ \A k \in 1 .. count : at[k] < i
  <2>1. CASE i <= Done
    BY <1>1, <2>1
  <2>2. CASE ~(i <= Done)
    <3>1. text # <<>>
      BY <1>3, <2>2 DEF Done, TypeOK
    <3>2. \A k \in 1 .. count : at[k] < i
      BY <1>1, <1>3, <2>2 DEF Done, TypeOK
    <3> QED
      BY <3>1, <3>2
  <2> QED
    BY <2>1, <2>2
<1>5. at \in [DOMAIN Written -> Accepted(saved)]
  BY <1>1, <1>2
<1>6. \A k \in DOMAIN Written : Written[k] = saved[at[k]]
  BY <1>1, <1>2
<1>7. \A k, l \in DOMAIN Written : k < l => at[k] < at[l]
  BY <1>1, <1>2
<1>8. \A i \in Accepted(saved) :
        \/ \E k \in DOMAIN Written : at[k] = i
        \/ Len(Written) = Capacity /\ \A k \in DOMAIN Written : at[k] < i
  BY <1>2, <1>4
<1> QED
  BY <1>5, <1>6, <1>7, <1>8 DEF Reads

(* A list that was saved as it now is reads back.                           *)
LEMMA SavedNow ==
  ASSUME TypeOK', Different', saved' = Written'
  PROVE  Reads(saved', Written')
<1> USE RecentAssumption
<1> DEFINE list == Written'
<1>1. list = [k \in 1 .. count' |-> entries'[k - 1]] /\ count' \in Nat
  BY DEF Written, TypeOK
<1>2. \A k \in 1 .. count' : entries'[k - 1] \in Entries
  BY DEF TypeOK, Slots
<1>3. list \in Seq(Entries) /\ DOMAIN list = 1 .. count'
  BY <1>1, <1>2
<1>4. \A i, j \in DOMAIN list : Same(list[i], list[j]) => i = j
  <2> SUFFICES ASSUME NEW i \in DOMAIN list, NEW j \in DOMAIN list,
                      Same(list[i], list[j])
               PROVE  i = j
    OBVIOUS
  <2>1. list[i] = entries'[i - 1] /\ list[j] = entries'[j - 1]
    BY <1>1
  <2>2. /\ i - 1 \in 0 .. count' - 1 /\ j - 1 \in 0 .. count' - 1
        /\ i \in Nat /\ j \in Nat
    <3>1. i \in 1 .. count' /\ j \in 1 .. count'
      BY <1>3
    <3>2. count' \in Nat
      BY <1>1
    <3> HIDE DEF list
    <3> QED
      BY <3>1, <3>2
  <2>3. i - 1 = j - 1
    BY <2>1, <2>2 DEF Different
  <2> QED
    BY <2>2, <2>3
<1> HIDE DEF list
<1>5. Reads(list, list)
  BY <1>3, <1>4, DifferentReadsBack
<1> QED
  BY <1>5 DEF list

(* The invariant holds at the start, on whatever line was found.            *)
LEMMA RecentInvInit == Init => RecentInv
<1> SUFFICES ASSUME Init
             PROVE  RecentInv
  OBVIOUS
<1> USE RecentAssumption DEF Init
<1>1. saved \in Seq(Entries \union {Refused})
  BY DEF Foreign
<1>2. \A i \in Slots : i < count <=> entries[i] # Zero
  BY DEF Slots
<1>3. TypeOK
  <2>1. entries \in [Slots -> Entries \union {Zero}] /\ count \in 0 .. Capacity
    OBVIOUS
  <2>2. text \in Seq(Entries \union {Refused}) /\ parsing \in BOOLEAN /\ news \in BOOLEAN
    BY <1>1
  <2> QED
    BY <1>1, <1>2, <2>1, <2>2 DEF TypeOK
<1>4. Different
  BY DEF Different
<1>5. ReadSoFar
  <2>1. Len(saved) \in Nat /\ Done = 0 /\ 1 .. count = {} /\ 1 .. Done = {}
    BY <1>1 DEF Done
  <2>2. [k \in 1 .. count |-> k] \in [1 .. count -> Accepted(saved)]
    BY <2>1
  <2>3. \A i \in Accepted(saved) : ~(i <= Done)
    BY <1>1, <2>1 DEF Accepted
  <2>4. Len(text) <= Len(saved) /\ \A i \in 1 .. Len(text) : text[i] = saved[Done + i]
    BY <1>1, <2>1
  <2> QED
    BY <2>1, <2>2, <2>3, <2>4 DEF ReadSoFar
<1> QED
  BY <1>3, <1>4, <1>5 DEF RecentInv

(* And every call keeps it.                                                 *)
LEMMA RecentInvStep == RecentInv /\ [Next]_vars => RecentInv'
<1> SUFFICES ASSUME RecentInv, [Next]_vars
             PROVE  RecentInv'
  OBVIOUS
<1>1. TypeOK /\ Different /\ TypeOK' /\ Different'
  BY RecentTypeStep, DifferentStep DEF RecentInv
<1>2. saved' = Written' => Reads(saved', Written')
  BY <1>1, SavedNow
<1>3. UNCHANGED <<entries, count, saved>> /\ ~parsing => Reads(saved', Written')
  BY DEF RecentInv, Written
<1>4. ASSUME NEW e, Note(e)
      PROVE  ~parsing' /\ Reads(saved', Written')
  BY <1>2, <1>3, <1>4 DEF Note, Return
<1>5. ASSUME NEW name, Forget(name)
      PROVE  ~parsing' /\ Reads(saved', Written')
  BY <1>2, <1>3, <1>5 DEF Forget, Return
<1>6. CASE \E i \in Slots : NoteOwn(i)
  BY <1>1, <1>4, <1>6 DEF NoteOwn, RecentInv
<1>7. CASE Parse
  <2>1. Len(saved) \in Nat /\ Len(text') = Len(saved') /\ text' = saved'
          /\ 1 .. count' = {} /\ parsing'
    BY <1>1, <1>7 DEF Parse, TypeOK
  <2>2. [k \in 1 .. count' |-> k] \in [1 .. count' -> Accepted(saved')]
    BY <2>1
  <2>3. Done' = 0 /\ 1 .. Done' = {}
    BY <1>7, <2>1 DEF Parse, Done
  <2>4. \A i \in Accepted(saved') : ~(i <= Done')
    BY <1>1, <2>3 DEF Accepted, TypeOK
  <2>5. Len(text') <= Len(saved') /\ \A i \in 1 .. Len(text') : text'[i] = saved'[Done' + i]
    BY <1>1, <1>7, <2>1, <2>3 DEF Parse, TypeOK
  <2>6. ReadSoFar'
    BY <2>1, <2>2, <2>3, <2>4, <2>5 DEF ReadSoFar
  <2> QED
    BY <1>1, <2>1, <2>6 DEF RecentInv
<1>8. CASE ParseField
  <2>1. ReadSoFar' /\ parsing'
    BY <1>8, FieldLeft DEF RecentInv, ParseField
  <2> QED
    BY <1>1, <2>1 DEF RecentInv
<1>9. CASE ParseEnd
  <2>1. Reads(saved, Written)
    BY <1>9, LineRead DEF RecentInv, ParseEnd
  <2>2. ~parsing' /\ Reads(saved', Written')
    BY <1>9, <2>1 DEF ParseEnd, Written
  <2> QED
    BY <1>1, <2>2 DEF RecentInv
<1>10. CASE UNCHANGED vars
  <2>1. ReadSoFar => ReadSoFar'
    <3>1. Done' = Done /\ Accepted(saved') = Accepted(saved)
      BY <1>10 DEF vars, Done
    <3>2. UNCHANGED <<entries, count, text, saved>>
      BY <1>10 DEF vars
    <3> SUFFICES ASSUME ReadSoFar
                 PROVE  ReadSoFar'
      OBVIOUS
    <3>3. PICK at \in [1 .. count -> Accepted(saved)] :
            /\ \A k \in 1 .. count : entries[k - 1] = saved[at[k]] /\ at[k] <= Done
            /\ \A k, l \in 1 .. count : k < l => at[k] < at[l]
            /\ \A i \in Accepted(saved) : i <= Done => \E k \in 1 .. count : at[k] = i
      BY DEF ReadSoFar
    <3>4. at \in [1 .. count' -> Accepted(saved')]
      BY <3>1, <3>2
    <3>5. \A k \in 1 .. count' : entries'[k - 1] = saved'[at[k]] /\ at[k] <= Done'
      BY <3>1, <3>2, <3>3
    <3>6. \A i \in Accepted(saved') : i <= Done' => \E k \in 1 .. count' : at[k] = i
      BY <3>1, <3>2, <3>3
    <3>7. \A j \in 1 .. Done' : saved'[j] # Refused =>
            \E k \in 1 .. count' : Same(entries'[k - 1], saved'[j])
      BY <3>1, <3>2 DEF ReadSoFar
    <3>8. Len(text') <= Len(saved') /\ \A i \in 1 .. Len(text') : text'[i] = saved'[Done' + i]
      BY <3>1, <3>2 DEF ReadSoFar
    <3> QED
      BY <3>2, <3>3, <3>4, <3>5, <3>6, <3>7, <3>8 DEF ReadSoFar
  <2> QED
    BY <1>1, <1>3, <1>10, <2>1 DEF vars, RecentInv
<1> QED
  BY <1>1, <1>4, <1>5, <1>6, <1>7, <1>8, <1>9, <1>10 DEF Next, RecentInv

(* Reading the line the caller saved, at any moment, gives the list as it   *)
(* is, in its order, and nothing is left in the slots behind it.            *)
THEOREM SavingLosesNothing == Spec => []SavedReadsBack
<1>1. RecentInv => SavedReadsBack
  BY DEF RecentInv, SavedReadsBack
<1> QED
  BY <1>1, RecentInvInit, RecentInvStep, PTL DEF Spec

-----------------------------------------------------------------------------
(* The array is the list of RecentList.                                    *)

(* A sequence without the element in one of its places.                     *)
LEMMA Removed ==
  ASSUME NEW s \in Seq(Entries), NEW i \in 1 .. Len(s)
  PROVE  /\ List!RemoveAt(s, i) \in Seq(Entries)
         /\ Len(List!RemoveAt(s, i)) = Len(s) - 1
         /\ \A k \in 1 .. Len(s) - 1 :
              List!RemoveAt(s, i)[k] = IF k < i THEN s[k] ELSE s[k + 1]
<1> DEFINE before == SubSeq(s, 1, i - 1)
           behind == SubSeq(s, i + 1, Len(s))
<1>1. /\ before \in Seq(Entries) /\ Len(before) = i - 1
      /\ \A k \in 1 .. i - 1 : before[k] = s[k]
  OBVIOUS
<1>2. /\ behind \in Seq(Entries) /\ Len(behind) = Len(s) - i
      /\ \A k \in 1 .. Len(s) - i : behind[k] = s[i + k]
  OBVIOUS
<1> HIDE DEF before, behind
<1>3. /\ before \o behind \in Seq(Entries)
      /\ Len(before \o behind) = Len(before) + Len(behind)
      /\ \A k \in 1 .. Len(before) + Len(behind) : (before \o behind)[k] =
           IF k <= Len(before) THEN before[k] ELSE behind[k - Len(before)]
  BY <1>1, <1>2, ConcatProperties
<1>4. \A k \in 1 .. Len(s) - 1 :
        (before \o behind)[k] = IF k < i THEN s[k] ELSE s[k + 1]
  <2> SUFFICES ASSUME NEW k \in 1 .. Len(s) - 1
               PROVE  (before \o behind)[k] = IF k < i THEN s[k] ELSE s[k + 1]
    OBVIOUS
  <2>1. CASE k < i
    BY <1>1, <1>2, <1>3, <2>1
  <2>2. CASE ~(k < i)
    <3> DEFINE j == k - (i - 1)
    <3>1. j \in 1 .. Len(s) - i /\ i + j = k + 1
      BY <2>2
    <3>2. k \in 1 .. Len(before) + Len(behind) /\ ~(k <= Len(before))
            /\ k - Len(before) = j
      BY <1>1, <1>2, <2>2
    <3> HIDE DEF j
    <3>3. (before \o behind)[k] = behind[j]
      BY <1>3, <3>2
    <3> QED
      BY <1>2, <2>2, <3>1, <3>3
  <2> QED
    BY <2>1, <2>2
<1> QED
  <2>1. List!RemoveAt(s, i) = before \o behind
    BY DEF before, behind, List!RemoveAt
  <2>2. Len(before) + Len(behind) = Len(s) - 1
    BY <1>1, <1>2
  <2> QED
    BY <1>3, <1>4, <2>1, <2>2

(* The list without a name, from the array: the entry of that rank is gone. *)
LEMMA WithoutIs ==
  ASSUME TypeOK, Different, NEW e
  PROVE  /\ List!Without(e.name) \in Seq(Entries)
         /\ Ranks(e) = {} => List!Without(e.name) = Written
         /\ Ranks(e) # {} =>
              /\ Len(List!Without(e.name)) = count - 1
              /\ \A k \in 1 .. count - 1 :
                   List!Without(e.name)[k] = IF k <= Rank(e) THEN entries[k - 1]
                                                            ELSE entries[k]
<1>1. /\ Written \in Seq(Entries) /\ Len(Written) = count
      /\ DOMAIN Written = 1 .. count
      /\ \A k \in 1 .. count : Written[k] = entries[k - 1]
  BY WrittenIs
<1>2. List!At(e.name) = {i \in 1 .. count : Same(entries[i - 1], e)}
  BY <1>1 DEF List!At, Same
<1>3. CASE Ranks(e) = {}
  <2>1. List!At(e.name) = {}
    BY <1>2, <1>3 DEF Ranks, TypeOK
  <2> QED
    BY <1>1, <1>3, <2>1 DEF List!Without
<1>4. CASE Ranks(e) # {}
  <2>1. Ranks(e) = {Rank(e)} /\ Rank(e) \in 0 .. count - 1
    <3>1. Ranks(e) = {Rank(e)}
      BY <1>4, OneRank
    <3> QED
      BY <3>1 DEF Ranks
  <2> DEFINE at == Rank(e) + 1
  <2>2. at \in 1 .. count
    BY <2>1 DEF TypeOK
  <2>3. List!At(e.name) = {at}
    <3>1. \A i \in 1 .. count : Same(entries[i - 1], e) <=> i = at
      <4>1. \A i \in 1 .. count : Same(entries[i - 1], e) <=> i - 1 \in Ranks(e)
        BY DEF Ranks, TypeOK
      <4> QED
        BY <2>1, <4>1 DEF TypeOK
    <3> QED
      BY <1>2, <2>2, <3>1
  <2>4. List!Without(e.name) = List!RemoveAt(Written, at)
    BY <2>3 DEF List!Without
  <2>5. /\ List!RemoveAt(Written, at) \in Seq(Entries)
        /\ Len(List!RemoveAt(Written, at)) = count - 1
        /\ \A k \in 1 .. count - 1 : List!RemoveAt(Written, at)[k] =
             IF k < at THEN Written[k] ELSE Written[k + 1]
    BY <1>1, <2>2, Removed
  <2>6. \A k \in 1 .. count - 1 :
          List!Without(e.name)[k] = IF k <= Rank(e) THEN entries[k - 1] ELSE entries[k]
    <3> SUFFICES ASSUME NEW k \in 1 .. count - 1
                 PROVE  List!Without(e.name)[k] =
                          IF k <= Rank(e) THEN entries[k - 1] ELSE entries[k]
      OBVIOUS
    <3>1. Written[k] = entries[k - 1] /\ Written[k + 1] = entries[k]
      <4>1. k \in 1 .. count /\ k + 1 \in 1 .. count /\ (k + 1) - 1 = k
        BY DEF TypeOK
      <4> QED
        BY <1>1, <4>1
    <3>2. k < at <=> k <= Rank(e)
      BY <2>1 DEF TypeOK
    <3> HIDE DEF at
    <3> QED
      BY <2>4, <2>5, <3>1, <3>2
  <2> HIDE DEF at
  <2> QED
    BY <1>4, <2>4, <2>5, <2>6
<1> QED
  BY <1>3, <1>4

(* A note that moves or adds an entry puts it in front of the rest.         *)
LEMMA NoteIsNote ==
  ASSUME TypeOK, Different, NEW e \in Entries, Note(e)
  PROVE  List!Note(e)
<1> USE RecentAssumption
<1>1. /\ Written \in Seq(Entries) /\ Len(Written) = count
      /\ \A k \in 1 .. count : Written[k] = entries[k - 1]
  BY WrittenIs
<1>2. /\ Written # <<>> <=> count > 0
      /\ count > 0 => Head(Written) = entries[0]
  BY <1>1 DEF TypeOK
<1>3. CASE count > 0 /\ Same(entries[0], e)
  <2>1. UNCHANGED <<entries, count>> /\ news' = FALSE
    BY <1>3 DEF Note, Return
  <2>2. Written' = Written
    BY <2>1 DEF Written
  <2> QED
    BY <1>2, <1>3, <2>1, <2>2 DEF List!Note, Same
<1>4. CASE ~(count > 0 /\ Same(entries[0], e))
  <2>1. PICK last \in 0 .. count' - 1 :
          /\ count' \in 1 .. Capacity
          /\ count' = IF Ranks(e) = {} /\ count < Capacity THEN count + 1
                                                          ELSE count
          /\ IF Ranks(e) = {} THEN last = count' - 1 ELSE Ranks(e) = {last}
          /\ entries' \in [Slots -> Entries \union {Zero}]
          /\ entries'[0] = e
          /\ \A i \in 1 .. last : entries'[i] = entries[i - 1]
          /\ \A i \in Slots : i > last => entries'[i] = entries[i]
    BY <1>4, Noted
  <2>2. news' = TRUE
    BY <1>4 DEF Note, Return
  <2> DEFINE rest == List!Without(e.name)
             all  == <<e>> \o rest
  <2>3. /\ rest \in Seq(Entries)
        /\ Ranks(e) = {} => rest = Written
        /\ Ranks(e) # {} =>
             /\ Len(rest) = count - 1
             /\ \A k \in 1 .. count - 1 :
                  rest[k] = IF k <= Rank(e) THEN entries[k - 1] ELSE entries[k]
    BY WithoutIs
  <2>4. Ranks(e) # {} => Rank(e) = last
    <3>1. Ranks(e) # {} => Ranks(e) = {Rank(e)}
      BY OneRank
    <3> QED
      BY <2>1, <3>1
  <2> HIDE DEF rest
  <2>5. /\ Len(rest) >= count' - 1
        /\ Len(rest) + 1 > count' => count' = Capacity
        /\ \A k \in 1 .. count' - 1 : rest[k] = entries'[k]
    <3>1. CASE Ranks(e) = {}
      <4>1. Len(rest) = count /\ last = count' - 1
        BY <1>1, <2>1, <2>3, <3>1
      <4>2. ASSUME NEW k \in 1 .. count' - 1
            PROVE  rest[k] = entries'[k]
        <5>1. k \in 1 .. count /\ k \in 1 .. last
          BY <2>1, <4>1 DEF TypeOK
        <5> QED
          BY <1>1, <2>1, <2>3, <3>1, <5>1
      <4> QED
        BY <2>1, <3>1, <4>1, <4>2 DEF TypeOK
    <3>2. CASE Ranks(e) # {}
      <4>1. count' = count /\ Len(rest) = count - 1
        BY <2>1, <2>3, <3>2
      <4>2. ASSUME NEW k \in 1 .. count' - 1
            PROVE  rest[k] = entries'[k]
        <5>1. k \in 1 .. count - 1 /\ k \in Slots /\ (k <= last => k \in 1 .. last)
                /\ (~(k <= last) => k > last)
          BY <2>1, <4>1 DEF TypeOK, Slots
        <5> QED
          BY <2>1, <2>3, <2>4, <3>2, <5>1
      <4> QED
        BY <2>1, <4>1, <4>2 DEF TypeOK
    <3> QED
      BY <3>1, <3>2
  <2>6. /\ all \in Seq(Entries) /\ Len(all) = Len(rest) + 1
        /\ all[1] = e
        /\ \A k \in 2 .. Len(rest) + 1 : all[k] = rest[k - 1]
    BY <2>3
  <2> HIDE DEF all
  <2>7. /\ List!Room(all) \in Seq(Entries) /\ Len(List!Room(all)) = count'
        /\ \A k \in 1 .. count' : List!Room(all)[k] = all[k]
    <3>1. List!Room(all) = SubSeq(all, 1, count')
      BY <2>1, <2>3, <2>5, <2>6 DEF List!Room
    <3> QED
      BY <2>1, <2>3, <2>5, <2>6, <3>1
  <2>8. \A k \in 1 .. count' : all[k] = entries'[k - 1]
    <3>1. ASSUME NEW k \in 2 .. count'
          PROVE  all[k] = entries'[k - 1]
      <4>1. k \in 2 .. Len(rest) + 1 /\ k - 1 \in 1 .. count' - 1
        BY <2>1, <2>3, <2>5
      <4> QED
        BY <2>5, <2>6, <4>1
    <3> QED
      BY <2>1, <2>6, <3>1
  <2>9. /\ Written' \in Seq(Entries) /\ Len(Written') = count'
        /\ \A k \in 1 .. count' : Written'[k] = entries'[k - 1]
    <3>1. \A k \in 1 .. count' : entries'[k - 1] \in Entries
      <4>1. \A k \in 1 .. count' : all[k] \in Entries
        BY <2>1, <2>3, <2>5, <2>6
      <4> QED
        BY <2>8, <4>1
    <3>2. Written' \in [1 .. count' -> Entries] /\ count' \in Nat
            /\ \A k \in 1 .. count' : Written'[k] = entries'[k - 1]
      BY <2>1, <3>1 DEF Written
    <3> QED
      BY <3>2
  <2>10. Written' = List!Room(all)
    <3>1. \A k \in 1 .. Len(Written') : Written'[k] = List!Room(all)[k]
      BY <2>7, <2>8, <2>9
    <3> QED
      BY <2>7, <2>9, <3>1, SeqEqual
  <2> QED
    BY <1>2, <1>4, <2>2, <2>10 DEF List!Note, Same, all, rest
<1> QED
  BY <1>3, <1>4

(* A name that is forgotten comes out of the list, and the call says so     *)
(* when there was one to take out.                                          *)
LEMMA ForgetIsForget ==
  ASSUME TypeOK, TypeOK', Different, NEW name, Forget(name)
  PROVE  List!Forget(name)
<1> USE RecentAssumption
<1> DEFINE e == [name |-> name, spelt |-> CHOOSE s \in Spellings : TRUE]
<1>1. e.name = name
  OBVIOUS
<1>2. Written \in Seq(Entries) /\ Len(Written) = count
  BY WrittenIs
<1>3. /\ List!Without(e.name) \in Seq(Entries)
      /\ Ranks(e) = {} => List!Without(e.name) = Written
      /\ Ranks(e) # {} =>
           /\ Len(List!Without(e.name)) = count - 1
           /\ \A k \in 1 .. count - 1 :
                List!Without(e.name)[k] = IF k <= Rank(e) THEN entries[k - 1]
                                                         ELSE entries[k]
  BY WithoutIs
<1>4. CASE Ranks(e) = {}
  <2>1. UNCHANGED <<entries, count>> /\ news' = FALSE
    BY <1>4 DEF Forget, Return
  <2>2. Written' = Written
    BY <2>1 DEF Written
  <2> HIDE DEF e
  <2> QED
    BY <1>1, <1>3, <1>4, <2>1, <2>2 DEF List!Forget
<1>5. CASE Ranks(e) # {}
  <2> HIDE DEF e
  <2>1. /\ Rank(e) \in 0 .. count - 1
        /\ count' = count - 1
        /\ \A i \in 0 .. Rank(e) - 1 : entries'[i] = entries[i]
        /\ \A i \in Rank(e) .. count - 2 : entries'[i] = entries[i + 1]
        /\ news' = TRUE
    BY <1>1, <1>5, Forgotten
  <2>2. count' \in Nat /\ \A k \in 1 .. count' : entries'[k - 1] \in Entries
    BY DEF TypeOK, Slots
  <2>3. /\ Written' \in Seq(Entries) /\ Len(Written') = count'
        /\ \A k \in 1 .. count' : Written'[k] = entries'[k - 1]
    BY <2>2 DEF Written
  <2>4. ASSUME NEW k \in 1 .. count'
        PROVE  Written'[k] = List!Without(e.name)[k]
    <3>1. k \in 1 .. count - 1
      BY <2>1
    <3>2. CASE k <= Rank(e)
      <4>1. k - 1 \in 0 .. Rank(e) - 1
        BY <2>1, <3>2
      <4> QED
        BY <1>3, <1>5, <2>1, <2>3, <3>1, <3>2, <4>1
    <3>3. CASE ~(k <= Rank(e))
      <4>1. k - 1 \in Rank(e) .. count - 2 /\ (k - 1) + 1 = k
        BY <2>1, <3>1, <3>3 DEF TypeOK
      <4> QED
        BY <1>3, <1>5, <2>1, <2>3, <3>1, <3>3, <4>1
    <3> QED
      BY <3>2, <3>3
  <2>5. Written' = List!Without(e.name)
    BY <1>3, <1>5, <2>1, <2>3, <2>4, SeqEqual
  <2>6. Written' # Written
    BY <1>2, <2>1, <2>3 DEF TypeOK
  <2> QED
    BY <1>1, <2>1, <2>5, <2>6 DEF List!Forget
<1> QED
  BY <1>4, <1>5

(* A field that is read is taken at the end of the list, or leaves it.      *)
LEMMA FieldIsTaken ==
  ASSUME TypeOK, TypeOK', Different, ParseField
  PROVE  (\E e \in Entries : List!Take(e)) \/ UNCHANGED List!lvars
<1> USE RecentAssumption
<1> DEFINE field == Head(text)
<1>1. field \in Entries \union {Refused} /\ count < Capacity /\ news' = news
  BY HeadTailProperties DEF ParseField, TypeOK
<1>2. /\ Written \in Seq(Entries) /\ Len(Written) = count
      /\ DOMAIN Written = 1 .. count
      /\ \A k \in 1 .. count : Written[k] = entries[k - 1]
  BY WrittenIs
<1>3. CASE field # Refused /\ Ranks(field) = {}
  <2>1. entries' = [entries EXCEPT ![count] = field] /\ count' = count + 1
          /\ count \in Slots
    BY <1>3 DEF ParseField, TypeOK, Slots
  <2> HIDE DEF field
  <2>2. \A k \in 1 .. count : k - 1 \in Slots /\ k - 1 \in 0 .. count - 1 /\ k - 1 # count
    BY DEF TypeOK, Slots
  <2>3. /\ entries'[count] = field
        /\ \A k \in 1 .. count : entries'[k - 1] = entries[k - 1]
    BY <2>1, <2>2 DEF TypeOK
  <2>4. \A k \in 1 .. count : Written[k].name # field.name
    BY <1>2, <1>3, <2>2 DEF Ranks, Same
  <2>5. count' \in Nat /\ \A k \in 1 .. count' : entries'[k - 1] \in Entries
    BY DEF TypeOK, Slots
  <2>6. /\ Written' \in Seq(Entries) /\ Len(Written') = count'
        /\ \A k \in 1 .. count' : Written'[k] = entries'[k - 1]
    BY <2>5 DEF Written
  <2>7. field \in Entries
    BY <1>1, <1>3
  <2>8. /\ Append(Written, field) \in Seq(Entries)
        /\ Len(Append(Written, field)) = count + 1
        /\ \A k \in 1 .. count : Append(Written, field)[k] = Written[k]
        /\ Append(Written, field)[count + 1] = field
    BY <1>2, <2>7
  <2>9. ASSUME NEW k \in 1 .. count + 1
        PROVE  Written'[k] = Append(Written, field)[k]
    <3>1. CASE k \in 1 .. count
      BY <1>2, <2>1, <2>3, <2>6, <2>8, <3>1
    <3>2. CASE k = count + 1
      <4>1. k - 1 = count
        BY <3>2 DEF TypeOK
      <4> QED
        BY <2>1, <2>3, <2>6, <2>8, <3>2, <4>1
    <3>3. k \in 1 .. count \/ k = count + 1
      BY DEF TypeOK
    <3> QED
      BY <3>1, <3>2, <3>3
  <2>10. Written' = Append(Written, field)
    BY <2>1, <2>6, <2>8, <2>9, SeqEqual
  <2>11. List!Take(field)
    BY <1>1, <1>2, <2>4, <2>10 DEF List!Take
  <2> QED
    BY <2>7, <2>11
<1>4. CASE ~(field # Refused /\ Ranks(field) = {})
  <2>1. entries' = [entries EXCEPT ![count] = Zero] /\ count' = count
    BY <1>4 DEF ParseField
  <2>2. \A k \in 1 .. count : entries'[k - 1] = entries[k - 1]
    BY <2>1 DEF TypeOK, Slots
  <2>3. Written' = Written
    BY <2>1, <2>2 DEF Written
  <2> QED
    BY <1>1, <2>3 DEF List!lvars
<1> QED
  BY <1>3, <1>4

(* The array and its shifting implement the list its callers have in mind:  *)
(* the different things noted last, newest first.                           *)
THEOREM ArrayIsTheList == Spec => ImplementsList
<1>1. Init => List!Init
  <2> SUFFICES ASSUME Init
               PROVE  List!Init
    OBVIOUS
  <2>1. Written \in Seq(Entries) /\ Len(Written) = 0
    BY RecentInvInit, WrittenIs DEF Init, RecentInv
  <2>2. Written = <<>>
    BY <2>1, EmptySeq
  <2> QED
    BY <2>2 DEF Init, List!Init
<1>2. RecentInv /\ RecentInv' /\ [Next]_vars => [List!Next]_List!lvars
  <2> SUFFICES ASSUME RecentInv, RecentInv', [Next]_vars
               PROVE  List!Next \/ UNCHANGED List!lvars
    OBVIOUS
  <2> USE DEF RecentInv
  <2>1. ASSUME NEW e \in Entries, Note(e)
        PROVE  List!Next
    BY <2>1, NoteIsNote DEF List!Next, List!Entries, Entries
  <2>2. ASSUME NEW i \in Slots, NoteOwn(i)
        PROVE  List!Next
    BY <2>1, <2>2 DEF NoteOwn, TypeOK
  <2>3. ASSUME NEW name \in Names, Forget(name)
        PROVE  List!Next
    BY <2>3, ForgetIsForget DEF List!Next
  <2>4. CASE Parse
    <3>1. Written' = [k \in 1 .. 0 |-> entries'[k - 1]] /\ news' = FALSE
      BY <2>4 DEF Parse, Written
    <3>2. Written' \in Seq(Entries) /\ Len(Written') = 0
      BY <3>1
    <3>3. Written' = <<>>
      BY <3>2, EmptySeq
    <3> QED
      BY <3>1, <3>3 DEF List!Next, List!Empty
  <2>5. CASE ParseField
    BY <2>5, FieldIsTaken DEF List!Next, List!Entries, Entries
  <2>6. CASE ParseEnd
    BY <2>6 DEF ParseEnd, Written, List!lvars
  <2>7. CASE UNCHANGED vars
    BY <2>7 DEF vars, Written, List!lvars
  <2> QED
    BY <2>1, <2>2, <2>3, <2>4, <2>5, <2>6, <2>7 DEF Next
<1> QED
  BY <1>1, <1>2, RecentInvInit, RecentInvStep, PTL DEF Spec, ImplementsList, List!Spec

-----------------------------------------------------------------------------
(* Induction over the numbers, and their arithmetic.  A recursive function is *)
(* what its steps are, one after the other.                                *)

(* Some number of a set of numbers is the least of them. *)
LEMMA Least ==
  ASSUME NEW T \in SUBSET Nat, T # {}
  PROVE  \E m \in T : m \in Nat /\ \A n \in T : m <= n
<1> DEFINE R == OpToRel(<, Nat)
<1>1. IsWellFoundedOn(R, Nat)
  BY NatLessThanWellFounded
<1>2. \A m, n \in Nat : <<m, n>> \in R <=> m < n
  BY DEF OpToRel
<1> HIDE DEF R
<1>3. PICK m \in T : \A n \in T : ~(<<n, m>> \in R)
  BY <1>1, WFMin
<1>4. m \in Nat /\ \A n \in T : n \in Nat /\ ~(n < m)
  BY <1>2, <1>3
<1> QED
  BY <1>3, <1>4

(* A set that holds 0 and the successor of what it holds is all. *)
LEMMA Induct ==
  ASSUME NEW N \in Nat, NEW T, 0 \in T, \A k \in 1 .. N : k - 1 \in T => k \in T
  PROVE  \A k \in 0 .. N : k \in T
<1> DEFINE Bad == {k \in 0 .. N : k \notin T}
<1> SUFFICES ASSUME Bad # {}
             PROVE  FALSE
  OBVIOUS
<1>1. Bad \in SUBSET Nat
  OBVIOUS
<1>2. PICK m \in Bad : m \in Nat /\ \A n \in Bad : m <= n
  <2> HIDE DEF Bad
  <2> QED
    BY <1>1, Least
<1>3. m # 0 /\ m \in 1 .. N
  BY <1>2
<1>4. m - 1 \notin Bad
  <2> HIDE DEF Bad
  <2> QED
    BY <1>2, <1>3
<1> QED
  BY <1>2, <1>3, <1>4

(* N steps from a first value, each a function of where it goes from.       *)
Steps(r, N, S, first, step) ==
  /\ r \in [0 .. N -> S] /\ r[0] = first
  /\ \A k \in 1 .. N : r[k] = step[k][r[k - 1]]

(* They can be taken: what a recursive definition defines is there.         *)
LEMMA StepByStep ==
  ASSUME NEW N \in Nat, NEW S, NEW first \in S, NEW step \in [1 .. N -> [S -> S]]
  PROVE  \E r : Steps(r, N, S, first, step)
<1> USE DEF Steps
<1> DEFINE Upto(n) == {r \in [0 .. n -> S] :
                         r[0] = first /\ \A k \in 1 .. n : r[k] = step[k][r[k - 1]]}
           T == {n \in 0 .. N : Upto(n) # {}}
<1>1. 0 \in T
  <2>1. [k \in 0 .. 0 |-> first] \in Upto(0)
    OBVIOUS
  <2> QED
    BY <2>1
<1>2. ASSUME NEW n \in 1 .. N, n - 1 \in T
      PROVE  n \in T
  <2>1. PICK r \in Upto(n - 1) : TRUE
    BY <1>2
  <2>2. PICK x \in S : x = step[n][r[n - 1]]
    BY <2>1
  <2>3. PICK s : s = [k \in 0 .. n |-> IF k = n THEN x ELSE r[k]]
    OBVIOUS
  <2>4. s \in [0 .. n -> S] /\ s[0] = first
    BY <2>1, <2>3
  <2>5. \A k \in 1 .. n - 1 : s[k] = step[k][s[k - 1]]
    BY <2>1, <2>3
  <2>6. s[n] = step[n][s[n - 1]]
    BY <2>2, <2>3
  <2>7. \A k \in 1 .. n : s[k] = step[k][s[k - 1]]
    <3> TAKE k \in 1 .. n
    <3>1. k = n \/ k \in 1 .. n - 1
      OBVIOUS
    <3> QED
      BY <2>5, <2>6, <3>1
  <2>8. s \in Upto(n)
    BY <2>4, <2>7
  <2> HIDE DEF Upto
  <2> QED
    BY <2>8
<1>3. \A k \in 0 .. N : k \in T
  <2> HIDE DEF T
  <2> QED
    BY <1>1, <1>2, Induct
<1>4. PICK r \in Upto(N) : TRUE
  BY <1>3
<1> QED
  BY <1>4

(* Power is the product. *)
LEMMA PowerIs ==
  ASSUME NEW b \in Nat \ {0}
  PROVE  /\ Power(b, 0) = 1
         /\ \A n \in Nat : Power(b, n) \in Nat \ {0} /\ Power(b, n + 1) = b * Power(b, n)
<1>0. PICK Pos : Pos = Nat \ {0}
  OBVIOUS
<1> DEFINE Rec(n) == CHOOSE r : r = [k \in 0 .. n |-> IF k = 0 THEN 1 ELSE b * r[k - 1]]
<1>1. ASSUME NEW n \in Nat
      PROVE  /\ Rec(n) \in [0 .. n -> Pos] /\ Rec(n)[0] = 1
             /\ \A k \in 1 .. n : Rec(n)[k] = b * Rec(n)[k - 1]
             /\ Power(b, n) = Rec(n)[n]
  <2>0. 1 \in Pos /\ \A x \in Pos : b * x \in Pos
    BY <1>0
  <2>1. PICK step \in [1 .. n -> [Pos -> Pos]] :
          step = [k \in 1 .. n |-> [x \in Pos |-> b * x]]
    BY <2>0
  <2>2. PICK r \in [0 .. n -> Pos] : r[0] = 1 /\ \A k \in 1 .. n : r[k] = step[k][r[k - 1]]
    <3>1. \E r : Steps(r, n, Pos, 1, step)
      BY <2>0, StepByStep
    <3> QED
      BY <3>1 DEF Steps
  <2>3. \A k \in 1 .. n : r[k] = b * r[k - 1]
    <3> TAKE k \in 1 .. n
    <3>1. r[k - 1] \in Pos
      OBVIOUS
    <3> QED
      BY <2>1, <2>2, <3>1
  <2>4. r = [k \in 0 .. n |-> IF k = 0 THEN 1 ELSE b * r[k - 1]]
    BY <2>2, <2>3
  <2>5. Rec(n) = [k \in 0 .. n |-> IF k = 0 THEN 1 ELSE b * Rec(n)[k - 1]]
    BY <2>4
  <2>6. Power(b, n) = Rec(n)[n]
    BY DEF Power
  <2> HIDE DEF Rec
  <2> DEFINE T == {k \in 0 .. n : Rec(n)[k] \in Pos}
  <2>7. 0 \in T /\ \A k \in 1 .. n : k - 1 \in T => k \in T
    <3>1. Rec(n)[0] = 1 /\ \A k \in 1 .. n : Rec(n)[k] = b * Rec(n)[k - 1]
      BY <2>5
    <3> QED
      BY <2>0, <3>1
  <2>8. \A k \in 0 .. n : k \in T
    <3> HIDE DEF T
    <3> QED
      BY <2>7, Induct
  <2>9. Rec(n) \in [0 .. n -> Pos]
    BY <2>5, <2>8
  <2> QED
    BY <2>5, <2>6, <2>9
<1> HIDE DEF Rec
<1>2. ASSUME NEW n \in Nat
      PROVE  Power(b, n + 1) = b * Power(b, n)
  <2>1. PICK q : q = Rec(n + 1)
    OBVIOUS
  <2>2. PICK r : r = Rec(n)
    OBVIOUS
  <2>3. r[0] = 1 /\ (\A k \in 1 .. n : r[k] = b * r[k - 1]) /\ Power(b, n) = r[n]
    BY <1>1, <2>2
  <2>4. q[0] = 1 /\ (\A k \in 1 .. n + 1 : q[k] = b * q[k - 1]) /\ Power(b, n + 1) = q[n + 1]
    <3>1. n + 1 \in Nat
      OBVIOUS
    <3> QED
      BY <1>1, <2>1, <3>1
  <2> DEFINE T == {k \in 0 .. n : q[k] = r[k]}
  <2>5. 0 \in T /\ \A k \in 1 .. n : k - 1 \in T => k \in T
    BY <2>3, <2>4
  <2>6. \A k \in 0 .. n : k \in T
    <3> HIDE DEF T
    <3> QED
      BY <2>5, Induct
  <2>7. q[n + 1] = b * q[n] /\ q[n] = r[n]
    BY <2>4, <2>6
  <2> QED
    BY <2>3, <2>4, <2>7
<1>3. Power(b, 0) = 1
  BY <1>1
<1>4. \A n \in Nat : Power(b, n) \in Nat \ {0}
  <2> TAKE n \in Nat
  <2>1. PICK r : r = Rec(n)
    OBVIOUS
  <2>2. r \in [0 .. n -> Pos] /\ Power(b, n) = r[n]
    BY <1>1, <2>1
  <2>3. r[n] \in Pos
    BY <2>2
  <2> QED
    BY <1>0, <2>2, <2>3
<1> QED
  BY <1>2, <1>3, <1>4

(* What division gives. *)
LEMMA DivIs ==
  ASSUME NEW a \in Nat, NEW d \in Nat \ {0}
  PROVE  \E q \in Nat, r \in 0 .. d - 1 : q = a \div d /\ r = a % d /\ a = d * q + r
<1>1. a \div d \in Nat
  OBVIOUS
<1>2. a % d \in 0 .. d - 1
  OBVIOUS
<1>3. a % d = a - (a \div d) * d
  OBVIOUS
<1>4. PICK q \in Nat, r \in 0 .. d - 1 : q = a \div d /\ r = a % d /\ r = a - q * d
  BY <1>1, <1>2, <1>3
<1>5. a = d * q + r
  BY <1>4
<1> QED
  BY <1>4, <1>5

(* And all that gives what it gives. *)
LEMMA DivUnique ==
  ASSUME NEW d \in Nat \ {0}, NEW q \in Nat, NEW r \in 0 .. d - 1
  PROVE  (d * q + r) \div d = q /\ (d * q + r) % d = r
<1>1. d * q + r \in Nat
  OBVIOUS
<1>2. PICK p \in Nat, s \in 0 .. d - 1 :
        /\ p = (d * q + r) \div d /\ s = (d * q + r) % d
        /\ d * q + r = d * p + s
  BY <1>1, DivIs
<1>3. ~(p < q)
  <2> SUFFICES ASSUME p < q
               PROVE  FALSE
    OBVIOUS
  <2>1. PICK e \in Nat : q = p + 1 + e
    <3>1. q - p - 1 \in Nat
      OBVIOUS
    <3> QED
      BY <3>1
  <2>2. d * q = d * p + d + d * e /\ d * e \in Nat
    BY <2>1
  <2> QED
    BY <1>2, <2>2
<1>4. ~(q < p)
  <2> SUFFICES ASSUME q < p
               PROVE  FALSE
    OBVIOUS
  <2>1. PICK e \in Nat : p = q + 1 + e
    <3>1. p - q - 1 \in Nat
      OBVIOUS
    <3> QED
      BY <3>1
  <2>2. d * p = d * q + d + d * e /\ d * e \in Nat
    BY <2>1
  <2> QED
    BY <1>2, <2>2
<1>5. p = q
  BY <1>3, <1>4
<1> QED
  BY <1>2, <1>5

(* Dividing twice. *)
LEMMA DivDiv ==
  ASSUME NEW a \in Nat, NEW c \in Nat \ {0}, NEW d \in Nat \ {0}
  PROVE  (a \div c) \div d = a \div (d * c)
<1>1. PICK q \in Nat, r \in 0 .. c - 1 : q = a \div c /\ a = c * q + r
  BY DivIs
<1>2. PICK p \in Nat, s \in 0 .. d - 1 : p = q \div d /\ q = d * p + s
  BY DivIs
<1>3. c * s + r \in 0 .. d * c - 1 /\ d * c \in Nat \ {0}
  <2>1. PICK e \in Nat : d = s + 1 + e
    <3>1. d - s - 1 \in Nat
      OBVIOUS
    <3> QED
      BY <3>1
  <2>2. d * c = c * s + c + e * c /\ e * c \in Nat /\ c * s \in Nat
    BY <2>1
  <2> QED
    BY <2>2
<1>4. a = (d * c) * p + (c * s + r)
  <2>1. a = c * (d * p + s) + r
    BY <1>1, <1>2
  <2> QED
    BY <2>1
<1>5. a \div (d * c) = p
  BY <1>3, <1>4, DivUnique
<1> QED
  BY <1>1, <1>2, <1>5

(* Products compare as their factors. *)
LEMMA TimesLess ==
  ASSUME NEW a \in Nat, NEW c \in Nat, NEW d \in Nat \ {0}
  PROVE  /\ a * d \in Nat /\ c * d \in Nat
         /\ a < c <=> a * d < c * d
         /\ a < c <=> a * d + d <= c * d
         /\ a = c <=> a * d = c * d
<1>1. CASE a < c
  <2>1. PICK e \in Nat : c = a + 1 + e
    <3>1. c - a - 1 \in Nat
      BY <1>1
    <3> QED
      BY <3>1
  <2>2. c * d = a * d + d + e * d /\ e * d \in Nat /\ a * d \in Nat
    BY <2>1
  <2> QED
    BY <1>1, <2>2
<1>2. CASE c < a
  <2>1. PICK e \in Nat : a = c + 1 + e
    <3>1. a - c - 1 \in Nat
      BY <1>2
    <3> QED
      BY <3>1
  <2>2. a * d = c * d + d + e * d /\ e * d \in Nat /\ c * d \in Nat
    BY <2>1
  <2> QED
    BY <1>2, <2>2
<1>3. CASE a = c
  BY <1>3
<1> QED
  BY <1>1, <1>2, <1>3

(* A quotient of more is no less. *)
LEMMA DivGrows ==
  ASSUME NEW a \in Nat, NEW c \in Nat, a <= c, NEW d \in Nat \ {0}
  PROVE  a \div d <= c \div d
<1>1. PICK p \in Nat, r \in 0 .. d - 1 : p = a \div d /\ a = d * p + r
  BY DivIs
<1>2. PICK q \in Nat, s \in 0 .. d - 1 : q = c \div d /\ c = d * q + s
  BY DivIs
<1>3. q < p => q * d + d <= p * d
  BY TimesLess
<1>4. d * p = p * d /\ d * q = q * d /\ p * d \in Nat /\ q * d \in Nat
  OBVIOUS
<1> QED
  BY <1>1, <1>2, <1>3, <1>4

(* Powers multiply. *)
LEMMA PowerAdds ==
  ASSUME NEW b \in Nat \ {0}, NEW m \in Nat, NEW n \in Nat
  PROVE  Power(b, m + n) = Power(b, m) * Power(b, n)
<1> DEFINE T == {k \in 0 .. n : Power(b, m + k) = Power(b, m) * Power(b, k)}
<1>1. 0 \in T
  BY PowerIs
<1>2. ASSUME NEW k \in 1 .. n, k - 1 \in T
      PROVE  k \in T
  <2>1. PICK p \in Nat, q \in Nat : p = Power(b, m) /\ q = Power(b, k - 1) /\ Power(b, m + (k - 1)) = p * q
    BY <1>2, PowerIs
  <2>2. Power(b, k) = b * q
    <3>1. k - 1 \in Nat /\ k = (k - 1) + 1
      OBVIOUS
    <3> QED
      BY <2>1, <3>1, PowerIs
  <2>3. Power(b, m + k) = b * (p * q)
    <3>1. m + (k - 1) \in Nat /\ m + k = (m + (k - 1)) + 1
      OBVIOUS
    <3> QED
      BY <2>1, <3>1, PowerIs
  <2>4. b * (p * q) = p * (b * q)
    OBVIOUS
  <2> QED
    BY <2>1, <2>2, <2>3, <2>4
<1>3. \A k \in 0 .. n : k \in T
  <2> HIDE DEF T
  <2> QED
    BY <1>1, <1>2, Induct
<1> QED
  BY <1>3

(* More than its exponent. *)
LEMMA PowerExceeds ==
  ASSUME NEW b \in Nat, b >= 2, NEW n \in Nat
  PROVE  n < Power(b, n)
<1> DEFINE T == {k \in 0 .. n : k < Power(b, k)}
<1>1. 0 \in T
  BY PowerIs
<1>2. ASSUME NEW k \in 1 .. n, k - 1 \in T
      PROVE  k \in T
  <2>1. PICK q \in Nat : q = Power(b, k - 1) /\ k - 1 < q
    BY <1>2, PowerIs
  <2>2. Power(b, k) = b * q
    <3>1. k - 1 \in Nat /\ k = (k - 1) + 1 /\ b \in Nat \ {0}
      OBVIOUS
    <3> QED
      BY <2>1, <3>1, PowerIs
  <2>3. b * q >= 2 * q
    <3>1. PICK e \in Nat : b = 2 + e
      <4>1. b - 2 \in Nat
        OBVIOUS
      <4> QED
        BY <4>1
    <3>2. b * q = 2 * q + e * q /\ e * q \in Nat
      BY <3>1
    <3> QED
      BY <3>2
  <2> QED
    BY <2>1, <2>2, <2>3
<1>3. \A k \in 0 .. n : k \in T
  <2> HIDE DEF T
  <2> QED
    BY <1>1, <1>2, Induct
<1> QED
  BY <1>3

-----------------------------------------------------------------------------
(* Numbers written in digits.                                              *)

(* The values a number goes through as its digits are read. *)
ReadsAs(r, digits, base) ==
  /\ r \in [0 .. Len(digits) -> Nat] /\ r[0] = 0
  /\ \A k \in 1 .. Len(digits) : r[k] = r[k - 1] * base + digits[k]

LEMMA NumberIs ==
  ASSUME NEW base \in Nat, NEW digits \in Seq(Nat)
  PROVE  \E r : ReadsAs(r, digits, base) /\ Number(digits, base) = r[Len(digits)]
<1>1. PICK N \in Nat : N = Len(digits) /\ \A k \in 1 .. N : digits[k] \in Nat
  OBVIOUS
<1>2. PICK step : step = [k \in 1 .. N |-> [x \in Nat |-> x * base + digits[k]]]
  OBVIOUS
<1>a. step \in [1 .. N -> [Nat -> Nat]]
  <2>1. \A k \in 1 .. N, x \in Nat : x * base + digits[k] \in Nat
    <3> TAKE k \in 1 .. N, x \in Nat
    <3>1. PICK d \in Nat : d = digits[k]
      BY <1>1
    <3>2. x * base + d \in Nat
      OBVIOUS
    <3> QED
      BY <3>1, <3>2
  <2> QED
    BY <1>2, <2>1
<1>3. PICK r : Steps(r, N, Nat, 0, step)
  BY <1>a, StepByStep
<1>4. \A k \in 1 .. N : r[k] = r[k - 1] * base + digits[k]
  <2> TAKE k \in 1 .. N
  <2>0. k - 1 \in 0 .. N
    OBVIOUS
  <2>1. r[k - 1] \in Nat /\ r[k] = step[k][r[k - 1]]
    BY <1>3, <2>0 DEF Steps
  <2> QED
    BY <1>2, <2>1
<1>5. r \in [0 .. N -> Nat] /\ r[0] = 0
  BY <1>3 DEF Steps
<1>6. r = [k \in 0 .. N |-> IF k = 0 THEN 0 ELSE r[k - 1] * base + digits[k]]
  BY <1>4, <1>5
<1> DEFINE Rec == CHOOSE f : f = [k \in 0 .. N |->
                    IF k = 0 THEN 0 ELSE f[k - 1] * base + digits[k]]
<1>7. Rec = [k \in 0 .. N |-> IF k = 0 THEN 0 ELSE Rec[k - 1] * base + digits[k]]
  BY <1>6
<1>8. Number(digits, base) = Rec[N]
  BY <1>1 DEF Number
<1> HIDE DEF Rec
<1>9. \A k \in 0 .. N : Rec[k] \in Nat
  <2> DEFINE T == {k \in 0 .. N : Rec[k] \in Nat}
  <2>1. 0 \in T
    BY <1>7
  <2>2. ASSUME NEW k \in 1 .. N, k - 1 \in T
        PROVE  k \in T
    <3>0. k \in 0 .. N /\ k # 0 /\ Rec[k - 1] \in Nat
      BY <2>2
    <3>1. Rec[k] = Rec[k - 1] * base + digits[k]
      BY <1>7, <3>0
    <3>2. PICK x \in Nat, d \in Nat : x = Rec[k - 1] /\ d = digits[k]
      BY <1>1, <3>0
    <3>3. x * base + d \in Nat
      OBVIOUS
    <3> QED
      BY <3>0, <3>1, <3>2, <3>3
  <2>3. \A k \in 0 .. N : k \in T
    <3> HIDE DEF T
    <3> QED
      BY <2>1, <2>2, Induct
  <2> QED
    BY <2>3
<1>10. ReadsAs(Rec, digits, base)
  <2>1. Rec \in [0 .. N -> Nat]
    BY <1>7, <1>9
  <2>a. Rec[0] = 0
    BY <1>7
  <2>b. \A k \in 1 .. N : Rec[k] = Rec[k - 1] * base + digits[k]
    <3> TAKE k \in 1 .. N
    <3>1. k \in 0 .. N /\ k # 0
      OBVIOUS
    <3> QED
      BY <1>7, <3>1
  <2>2. Rec[0] = 0 /\ \A k \in 1 .. N : Rec[k] = Rec[k - 1] * base + digits[k]
    BY <2>a, <2>b
  <2> QED
    BY <1>1, <2>1, <2>2 DEF ReadsAs
<1> QED
  BY <1>1, <1>8, <1>10

LEMMA NumberNat ==
  ASSUME NEW base \in Nat, NEW digits \in Seq(Nat)
  PROVE  Number(digits, base) \in Nat
<1>1. PICK N \in Nat : N = Len(digits) /\ N \in 0 .. N
  OBVIOUS
<1>2. PICK r : ReadsAs(r, digits, base) /\ Number(digits, base) = r[N]
  BY <1>1, NumberIs
<1> QED
  BY <1>1, <1>2 DEF ReadsAs

(* There is only one way to read them. *)
LEMMA ReadsOnce ==
  ASSUME NEW base \in Nat, NEW digits \in Seq(Nat), NEW r, ReadsAs(r, digits, base)
  PROVE  Number(digits, base) = r[Len(digits)]
<1>1. PICK s : ReadsAs(s, digits, base) /\ Number(digits, base) = s[Len(digits)]
  BY NumberIs
<1>2. PICK N \in Nat : N = Len(digits)
  OBVIOUS
<1> DEFINE T == {k \in 0 .. N : r[k] = s[k]}
<1>3. 0 \in T /\ \A k \in 1 .. N : k - 1 \in T => k \in T
  BY <1>1, <1>2 DEF ReadsAs
<1>4. \A k \in 0 .. N : k \in T
  <2> HIDE DEF T
  <2> QED
    BY <1>3, Induct
<1> QED
  BY <1>1, <1>2, <1>4

(* A number of as many digits is less than that power of the base. *)
LEMMA ReadsLess ==
  ASSUME NEW base \in Nat \ {0}, NEW digits \in Seq(Digits(base)), NEW r, ReadsAs(r, digits, base)
  PROVE  \A k \in 0 .. Len(digits) : r[k] < Power(base, k)
<1>1. PICK N \in Nat : N = Len(digits) /\ \A k \in 1 .. N : digits[k] \in 0 .. base - 1
  BY DEF Digits
<1> DEFINE T == {k \in 0 .. N : r[k] < Power(base, k)}
<1>2. 0 \in T
  BY <1>1, PowerIs DEF ReadsAs
<1>3. ASSUME NEW k \in 1 .. N, k - 1 \in T
      PROVE  k \in T
  <2>1. PICK p \in Nat \ {0} : p = Power(base, k - 1) /\ Power(base, k) = base * p
    <3>1. k - 1 \in Nat /\ k = (k - 1) + 1
      OBVIOUS
    <3> QED
      BY <3>1, PowerIs
  <2>2. PICK x \in Nat : x = r[k - 1] /\ x < p /\ r[k] = x * base + digits[k]
    BY <1>1, <1>3, <2>1 DEF ReadsAs
  <2>3. x * base + base <= p * base /\ x * base \in Nat
    BY <2>2, TimesLess
  <2>4. p * base = base * p
    OBVIOUS
  <2>5. r[k] < base * p
    <3>1. PICK d \in 0 .. base - 1 : d = digits[k]
      BY <1>1
    <3>2. PICK y \in Nat, z \in Nat : y = x * base /\ z = base * p /\ y + base <= z
      BY <2>3, <2>4
    <3>3. y + d < z
      BY <3>2
    <3> QED
      BY <2>2, <3>1, <3>2, <3>3
  <2> QED
    BY <2>1, <2>5
<1>4. \A k \in 0 .. N : k \in T
  <2> HIDE DEF T
  <2> QED
    BY <1>2, <1>3, Induct
<1> QED
  BY <1>1, <1>4

(* Each value is no more than those after it. *)
LEMMA ReadsUp ==
  ASSUME NEW base \in Nat \ {0}, NEW digits \in Seq(Nat), NEW r, ReadsAs(r, digits, base)
  PROVE  \A k \in 0 .. Len(digits) : r[k] <= r[Len(digits)]
<1>1. PICK N \in Nat : N = Len(digits) /\ \A k \in 1 .. N : digits[k] \in Nat
  OBVIOUS
<1>2. \A k \in 0 .. N : r[k] \in Nat
  BY <1>1 DEF ReadsAs
<1> DEFINE T == {k \in 0 .. N : r[N - k] <= r[N]}
<1>3. 0 \in T
  BY <1>2
<1>4. ASSUME NEW k \in 1 .. N, k - 1 \in T
      PROVE  k \in T
  <2>1. PICK m \in 1 .. N : m = N - (k - 1) /\ N - k = m - 1 /\ r[m] <= r[N]
    BY <1>4
  <2>2. r[m] = r[m - 1] * base + digits[m] /\ r[m - 1] \in Nat /\ digits[m] \in Nat
    BY <1>1, <1>2 DEF ReadsAs
  <2>3. r[m - 1] * base >= r[m - 1]
    <3>1. PICK e \in Nat, x \in Nat : base = 1 + e /\ x = r[m - 1]
      <4>1. base - 1 \in Nat /\ base = 1 + (base - 1)
        OBVIOUS
      <4> QED
        BY <2>2, <4>1
    <3>2. x * (1 + e) = x + x * e /\ x * e \in Nat
      OBVIOUS
    <3> QED
      BY <3>1, <3>2
  <2>4. r[m] \in Nat /\ r[N] \in Nat /\ r[m - 1] * base \in Nat
    BY <1>2, <2>2
  <2>5. r[m - 1] <= r[N]
    BY <2>1, <2>2, <2>3, <2>4
  <2> QED
    BY <2>1, <2>5
<1>5. \A k \in 0 .. N : k \in T
  <2> HIDE DEF T
  <2> QED
    BY <1>3, <1>4, Induct
<1>6. \A k \in 0 .. N : r[k] <= r[N]
  <2> TAKE k \in 0 .. N
  <2>0. N - k \in 0 .. N /\ N - (N - k) = k
    OBVIOUS
  <2>1. N - k \in T /\ N - (N - k) = k
    BY <1>5, <2>0
  <2> QED
    BY <2>1
<1> QED
  BY <1>1, <1>6

(* Digits behind digits. *)
LEMMA NumberOfTwo ==
  ASSUME NEW base \in Nat \ {0}, NEW s \in Seq(Nat), NEW t \in Seq(Nat)
  PROVE  Number(s \o t, base) = Number(s, base) * Power(base, Len(t)) + Number(t, base)
<1>1. PICK M \in Nat, N \in Nat : M = Len(s) /\ N = Len(t)
  OBVIOUS
<1>2. PICK p : ReadsAs(p, s, base) /\ Number(s, base) = p[M]
  BY <1>1, NumberIs
<1>3. PICK q : ReadsAs(q, t, base) /\ Number(t, base) = q[N]
  BY <1>1, NumberIs
<1>4. s \o t \in Seq(Nat) /\ Len(s \o t) = M + N
  BY <1>1
<1>5. PICK r : ReadsAs(r, s \o t, base) /\ Number(s \o t, base) = r[M + N]
  BY <1>4, NumberIs
<1>6. r[0] = 0 /\ \A k \in 1 .. M + N : r[k] = r[k - 1] * base + (s \o t)[k]
  BY <1>4, <1>5 DEF ReadsAs
<1>7. /\ p \in [0 .. M -> Nat] /\ p[0] = 0
      /\ \A k \in 1 .. M : p[k] = p[k - 1] * base + s[k]
      /\ q \in [0 .. N -> Nat] /\ q[0] = 0
      /\ \A k \in 1 .. N : q[k] = q[k - 1] * base + t[k]
  BY <1>1, <1>2, <1>3 DEF ReadsAs
<1>8. r[M] = p[M]
  <2> DEFINE T == {k \in 0 .. M : r[k] = p[k]}
  <2>1. \A k \in 1 .. M : (s \o t)[k] = s[k]
    BY <1>1
  <2>a. 0 \in T
    BY <1>6, <1>7
  <2>b. ASSUME NEW k \in 1 .. M, k - 1 \in T
        PROVE  k \in T
    <3>1. k \in 1 .. M + N /\ k \in 0 .. M
      OBVIOUS
    <3>2. r[k] = r[k - 1] * base + (s \o t)[k]
      BY <1>6, <3>1
    <3>3. p[k] = p[k - 1] * base + s[k]
      BY <1>7
    <3>4. r[k - 1] = p[k - 1]
      BY <2>b
    <3> QED
      BY <2>1, <3>1, <3>2, <3>3, <3>4
  <2>2. 0 \in T /\ \A k \in 1 .. M : k - 1 \in T => k \in T
    BY <2>a, <2>b
  <2>3. \A k \in 0 .. M : k \in T
    <3> HIDE DEF T
    <3> QED
      BY <2>2, Induct
  <2> QED
    BY <2>3
<1> DEFINE T == {k \in 0 .. N : r[M + k] = p[M] * Power(base, k) + q[k]}
<1>9. 0 \in T
  <2>1. PICK x \in Nat : x = p[M]
    BY <1>7
  <2>2. x * 1 + 0 = x /\ M + 0 = M /\ 0 \in 0 .. N
    OBVIOUS
  <2>3. Power(base, 0) = 1 /\ q[0] = 0
    BY <1>7, PowerIs
  <2> QED
    BY <1>8, <2>1, <2>2, <2>3
<1>10. ASSUME NEW k \in 1 .. N, k - 1 \in T
       PROVE  k \in T
  <2>1. PICK w \in Nat : w = Power(base, k - 1) /\ Power(base, k) = base * w
    <3>1. k - 1 \in Nat /\ k = (k - 1) + 1
      OBVIOUS
    <3>2. Power(base, k - 1) \in Nat \ {0} /\ Power(base, k) = base * Power(base, k - 1)
      BY <3>1, PowerIs
    <3> QED
      BY <3>2
  <2>2. PICK x \in Nat, y \in Nat, d \in Nat : x = p[M] /\ y = q[k - 1] /\ d = t[k]
    <3>1. k - 1 \in 0 .. N /\ t[k] \in Nat /\ M \in 0 .. M
      BY <1>1
    <3>2. p[M] \in Nat
      BY <1>7, <3>1
    <3>3. q[k - 1] \in Nat
      BY <1>7, <3>1
    <3> QED
      BY <3>1, <3>2, <3>3
  <2>3. r[M + k] = r[M + (k - 1)] * base + d
    <3>1. M + k \in 1 .. M + N /\ (M + k) - 1 = M + (k - 1) /\ (s \o t)[M + k] = t[k]
      BY <1>1
    <3> QED
      BY <1>6, <2>2, <3>1
  <2>4. r[M + (k - 1)] = x * w + y
    BY <1>10, <2>1, <2>2
  <2>5. (x * w + y) * base + d = x * (base * w) + (y * base + d)
    OBVIOUS
  <2>6. q[k] = y * base + d
    BY <1>7, <2>2
  <2>7. r[M + k] = x * (base * w) + q[k]
    BY <2>3, <2>4, <2>5, <2>6
  <2>8. k \in 0 .. N
    OBVIOUS
  <2> QED
    BY <2>1, <2>2, <2>7, <2>8
<1>11. \A k \in 0 .. N : k \in T
  <2> HIDE DEF T
  <2> QED
    BY <1>9, <1>10, Induct
<1>12. r[M + N] = p[M] * Power(base, N) + q[N]
  BY <1>11
<1> QED
  BY <1>1, <1>2, <1>3, <1>5, <1>12

(* A number written in digits reads as itself. *)
LEMMA NumeralReads ==
  ASSUME NEW base \in Nat \ {0}, NEW width \in Nat, NEW n \in Nat, n < Power(base, width)
  PROVE  /\ Numeral(n, base, width) \in Seq(Digits(base)) /\ Len(Numeral(n, base, width)) = width
         /\ Number(Numeral(n, base, width), base) = n
<1>0. PICK num : num = Numeral(n, base, width)
  OBVIOUS
<1>1. \A k \in 0 .. width : Power(base, width - k) \in Nat \ {0}
  <2> TAKE k \in 0 .. width
  <2>1. width - k \in Nat
    OBVIOUS
  <2> QED
    BY <2>1, PowerIs
<1>2. \A k \in 1 .. width : num[k] = (n \div Power(base, width - k)) % base
  BY <1>0 DEF Numeral
<1>3. \A k \in 0 .. width : n \div Power(base, width - k) \in Nat
  BY <1>1, DivIs
<1>4. \A k \in 1 .. width : num[k] \in 0 .. base - 1
  BY <1>2, <1>3, DivIs
<1>5. num \in Seq(Digits(base)) /\ Len(num) = width
  <2>1. num \in [1 .. width -> Digits(base)]
    BY <1>0, <1>4 DEF Numeral, Digits
  <2> QED
    BY <2>1
<1> DEFINE r == [k \in 0 .. width |-> n \div Power(base, width - k)]
<1>6. r[0] = 0
  <2>1. PICK p \in Nat \ {0} : p = Power(base, width - 0) /\ n < p
    BY PowerIs
  <2>2. p * 0 + n = n /\ n \in 0 .. p - 1
    BY <2>1
  <2>3. n \div p = 0
    BY <2>2, DivUnique
  <2> QED
    BY <2>1, <2>3
<1>7. ASSUME NEW k \in 1 .. width
      PROVE  r[k] = r[k - 1] * base + num[k]
  <2>1. PICK p \in Nat \ {0} : p = Power(base, width - k) /\ Power(base, width - (k - 1)) = base * p
    <3>1. width - k \in Nat /\ width - (k - 1) = (width - k) + 1
      OBVIOUS
    <3> QED
      BY <3>1, PowerIs
  <2>2. PICK x \in Nat : x = n \div p
    BY DivIs
  <2>3. PICK y \in Nat, d \in 0 .. base - 1 : y = x \div base /\ d = x % base /\ x = base * y + d
    BY DivIs
  <2>4. n \div (base * p) = y
    BY <2>2, <2>3, DivDiv
  <2>5. r[k] = x /\ r[k - 1] = y
    BY <2>1, <2>2, <2>4
  <2>6. num[k] = d
    BY <1>2, <2>1, <2>2, <2>3
  <2>7. base * y = y * base
    OBVIOUS
  <2> QED
    BY <2>3, <2>5, <2>6, <2>7
<1>8. r[width] = n
  <2>1. Power(base, width - width) = 1 /\ n = 1 * n + 0 /\ 0 \in 0 .. 1 - 1
    BY PowerIs
  <2>2. n \div 1 = n
    OBVIOUS
  <2> QED
    BY <2>1, <2>2
<1>9. r \in [0 .. width -> Nat]
  BY <1>3
<1> HIDE DEF r
<1>10. ReadsAs(r, num, base)
  BY <1>5, <1>6, <1>7, <1>9 DEF ReadsAs
<1>11. num \in Seq(Nat)
  BY <1>5 DEF Digits
<1>12. Number(num, base) = n
  BY <1>5, <1>8, <1>10, <1>11, ReadsOnce
<1> QED
  BY <1>0, <1>5, <1>12

-----------------------------------------------------------------------------
(* The whole part of a decimal: int_of of src/form/codec.c.                *)

(* The steps taken are the only ones to take. *)
LEMMA StepsOnce ==
  ASSUME NEW N \in Nat, NEW S, NEW first, NEW step, NEW r, Steps(r, N, S, first, step),
         NEW f, f[0] = first, \A k \in 1 .. N : f[k - 1] \in S => f[k] = step[k][f[k - 1]]
  PROVE  \A k \in 0 .. N : f[k] = r[k] /\ f[k] \in S
<1> DEFINE T == {k \in 0 .. N : f[k] = r[k] /\ f[k] \in S}
<1>1. r \in [0 .. N -> S] /\ r[0] = first /\ \A k \in 1 .. N : r[k] = step[k][r[k - 1]]
  BY DEF Steps
<1>2. 0 \in T
  <2>1. 0 \in 0 .. N
    OBVIOUS
  <2> QED
    BY <1>1, <2>1
<1>3. ASSUME NEW k \in 1 .. N, k - 1 \in T
      PROVE  k \in T
  <2>1. k \in 0 .. N
    OBVIOUS
  <2>2. f[k] = step[k][f[k - 1]] /\ f[k - 1] = r[k - 1]
    BY <1>3
  <2>3. r[k] = step[k][r[k - 1]] /\ r[k] \in S
    BY <1>1, <2>1
  <2> QED
    BY <2>1, <2>2, <2>3
<1>4. \A k \in 0 .. N : k \in T
  <2> HIDE DEF T
  <2> QED
    BY <1>2, <1>3, Induct
<1> QED
  BY <1>4

(* A number the width can hold does not wrap. *)
LEMMA WrapsNot ==
  ASSUME NEW n \in 0 .. IntMax
  PROVE  Wrapped(n) = n
<1>1. PICK h \in Nat : h = IntMax
  BY CodecAssumption
<1>2. PICK d \in Nat \ {0}, m \in Nat : d = 2 * (h + 1) /\ m = n + h + 1 /\ m \in 0 .. d - 1
  <2>1. 2 * (h + 1) \in Nat \ {0} /\ n + h + 1 \in 0 .. 2 * (h + 1) - 1
    BY <1>1
  <2> QED
    BY <2>1
<1>3. m % d = m
  <2>1. d * 0 + m = m
    BY <1>2
  <2>2. (d * 0 + m) % d = m
    BY <1>2, DivUnique
  <2> QED
    BY <2>1, <2>2
<1>4. m - (h + 1) = n
  BY <1>2
<1> QED
  BY <1>1, <1>2, <1>3, <1>4 DEF Wrapped

LEMMA WrappedInt ==
  ASSUME NEW n \in Int
  PROVE  Wrapped(n) \in Int
<1>1. PICK h \in Nat : h = IntMax
  BY CodecAssumption
<1>2. PICK d \in Nat \ {0}, m \in Int : d = 2 * (h + 1) /\ m = n + h + 1
  <2>1. 2 * (h + 1) \in Nat \ {0} /\ n + h + 1 \in Int
    BY <1>1
  <2> QED
    BY <2>1
<1>3. m % d \in Int
  OBVIOUS
<1> QED
  BY <1>1, <1>2, <1>3 DEF Wrapped

(* The values a whole part goes through. *)
LEMMA WholeSteps ==
  ASSUME NEW limit \in Nat, NEW digits \in Seq(Digits(10))
  PROVE  \E w : /\ w \in [0 .. Len(digits) -> Int] /\ w[0] = 0
                /\ \A k \in 1 .. Len(digits) :
                     w[k] = IF w[k - 1] > limit THEN w[k - 1]
                            ELSE Wrapped(w[k - 1] * 10 + digits[k])
                /\ WholePart(digits, limit) = w[Len(digits)]
<1>1. PICK N \in Nat : N = Len(digits) /\ \A k \in 1 .. N : digits[k] \in Nat
  BY DEF Digits
<1>2. PICK step : step = [k \in 1 .. N |-> [x \in Int |->
                            IF x > limit THEN x ELSE Wrapped(x * 10 + digits[k])]]
  OBVIOUS
<1>3. step \in [1 .. N -> [Int -> Int]]
  <2>1. \A k \in 1 .. N, x \in Int : Wrapped(x * 10 + digits[k]) \in Int
    <3> TAKE k \in 1 .. N, x \in Int
    <3>1. PICK d \in Nat : d = digits[k]
      BY <1>1
    <3>2. x * 10 + d \in Int
      OBVIOUS
    <3> QED
      BY <3>1, <3>2, WrappedInt
  <2>2. \A k \in 1 .. N, x \in Int : (IF x > limit THEN x ELSE Wrapped(x * 10 + digits[k])) \in Int
    BY <2>1
  <2> QED
    BY <1>2, <2>2
<1>4. PICK r : Steps(r, N, Int, 0, step)
  <2>1. 0 \in Int
    OBVIOUS
  <2> QED
    BY <1>3, <2>1, StepByStep
<1>5. r \in [0 .. N -> Int] /\ r[0] = 0
  BY <1>4 DEF Steps
<1>6. \A k \in 1 .. N : r[k] = IF r[k - 1] > limit THEN r[k - 1]
                               ELSE Wrapped(r[k - 1] * 10 + digits[k])
  <2> TAKE k \in 1 .. N
  <2>1. k - 1 \in 0 .. N
    OBVIOUS
  <2>2. r[k - 1] \in Int /\ r[k] = step[k][r[k - 1]]
    BY <1>4, <2>1 DEF Steps
  <2> QED
    BY <1>2, <2>2
<1> DEFINE Rec == CHOOSE f : f = [k \in 0 .. N |->
                    IF k = 0 THEN 0
                    ELSE IF f[k - 1] > limit THEN f[k - 1]
                    ELSE Wrapped(f[k - 1] * 10 + digits[k])]
<1>7. Rec = [k \in 0 .. N |-> IF k = 0 THEN 0
                    ELSE IF Rec[k - 1] > limit THEN Rec[k - 1]
                    ELSE Wrapped(Rec[k - 1] * 10 + digits[k])]
  <2>1. r = [k \in 0 .. N |-> IF k = 0 THEN 0
                    ELSE IF r[k - 1] > limit THEN r[k - 1]
                    ELSE Wrapped(r[k - 1] * 10 + digits[k])]
    BY <1>5, <1>6
  <2> QED
    BY <2>1
<1>8. WholePart(digits, limit) = Rec[N]
  BY <1>1 DEF WholePart
<1> HIDE DEF Rec
<1>9. PICK w : w = Rec
  OBVIOUS
<1>10. w[0] = 0
  BY <1>7, <1>9
<1>11. \A k \in 1 .. N : w[k] = IF w[k - 1] > limit THEN w[k - 1]
                                ELSE Wrapped(w[k - 1] * 10 + digits[k])
  <2> TAKE k \in 1 .. N
  <2>1. k \in 0 .. N /\ k # 0
    OBVIOUS
  <2> QED
    BY <1>7, <1>9, <2>1
<1>12. \A k \in 1 .. N : w[k - 1] \in Int => w[k] = step[k][w[k - 1]]
  BY <1>2, <1>11
<1>13. \A k \in 0 .. N : w[k] \in Int
  BY <1>4, <1>10, <1>12, StepsOnce
<1>14. w \in [0 .. N -> Int]
  BY <1>7, <1>9, <1>13
<1> QED
  BY <1>1, <1>8, <1>9, <1>10, <1>11, <1>14

(* A whole part within the limit is read; one past it is given up, if the   *)
(* limit leaves room for the digit that shows it.                           *)
LEMMA WholeIs ==
  ASSUME NEW limit \in 0 .. IntMax, NEW digits \in Seq(Digits(10))
  PROVE  /\ WholePart(digits, limit) \in Int
         /\ Number(digits, 10) <= limit => WholePart(digits, limit) = Number(digits, 10)
         /\ 10 * limit + 9 <= IntMax /\ Number(digits, 10) > limit => WholePart(digits, limit) > limit
<1>0. limit \in Nat /\ IntMax \in Nat
  BY CodecAssumption
<1>1. PICK N \in Nat : N = Len(digits) /\ \A k \in 1 .. N : digits[k] \in 0 .. 9
  BY DEF Digits
<1>2. digits \in Seq(Nat)
  BY DEF Digits
<1>3. PICK r : ReadsAs(r, digits, 10) /\ Number(digits, 10) = r[N]
  BY <1>1, <1>2, NumberIs
<1>4. /\ r \in [0 .. N -> Nat] /\ r[0] = 0
      /\ \A k \in 1 .. N : r[k] = r[k - 1] * 10 + digits[k]
  BY <1>1, <1>3 DEF ReadsAs
<1>5. PICK w : /\ w \in [0 .. N -> Int] /\ w[0] = 0
               /\ \A k \in 1 .. N : w[k] = IF w[k - 1] > limit THEN w[k - 1]
                                           ELSE Wrapped(w[k - 1] * 10 + digits[k])
               /\ WholePart(digits, limit) = w[N]
  BY <1>0, <1>1, WholeSteps
<1>6. \A k \in 1 .. N : k \in 0 .. N /\ k - 1 \in 0 .. N
  OBVIOUS
<1>7. ASSUME r[N] <= limit
      PROVE  w[N] = r[N]
  <2> DEFINE T == {k \in 0 .. N : w[k] = r[k]}
  <2>1. 0 \in T
    BY <1>4, <1>5
  <2>2. ASSUME NEW k \in 1 .. N, k - 1 \in T
        PROVE  k \in T
    <3>1. PICK x \in Nat, y \in Nat, d \in 0 .. 9 : x = r[k - 1] /\ y = r[k] /\ d = digits[k]
      BY <1>1, <1>4, <1>6
    <3>2. y = x * 10 + d /\ w[k - 1] = x
      BY <1>4, <2>2, <3>1
    <3>3. y <= limit
      <4>1. r[k] <= r[N]
        BY <1>1, <1>2, <1>3, <1>6, ReadsUp
      <4>2. r[N] \in Nat
        BY <1>4
      <4> QED
        BY <1>7, <3>1, <4>1, <4>2
    <3>4. ~(x > limit) /\ x * 10 + d \in 0 .. IntMax
      BY <1>0, <3>2, <3>3
    <3>5. w[k] = Wrapped(x * 10 + d)
      BY <1>5, <3>1, <3>2, <3>4
    <3>6. w[k] = y
      BY <3>2, <3>4, <3>5, WrapsNot
    <3> QED
      BY <1>6, <3>1, <3>6
  <2>3. \A k \in 0 .. N : k \in T
    <3> HIDE DEF T
    <3> QED
      BY <2>1, <2>2, Induct
  <2> QED
    BY <2>3
<1>8. ASSUME 10 * limit + 9 <= IntMax, r[N] > limit
      PROVE  w[N] > limit
  <2> DEFINE T == {k \in 0 .. N : w[k] \in Nat /\ IF w[k] > limit THEN r[k] > limit ELSE w[k] = r[k]}
  <2>1. 0 \in T
    BY <1>4, <1>5
  <2>2. ASSUME NEW k \in 1 .. N, k - 1 \in T
        PROVE  k \in T
    <3>1. PICK x \in Nat, y \in Nat, d \in 0 .. 9, z \in Nat :
            x = r[k - 1] /\ y = r[k] /\ d = digits[k] /\ z = w[k - 1]
      BY <1>1, <1>4, <1>6, <2>2
    <3>2. y = x * 10 + d /\ IF z > limit THEN x > limit ELSE z = x
      BY <1>4, <2>2, <3>1
    <3>3. CASE z > limit
      <4>1. w[k] = z
        BY <1>5, <3>1, <3>3
      <4>2. y > limit
        BY <1>0, <3>2, <3>3
      <4> QED
        BY <1>6, <3>1, <3>3, <4>1, <4>2
    <3>4. CASE ~(z > limit)
      <4>1. x * 10 + d \in 0 .. IntMax
        BY <1>0, <1>8, <3>2, <3>4
      <4>2. w[k] = Wrapped(x * 10 + d)
        BY <1>5, <3>1, <3>2, <3>4
      <4>3. w[k] = y
        BY <3>2, <4>1, <4>2, WrapsNot
      <4> QED
        BY <1>6, <3>1, <4>3
    <3> QED
      BY <3>3, <3>4
  <2>3. \A k \in 0 .. N : k \in T
    <3> HIDE DEF T
    <3> QED
      BY <2>1, <2>2, Induct
  <2>4. N \in T /\ N \in 0 .. N
    BY <2>3
  <2>5. r[N] \in Nat
    BY <1>4, <2>4
  <2> QED
    BY <1>0, <1>8, <2>4, <2>5
<1>9. w[N] \in Int
  BY <1>5
<1> QED
  BY <1>3, <1>5, <1>7, <1>8, <1>9

-----------------------------------------------------------------------------
(* Identifiers, and bytes.                                                 *)

LEMMA IdMostIs == IdMost \in Nat /\ Power(16, IdDigits) = IdMost + 1
<1>1. IdDigits \in Nat /\ 16 \in Nat \ {0}
  BY CodecAssumption
<1>2. Power(16, IdDigits) \in Nat \ {0}
  BY <1>1, PowerIs
<1>3. PICK p \in Nat \ {0} : p = Power(16, IdDigits)
  BY <1>2
<1>4. p - 1 \in Nat /\ p = (p - 1) + 1
  OBVIOUS
<1> QED
  BY <1>3, <1>4 DEF IdMost

(* The digits of an identifier are read, or given up when they do not fit.  *)
LEMMA IdNumberIs ==
  ASSUME NEW base \in Nat \ {0}, NEW digits \in Seq(Nat)
  PROVE  /\ IdNumber(digits, base) \in Nat
         /\ IF Number(digits, base) <= IdMost THEN IdNumber(digits, base) = Number(digits, base)
                                              ELSE IdNumber(digits, base) > IdMost
<1>1. PICK N \in Nat : N = Len(digits) /\ \A k \in 1 .. N : digits[k] \in Nat
  OBVIOUS
<1>2. PICK most \in Nat : most = IdMost
  BY IdMostIs
<1>3. PICK r : ReadsAs(r, digits, base) /\ Number(digits, base) = r[N]
  BY <1>1, NumberIs
<1>4. /\ r \in [0 .. N -> Nat] /\ r[0] = 0
      /\ \A k \in 1 .. N : r[k] = r[k - 1] * base + digits[k]
  BY <1>1, <1>3 DEF ReadsAs
<1>5. PICK step : step = [k \in 1 .. N |-> [x \in Nat |->
                            IF x > most THEN x ELSE x * base + digits[k]]]
  OBVIOUS
<1>6. step \in [1 .. N -> [Nat -> Nat]]
  <2>1. \A k \in 1 .. N, x \in Nat : x * base + digits[k] \in Nat
    <3> TAKE k \in 1 .. N, x \in Nat
    <3>1. PICK d \in Nat : d = digits[k]
      BY <1>1
    <3>2. x * base + d \in Nat
      OBVIOUS
    <3> QED
      BY <3>1, <3>2
  <2>2. \A k \in 1 .. N, x \in Nat : (IF x > most THEN x ELSE x * base + digits[k]) \in Nat
    BY <2>1
  <2> QED
    BY <1>5, <2>2
<1>7. PICK s : Steps(s, N, Nat, 0, step)
  <2>1. 0 \in Nat
    OBVIOUS
  <2> QED
    BY <1>6, <2>1, StepByStep
<1>8. s \in [0 .. N -> Nat] /\ s[0] = 0
  BY <1>7 DEF Steps
<1>9. \A k \in 1 .. N : s[k] = IF s[k - 1] > most THEN s[k - 1] ELSE s[k - 1] * base + digits[k]
  <2> TAKE k \in 1 .. N
  <2>1. k - 1 \in 0 .. N
    OBVIOUS
  <2>2. s[k - 1] \in Nat /\ s[k] = step[k][s[k - 1]]
    BY <1>7, <2>1 DEF Steps
  <2> QED
    BY <1>5, <2>2
<1> DEFINE Rec == CHOOSE f : f = [k \in 0 .. N |->
                    IF k = 0 THEN 0
                    ELSE IF f[k - 1] > most THEN f[k - 1]
                    ELSE f[k - 1] * base + digits[k]]
<1>10. Rec = [k \in 0 .. N |-> IF k = 0 THEN 0
                    ELSE IF Rec[k - 1] > most THEN Rec[k - 1]
                    ELSE Rec[k - 1] * base + digits[k]]
  <2>1. s = [k \in 0 .. N |-> IF k = 0 THEN 0
                    ELSE IF s[k - 1] > most THEN s[k - 1]
                    ELSE s[k - 1] * base + digits[k]]
    BY <1>8, <1>9
  <2> QED
    BY <2>1
<1>11. IdNumber(digits, base) = Rec[N]
  BY <1>1, <1>2 DEF IdNumber
<1> HIDE DEF Rec
<1>12. PICK w : w = Rec
  OBVIOUS
<1>13. w[0] = 0
  BY <1>10, <1>12
<1>14. \A k \in 1 .. N : w[k] = IF w[k - 1] > most THEN w[k - 1] ELSE w[k - 1] * base + digits[k]
  <2> TAKE k \in 1 .. N
  <2>1. k \in 0 .. N /\ k # 0
    OBVIOUS
  <2> QED
    BY <1>10, <1>12, <2>1
<1>15. \A k \in 1 .. N : k \in 0 .. N /\ k - 1 \in 0 .. N
  OBVIOUS
<1> DEFINE T == {k \in 0 .. N : w[k] \in Nat /\ IF w[k] > most THEN r[k] > most ELSE w[k] = r[k]}
<1>16. 0 \in T
  BY <1>4, <1>13
<1>17. ASSUME NEW k \in 1 .. N, k - 1 \in T
       PROVE  k \in T
  <2>1. PICK x \in Nat, y \in Nat, d \in Nat, z \in Nat :
          x = r[k - 1] /\ y = r[k] /\ d = digits[k] /\ z = w[k - 1]
    BY <1>1, <1>4, <1>15, <1>17
  <2>2. y = x * base + d /\ IF z > most THEN x > most ELSE z = x
    BY <1>4, <1>17, <2>1
  <2>3. CASE z > most
    <3>1. w[k] = z
      BY <1>14, <2>1, <2>3
    <3>2. x * base >= x /\ x * base \in Nat
      <4>1. PICK e \in Nat : base = 1 + e
        <5>1. base - 1 \in Nat /\ base = 1 + (base - 1)
          OBVIOUS
        <5> QED
          BY <5>1
      <4>2. x * (1 + e) = x + x * e /\ x * e \in Nat
        OBVIOUS
      <4> QED
        BY <4>1, <4>2
    <3>3. y > most
      BY <2>2, <2>3, <3>2
    <3> QED
      BY <1>15, <2>1, <2>3, <3>1, <3>3
  <2>4. CASE ~(z > most)
    <3>1. w[k] = y
      BY <1>14, <2>1, <2>2, <2>4
    <3> QED
      BY <1>15, <2>1, <3>1
  <2> QED
    BY <2>3, <2>4
<1>18. \A k \in 0 .. N : k \in T
  <2> HIDE DEF T
  <2> QED
    BY <1>16, <1>17, Induct
<1>19. w[N] \in Nat /\ r[N] \in Nat /\ IF w[N] > most THEN r[N] > most ELSE w[N] = r[N]
  <2>1. N \in 0 .. N /\ N \in T
    BY <1>18
  <2> QED
    BY <1>4, <2>1
<1> QED
  BY <1>2, <1>3, <1>11, <1>12, <1>19

(* inkstand_form_id_parse takes a txt for what it means. *)
LEMMA IdParseIs ==
  ASSUME NEW txt, IsId(txt)
  PROVE  IdParse(txt) = IdMeant(txt)
<1> DEFINE letters == \E i \in DOMAIN txt.digits : txt.digits[i] > 9
           base == IF letters \/ txt.prefix # "" THEN 16 ELSE 10
           number == Number(txt.digits, base)
           value == IdNumber(txt.digits, base)
<1>1. base \in Nat \ {0} /\ txt.digits \in Seq(Nat)
  BY DEF IsId, Digits
<1>2. IsHex(txt) <=> letters \/ txt.prefix # ""
  BY DEF IsHex
<1>3. IdParse(txt) = IF ~txt.clean \/ value > IdMost THEN {}
                      ELSE IF txt.digits = <<>> /\ txt.prefix # "" THEN {} ELSE {value}
  BY <1>2 DEF IdParse
<1>4. IdMeant(txt) = {v \in 0 .. IdMost : /\ txt.clean /\ (txt.prefix # "" => txt.digits # <<>>)
                                           /\ v = number}
  BY DEF IdMeant
<1>5. number \in Nat
  <2> HIDE DEF base
  <2> QED
    BY <1>1, NumberNat
<1>6. /\ value \in Nat
      /\ IF number <= IdMost THEN value = number ELSE value > IdMost
  <2> HIDE DEF base
  <2> QED
    BY <1>1, IdNumberIs
<1>7. IdMost \in Nat
  BY IdMostIs
<1> HIDE DEF number, value, letters, base
<1> DEFINE sound == txt.clean /\ (txt.prefix # "" => txt.digits # <<>>)
<1>11. /\ sound /\ ~(value > IdMost) => IdParse(txt) = {value}
       /\ ~sound \/ value > IdMost => IdParse(txt) = {}
       /\ sound /\ number \in 0 .. IdMost => IdMeant(txt) = {number}
       /\ ~sound \/ number \notin 0 .. IdMost => IdMeant(txt) = {}
  BY <1>3, <1>4
<1> HIDE DEF sound
<1>12. number <= IdMost <=> number \in 0 .. IdMost
  BY <1>5, <1>7
<1>13. ~(value > IdMost) <=> value <= IdMost
  BY <1>6, <1>7
<1> QED
  BY <1>6, <1>11, <1>12, <1>13

(* An identifier printed reads back. *)
LEMMA IdReadsBack ==
  ASSUME NEW id \in 0 .. IdMost
  PROVE  IdParse(IdText(id)) = {id}
<1>1. IdMost \in Nat /\ Power(16, IdDigits) = IdMost + 1 /\ IdDigits \in Nat \ {0} /\ id \in Nat
  BY IdMostIs, CodecAssumption
<1>2. CASE id = 0
  <2>0. PICK txt : txt = IdText(id)
    OBVIOUS
  <2>1. txt.digits = <<>> /\ txt.prefix = "" /\ txt.clean
    BY <1>2, <2>0 DEF IdText
  <2>2. ~IsHex(txt)
    <3>0. DOMAIN <<>> = {}
      OBVIOUS
    <3>1. DOMAIN txt.digits = {}
      BY <2>1, <3>0
    <3> QED
      BY <2>1, <3>1 DEF IsHex
  <2>3. IdNumber(<<>>, 10) = 0
    <3>1. <<>> \in Seq(Nat) /\ Len(<<>>) = 0 /\ 10 \in Nat \ {0} /\ 0 <= IdMost
      BY <1>1
    <3>2. Number(<<>>, 10) = 0
      <4>1. PICK r : ReadsAs(r, <<>>, 10) /\ Number(<<>>, 10) = r[0]
        BY <3>1, NumberIs
      <4> QED
        BY <4>1 DEF ReadsAs
    <3> QED
      BY <1>1, <3>1, <3>2, IdNumberIs
  <2>4. ~(0 > IdMost)
    BY <1>1
  <2>5. IdParse(txt) = {0}
    BY <2>1, <2>2, <2>3, <2>4 DEF IdParse
  <2> QED
    BY <1>2, <2>0, <2>5
<1>3. CASE id # 0
  <2>1. IdText(id).prefix = "marker" /\ IdText(id).clean /\ IdText(id).digits = Numeral(id, 16, IdDigits)
    BY <1>3 DEF IdText
  <2>2. PICK digits : digits = Numeral(id, 16, IdDigits)
    OBVIOUS
  <2>3. digits \in Seq(Digits(16)) /\ Len(digits) = IdDigits /\ Number(digits, 16) = id
    <3>1. 16 \in Nat \ {0} /\ IdDigits \in Nat /\ id < Power(16, IdDigits)
      BY <1>1
    <3> QED
      BY <1>1, <2>2, <3>1, NumeralReads
  <2>4. digits # <<>> /\ digits \in Seq(Nat)
    BY <1>1, <2>3 DEF Digits
  <2>5. IdNumber(digits, 16) = id
    <3>1. 16 \in Nat \ {0} /\ id <= IdMost
      BY <1>1
    <3> QED
      BY <2>3, <2>4, <3>1, IdNumberIs
  <2>6. IsHex(IdText(id))
    BY <2>1 DEF IsHex
  <2>7. ~(id > IdMost)
    BY <1>1
  <2> QED
    BY <2>1, <2>2, <2>4, <2>5, <2>6, <2>7 DEF IdParse
<1> QED
  BY <1>2, <1>3

(* Bytes printed read back, where no size of the row's is half as much      *)
(* again as another.                                                        *)
LEMMA BytesRead ==
  ASSUME NEW row, row.limit \in Nat, row.sizes \subseteq 1 .. row.limit, NEW v
  PROVE  BytesReadBack(row, v)
<1> SUFFICES ASSUME v.size \in row.sizes, \A n \in row.sizes : 3 * n # 2 * v.size
             PROVE  /\ BytesParse(BytesHex(v), row.sizes, row.limit) = {v}
                    /\ BytesParse(BytesBase64(v), row.sizes, row.limit) = {v}
  BY DEF BytesReadBack
<1>1. PICK size \in Nat \ {0}, limit \in Nat : size = v.size /\ limit = row.limit /\ size <= limit
  OBVIOUS
<1>2. \A n \in row.sizes : n \in Nat
  OBVIOUS
<1>3. BytesParse(BytesHex(v), row.sizes, row.limit) = {v}
  <2>1. PICK txt : txt = BytesHex(v)
    OBVIOUS
  <2>2. txt.of = v /\ txt.spelling = "hex" /\ txt.chars = 2 * size /\ txt.allHex
    BY <1>1, <2>1 DEF BytesHex
  <2>3. 2 * size # 0 /\ (2 * size) \div 2 = size
    OBVIOUS
  <2>4. \E n \in row.sizes : txt.chars = 2 * n
    BY <1>1, <2>2
  <2>5. ReadAs(txt, "hex", size, limit) = {v}
    BY <1>1, <2>2 DEF ReadAs
  <2> QED
    BY <1>1, <2>1, <2>2, <2>3, <2>4, <2>5 DEF BytesParse
<1>4. BytesParse(BytesBase64(v), row.sizes, row.limit) = {v}
  <2>1. PICK txt : txt = BytesBase64(v)
    OBVIOUS
  <2>2. PICK q \in Nat, r \in 0 .. 3 - 1 : q = (size + 2) \div 3 /\ size + 2 = 3 * q + r
    <3>1. size + 2 \in Nat /\ 3 \in Nat \ {0}
      OBVIOUS
    <3> QED
      BY <3>1, DivIs
  <2>3. txt.of = v /\ txt.spelling = "base64" /\ txt.chars = 4 * q
    BY <1>1, <2>1, <2>2 DEF BytesBase64
  <2>4. txt.allHex => size % 3 = 0
    BY <1>1, <2>1 DEF BytesBase64
  <2>5. ~(txt.allHex /\ \E n \in row.sizes : txt.chars = 2 * n)
    <3> SUFFICES ASSUME txt.allHex, NEW n \in row.sizes, txt.chars = 2 * n
                 PROVE  FALSE
      OBVIOUS
    <3>1. PICK p \in Nat, s \in 0 .. 3 - 1 : s = size % 3 /\ size = 3 * p + s
      <4>1. size \in Nat /\ 3 \in Nat \ {0}
        OBVIOUS
      <4> QED
        BY <4>1, DivIs
    <3>a. s = 0
      BY <1>1, <2>4, <3>1
    <3>b. size = 3 * p
      BY <3>1, <3>a
    <3>c. n = 2 * q /\ n \in Nat
      BY <1>2, <2>3
    <3>2. size = 3 * p /\ n = 2 * q /\ n \in Nat
      BY <3>b, <3>c
    <3>3. q = p
      BY <2>2, <3>2
    <3>4. 3 * n = 2 * size
      BY <3>2, <3>3
    <3> QED
      BY <1>1, <3>4
  <2>6. 4 * q # 0 /\ (4 * q) % 4 = 0
    BY <2>2
  <2>7. ReadAs(txt, "base64", size, limit) = {v}
    BY <1>1, <2>3 DEF ReadAs
  <2> QED
    BY <1>1, <2>1, <2>3, <2>5, <2>6, <2>7 DEF BytesParse
<1> QED
  BY <1>3, <1>4

-----------------------------------------------------------------------------
(* The fraction of a decimal, and the decimal.                             *)

LEMMA NumberLess ==
  ASSUME NEW base \in Nat \ {0}, NEW digits \in Seq(Digits(base))
  PROVE  Number(digits, base) \in Nat /\ Number(digits, base) < Power(base, Len(digits))
<1>1. digits \in Seq(Nat) /\ base \in Nat
  BY DEF Digits
<1>2. PICK N \in Nat : N = Len(digits) /\ N \in 0 .. N
  OBVIOUS
<1>3. PICK r : ReadsAs(r, digits, base) /\ Number(digits, base) = r[N]
  BY <1>1, <1>2, NumberIs
<1>4. r[N] < Power(base, N)
  BY <1>2, <1>3, ReadsLess
<1> QED
  BY <1>1, <1>2, <1>3, <1>4, NumberNat

(* A number is 0 when its digits are. *)
LEMMA NumberZero ==
  ASSUME NEW base \in Nat \ {0}, NEW digits \in Seq(Nat)
  PROVE  Number(digits, base) = 0 <=> \A i \in 1 .. Len(digits) : digits[i] = 0
<1>1. PICK N \in Nat : N = Len(digits) /\ N \in 0 .. N /\ \A k \in 1 .. N : digits[k] \in Nat
  OBVIOUS
<1>2. ASSUME \A i \in 1 .. N : digits[i] = 0
      PROVE  Number(digits, base) = 0
  <2>1. PICK r : r = [k \in 0 .. N |-> 0]
    OBVIOUS
  <2>2. \A k \in 1 .. N : r[k] = r[k - 1] * base + digits[k]
    <3> TAKE k \in 1 .. N
    <3>1. k - 1 \in 0 .. N /\ k \in 0 .. N /\ 0 * base + 0 = 0
      OBVIOUS
    <3> QED
      BY <1>2, <2>1, <3>1
  <2>3. ReadsAs(r, digits, base)
    BY <1>1, <2>1, <2>2 DEF ReadsAs
  <2> QED
    BY <1>1, <2>1, <2>3, ReadsOnce
<1>3. ASSUME Number(digits, base) = 0, NEW k \in 1 .. N
      PROVE  digits[k] = 0
  <2>1. PICK r : ReadsAs(r, digits, base) /\ r[N] = 0
    BY <1>1, <1>3, NumberIs
  <2>2. k \in 0 .. N /\ k - 1 \in 0 .. N
    OBVIOUS
  <2>3. r[k] <= 0
    BY <1>1, <2>1, <2>2, ReadsUp
  <2>4. PICK x \in Nat, d \in Nat : x = r[k - 1] /\ d = digits[k] /\ r[k] = x * base + d
    BY <1>1, <2>1, <2>2 DEF ReadsAs
  <2>5. x * base \in Nat
    OBVIOUS
  <2> QED
    BY <2>3, <2>4, <2>5
<1> QED
  BY <1>1, <1>2, <1>3

(* The fraction filled up or cut, as a number. *)
LEMMA PaddedIs ==
  ASSUME NEW fraction \in Seq(Digits(10)), NEW digits \in Nat
  PROVE  /\ Padded(fraction, digits) \in Seq(Digits(10)) /\ Len(Padded(fraction, digits)) = digits
         /\ Len(fraction) <= digits =>
              Number(Padded(fraction, digits), 10) = Number(fraction, 10) * Power(10, digits - Len(fraction))
         /\ Len(fraction) > digits =>
              \E t \in 0 .. Power(10, Len(fraction) - digits) - 1 :
                /\ Number(fraction, 10)
                     = Number(Padded(fraction, digits), 10) * Power(10, Len(fraction) - digits) + t
                /\ t = 0 <=> \A i \in 1 .. Len(fraction) : i > digits => fraction[i] = 0
<1>1. PICK L \in Nat : L = Len(fraction) /\ fraction \in [1 .. L -> Digits(10)]
  OBVIOUS
<1>2. PICK padded : padded = Padded(fraction, digits)
  OBVIOUS
<1>3. /\ DOMAIN padded = 1 .. digits
      /\ \A i \in 1 .. digits : padded[i] = IF i <= L THEN fraction[i] ELSE 0
      /\ padded = [i \in 1 .. digits |-> padded[i]]
  BY <1>1, <1>2 DEF Padded
<1>4. \A i \in 1 .. digits : padded[i] \in Digits(10)
  <2> TAKE i \in 1 .. digits
  <2>1. 0 \in Digits(10)
    BY DEF Digits
  <2>2. i <= L => i \in 1 .. L
    OBVIOUS
  <2> QED
    BY <1>1, <1>3, <2>1, <2>2
<1>5. padded \in Seq(Digits(10)) /\ Len(padded) = digits
  BY <1>3, <1>4
<1>6. fraction \in Seq(Nat) /\ padded \in Seq(Nat) /\ 10 \in Nat \ {0}
  BY <1>5 DEF Digits
<1>7. ASSUME L <= digits
      PROVE  Number(padded, 10) = Number(fraction, 10) * Power(10, digits - L)
  <2>1. PICK m \in Nat : m = digits - L /\ L + m = digits
    <3>1. digits - L \in Nat /\ L + (digits - L) = digits
      BY <1>7
    <3> QED
      BY <3>1
  <2>2. PICK zeros : zeros = [i \in 1 .. m |-> 0]
    OBVIOUS
  <2>3. zeros \in Seq(Nat) /\ Len(zeros) = m
    BY <2>2
  <2>4. Number(zeros, 10) = 0
    BY <1>6, <2>2, <2>3, NumberZero
  <2>5. padded = fraction \o zeros
    <3>1. fraction \o zeros \in Seq(Nat) /\ Len(fraction \o zeros) = digits
      BY <1>1, <1>6, <2>1, <2>3
    <3>2. \A i \in 1 .. digits : padded[i] = (fraction \o zeros)[i]
      <4> TAKE i \in 1 .. digits
      <4>1. CASE i <= L
        <5>1. (fraction \o zeros)[i] = fraction[i]
          BY <1>1, <1>6, <2>3, <4>1
        <5> QED
          BY <1>3, <4>1, <5>1
      <4>2. CASE ~(i <= L)
        <5>1. i - L \in 1 .. m /\ (fraction \o zeros)[i] = zeros[i - L]
          BY <1>1, <1>6, <2>1, <2>3, <4>2
        <5> QED
          BY <1>3, <2>2, <4>2, <5>1
      <4> QED
        BY <4>1, <4>2
    <3> QED
      BY <1>5, <1>6, <3>1, <3>2, SeqEqual
  <2>6. Number(padded, 10) = Number(fraction, 10) * Power(10, m) + 0
    BY <1>6, <2>3, <2>4, <2>5, NumberOfTwo
  <2>7. PICK x \in Nat, p \in Nat : x = Number(fraction, 10) /\ p = Power(10, m)
    BY <1>6, NumberNat, PowerIs
  <2>8. x * p + 0 = x * p
    OBVIOUS
  <2> QED
    BY <2>1, <2>6, <2>7, <2>8
<1>8. ASSUME L > digits
      PROVE  \E t \in 0 .. Power(10, L - digits) - 1 :
                /\ Number(fraction, 10) = Number(padded, 10) * Power(10, L - digits) + t
                /\ t = 0 <=> \A i \in 1 .. L : i > digits => fraction[i] = 0
  <2>1. PICK m \in Nat : m = L - digits /\ digits + m = L
    <3>1. L - digits \in Nat /\ digits + (L - digits) = L
      BY <1>8
    <3> QED
      BY <3>1
  <2>2. PICK tail : tail = [i \in 1 .. m |-> fraction[digits + i]]
    OBVIOUS
  <2>3. tail \in Seq(Digits(10)) /\ Len(tail) = m
    <3>1. \A i \in 1 .. m : digits + i \in 1 .. L
      BY <2>1
    <3>2. \A i \in 1 .. m : fraction[digits + i] \in Digits(10)
      BY <1>1, <3>1
    <3> QED
      BY <2>2, <3>2
  <2>4. tail \in Seq(Nat)
    BY <2>3 DEF Digits
  <2>5. fraction = padded \o tail
    <3>0. padded \o tail \in Seq(Nat) /\ Len(padded \o tail) = Len(padded) + Len(tail)
      BY <1>6, <2>4
    <3>1. padded \o tail \in Seq(Nat) /\ Len(padded \o tail) = L
      BY <1>5, <2>1, <2>3, <3>0
    <3>2. \A i \in 1 .. L : fraction[i] = (padded \o tail)[i]
      <4> TAKE i \in 1 .. L
      <4>1. CASE i <= digits
        <5>1. (padded \o tail)[i] = padded[i] /\ i \in 1 .. digits
          BY <1>5, <1>6, <2>4, <4>1
        <5> QED
          BY <1>3, <5>1
      <4>2. CASE ~(i <= digits)
        <5>1. i - digits \in 1 .. m /\ (padded \o tail)[i] = tail[i - digits] /\ digits + (i - digits) = i
          BY <1>5, <1>6, <2>1, <2>3, <2>4, <4>2
        <5> QED
          BY <2>2, <5>1
      <4> QED
        BY <4>1, <4>2
    <3> QED
      BY <1>1, <1>6, <3>1, <3>2, SeqEqual
  <2>6. PICK t \in Nat : t = Number(tail, 10) /\ t < Power(10, m)
    BY <1>6, <2>3, NumberLess
  <2>7. Number(fraction, 10) = Number(padded, 10) * Power(10, m) + t
    BY <1>6, <2>3, <2>4, <2>5, <2>6, NumberOfTwo
  <2>8. t = 0 <=> \A i \in 1 .. m : tail[i] = 0
    BY <1>6, <2>3, <2>4, <2>6, NumberZero
  <2>9. (\A i \in 1 .. m : tail[i] = 0) <=> \A i \in 1 .. L : i > digits => fraction[i] = 0
    <3>1. ASSUME \A i \in 1 .. m : tail[i] = 0, NEW i \in 1 .. L, i > digits
          PROVE  fraction[i] = 0
      <4>1. i - digits \in 1 .. m /\ digits + (i - digits) = i
        BY <2>1, <3>1
      <4> QED
        BY <2>2, <3>1, <4>1
    <3>2. ASSUME \A i \in 1 .. L : i > digits => fraction[i] = 0, NEW i \in 1 .. m
          PROVE  tail[i] = 0
      <4>1. digits + i \in 1 .. L /\ digits + i > digits
        BY <2>1
      <4> QED
        BY <2>2, <3>2, <4>1
    <3> QED
      BY <3>1, <3>2
  <2>10. PICK p \in Nat \ {0} : p = Power(10, m)
    BY <1>6, PowerIs
  <2>11. t \in 0 .. Power(10, m) - 1
    BY <2>6, <2>10
  <2> QED
    BY <2>1, <2>7, <2>8, <2>9, <2>11
<1> QED
  BY <1>1, <1>2, <1>5, <1>7, <1>8

(* The fraction is what it says in places of the value; and it says nothing *)
(* when there is no such number of them.                                    *)
LEMMA FractionIs ==
  ASSUME NEW fraction \in Seq(Digits(10)), NEW digits \in Nat
  PROVE  \E P \in Nat :
           /\ P < Power(10, digits)
           /\ \/ /\ Fraction(fraction, digits) = {P}
                 /\ Number(fraction, 10) * Power(10, digits) = P * Power(10, Len(fraction))
              \/ /\ Fraction(fraction, digits) = {}
                 /\ \A x \in Int : x * Power(10, Len(fraction)) # Number(fraction, 10) * Power(10, digits)
<1>1. PICK L \in Nat : L = Len(fraction)
  OBVIOUS
<1>2. fraction \in Seq(Nat) /\ 10 \in Nat \ {0}
  BY DEF Digits
<1>3. Padded(fraction, digits) \in Seq(Digits(10)) /\ Len(Padded(fraction, digits)) = digits
  BY PaddedIs
<1>4. PICK P \in Nat : P = Number(Padded(fraction, digits), 10) /\ P < Power(10, digits)
  BY <1>2, <1>3, NumberLess
<1>5. PICK F \in Nat : F = Number(fraction, 10)
  BY <1>2, NumberNat
<1>6. PICK s \in Nat \ {0}, l \in Nat \ {0} : s = Power(10, digits) /\ l = Power(10, L)
  BY <1>2, PowerIs
<1>7. Fraction(fraction, digits) = IF \A i \in 1 .. L : i > digits => fraction[i] = 0 THEN {P} ELSE {}
  BY <1>1, <1>4 DEF Fraction
<1>8. CASE L <= digits
  <2>1. PICK m \in Nat : m = digits - L /\ L + m = digits
    <3>1. digits - L \in Nat /\ L + (digits - L) = digits
      BY <1>8
    <3> QED
      BY <3>1
  <2>2. PICK q \in Nat : q = Power(10, m)
    BY <1>2, PowerIs
  <2>3. P = F * q
    BY <1>1, <1>4, <1>5, <1>8, <2>1, <2>2, PaddedIs
  <2>4. s = l * q
    BY <1>2, <1>6, <2>1, <2>2, PowerAdds
  <2>5. F * (l * q) = (F * q) * l
    OBVIOUS
  <2>6. Fraction(fraction, digits) = {P}
    BY <1>7, <1>8
  <2> QED
    BY <1>1, <1>4, <1>5, <1>6, <2>3, <2>4, <2>5, <2>6
<1>9. CASE L > digits
  <2>1. PICK m \in Nat : m = L - digits /\ digits + m = L
    <3>1. L - digits \in Nat /\ digits + (L - digits) = L
      BY <1>9
    <3> QED
      BY <3>1
  <2>2. PICK q \in Nat \ {0} : q = Power(10, m)
    BY <1>2, PowerIs
  <2>3. PICK t \in 0 .. q - 1 : /\ F = P * q + t
                                /\ t = 0 <=> \A i \in 1 .. L : i > digits => fraction[i] = 0
    <3>1. Len(fraction) > digits
      BY <1>1, <1>9
    <3>2. \E t \in 0 .. Power(10, Len(fraction) - digits) - 1 :
                /\ Number(fraction, 10)
                     = Number(Padded(fraction, digits), 10) * Power(10, Len(fraction) - digits) + t
                /\ t = 0 <=> \A i \in 1 .. Len(fraction) : i > digits => fraction[i] = 0
      BY <3>1, PaddedIs
    <3>3. Power(10, Len(fraction) - digits) = q
      BY <1>1, <2>1, <2>2
    <3> QED
      BY <1>1, <1>4, <1>5, <3>2, <3>3
  <2>4. l = s * q
    BY <1>2, <1>6, <2>1, <2>2, PowerAdds
  <2>5. CASE t = 0
    <3>1. F = P * q
      BY <2>3, <2>5
    <3>2. (P * q) * s = P * (s * q)
      OBVIOUS
    <3>3. Fraction(fraction, digits) = {P}
      BY <1>7, <2>3, <2>5
    <3> QED
      BY <1>1, <1>4, <1>5, <1>6, <2>4, <3>1, <3>2, <3>3
  <2>6. CASE t # 0
    <3>1. ASSUME NEW x \in Int, x * l = F * s
          PROVE  FALSE
      <4>1. s * (x * q) = s * (P * q + t)
        <5>1. x * (s * q) = s * (x * q) /\ (P * q + t) * s = s * (P * q + t)
          OBVIOUS
        <5> QED
          BY <2>3, <2>4, <3>1, <5>1
      <4>2. x * q = P * q + t
        <5>1. PICK a \in Int, b \in Int : a = x * q /\ b = P * q + t
          OBVIOUS
        <5>2. s * a = s * b
          BY <4>1, <5>1
        <5>3. a = b
          <6>1. s * (a - b) = s * a - s * b
            OBVIOUS
          <6>2. PICK c \in Int : c = a - b /\ s * c = 0
            BY <5>2, <6>1
          <6>3. c = 0
            BY <6>2
          <6> QED
            BY <6>2, <6>3
        <5> QED
          BY <5>1, <5>3
      <4>3. PICK e \in Int : e = x - P /\ e * q = t
        <5>1. (x - P) * q = x * q - P * q
          OBVIOUS
        <5> QED
          BY <4>2, <5>1
      <4>4. CASE e <= 0
        <5>1. e * q <= 0
          BY <4>4
        <5> QED
          BY <2>6, <4>3, <5>1
      <4>5. CASE e >= 1
        <5>1. PICK k \in Nat : e = 1 + k
          <6>1. e - 1 \in Nat /\ e = 1 + (e - 1)
            BY <4>5
          <6> QED
            BY <6>1
        <5>2. (1 + k) * q = q + k * q /\ k * q \in Nat
          OBVIOUS
        <5> QED
          BY <4>3, <5>1, <5>2
      <4> QED
        BY <4>4, <4>5
    <3>2. Fraction(fraction, digits) = {}
      BY <1>7, <2>3, <2>6
    <3> QED
      BY <1>1, <1>4, <1>5, <1>6, <3>1, <3>2
  <2> QED
    BY <2>5, <2>6
<1> QED
  BY <1>8, <1>9

LEMMA DigitsNat ==
  ASSUME NEW base \in Nat, NEW digits \in Seq(Digits(base))
  PROVE  digits \in Seq(Nat)
BY DEF Digits

LEMMA Cancel ==
  ASSUME NEW a \in Int, NEW c \in Int, NEW d \in Nat \ {0}, a * d = c * d
  PROVE  a = c
<1>1. (a - c) * d = a * d - c * d
  OBVIOUS
<1>2. PICK e \in Int : e = a - c /\ e * d = 0
  BY <1>1
<1>3. e = 0
  BY <1>2
<1> QED
  BY <1>2, <1>3

(* What a limit a row may have leaves room for. *)
LEMMA LimitIs ==
  ASSUME NEW digits \in 0 .. DigitsMax, NEW limit \in 1 .. IntMax \div DecimalScale(digits) - 1
  PROVE  \E s \in Nat \ {0} :
           /\ s = DecimalScale(digits) /\ s = Power(10, digits)
           /\ limit \in 0 .. IntMax /\ limit \in Nat \ {0} /\ limit * s + s <= IntMax
<1>1. digits \in Nat /\ 10 \in Nat \ {0}
  BY CodecAssumption
<1>2. PICK s \in Nat \ {0} : s = Power(10, digits) /\ s = DecimalScale(digits)
  BY <1>1, PowerIs DEF DecimalScale
<1>3. PICK h \in Nat : h = IntMax
  BY CodecAssumption
<1>4. PICK q \in Nat, r \in 0 .. s - 1 : q = h \div s /\ h = s * q + r
  BY DivIs
<1>5. limit \in Nat \ {0} /\ limit + 1 <= q
  BY <1>2, <1>3, <1>4
<1>6. PICK e \in Nat : q = limit + 1 + e
  <2>1. q - limit - 1 \in Nat /\ q = limit + 1 + (q - limit - 1)
    BY <1>5
  <2> QED
    BY <2>1
<1>7. s * (limit + 1 + e) = limit * s + s + s * e /\ s * e \in Nat /\ limit * s \in Nat
  BY <1>5
<1>8. limit * s + s <= h
  BY <1>4, <1>6, <1>7
<1>9. limit <= limit * s
  <2>1. PICK k \in Nat : s = 1 + k
    <3>1. s - 1 \in Nat /\ s = 1 + (s - 1)
      OBVIOUS
    <3> QED
      BY <3>1
  <2>2. limit * (1 + k) = limit + limit * k /\ limit * k \in Nat
    BY <1>5
  <2> QED
    BY <1>5, <2>1, <2>2
<1>10. limit \in 0 .. h
  BY <1>5, <1>7, <1>8, <1>9
<1> QED
  BY <1>2, <1>3, <1>5, <1>8, <1>10

(* inkstand_form_decimal_parse takes a txt for the number it says, if the  *)
(* whole part is within the limit or the limit leaves room to see it is not.*)
LEMMA DecimalParseIs ==
  ASSUME NEW txt, IsDecimal(txt),
         NEW digits \in 0 .. DigitsMax, NEW limit \in 1 .. IntMax \div DecimalScale(digits) - 1,
         Number(txt.whole, 10) <= limit \/ 10 * limit + 9 <= IntMax
  PROVE  DecimalParse(txt, digits, limit) = DecimalMeant(txt, digits, limit)
<1>1. PICK s \in Nat \ {0} : /\ s = DecimalScale(digits) /\ s = Power(10, digits)
                             /\ limit \in 0 .. IntMax /\ limit \in Nat \ {0} /\ limit * s + s <= IntMax
  BY LimitIs
<1>2. IntMax \in Nat /\ digits \in Nat /\ 10 \in Nat \ {0}
  BY CodecAssumption
<1>3. txt.whole \in Seq(Digits(10)) /\ txt.fraction \in Seq(Digits(10))
  BY DEF IsDecimal
<1>4. txt.whole \in Seq(Nat) /\ txt.fraction \in Seq(Nat)
  BY <1>2, <1>3, DigitsNat
<1>5. PICK W \in Nat, F \in Nat : W = Number(txt.whole, 10) /\ F = Number(txt.fraction, 10)
  BY <1>2, <1>4, NumberNat
<1>6. PICK l \in Nat \ {0} : l = Power(10, Len(txt.fraction)) /\ l = DecimalScale(Len(txt.fraction))
  <2>1. Len(txt.fraction) \in Nat
    BY <1>4
  <2> QED
    BY <1>2, <2>1, PowerIs DEF DecimalScale
<1>7. Number(txt.whole \o txt.fraction, 10) = W * l + F
  BY <1>2, <1>4, <1>5, <1>6, NumberOfTwo
<1> DEFINE sound == txt.clean /\ (txt.whole # <<>> \/ txt.fraction # <<>>)
           negative == txt.sign = "-"
<1>8. txt.whole \o txt.fraction # <<>> <=> txt.whole # <<>> \/ txt.fraction # <<>>
  BY <1>4
<1>9. PICK number \in Nat : number = (W * l + F) * s
  <2>1. (W * l + F) * s \in Nat
    OBVIOUS
  <2> QED
    BY <2>1
<1>10. DecimalMeant(txt, digits, limit)
         = {v \in -(limit * s) .. limit * s : sound /\ v * l = IF negative THEN -number ELSE number}
  BY <1>1, <1>6, <1>7, <1>8, <1>9 DEF DecimalMeant
<1>11. PICK w \in Int : /\ w = WholePart(txt.whole, limit)
                        /\ IF W <= limit THEN w = W ELSE w > limit
  BY <1>1, <1>2, <1>3, <1>5, WholeIs
<1> DEFINE value == {Wrapped(w * s + f) : f \in Fraction(txt.fraction, digits)}
<1>12. DecimalParse(txt, digits, limit)
         = IF ~sound \/ w > limit THEN {}
           ELSE {IF negative THEN -v ELSE v : v \in {v \in value : v <= limit * s}}
  <2>1. limit > 0 /\ digits <= DigitsMax /\ limit <= IntMax \div s - 1
    BY <1>1, <1>2, CodecAssumption
  <2> QED
    BY <1>1, <1>11, <2>1 DEF DecimalParse
<1>13. PICK P \in Nat :
         /\ P < s
         /\ \/ Fraction(txt.fraction, digits) = {P} /\ F * s = P * l
            \/ /\ Fraction(txt.fraction, digits) = {}
               /\ \A x \in Int : x * l # F * s
  BY <1>1, <1>2, <1>3, <1>5, <1>6, FractionIs
<1> HIDE DEF sound, negative, value
<1>14. PICK most \in Nat : most = limit * s /\ most + s <= IntMax
  <2>1. limit * s \in Nat
    BY <1>1
  <2> QED
    BY <1>1, <2>1
<1>15. number = (W * s) * l + F * s
  <2>1. (W * l + F) * s = (W * s) * l + F * s
    OBVIOUS
  <2> QED
    BY <1>9, <2>1
<1>16. CASE ~sound
  BY <1>10, <1>12, <1>16
<1>17. CASE sound /\ W > limit
  <2>1. DecimalParse(txt, digits, limit) = {}
    BY <1>1, <1>11, <1>12, <1>17
  <2>2. ASSUME NEW v \in -most .. most, v * l = IF negative THEN -number ELSE number
        PROVE  FALSE
    <3>1. PICK x \in -most .. most : x * l = number
      <4>1. (-v) * l = -(v * l) /\ -v \in -most .. most /\ v \in -most .. most
        OBVIOUS
      <4>2. CASE negative
        <5>1. (-v) * l = number
          BY <2>2, <4>1, <4>2
        <5> QED
          BY <4>1, <5>1
      <4>3. CASE ~negative
        BY <2>2, <4>3
      <4> QED
        BY <4>2, <4>3
    <3>2. PICK k \in Nat : W = limit + 1 + k
      <4>1. W - limit - 1 \in Nat /\ W = limit + 1 + (W - limit - 1)
        BY <1>1, <1>17
      <4> QED
        BY <4>1
    <3>3. W * s = most + s + k * s /\ k * s \in Nat
      BY <1>1, <1>14, <3>2
    <3>4. PICK y \in Nat : W * s = x + 1 + y
      <4>1. PICK a \in Nat : a = k * s /\ W * s = most + s + a
        BY <3>3
      <4>2. most + s + a - x - 1 \in Nat /\ most + s + a = x + 1 + (most + s + a - x - 1)
        OBVIOUS
      <4> QED
        BY <4>1, <4>2
    <3>5. (x + 1 + y) * l = x * l + l + y * l /\ y * l \in Nat /\ x * l \in Int
      OBVIOUS
    <3>6. F * s \in Nat
      OBVIOUS
    <3> QED
      BY <1>15, <3>1, <3>4, <3>5, <3>6
  <2> QED
    BY <1>10, <1>14, <2>1, <2>2
<1>18. CASE sound /\ W <= limit /\ Fraction(txt.fraction, digits) = {}
  <2>1. DecimalParse(txt, digits, limit) = {}
    <3>1. value = {}
      BY <1>18 DEF value
    <3> QED
      BY <1>12, <3>1
  <2>2. \A x \in Int : x * l # F * s
    BY <1>13, <1>18
  <2>3. ASSUME NEW v \in -most .. most, v * l = IF negative THEN -number ELSE number
        PROVE  FALSE
    <3>1. PICK x \in Int : x * l = number
      <4>1. (-v) * l = -(v * l) /\ -v \in Int /\ v \in Int
        OBVIOUS
      <4>2. CASE negative
        <5>1. (-v) * l = number
          BY <2>3, <4>1, <4>2
        <5> QED
          BY <4>1, <5>1
      <4>3. CASE ~negative
        BY <2>3, <4>1, <4>3
      <4> QED
        BY <4>2, <4>3
    <3>2. PICK z \in Int : z = W * s
      OBVIOUS
    <3>3. (x - z) * l = x * l - z * l /\ x - z \in Int
      OBVIOUS
    <3>4. (x - z) * l = F * s
      BY <1>15, <3>1, <3>2, <3>3
    <3> QED
      BY <2>2, <3>3, <3>4
  <2> QED
    BY <1>10, <1>14, <2>1, <2>3
<1>19. CASE sound /\ W <= limit /\ Fraction(txt.fraction, digits) = {P} /\ F * s = P * l
  <2>1. PICK V \in Nat : V = W * s + P
    <3>1. W * s + P \in Nat
      OBVIOUS
    <3> QED
      BY <3>1
  <2>2. number = V * l
    <3>1. (W * s + P) * l = (W * s) * l + P * l
      OBVIOUS
    <3> QED
      BY <1>15, <1>19, <2>1, <3>1
  <2>3. V \in 0 .. IntMax
    <3>1. W * s <= most
      <4>1. PICK k \in Nat : limit = W + k
        <5>1. limit - W \in Nat /\ limit = W + (limit - W)
          BY <1>1, <1>19
        <5> QED
          BY <5>1
      <4>2. (W + k) * s = W * s + k * s /\ k * s \in Nat /\ W * s \in Nat
        OBVIOUS
      <4> QED
        BY <1>14, <4>1, <4>2
    <3>2. PICK a \in Nat : a = W * s
      OBVIOUS
    <3> QED
      BY <1>2, <1>13, <1>14, <2>1, <3>1, <3>2
  <2>4. value = {V}
    <3>1. w * s + P = V
      BY <1>11, <1>19, <2>1
    <3>2. Wrapped(V) = V
      BY <2>3, WrapsNot
    <3> QED
      BY <1>19, <3>1, <3>2 DEF value
  <2>5. DecimalParse(txt, digits, limit) = IF V <= most THEN {IF negative THEN -V ELSE V} ELSE {}
    <3>1. ~(w > limit)
      BY <1>1, <1>11, <1>19
    <3> QED
      BY <1>12, <1>14, <1>19, <2>4, <3>1
  <2>6. ASSUME NEW v \in -most .. most
        PROVE  v * l = (IF negative THEN -number ELSE number) <=> v = IF negative THEN -V ELSE V
    <3>1. (-V) * l = -(V * l) /\ v \in Int /\ -V \in Int /\ V \in Int
      OBVIOUS
    <3>2. CASE negative
      <4>1. v * l = -number <=> v * l = (-V) * l
        BY <2>2, <3>1
      <4>2. v * l = (-V) * l <=> v = -V
        BY <3>1, Cancel
      <4> QED
        BY <3>2, <4>1, <4>2
    <3>3. CASE ~negative
      <4>1. v * l = V * l <=> v = V
        BY <3>1, Cancel
      <4> QED
        BY <2>2, <3>3, <4>1
    <3> QED
      BY <3>2, <3>3
  <2>7. DecimalMeant(txt, digits, limit) = {v \in -most .. most : v = IF negative THEN -V ELSE V}
    BY <1>10, <1>14, <1>19, <2>6
  <2>8. (IF negative THEN -V ELSE V) \in -most .. most <=> V <= most
    OBVIOUS
  <2> QED
    BY <2>5, <2>7, <2>8
<1> QED
  BY <1>1, <1>13, <1>16, <1>17, <1>18, <1>19

(* Rounding is to the nearest, and not past a bound the value is within.    *)
LEMMA RoundedIs ==
  ASSUME NEW m \in Nat, NEW d \in Nat \ {0}
  PROVE  /\ Rounded(m, d) \in Nat
         /\ 2 * (Rounded(m, d) * d - m) <= d /\ 2 * (m - Rounded(m, d) * d) <= d
         /\ d = 1 => Rounded(m, d) = m
         /\ \A b \in Nat : m <= b * d => Rounded(m, d) <= b
<1>1. PICK q \in Nat, r \in 0 .. d - 1 : q = m \div d /\ r = m % d /\ m = d * q + r
  BY DivIs
<1>2. PICK h \in Nat, e \in 0 .. 1 : h = d \div 2 /\ d = 2 * h + e
  <2>1. d \in Nat /\ 2 \in Nat \ {0}
    OBVIOUS
  <2>2. PICK h \in Nat, e \in 0 .. 2 - 1 : h = d \div 2 /\ d = 2 * h + e
    BY <2>1, DivIs
  <2>3. e \in 0 .. 1
    OBVIOUS
  <2> QED
    BY <2>2, <2>3
<1>3. Rounded(m, d) = q + IF d > 1 /\ r >= d - h THEN 1 ELSE 0
  BY <1>1, <1>2 DEF Rounded
<1>4. PICK a \in Nat : a = q * d /\ m = a + r
  <2>1. q * d \in Nat /\ d * q = q * d
    OBVIOUS
  <2> QED
    BY <1>1, <2>1
<1>5. CASE d > 1 /\ r >= d - h
  <2>1. Rounded(m, d) = q + 1
    BY <1>3, <1>5
  <2>2. (q + 1) * d = a + d
    <3>1. (q + 1) * d = q * d + d
      OBVIOUS
    <3> QED
      BY <1>4, <3>1
  <2>3. 2 * (a + d - m) <= d /\ 2 * (m - (a + d)) <= d
    BY <1>2, <1>4, <1>5
  <2>4. \A b \in Nat : m <= b * d => q + 1 <= b
    <3> SUFFICES ASSUME NEW b \in Nat, m <= b * d, ~(q + 1 <= b)
                 PROVE  FALSE
      OBVIOUS
    <3>1. b <= q
      OBVIOUS
    <3>2. PICK k \in Nat : q = b + k
      <4>1. q - b \in Nat /\ q = b + (q - b)
        BY <3>1
      <4> QED
        BY <4>1
    <3>3. (b + k) * d = b * d + k * d /\ k * d \in Nat /\ b * d \in Nat
      OBVIOUS
    <3>4. r > 0
      BY <1>2, <1>5
    <3> QED
      BY <1>4, <3>2, <3>3, <3>4
  <2> QED
    BY <1>5, <2>1, <2>2, <2>3, <2>4
<1>6. CASE ~(d > 1 /\ r >= d - h)
  <2>1. Rounded(m, d) = q
    BY <1>3, <1>6
  <2>2. 2 * (a - m) <= d /\ 2 * (m - a) <= d
    BY <1>2, <1>4, <1>6
  <2>3. d = 1 => q = m
    <3>1. d = 1 => a = q /\ r = 0
      <4>1. q * 1 = q
        OBVIOUS
      <4> QED
        BY <1>4, <4>1
    <3> QED
      BY <1>4, <3>1
  <2>4. \A b \in Nat : m <= b * d => q <= b
    <3> SUFFICES ASSUME NEW b \in Nat, m <= b * d, ~(q <= b)
                 PROVE  FALSE
      OBVIOUS
    <3>1. PICK k \in Nat : q = b + 1 + k
      <4>1. q - b - 1 \in Nat /\ q = b + 1 + (q - b - 1)
        OBVIOUS
      <4> QED
        BY <4>1
    <3>2. (b + 1 + k) * d = b * d + d + k * d /\ k * d \in Nat /\ b * d \in Nat
      OBVIOUS
    <3> QED
      BY <1>4, <3>1, <3>2
  <2> QED
    BY <1>4, <2>1, <2>2, <2>3, <2>4
<1> QED
  BY <1>5, <1>6

(* A number has as many digits as it needs. *)
LEMMA WidthIs ==
  ASSUME NEW n \in Nat
  PROVE  WidthOf(n, 10) \in Nat \ {0} /\ n < Power(10, WidthOf(n, 10))
<1> DEFINE T == {w \in 1 .. n + 1 : n < Power(10, w)}
<1>0. 10 \in Nat \ {0} /\ 10 \in Nat /\ 10 >= 2 /\ n + 1 \in Nat
  OBVIOUS
<1>1. T \in SUBSET Nat /\ T # {}
  <2>1. n + 1 < Power(10, n + 1)
    BY <1>0, PowerExceeds
  <2>2. Power(10, n + 1) \in Nat
    BY <1>0, PowerIs
  <2>3. n + 1 \in T
    BY <2>1, <2>2
  <2> QED
    BY <2>3
<1>2. PICK w \in T : w \in Nat /\ \A v \in T : w <= v
  <2> HIDE DEF T
  <2> QED
    BY <1>1, Least
<1>3. w > 1 => n >= Power(10, w - 1)
  <2> SUFFICES ASSUME w > 1, ~(n >= Power(10, w - 1))
               PROVE  FALSE
    OBVIOUS
  <2>1. w - 1 \in 1 .. n + 1 /\ w - 1 \in Nat /\ ~(w <= w - 1)
    BY <1>2
  <2>2. Power(10, w - 1) \in Nat
    BY <1>0, <2>1, PowerIs
  <2>3. w - 1 \in T
    BY <2>1, <2>2
  <2> QED
    BY <1>2, <2>1, <2>3
<1>4. \E x \in 1 .. n + 1 : n < Power(10, x) /\ (x > 1 => n >= Power(10, x - 1))
  BY <1>2, <1>3
<1>5. WidthOf(n, 10) \in 1 .. n + 1 /\ n < Power(10, WidthOf(n, 10))
  BY <1>4 DEF WidthOf
<1> QED
  BY <1>5

(* A row's value printed reads back as the nearest that can be printed.     *)
LEMMA DecimalReads ==
  ASSUME NEW row, row.digits \in 0 .. DigitsMax,
         row.limit \in 1 .. IntMax \div DecimalScale(row.digits) - 1, NEW v \in Int
  PROVE  DecimalReadsBack(row, v)
<1>1. PICK digits, limit : digits = row.digits /\ limit = row.limit
  OBVIOUS
<1>2. PICK s \in Nat \ {0} : /\ s = DecimalScale(digits) /\ s = Power(10, digits)
                             /\ limit \in 0 .. IntMax /\ limit \in Nat \ {0} /\ limit * s + s <= IntMax
  BY <1>1, LimitIs
<1>3. digits \in 0 .. DigitsMax /\ limit \in 1 .. IntMax \div DecimalScale(digits) - 1
  BY <1>1
<1>4. digits \in Nat /\ 10 \in Nat \ {0} /\ 10 \in Nat
  BY <1>3, CodecAssumption
<1>5. PICK m \in Nat : m = Magnitude(v) /\ v = IF v < 0 THEN -m ELSE m
  <2>1. Magnitude(v) \in Nat /\ v = IF v < 0 THEN -Magnitude(v) ELSE Magnitude(v)
    BY DEF Magnitude
  <2> QED
    BY <2>1
<1> SUFFICES ASSUME m <= limit * s, NEW shown \in 0 .. digits
             PROVE  LET txt == DecimalText(v, digits, shown)
                        half == DecimalScale(digits - shown)
                    IN /\ txt.sign = "-" <=> v < 0
                       /\ \E w \in DecimalParse(txt, digits, limit) :
                            /\ 2 * Magnitude(w - v) <= half
                            /\ shown = digits => w = v
  BY <1>1, <1>2, <1>5 DEF DecimalReadsBack
<1>6. PICK d \in Nat \ {0} : d = DecimalScale(digits - shown) /\ (shown = digits => d = 1) /\ d = Power(10, digits - shown)
  <2>1. digits - shown \in Nat /\ (shown = digits => digits - shown = 0)
    BY <1>4
  <2> QED
    BY <1>4, <2>1, PowerIs DEF DecimalScale
<1>7. shown \in Nat
  BY <1>4
<1>8. PICK l \in Nat \ {0} : l = DecimalScale(shown) /\ l = Power(10, shown)
  BY <1>4, <1>7, PowerIs DEF DecimalScale
<1>9. s = l * d
  <2>1. digits - shown \in Nat /\ shown + (digits - shown) = digits
    BY <1>4
  <2>2. Power(10, shown + (digits - shown)) = Power(10, shown) * Power(10, digits - shown)
    BY <1>4, <1>7, <2>1, PowerAdds
  <2> QED
    BY <1>2, <1>6, <1>8, <2>1, <2>2
<1>10. PICK R \in Nat : /\ R = Rounded(m, d)
                        /\ 2 * (R * d - m) <= d /\ 2 * (m - R * d) <= d
                        /\ d = 1 => R = m
                        /\ \A b \in Nat : m <= b * d => R <= b
  BY RoundedIs
<1>11. PICK whole \in Nat, part \in 0 .. l - 1 : whole = R \div l /\ part = R % l /\ R = l * whole + part
  BY DivIs
<1>12. PICK txt : txt = DecimalText(v, digits, shown)
  OBVIOUS
<1>13. PICK width \in Nat \ {0} : width = WidthOf(whole, 10) /\ whole < Power(10, width)
  BY WidthIs
<1>14. ~(shown > digits)
  BY <1>4
<1>15. /\ txt.sign = (IF v < 0 THEN "-" ELSE "") /\ txt.clean
       /\ txt.whole = Numeral(whole, 10, width) /\ txt.fraction = Numeral(part, 10, shown)
  BY <1>5, <1>6, <1>8, <1>10, <1>11, <1>12, <1>13, <1>14 DEF DecimalText
<1>16. /\ txt.whole \in Seq(Digits(10)) /\ Len(txt.whole) = width /\ Number(txt.whole, 10) = whole
  <2>1. width \in Nat /\ whole < Power(10, width)
    BY <1>13
  <2>2. /\ Numeral(whole, 10, width) \in Seq(Digits(10)) /\ Len(Numeral(whole, 10, width)) = width
        /\ Number(Numeral(whole, 10, width), 10) = whole
    BY <1>4, <2>1, NumeralReads
  <2> QED
    BY <1>15, <2>2
<1>17. /\ txt.fraction \in Seq(Digits(10)) /\ Len(txt.fraction) = shown /\ Number(txt.fraction, 10) = part
  <2>1. part \in Nat /\ part < Power(10, shown)
    BY <1>8
  <2> QED
    <3>1. /\ Numeral(part, 10, shown) \in Seq(Digits(10)) /\ Len(Numeral(part, 10, shown)) = shown
          /\ Number(Numeral(part, 10, shown), 10) = part
      BY <1>4, <1>7, <2>1, NumeralReads
    <3> QED
      BY <1>15, <3>1
<1>18. txt.whole \in Seq(Nat) /\ txt.fraction \in Seq(Nat)
  BY <1>4, <1>16, <1>17, DigitsNat
<1>19. Number(txt.whole \o txt.fraction, 10) = R
  <2>1. Number(txt.whole \o txt.fraction, 10) = whole * l + part
    BY <1>4, <1>8, <1>16, <1>17, <1>18, NumberOfTwo
  <2>2. whole * l = l * whole
    OBVIOUS
  <2> QED
    BY <1>11, <2>1, <2>2
<1>20. R <= limit * l
  <2>1. limit * l \in Nat /\ limit * (l * d) = (limit * l) * d
    BY <1>2
  <2> QED
    BY <1>9, <1>10, <2>1
<1>21. whole <= limit
  <2> SUFFICES ASSUME whole > limit
               PROVE  FALSE
    BY <1>2
  <2>1. PICK k \in Nat : whole = limit + 1 + k
    <3>1. whole - limit - 1 \in Nat /\ whole = limit + 1 + (whole - limit - 1)
      BY <1>2
    <3> QED
      BY <3>1
  <2>2. l * (limit + 1 + k) = limit * l + l + l * k /\ l * k \in Nat /\ limit * l \in Nat
    BY <1>2
  <2> QED
    BY <1>11, <1>20, <2>1, <2>2
<1>22. DecimalParse(txt, digits, limit) = DecimalMeant(txt, digits, limit)
  <2>1. IsDecimal(txt)
    BY <1>16, <1>17 DEF IsDecimal
  <2> QED
    BY <1>3, <1>16, <1>21, <2>1, DecimalParseIs
<1>23. PICK x \in Nat, most \in Nat : x = R * d /\ most = limit * s /\ x <= most
  <2>1. R * d \in Nat /\ limit * l \in Nat /\ limit * (l * d) = (limit * l) * d
    BY <1>2
  <2>2. R * d <= (limit * l) * d
    <3>1. PICK k \in Nat : limit * l = R + k
      <4>1. limit * l - R \in Nat /\ limit * l = R + (limit * l - R)
        BY <1>20, <2>1
      <4> QED
        BY <4>1
    <3>2. (R + k) * d = R * d + k * d /\ k * d \in Nat
      OBVIOUS
    <3> QED
      BY <2>1, <3>1, <3>2
  <2> QED
    BY <1>9, <2>1, <2>2
<1>24. PICK w \in -most .. most : w = IF v < 0 THEN -x ELSE x
  <2>1. (IF v < 0 THEN -x ELSE x) \in -most .. most
    BY <1>23
  <2> QED
    BY <2>1
<1>25. w \in DecimalMeant(txt, digits, limit)
  <2>1. DecimalScale(Len(txt.fraction)) = l
    BY <1>8, <1>17
  <2>2. txt.whole \o txt.fraction # <<>>
    <3>0. Len(txt.whole \o txt.fraction) = Len(txt.whole) + Len(txt.fraction)
      BY <1>18
    <3>1. Len(txt.whole \o txt.fraction) = width + shown
      BY <1>16, <1>17, <3>0
    <3>2. width + shown # 0
      BY <1>7
    <3> QED
      BY <3>1, <3>2
  <2>3. w * l = IF txt.sign = "-" THEN -(R * s) ELSE R * s
    <3>1. x * l = R * s
      <4>1. (R * d) * l = R * (l * d)
        OBVIOUS
      <4> QED
        BY <1>9, <1>23, <4>1
    <3>2. (-x) * l = -(x * l)
      OBVIOUS
    <3>3. txt.sign = "-" <=> v < 0
      BY <1>15
    <3> QED
      BY <1>24, <3>1, <3>2, <3>3
  <2> QED
    BY <1>2, <1>15, <1>19, <1>23, <2>1, <2>2, <2>3 DEF DecimalMeant
<1>26. 2 * Magnitude(w - v) <= d
  <2>1. 2 * (x - m) <= d /\ 2 * (m - x) <= d
    BY <1>10, <1>23
  <2>2. w - v = IF v < 0 THEN m - x ELSE x - m
    BY <1>5, <1>24
  <2>3. Magnitude(w - v) = x - m \/ Magnitude(w - v) = m - x
    BY <2>2 DEF Magnitude
  <2> QED
    BY <2>1, <2>3
<1>27. shown = digits => w = v
  <2> SUFFICES ASSUME shown = digits
               PROVE  w = v
    OBVIOUS
  <2>1. d = 1 /\ R = m /\ m * 1 = m
    BY <1>6, <1>10
  <2> QED
    BY <1>5, <1>23, <1>24, <2>1
<1>28. txt.sign = "-" <=> v < 0
  BY <1>15
<1> QED
  BY <1>6, <1>12, <1>22, <1>25, <1>26, <1>27, <1>28

-----------------------------------------------------------------------------
(* The walks of src/form/scale.c: presets and their track, and choices.    *)

LEMMA SeqWithin ==
  ASSUME NEW S, NEW T, S \subseteq T, NEW s \in Seq(S)
  PROVE  s \in Seq(T)
<1>1. Len(s) \in Nat /\ s \in [1 .. Len(s) -> S]
  BY LenProperties
<1>2. s \in [1 .. Len(s) -> T]
  BY <1>1
<1> QED
  BY <1>1, <1>2, SeqDef

LEMMA MinIs ==
  ASSUME NEW T \in SUBSET Nat, T # {}
  PROVE  Min(T) \in T /\ \A n \in T : Min(T) <= n
<1>1. PICK m \in T : \A n \in T : m <= n
  BY Least
<1> QED
  BY <1>1 DEF Min

LEMMA MaxIs ==
  ASSUME NEW N \in Nat, NEW T \in SUBSET (0 .. N), T # {}
  PROVE  Max(T) \in T /\ \A n \in T : n <= Max(T)
<1> DEFINE M == {N - n : n \in T}
<1>0. \A n \in T : n \in Nat /\ n <= N /\ N - n \in Nat /\ N - n \in M
  OBVIOUS
<1>1. M \in SUBSET Nat /\ M # {}
  BY <1>0
<1>2. PICK m \in M : \A n \in M : m <= n
  BY <1>1, Least
<1>3. PICK k \in T : m = N - k
  OBVIOUS
<1>5. \A n \in T : n <= k
  <2> TAKE n \in T
  <2>1. N - k <= N - n
    BY <1>0, <1>2, <1>3
  <2> QED
    BY <1>0, <2>1
<1>6. \E x \in T : \A y \in T : x >= y
  BY <1>3, <1>5
<1>7. Max(T) \in T /\ \A y \in T : Max(T) >= y
  BY <1>6 DEF Max
<1> QED
  BY <1>7

(* Remainders of what is at most a turn away. *)
LEMMA TurnIs ==
  ASSUME NEW d \in Nat \ {0}, NEW x \in -d .. 2 * d - 1
  PROVE  x % d = IF x < 0 THEN x + d ELSE IF x < d THEN x ELSE x - d
<1>1. CASE x < 0
  <2>1. x % d \in 0 .. d - 1 /\ x % d = x - (x \div d) * d /\ x \div d \in Int
    OBVIOUS
  <2>2. PICK q \in Int, y \in 0 .. d - 1 : q = x \div d /\ y = x % d /\ y = x - q * d
    BY <2>1
  <2>3. CASE q = -1
    BY <1>1, <2>2, <2>3
  <2>4. CASE q >= 0
    <3>1. q * d >= 0
      BY <2>4
    <3> QED
      BY <1>1, <2>2, <3>1
  <2>5. CASE q <= -2
    <3>1. PICK k \in Nat : q = -2 - k
      <4>1. -2 - q \in Nat /\ q = -2 - (-2 - q)
        BY <2>5
      <4> QED
        BY <4>1
    <3>2. (-2 - k) * d = -(2 * d) - k * d /\ k * d \in Nat
      OBVIOUS
    <3> QED
      BY <1>1, <2>2, <3>1, <3>2
  <2> QED
    BY <2>3, <2>4, <2>5
<1>2. CASE x \in 0 .. d - 1
  <2>1. d * 0 + x = x
    BY <1>2
  <2>2. (d * 0 + x) % d = x
    BY <1>2, DivUnique
  <2> QED
    BY <1>2, <2>1, <2>2
<1>3. CASE x >= d
  <2>1. PICK y \in 0 .. d - 1 : x = d * 1 + y
    <3>1. x - d \in 0 .. d - 1 /\ x = d * 1 + (x - d)
      BY <1>3
    <3> QED
      BY <3>1
  <2>2. (d * 1 + y) % d = y
    BY DivUnique
  <2> QED
    BY <1>3, <2>1, <2>2
<1> QED
  BY <1>1, <1>2, <1>3

(* A step of a number goes to the next preset that way. *)
LEMMA StepIsTheNext ==
  ASSUME NEW presets, IsPresets(presets), NEW v \in Nat, NEW delta \in {-1, 0, 1}
  PROVE  LET vs == presets.values
             w  == PresetsStep(presets, v, delta)
         IN /\ w \in Nat
            /\ IF w = v THEN delta = 0 \/ \A i \in DOMAIN vs : delta * (vs[i] - v) <= 0
                        ELSE \E i \in DOMAIN vs : vs[i] = w /\ delta * (w - v) > 0
            /\ ~\E i \in DOMAIN vs : Between(v, vs[i], w)
<1> DEFINE vs == presets.values
           above == {i \in DOMAIN vs : vs[i] > v}
           below == {i \in DOMAIN vs : vs[i] < v}
           w == PresetsStep(presets, v, delta)
<1>0. Word \in Nat
  BY ScaleAssumption
<1>1. PICK N \in Nat : N = Len(vs) /\ DOMAIN vs = 1 .. N /\ \A i \in 1 .. N : vs[i] \in Nat
  BY <1>0 DEF IsPresets, Words
<1>2. \A i, j \in 1 .. N : i < j => vs[i] < vs[j]
  BY <1>1 DEF IsPresets
<1>3. w = IF delta > 0 /\ above # {} THEN vs[Min(above)]
          ELSE IF delta < 0 /\ below # {} THEN vs[Max(below)]
          ELSE v
  BY DEF PresetsStep
<1>4. PICK x : x = w
  OBVIOUS
<1>a. above = {i \in 1 .. N : vs[i] > v} /\ below = {i \in 1 .. N : vs[i] < v}
  BY <1>1
<1> HIDE DEF above, below, w
<1> SUFFICES
      /\ x \in Nat
      /\ IF x = v THEN delta = 0 \/ \A i \in 1 .. N : delta * (vs[i] - v) <= 0
                  ELSE \E i \in 1 .. N : vs[i] = x /\ delta * (x - v) > 0
      /\ ~\E i \in 1 .. N : Between(v, vs[i], x)
  BY <1>1, <1>4 DEF w
<1>5. CASE delta = 1 /\ above # {}
  <2>1. above \in SUBSET Nat
    BY <1>a
  <2>2. PICK i \in 1 .. N : i = Min(above) /\ vs[i] > v /\ \A j \in above : i <= j
    <3>1. Min(above) \in above /\ \A j \in above : Min(above) <= j
      BY <1>5, <2>1, MinIs
    <3> QED
      BY <1>a, <3>1
  <2>3. x = vs[i] /\ x \in Nat /\ x > v
    <3>1. x = vs[i]
      BY <1>3, <1>4, <1>5, <2>2
    <3> QED
      BY <1>1, <2>2, <3>1
  <2>4. \A j \in 1 .. N : vs[j] > v => ~(vs[j] < x)
    <3> SUFFICES ASSUME NEW j \in 1 .. N, vs[j] > v, vs[j] < x
                 PROVE  FALSE
      OBVIOUS
    <3>1. i <= j
      BY <1>a, <2>2
    <3>2. i < j \/ i = j
      BY <3>1
    <3> QED
      BY <1>1, <1>2, <2>3, <3>2
  <2>5. 1 * (x - v) > 0
    BY <2>3
  <2>6. \E j \in 1 .. N : vs[j] = x /\ delta * (x - v) > 0
    BY <1>5, <2>3, <2>5
  <2>7. ~\E j \in 1 .. N : Between(v, vs[j], x)
    <3> SUFFICES ASSUME NEW j \in 1 .. N, Between(v, vs[j], x)
                 PROVE  FALSE
      OBVIOUS
    <3>1. PICK y \in Nat : y = vs[j]
      BY <1>1
    <3> QED
      BY <2>3, <2>4, <3>1 DEF Between
  <2>8. x # v
    BY <2>3
  <2> QED
    BY <2>3, <2>6, <2>7, <2>8
<1>6. CASE delta = -1 /\ below # {}
  <2>1. below \in SUBSET (0 .. N)
    BY <1>a
  <2>2. PICK i \in 1 .. N : i = Max(below) /\ vs[i] < v /\ \A j \in below : j <= i
    <3>1. Max(below) \in below /\ \A j \in below : j <= Max(below)
      BY <1>6, <2>1, MaxIs
    <3> QED
      BY <1>a, <3>1
  <2>3. x = vs[i] /\ x \in Nat /\ x < v
    <3>1. x = vs[i]
      BY <1>3, <1>4, <1>6, <2>2
    <3> QED
      BY <1>1, <2>2, <3>1
  <2>4. \A j \in 1 .. N : vs[j] < v => ~(x < vs[j])
    <3> SUFFICES ASSUME NEW j \in 1 .. N, vs[j] < v, x < vs[j]
                 PROVE  FALSE
      OBVIOUS
    <3>1. j <= i
      BY <1>a, <2>2
    <3>2. j < i \/ i = j
      BY <3>1
    <3> QED
      BY <1>1, <1>2, <2>3, <3>2
  <2>5. (-1) * (x - v) > 0
    BY <2>3
  <2>6. \E j \in 1 .. N : vs[j] = x /\ delta * (x - v) > 0
    BY <1>6, <2>3, <2>5
  <2>7. ~\E j \in 1 .. N : Between(v, vs[j], x)
    <3> SUFFICES ASSUME NEW j \in 1 .. N, Between(v, vs[j], x)
                 PROVE  FALSE
      OBVIOUS
    <3>1. PICK y \in Nat : y = vs[j]
      BY <1>1
    <3> QED
      BY <2>3, <2>4, <3>1 DEF Between
  <2>8. x # v
    BY <2>3
  <2> QED
    BY <2>3, <2>6, <2>7, <2>8
<1>7. CASE ~(delta = 1 /\ above # {}) /\ ~(delta = -1 /\ below # {})
  <2>1. x = v
    BY <1>3, <1>4, <1>7
  <2>2. delta = 0 \/ \A i \in 1 .. N : delta * (vs[i] - v) <= 0
    <3>1. CASE delta = 1
      <4>1. \A i \in 1 .. N : ~(vs[i] > v)
        BY <1>a, <1>7, <3>1
      <4>2. \A i \in 1 .. N : 1 * (vs[i] - v) <= 0
        BY <1>1, <4>1
      <4> QED
        BY <3>1, <4>2
    <3>2. CASE delta = -1
      <4>1. \A i \in 1 .. N : ~(vs[i] < v)
        BY <1>a, <1>7, <3>2
      <4>2. \A i \in 1 .. N : (-1) * (vs[i] - v) <= 0
        BY <1>1, <4>1
      <4> QED
        BY <3>2, <4>2
    <3> QED
      BY <3>1, <3>2
  <2>3. ~\E i \in 1 .. N : Between(v, vs[i], x)
    <3> SUFFICES ASSUME NEW i \in 1 .. N, Between(v, vs[i], v)
                 PROVE  FALSE
      BY <2>1
    <3>1. PICK y \in Nat : y = vs[i]
      BY <1>1
    <3> QED
      BY <3>1 DEF Between
  <2> QED
    BY <2>1, <2>2, <2>3
<1> QED
  BY <1>5, <1>6, <1>7

(* The stops of a track, and where a value is among them. *)
Rising(stops) ==
  /\ stops \in Seq(Nat) /\ Len(stops) \in Nat /\ Len(stops) >= 2
  /\ \A i, j \in 1 .. Len(stops) : i < j => stops[i] < stops[j]

LEMMA StopsAre ==
  ASSUME NEW presets, IsPresets(presets), presets.values # <<>>, Len(Stops(presets)) >= 2
  PROVE  /\ Rising(Stops(presets))
         /\ \A i \in DOMAIN presets.values :
              presets.values[i] >= Stops(presets)[1] =>
                \E k \in 1 .. Len(Stops(presets)) : Stops(presets)[k] = presets.values[i]
<1>0. Word \in Nat
  BY ScaleAssumption
<1>a. PICK vs : vs = presets.values
  OBVIOUS
<1>1. PICK N \in Nat :     /\ vs = presets.values /\ N = Len(vs) /\ DOMAIN vs = 1 .. N
                           /\ vs \in Seq(Nat) /\ \A i \in 1 .. N : vs[i] \in Nat
  <2>1. presets.values \in Seq(Words) /\ Words \subseteq Nat
    BY <1>0 DEF IsPresets, Words
  <2>2. vs \in Seq(Nat)
    BY <1>a, <2>1, SeqWithin
  <2> QED
    BY <1>a, <2>2
<1>2. \A i, j \in 1 .. N : i < j => vs[i] < vs[j]
  BY <1>1 DEF IsPresets
<1>3. CASE presets.zeroAside
  <2>1. PICK stops : stops = Stops(presets) /\ stops = Tail(vs)
    BY <1>1, <1>3 DEF Stops
  <2>2. N \in Nat \ {0}
    BY <1>1
  <2>3. stops \in Seq(Nat) /\ Len(stops) = N - 1 /\ \A i \in 1 .. N - 1 : stops[i] = vs[i + 1]
    BY <1>1, <2>1, <2>2
  <2>4. \A i, j \in 1 .. N - 1 : i < j => stops[i] < stops[j]
    <3> TAKE i, j \in 1 .. N - 1
    <3>1. i + 1 \in 1 .. N /\ j + 1 \in 1 .. N /\ (i < j => i + 1 < j + 1)
      OBVIOUS
    <3> QED
      BY <1>2, <2>3, <3>1
  <2>5. N - 1 \in Nat /\ N - 1 >= 2
    BY <2>1, <2>2, <2>3
  <2>6. Rising(stops)
    BY <2>3, <2>4, <2>5 DEF Rising
  <2>7. ASSUME NEW i \in 1 .. N, vs[i] >= stops[1]
        PROVE  \E k \in 1 .. N - 1 : stops[k] = vs[i]
    <3>1. 1 \in 1 .. N - 1 /\ 2 \in 1 .. N /\ 1 \in 1 .. N /\ stops[1] = vs[2]
      BY <2>3, <2>5
    <3>2. i # 1
      BY <1>1, <1>2, <2>7, <3>1
    <3>3. i - 1 \in 1 .. N - 1 /\ (i - 1) + 1 = i
      BY <3>2
    <3> QED
      BY <2>3, <3>3
  <2>8. Len(stops) = N - 1
    BY <2>3
  <2>9. \A i \in 1 .. N : vs[i] >= stops[1] => \E k \in 1 .. Len(stops) : stops[k] = vs[i]
    BY <2>7, <2>8
  <2> QED
    BY <1>1, <2>1, <2>6, <2>9
<1>4. CASE ~presets.zeroAside
  <2>1. Stops(presets) = vs
    BY <1>1, <1>4 DEF Stops
  <2>2. Rising(vs)
    BY <1>1, <1>2, <2>1 DEF Rising
  <2> QED
    BY <1>1, <2>1, <2>2
<1> QED
  BY <1>3, <1>4

Placed(stops, value, i, x) ==
  /\ i \in 1 .. Len(stops) /\ x \in 0 .. One - 1
  /\ stops[i] <= value /\ (i < Len(stops) => value < stops[i + 1])
  /\ x = IF i = Len(stops) THEN 0
         ELSE ((value - stops[i]) * One) \div (stops[i + 1] - stops[i])
  /\ Position(stops, value) = ((i - 1) * One + x) \div (Len(stops) - 1)

LEMMA PlacedSomewhere ==
  ASSUME NEW stops, Rising(stops), NEW value \in Nat, value >= stops[1]
  PROVE  \E i, x : Placed(stops, value, i, x)
<1>1. PICK N \in Nat : N = Len(stops) /\ N >= 2 /\ DOMAIN stops = 1 .. N /\ \A j \in 1 .. N : stops[j] \in Nat
  BY DEF Rising
<1>2. \A j, k \in 1 .. N : j < k => stops[j] < stops[k]
  BY <1>1 DEF Rising
<1> DEFINE under == {j \in DOMAIN stops : stops[j] <= value}
<1>3. under \in SUBSET (0 .. N) /\ 1 \in under
  BY <1>1
<1>4. PICK i \in 1 .. N : i = Max(under) /\ stops[i] <= value /\ \A j \in under : j <= i
  BY <1>1, <1>3, MaxIs
<1>5. i < N => value < stops[i + 1]
  <2> SUFFICES ASSUME i < N, ~(value < stops[i + 1])
               PROVE  FALSE
    OBVIOUS
  <2>1. i + 1 \in 1 .. N
    OBVIOUS
  <2>2. stops[i + 1] <= value
    BY <1>1, <2>1
  <2>3. i + 1 \in under
    BY <1>1, <2>1, <2>2
  <2> QED
    BY <1>4, <2>3
<1>6. One \in Nat \ {0}
  BY ScaleAssumption
<1>7. PICK last \in Nat \ {0} : last = N - 1 /\ N = last + 1
  <2>1. N - 1 \in Nat \ {0} /\ N = (N - 1) + 1
    BY <1>1
  <2> QED
    BY <2>1
<1>8. Position(stops, value) =
        IF i > last THEN One
        ELSE ((i - 1) * One + ((value - stops[i]) * One) \div (stops[i + 1] - stops[i])) \div last
  BY <1>1, <1>4, <1>7 DEF Position
<1>9. CASE i = N
  <2>1. PICK x : x = 0
    OBVIOUS
  <2>2. (i - 1) * One + x = last * One + 0 /\ 0 \in 0 .. last - 1 /\ last * One \in Nat /\ 0 \in 0 .. One - 1
    BY <1>6, <1>7, <1>9, <2>1
  <2>3. (last * One + 0) \div last = One
    BY <1>6, <2>2, DivUnique
  <2>4. Position(stops, value) = One
    BY <1>7, <1>8, <1>9
  <2>a. Position(stops, value) = ((i - 1) * One + x) \div (Len(stops) - 1)
    BY <1>1, <1>7, <2>2, <2>3, <2>4
  <2>b. /\ i \in 1 .. Len(stops) /\ x \in 0 .. One - 1
        /\ stops[i] <= value /\ ~(i < Len(stops)) /\ i = Len(stops)
    <3>1. stops[i] <= value /\ i \in 1 .. N
      BY <1>4
    <3>2. ~(N < N)
      BY <1>1
    <3> QED
      BY <1>1, <1>9, <2>1, <2>2, <3>1, <3>2
  <2>5. Placed(stops, value, i, x)
    BY <2>1, <2>a, <2>b DEF Placed
  <2> QED
    BY <2>5
<1>10. CASE i # N
  <2>1. i < N /\ i + 1 \in 1 .. N /\ i <= last
    BY <1>7, <1>10
  <2>2. PICK gap \in Nat \ {0}, off \in Nat : off < gap /\ gap = stops[i + 1] - stops[i] /\ off = value - stops[i]
    <3>1. PICK a \in Nat, b \in Nat : a = stops[i] /\ b = stops[i + 1] /\ a <= value /\ value < b
      BY <1>1, <1>4, <1>5, <2>1
    <3>2. b - a \in Nat \ {0} /\ value - a \in 0 .. (b - a) - 1
      BY <3>1
    <3> QED
      BY <3>1, <3>2
  <2>3. PICK n \in Nat : n = off * One
    <3>1. off * One \in Nat
      BY <1>6
    <3> QED
      BY <3>1
  <2>4. PICK x \in Nat, r \in 0 .. gap - 1 : x = n \div gap /\ n = gap * x + r
    <3>1. \E q \in Nat, r \in 0 .. gap - 1 : q = n \div gap /\ r = n % gap /\ n = gap * q + r
      BY DivIs
    <3> QED
      BY <3>1
  <2>5. x < One
    <3> SUFFICES ASSUME x >= One
                 PROVE  FALSE
      BY <1>6
    <3>1. PICK k \in Nat, o \in Nat \ {0} : x = o + k /\ o = One
      <4>1. x - One \in Nat /\ x = One + (x - One)
        BY <1>6
      <4> QED
        BY <1>6, <4>1
    <3>2. PICK c \in Nat : gap = off + 1 + c
      <4>1. gap - off - 1 \in Nat /\ gap = off + 1 + (gap - off - 1)
        BY <2>2
      <4> QED
        BY <4>1
    <3>3. (off + 1 + c) * (o + k) = off * o + o + c * o + (off + 1 + c) * k
      OBVIOUS
    <3>4. c * o \in Nat /\ (off + 1 + c) * k \in Nat /\ off * o \in Nat
      BY <2>2
    <3> QED
      BY <2>3, <2>4, <3>1, <3>2, <3>3, <3>4
  <2>6. Placed(stops, value, i, x)
    <3>1. x \in 0 .. One - 1
      BY <1>6, <2>5
    <3>2. x = ((value - stops[i]) * One) \div (stops[i + 1] - stops[i])
      BY <2>2, <2>3, <2>4
    <3>3. ~(i > last)
      BY <2>1
    <3> QED
      BY <1>1, <1>4, <1>5, <1>7, <1>8, <1>10, <3>1, <3>2, <3>3 DEF Placed
  <2> QED
    BY <2>6
<1> QED
  BY <1>9, <1>10

(* On the track, further along for more, and at its mark at a stop. *)
LEMMA PositionIs ==
  ASSUME NEW stops, Rising(stops), NEW v \in Nat, v >= stops[1]
  PROVE  /\ Position(stops, v) \in 0 .. One
         /\ \A w \in Nat : v <= w => Position(stops, v) <= Position(stops, w)
         /\ \A k \in 1 .. Len(stops) : stops[k] = v =>
              Position(stops, v) = ((k - 1) * One) \div (Len(stops) - 1)
<1>1. PICK N \in Nat : N = Len(stops) /\ N >= 2 /\ \A j \in 1 .. N : stops[j] \in Nat
  BY DEF Rising
<1>2. \A j, k \in 1 .. N : j < k => stops[j] < stops[k]
  BY <1>1 DEF Rising
<1>3. PICK last \in Nat \ {0} : last = N - 1 /\ N = last + 1
  <2>1. N - 1 \in Nat \ {0} /\ N = (N - 1) + 1
    BY <1>1
  <2> QED
    BY <2>1
<1>4. PICK one \in Nat \ {0} : one = One
  BY ScaleAssumption
<1>5. PICK i, x : Placed(stops, v, i, x)
  BY PlacedSomewhere
<1>6. /\ i \in 1 .. N /\ x \in 0 .. one - 1 /\ stops[i] <= v /\ (i < N => v < stops[i + 1])
      /\ x = IF i = N THEN 0 ELSE ((v - stops[i]) * one) \div (stops[i + 1] - stops[i])
      /\ Position(stops, v) = ((i - 1) * one + x) \div last
  BY <1>1, <1>3, <1>4, <1>5 DEF Placed
<1>a. i \in 1 .. N /\ N \in Nat
  BY <1>6
<1>7. PICK n \in Nat : n = (i - 1) * one + x /\ Position(stops, v) = n \div last
  <2>1. (i - 1) * one + x \in Nat
    <3>1. PICK k \in Nat : k = i - 1
      BY <1>1, <1>6
    <3>2. k * one + x \in Nat
      BY <1>6
    <3> QED
      BY <3>1, <3>2
  <2> QED
    BY <1>6, <2>1
<1>8. Position(stops, v) \in 0 .. one
  <2>1. n <= last * one
    <3>1. CASE i = N
      BY <1>3, <1>6, <1>7, <3>1
    <3>2. CASE i # N
      <4>1. PICK k \in Nat : last = i + k
        <5>1. last - i \in Nat /\ last = i + (last - i)
          BY <1>3, <1>6, <3>2
        <5> QED
          BY <5>1
      <4>2. (i + k) * one = (i - 1) * one + one + k * one /\ k * one \in Nat
        BY <1>1, <1>6
      <4>3. (i - 1) * one \in Int
        BY <1>1, <1>6
      <4> QED
        BY <1>6, <1>7, <4>1, <4>2, <4>3
    <3> QED
      BY <3>1, <3>2
  <2>2. last * one \in Nat /\ last * one + 0 = last * one /\ 0 \in 0 .. last - 1
    OBVIOUS
  <2>3. (last * one) \div last = one
    <3>1. (last * one + 0) \div last = one
      BY <2>2, DivUnique
    <3> QED
      BY <2>2, <3>1
  <2>4. n \div last <= (last * one) \div last
    BY <2>1, <2>2, DivGrows
  <2>5. n \div last \in Nat
    OBVIOUS
  <2> QED
    BY <1>7, <2>3, <2>4, <2>5
<1>9. ASSUME NEW w \in Nat, v <= w
      PROVE  Position(stops, v) <= Position(stops, w)
  <2>1. w >= stops[1]
    BY <1>1, <1>9
  <2>2. PICK j, y : Placed(stops, w, j, y)
    BY <2>1, PlacedSomewhere
  <2>3. /\ j \in 1 .. N /\ y \in 0 .. one - 1 /\ stops[j] <= w /\ (j < N => w < stops[j + 1])
        /\ y = IF j = N THEN 0 ELSE ((w - stops[j]) * one) \div (stops[j + 1] - stops[j])
        /\ Position(stops, w) = ((j - 1) * one + y) \div last
    BY <1>1, <1>3, <1>4, <2>2 DEF Placed
  <2>4. PICK m \in Nat : m = (j - 1) * one + y /\ Position(stops, w) = m \div last
    <3>1. PICK k \in Nat : k = j - 1
      BY <1>1, <2>3
    <3>2. k * one + y \in Nat
      BY <2>3
    <3> QED
      BY <2>3, <3>1, <3>2
  <2>5. i <= j
    <3> SUFFICES ASSUME j < i
                 PROVE  FALSE
      BY <1>1, <1>6, <2>3
    <3>0. j \in 1 .. N
      BY <2>3
    <3>1. j + 1 \in 1 .. N /\ j < N
      BY <1>a, <3>0
    <3>2. stops[j + 1] <= stops[i]
      <4>1. j + 1 < i \/ j + 1 = i
        BY <1>6, <2>3
      <4> QED
        BY <1>1, <1>2, <1>6, <3>1, <4>1
    <3>3. PICK a \in Nat, b \in Nat : a = stops[j + 1] /\ b = stops[i] /\ a <= b /\ b <= v /\ w < a
      BY <1>1, <1>6, <2>3, <3>1, <3>2
    <3> QED
      BY <1>9, <3>3
  <2>6. n <= m
    <3>1. CASE i < j
      <4>1. PICK k \in Nat : j = i + 1 + k
        <5>1. j - i - 1 \in Nat /\ j = i + 1 + (j - i - 1)
          BY <1>6, <2>3, <3>1
        <5> QED
          BY <5>1
      <4>2. (j - 1) * one = (i - 1) * one + one + k * one
        BY <1>6, <4>1
      <4>3. k * one \in Nat /\ (i - 1) * one \in Int
        BY <1>6
      <4> QED
        BY <1>6, <1>7, <2>3, <2>4, <4>2, <4>3
    <3>2. CASE i = j /\ i = N
      BY <1>6, <1>7, <2>3, <2>4, <3>2
    <3>3. CASE i = j /\ i # N
      <4>1. PICK gap \in Nat \ {0}, a \in Nat, b \in Nat :
              gap = stops[i + 1] - stops[i] /\ a = v - stops[i] /\ b = w - stops[i] /\ a <= b
        <5>1. PICK p \in Nat, q \in Nat : p = stops[i] /\ q = stops[i + 1]
          <6>1. i + 1 \in 1 .. N
            BY <1>a, <3>3
          <6> QED
            BY <1>1, <1>a, <6>1
        <5>2. p <= v /\ v < q
          BY <1>6, <3>3, <5>1
        <5>3. q - p \in Nat \ {0} /\ v - p \in Nat /\ w - p \in Nat /\ v - p <= w - p
          BY <1>9, <5>2
        <5> QED
          BY <5>1, <5>3
      <4>2. a * one \in Nat /\ b * one \in Nat /\ a * one <= b * one
        <5>1. PICK k \in Nat : b = a + k
          <6>1. b - a \in Nat /\ b = a + (b - a)
            BY <4>1
          <6> QED
            BY <6>1
        <5>2. (a + k) * one = a * one + k * one /\ k * one \in Nat /\ a * one \in Nat
          OBVIOUS
        <5> QED
          BY <5>1, <5>2
      <4>3. (a * one) \div gap <= (b * one) \div gap
        BY <4>2, DivGrows
      <4>4. x = (a * one) \div gap /\ y = (b * one) \div gap
        BY <1>6, <2>3, <3>3, <4>1
      <4>5. x <= y /\ x \in Int /\ y \in Int /\ (i - 1) * one \in Int
        BY <1>6, <2>3, <4>3, <4>4
      <4> QED
        BY <1>7, <2>4, <3>3, <4>5
    <3> QED
      BY <1>6, <2>3, <2>5, <3>1, <3>2, <3>3
  <2> QED
    BY <1>7, <2>4, <2>6, DivGrows
<1>10. ASSUME NEW k \in 1 .. N, stops[k] = v
       PROVE  Position(stops, v) = ((k - 1) * one) \div last
  <2>1. i = k
    <3>1. ~(k < i)
      <4> SUFFICES ASSUME k < i
                   PROVE  FALSE
        OBVIOUS
      <4>1. stops[k] < stops[i]
        BY <1>2, <1>6
      <4>2. stops[i] \in Nat
        BY <1>1, <1>6
      <4> QED
        BY <1>6, <1>10, <4>1, <4>2
    <3>2. ~(i < k)
      <4> SUFFICES ASSUME i < k
                   PROVE  FALSE
        OBVIOUS
      <4>1. i + 1 \in 1 .. N /\ i < N
        BY <1>a
      <4>2. stops[i + 1] <= stops[k]
        <5>1. i + 1 < k \/ i + 1 = k
          BY <1>6
        <5> QED
          BY <1>1, <1>2, <4>1, <5>1
      <4>3. stops[i + 1] \in Nat
        BY <1>1, <4>1
      <4> QED
        BY <1>6, <1>10, <4>1, <4>2, <4>3
    <3> QED
      BY <1>6, <3>1, <3>2
  <2>2. x = 0
    <3>1. CASE i = N
      BY <1>6, <3>1
    <3>2. CASE i # N
      <4>1. PICK gap \in Nat \ {0} : gap = stops[i + 1] - stops[i]
        <5>1. PICK p \in Nat, q \in Nat : p = stops[i] /\ q = stops[i + 1]
          <6>1. i + 1 \in 1 .. N
            BY <1>a, <3>2
          <6> QED
            BY <1>1, <1>a, <6>1
        <5>2. p <= v /\ v < q
          BY <1>6, <3>2, <5>1
        <5>3. q - p \in Nat \ {0}
          BY <5>2
        <5> QED
          BY <5>1, <5>3
      <4>2. v - stops[i] = 0 /\ 0 * one = 0 /\ gap * 0 + 0 = 0 /\ 0 \in 0 .. gap - 1
        BY <1>10, <2>1
      <4>3. 0 \div gap = 0
        <5>1. (gap * 0 + 0) \div gap = 0
          BY <4>2, DivUnique
        <5> QED
          BY <4>2, <5>1
      <4> QED
        BY <1>6, <3>2, <4>1, <4>2, <4>3
    <3> QED
      BY <3>1, <3>2
  <2>3. (k - 1) * one + 0 = (k - 1) * one
    BY <1>1
  <2> QED
    BY <1>6, <2>1, <2>2, <2>3
<1> QED
  BY <1>1, <1>3, <1>4, <1>8, <1>9, <1>10

(* A number row's step and its track. *)
LEMMA NumbersWalk ==
  ASSUME NEW id, Field(id).kind = "NUMBER", IsPresets(Field(id).presets),
         NEW v \in Nat, NEW delta \in {-1, 0, 1}
  PROVE  NumberWalks(id, delta, v, PresetsStep(Field(id).presets, v, delta))
<1>1. PICK presets : presets = Field(id).presets
  OBVIOUS
<1>2. PICK vs : vs = presets.values
  OBVIOUS
<1>3. PICK w : w = PresetsStep(presets, v, delta)
  OBVIOUS
<1>4. /\ w \in Nat
      /\ IF w = v THEN delta = 0 \/ \A i \in DOMAIN vs : delta * (vs[i] - v) <= 0
                  ELSE \E i \in DOMAIN vs : vs[i] = w /\ delta * (w - v) > 0
      /\ ~\E i \in DOMAIN vs : Between(v, vs[i], w)
  BY <1>1, <1>2, <1>3, StepIsTheNext
<1>5. ASSUME NEW tv \in Track(id, v), NEW tw \in Track(id, w)
      PROVE  /\ tv.position \in 0 .. One /\ (tv.unplaced => tv.position = 0)
             /\ v < w => tv.position <= tw.position
             /\ ~tw.unplaced /\ w # v => \E i \in 0 .. tw.stops - 1 :
                  /\ tw.position = (i * One) \div (tw.stops - 1)
                  /\ Stops(presets)[i + 1] = w
  <2>1. tv \in PresetsTrack(presets, v) /\ tw \in PresetsTrack(presets, w)
    BY <1>1, <1>5 DEF Track
  <2>2. PICK stops : stops = Stops(presets)
    OBVIOUS
  <2>3. /\ presets.values # <<>> /\ ~(Len(stops) < 2)
        /\ tv = [stops |-> Len(stops), unplaced |-> v < stops[1],
                 position |-> IF v < stops[1] THEN 0 ELSE Position(stops, v)]
        /\ tw = [stops |-> Len(stops), unplaced |-> w < stops[1],
                 position |-> IF w < stops[1] THEN 0 ELSE Position(stops, w)]
    BY <2>1, <2>2 DEF PresetsTrack
  <2>4. /\ tv.unplaced = (v < stops[1]) /\ tv.position = IF v < stops[1] THEN 0 ELSE Position(stops, v)
        /\ tw.unplaced = (w < stops[1]) /\ tw.position = IF w < stops[1] THEN 0 ELSE Position(stops, w)
        /\ tw.stops = Len(stops)
    BY <2>3
  <2>5. Len(stops) >= 2
    <3>1. Stops(presets) \in Seq(Words)
      <4>1. presets.values \in Seq(Words)
        BY <1>1 DEF IsPresets
      <4> QED
        BY <2>3, <4>1 DEF Stops
    <3> QED
      BY <2>2, <2>3, <3>1
  <2>6. /\ Rising(stops)
        /\ \A i \in DOMAIN vs : vs[i] >= stops[1] => \E k \in 1 .. Len(stops) : stops[k] = vs[i]
    BY <1>1, <1>2, <2>2, <2>3, <2>5, StopsAre
  <2>7. PICK N \in Nat, first \in Nat : N = Len(stops) /\ N >= 2 /\ first = stops[1]
    BY <2>6 DEF Rising
  <2>8. PICK one \in Nat : one = One
    BY ScaleAssumption
  <2>9. tv.position \in 0 .. one /\ (tv.unplaced => tv.position = 0)
    <3>1. CASE v < first
      BY <2>4, <2>7, <3>1
    <3>2. CASE ~(v < first)
      <4>1. v >= stops[1]
        BY <2>7, <3>2
      <4>2. Position(stops, v) \in 0 .. one
        BY <2>6, <2>8, <4>1, PositionIs
      <4> QED
        BY <2>4, <2>7, <3>2, <4>2
    <3> QED
      BY <3>1, <3>2
  <2>10. v < w => tv.position <= tw.position
    <3>1. CASE v < first
      <4>1. tw.position \in 0 .. one
        <5>1. CASE w < first
          BY <2>4, <2>7, <5>1
        <5>2. CASE ~(w < first)
          <6>1. w >= stops[1]
            BY <1>4, <2>7, <5>2
          <6>2. Position(stops, w) \in 0 .. one
            BY <1>4, <2>6, <2>8, <6>1, PositionIs
          <6> QED
            BY <2>4, <2>7, <5>2, <6>2
        <5> QED
          BY <5>1, <5>2
      <4>2. tv.position = 0
        BY <2>4, <2>7, <3>1
      <4> QED
        BY <4>1, <4>2
    <3>2. CASE ~(v < first) /\ v < w
      <4>1. ~(w < first) /\ v >= stops[1] /\ v <= w
        BY <1>4, <2>7, <3>2
      <4>2. Position(stops, v) <= Position(stops, w)
        BY <1>4, <2>6, <4>1, PositionIs
      <4> QED
        BY <2>4, <2>7, <3>2, <4>1, <4>2
    <3> QED
      BY <3>1, <3>2
  <2>11. ASSUME ~tw.unplaced, w # v
         PROVE  \E i \in 0 .. tw.stops - 1 :
                  /\ tw.position = (i * One) \div (tw.stops - 1)
                  /\ Stops(presets)[i + 1] = w
    <3>1. PICK i \in DOMAIN vs : vs[i] = w
      BY <1>4, <2>11
    <3>0. ~(w < stops[1])
      BY <2>4, <2>11
    <3>2. w >= stops[1]
      BY <1>4, <2>7, <3>0
    <3>3. PICK k \in 1 .. Len(stops) : stops[k] = w
      BY <2>6, <3>1, <3>2
    <3>4. Position(stops, w) = ((k - 1) * One) \div (Len(stops) - 1)
      BY <1>4, <2>6, <3>2, <3>3, PositionIs
    <3>5. k - 1 \in 0 .. N - 1 /\ (k - 1) + 1 = k
      BY <2>7
    <3>6. tw.position = ((k - 1) * One) \div (tw.stops - 1)
      BY <2>4, <2>11, <3>4
    <3> QED
      BY <2>2, <2>4, <2>7, <3>3, <3>5, <3>6
  <2> QED
    BY <2>8, <2>9, <2>10, <2>11
<1> QED
  BY <1>1, <1>2, <1>3, <1>4, <1>5 DEF NumberWalks

(* The n-th place of a lap from start. *)
Lap(start, delta, many, n) ==
  IF delta = 1 THEN IF start + n < many THEN start + n ELSE start + n - many
  ELSE IF n <= start THEN start - n ELSE start - n + many

Places(start, delta, many) ==
  CHOOSE f : f = [n \in 0 .. many |->
    IF n = 0 THEN start
    ELSE ((f[n - 1] + (IF delta < 0 THEN many - 1 ELSE 1)) % Word) % many]

LEMMA LapIs ==
  ASSUME NEW many \in Nat \ {0}, 2 * many <= Word, NEW start \in 0 .. many - 1,
         NEW delta \in {-1, 1}
  PROVE  \A n \in 1 .. many : Places(start, delta, many)[n] = Lap(start, delta, many, n)
<1>0. PICK at : at = Places(start, delta, many)
  OBVIOUS
<1>1. PICK word \in Nat \ {0} : word = Word /\ 2 * many <= word
  BY ScaleAssumption
<1>2. PICK forward \in 0 .. many : forward = IF delta < 0 THEN many - 1 ELSE 1
  OBVIOUS
<1>3. \A n \in 0 .. many : Lap(start, delta, many, n) \in 0 .. many - 1
  BY DEF Lap
<1>4. \A n \in 1 .. many :
        ((Lap(start, delta, many, n - 1) + forward) % word) % many = Lap(start, delta, many, n)
  <2> TAKE n \in 1 .. many
  <2>1. n - 1 \in 0 .. many /\ n \in 0 .. many
    OBVIOUS
  <2>2. PICK x \in 0 .. many - 1, y \in 0 .. many - 1 :
          x = Lap(start, delta, many, n - 1) /\ y = Lap(start, delta, many, n)
    BY <1>3, <2>1
  <2>3. PICK z \in 0 .. 2 * many - 1 : z = x + forward
    <3>1. x + forward \in 0 .. 2 * many - 1
      OBVIOUS
    <3> QED
      BY <3>1
  <2>4. z % word = z
    <3>1. z \in -word .. 2 * word - 1 /\ ~(z < 0) /\ z < word
      BY <1>1
    <3> QED
      BY <3>1, TurnIs
  <2>5. z % many = IF z < many THEN z ELSE z - many
    <3>1. z \in -many .. 2 * many - 1 /\ ~(z < 0)
      OBVIOUS
    <3> QED
      BY <3>1, TurnIs
  <2>6. y = IF z < many THEN z ELSE z - many
    <3>1. CASE delta = 1
      BY <1>2, <2>2, <2>3, <3>1 DEF Lap
    <3>2. CASE delta = -1
      <4>1. forward = many - 1
        BY <1>2, <3>2
      <4>2. x = IF n - 1 <= start THEN start - (n - 1) ELSE start - (n - 1) + many
        BY <2>2, <3>2 DEF Lap
      <4>3. y = IF n <= start THEN start - n ELSE start - n + many
        BY <2>2, <3>2 DEF Lap
      <4> QED
        BY <2>3, <4>1, <4>2, <4>3
    <3> QED
      BY <3>1, <3>2
  <2> QED
    BY <2>2, <2>3, <2>4, <2>5, <2>6
<1>5. Lap(start, delta, many, 0) = start
  BY DEF Lap
<1>6. PICK r : r = [n \in 0 .. many |-> Lap(start, delta, many, n)]
  OBVIOUS
<1> DEFINE Rec == CHOOSE f : f = [n \in 0 .. many |->
                    IF n = 0 THEN start ELSE ((f[n - 1] + forward) % word) % many]
<1>7. Rec = [n \in 0 .. many |-> IF n = 0 THEN start ELSE ((Rec[n - 1] + forward) % word) % many]
  <2>1. \A n \in 1 .. many : r[n] = ((r[n - 1] + forward) % word) % many
    <3> TAKE n \in 1 .. many
    <3>1. n - 1 \in 0 .. many /\ n \in 0 .. many
      OBVIOUS
    <3> QED
      BY <1>4, <1>6, <3>1
  <2>2. r[0] = start
    BY <1>5, <1>6
  <2>3. r = [n \in 0 .. many |-> IF n = 0 THEN start ELSE ((r[n - 1] + forward) % word) % many]
    <3>1. \A n \in 0 .. many : r[n] = IF n = 0 THEN start ELSE ((r[n - 1] + forward) % word) % many
      BY <2>1, <2>2
    <3> QED
      BY <1>6, <3>1
  <2> QED
    BY <2>3
<1>8. at = Rec
  BY <1>0, <1>1, <1>2 DEF Places
<1> HIDE DEF Rec
<1> DEFINE T == {n \in 0 .. many : Rec[n] = Lap(start, delta, many, n)}
<1>9. 0 \in T
  BY <1>5, <1>7
<1>10. ASSUME NEW n \in 1 .. many, n - 1 \in T
       PROVE  n \in T
  <2>1. n \in 0 .. many /\ n # 0
    OBVIOUS
  <2>2. Rec[n] = ((Rec[n - 1] + forward) % word) % many
    BY <1>7, <2>1
  <2> QED
    BY <1>4, <1>10, <2>1, <2>2
<1>11. \A n \in 0 .. many : n \in T
  <2> HIDE DEF T
  <2> QED
    BY <1>9, <1>10, Induct
<1>12. \A n \in 0 .. many : Rec[n] = Lap(start, delta, many, n)
  BY <1>11
<1> QED
  BY <1>0, <1>8, <1>12

(* A choice row's step. *)
IsChoice(row) ==
  /\ row.kind \in {"ENUM", "KEY"} /\ row.limit \in Nat /\ 2 * row.limit <= Word
  /\ row.kind = "KEY" => row.choices \subseteq 0 .. MaskBits - 1
ChoicesOf(row) == IF row.kind = "ENUM" THEN {} ELSE row.choices

LEMMA ChoicesWalk ==
  ASSUME NEW row, IsChoice(row), NEW v \in Nat, NEW delta \in {-1, 0, 1},
         NEW w, w = ChoiceStep(ChoicesOf(row), row.limit, v, delta)
  PROVE  ChoiceWalks(row, delta, v, w) /\ (w = v \/ w \in 0 .. row.limit - 1)
<1>0. /\ row.kind \in {"ENUM", "KEY"}
      /\ row.kind = "KEY" => row.choices \subseteq 0 .. MaskBits - 1
  BY DEF IsChoice
<1>1. PICK many \in Nat : many = row.limit /\ 2 * many <= Word
  BY DEF IsChoice
<1>c. PICK choices : choices = IF row.kind = "ENUM" THEN {} ELSE row.choices
  OBVIOUS
<1>2. w = ChoiceStep(choices, many, v, delta)
  BY <1>1, <1>c DEF ChoicesOf
<1> DEFINE set == {c \in 0 .. many - 1 : row.kind = "ENUM" \/ row.choices = {} \/ c \in row.choices}
<1>3. PICK start \in Nat : start = (IF v < many THEN v ELSE 0) /\ (many # 0 => start \in 0 .. many - 1)
  BY <1>1
<1> DEFINE Far(c) == (delta * (c - start) - 1) % many
           at == Places(start, delta, many)
           legal == {n \in 1 .. many : ChoiceAllowed(choices, many, at[n])}
<1>4. ChoiceWalks(row, delta, v, w) <=>
        IF delta = 0 \/ set = {} THEN w = v ELSE w \in set /\ \A c \in set : Far(w) <= Far(c)
  BY <1>1, <1>3 DEF ChoiceWalks
<1>5. w = IF many = 0 \/ delta = 0 \/ legal = {} THEN v ELSE at[Min(legal)]
  BY <1>2, <1>3 DEF ChoiceStep, Places
<1>6. \A c \in 0 .. many - 1 : ChoiceAllowed(choices, many, c) <=> c \in set
  <2>1. MaskBits \in Nat
    BY ScaleAssumption
  <2> TAKE c \in 0 .. many - 1
  <2>2. ChoiceAllowed(choices, many, c) <=> choices = {} \/ (c < MaskBits /\ c \in choices)
    BY <1>1 DEF ChoiceAllowed
  <2>3. c \in choices => c < MaskBits
    BY <1>0, <1>c, <2>1
  <2>4. c \in set <=> row.kind = "ENUM" \/ row.choices = {} \/ c \in row.choices
    BY <1>1
  <2> QED
    BY <1>0, <1>c, <2>2, <2>3, <2>4
<1>7. CASE many = 0
  <2>1. set = {} /\ w = v
    BY <1>5, <1>7
  <2> QED
    BY <1>1, <1>2, <1>4, <2>1
<1>8. CASE delta = 0
  BY <1>1, <1>2, <1>4, <1>5, <1>8
<1>9. CASE many # 0 /\ delta # 0
  <2>1. many \in Nat \ {0} /\ start \in 0 .. many - 1 /\ delta \in {-1, 1}
    BY <1>3, <1>9
  <2>2. \A n \in 1 .. many : at[n] = Lap(start, delta, many, n)
    BY <1>1, <2>1, LapIs
  <2>3. \A n \in 1 .. many : Lap(start, delta, many, n) \in 0 .. many - 1
    BY <2>1 DEF Lap
  <2> HIDE DEF at
  <2>4. legal = {n \in 1 .. many : Lap(start, delta, many, n) \in set}
    BY <1>6, <2>2, <2>3
  <2>5. ASSUME NEW n \in 1 .. many
        PROVE  Far(Lap(start, delta, many, n)) = n - 1
    <3>1. PICK c \in 0 .. many - 1 : c = Lap(start, delta, many, n)
      BY <2>3
    <3>2. PICK x \in -many .. 2 * many - 1 :
            x = delta * (c - start) - 1 /\ (x = n - 1 \/ x = n - 1 - many)
      <4>1. CASE delta = 1
        <5>1. c - start - 1 = n - 1 \/ c - start - 1 = n - 1 - many
          BY <2>1, <3>1, <4>1 DEF Lap
        <5>2. c - start - 1 \in -many .. 2 * many - 1 /\ delta * (c - start) - 1 = c - start - 1
          BY <2>1, <4>1
        <5> QED
          BY <5>1, <5>2
      <4>2. CASE delta = -1
        <5>1. start - c - 1 = n - 1 \/ start - c - 1 = n - 1 - many
          BY <2>1, <3>1, <4>2 DEF Lap
        <5>2. start - c - 1 \in -many .. 2 * many - 1 /\ delta * (c - start) - 1 = start - c - 1
          BY <2>1, <4>2
        <5> QED
          BY <5>1, <5>2
      <4> QED
        BY <2>1, <4>1, <4>2
    <3>3. x % many = IF x < 0 THEN x + many ELSE IF x < many THEN x ELSE x - many
      BY <2>1, TurnIs
    <3>4. x % many = n - 1
      BY <2>1, <3>2, <3>3
    <3> QED
      BY <3>1, <3>2, <3>4
  <2>6. ASSUME NEW c \in 0 .. many - 1
        PROVE  \E n \in 1 .. many : Lap(start, delta, many, n) = c /\ Far(c) = n - 1
    <3>1. \E n \in 1 .. many : Lap(start, delta, many, n) = c
      <4>1. CASE delta = 1 /\ c > start
        <5>1. c - start \in 1 .. many /\ Lap(start, delta, many, c - start) = c
          BY <2>1, <4>1 DEF Lap
        <5> QED
          BY <5>1
      <4>2. CASE delta = 1 /\ c <= start
        <5>1. c - start + many \in 1 .. many /\ Lap(start, delta, many, c - start + many) = c
          BY <2>1, <4>2 DEF Lap
        <5> QED
          BY <5>1
      <4>3. CASE delta = -1 /\ c < start
        <5>1. start - c \in 1 .. many /\ Lap(start, delta, many, start - c) = c
          BY <2>1, <4>3 DEF Lap
        <5> QED
          BY <5>1
      <4>4. CASE delta = -1 /\ c >= start
        <5>1. start - c + many \in 1 .. many /\ Lap(start, delta, many, start - c + many) = c
          BY <2>1, <4>4 DEF Lap
        <5> QED
          BY <5>1
      <4> QED
        BY <2>1, <4>1, <4>2, <4>3, <4>4
    <3> QED
      BY <2>5, <3>1
  <2> HIDE DEF legal, Far, set
  <2>7. CASE set = {}
    <3>1. legal = {}
      BY <2>4, <2>7
    <3> QED
      BY <1>1, <1>2, <1>4, <1>5, <2>7, <3>1
  <2>8. CASE set # {}
    <3>1. set \subseteq 0 .. many - 1
      BY DEF set
    <3>2. legal # {} /\ legal \in SUBSET Nat
      <4>1. PICK c \in set : c \in 0 .. many - 1
        BY <2>8, <3>1
      <4>2. PICK n \in 1 .. many : Lap(start, delta, many, n) = c
        BY <2>6, <4>1
      <4>3. n \in legal
        BY <2>4, <4>1, <4>2
      <4> QED
        BY <2>4, <4>3
    <3>3. PICK m : m = Min(legal) /\ m \in legal /\ \A n \in legal : m <= n
      BY <3>2, MinIs
    <3>4. m \in 1 .. many /\ w = Lap(start, delta, many, m) /\ w \in set
      BY <1>5, <1>9, <2>2, <2>4, <3>2, <3>3
    <3>5. Far(w) = m - 1
      BY <2>5, <3>4
    <3>6. ASSUME NEW c \in set
          PROVE  Far(w) <= Far(c)
      <4>1. PICK n \in 1 .. many : Lap(start, delta, many, n) = c /\ Far(c) = n - 1
        BY <2>6, <3>1
      <4>2. m <= n
        BY <2>4, <3>3, <4>1
      <4> QED
        BY <3>4, <3>5, <4>1, <4>2
    <3> QED
      BY <1>1, <1>2, <1>4, <1>9, <2>8, <3>1, <3>4, <3>6
  <2> QED
    BY <2>7, <2>8
<1> QED
  BY <1>7, <1>8, <1>9

-----------------------------------------------------------------------------
(* What a field of a line reads: src/persist/fields.c.                     *)

(* What a field reads is a value of its type, and what the token says.      *)
LEMMA FieldReadIs ==
  ASSUME NEW field, IsField(field), NEW token, token.n \in Nat
  PROVE  FieldRead(token, field) \subseteq FieldValues(field) \cap Means(token, field)
<1>1. PICK n \in Nat, low \in Int, high \in Nat : n = token.n /\ low = field.low /\ high = field.high
  BY DEF IsField
<1>2. Signed(token) = IF token.sign = "-" THEN -n ELSE n
  BY <1>1 DEF Signed
<1>3. CASE field.type = "unsigned"
  <2>1. FieldRead(token, field) =
          IF token.form = "digits" /\ token.sign = "" /\ n <= high THEN {n} ELSE {}
    BY <1>1, <1>3 DEF FieldRead, FieldUnsigned
  <2>2. FieldValues(field) = 0 .. high
    BY <1>1, <1>3 DEF FieldValues
  <2>3. token.form = "digits" /\ token.sign = "" => n \in Means(token, field)
    BY <1>2, <1>3 DEF Means
  <2> QED
    BY <2>1, <2>2, <2>3
<1>4. CASE field.type = "signed"
  <2>1. FieldRead(token, field) =
          IF token.form = "digits" /\ Signed(token) \in low .. high THEN {Signed(token)} ELSE {}
    BY <1>1, <1>4 DEF FieldRead, FieldSigned
  <2>2. FieldValues(field) = low .. high
    BY <1>1, <1>4 DEF FieldValues
  <2>3. token.form = "digits" => Signed(token) \in Means(token, field)
    BY <1>4 DEF Means
  <2> QED
    BY <2>1, <2>2, <2>3
<1>5. CASE field.type = "real"
  <2>1. FieldRead(token, field) =
          IF token.form = "inf" THEN {IF token.sign = "-" THEN -(high + 1) ELSE high + 1}
          ELSE IF token.form = "digits" /\ Signed(token) \in -high .. high THEN {Signed(token)} ELSE {}
    BY <1>1, <1>5 DEF FieldRead, FieldReal, FieldSigned
  <2>2. FieldValues(field) = -(high + 1) .. high + 1
    BY <1>1, <1>5 DEF FieldValues
  <2>3. token.form = "digits" => Signed(token) \in Means(token, field)
    BY <1>5 DEF Means
  <2>4. token.form = "inf" => Means(token, field) = {high + 1, -(high + 1)}
    BY <1>1, <1>5 DEF Means
  <2> QED
    BY <2>1, <2>2, <2>3, <2>4
<1>6. CASE field.type = "bool"
  <2>1. FieldRead(token, field) =
          {IF x = 0 THEN 0 ELSE 1 : x \in IF token.form = "digits" /\ token.sign = "" THEN {n} ELSE {}}
    <3>1. FieldUnsigned(token, token.n) = IF token.form = "digits" /\ token.sign = "" THEN {n} ELSE {}
      <4>1. n <= n
        OBVIOUS
      <4> QED
        BY <1>1, <4>1 DEF FieldUnsigned
    <3> QED
      BY <1>6, <3>1 DEF FieldRead
  <2>2. FieldValues(field) = 0 .. 1
    BY <1>6 DEF FieldValues
  <2>3. token.form = "digits" /\ token.sign = "" => (IF n = 0 THEN 0 ELSE 1) \in Means(token, field)
    BY <1>1, <1>2, <1>6 DEF Means
  <2> QED
    BY <2>1, <2>2, <2>3
<1> QED
  BY <1>3, <1>4, <1>5, <1>6 DEF IsField

(* What an application writes for a row reads back. *)
LEMMA TokenReads ==
  ASSUME NEW row, IsField(row.field), NEW v \in FieldValues(row.field)
  PROVE  FieldRead(TokenOf(row, v), row.field) = {v}
<1>1. PICK field, token : field = row.field /\ token = TokenOf(row, v)
  OBVIOUS
<1>2. PICK low \in Int, high \in Nat : low = field.low /\ high = field.high
  BY <1>1 DEF IsField
<1>3. v \in Int
  BY <1>1, <1>2 DEF IsField, FieldValues
<1>4. PICK n \in Nat : n = Magnitude(v) /\ v = (IF v < 0 THEN -n ELSE n)
  <2>1. Magnitude(v) \in Nat /\ v = IF v < 0 THEN -Magnitude(v) ELSE Magnitude(v)
    BY <1>3 DEF Magnitude
  <2> QED
    BY <2>1
<1>5. /\ token.form = (IF field.type = "real" /\ n > high THEN "inf" ELSE "digits")
      /\ token.sign = (IF v < 0 THEN "-" ELSE "") /\ token.n = n
  BY <1>1, <1>2, <1>4 DEF TokenOf
<1>6. Signed(token) = v
  BY <1>3, <1>4, <1>5 DEF Signed
<1>7. CASE field.type = "unsigned"
  <2>1. v \in 0 .. high
    BY <1>1, <1>2, <1>7 DEF FieldValues
  <2>2. token.form = "digits" /\ token.sign = ""
    <3>1. token.form = "digits"
      BY <1>5, <1>7
    <3>2. ~(v < 0)
      BY <1>2, <2>1
    <3> QED
      BY <1>5, <3>1, <3>2
  <2>3. n = v /\ n <= high
    BY <1>2, <1>4, <2>1
  <2>4. FieldUnsigned(token, high) = {n}
    BY <1>5, <2>2, <2>3 DEF FieldUnsigned
  <2> QED
    BY <1>1, <1>2, <1>7, <2>3, <2>4 DEF FieldRead
<1>8. CASE field.type = "signed"
  <2>1. v \in low .. high
    BY <1>1, <1>2, <1>8 DEF FieldValues
  <2>2. token.form = "digits"
    BY <1>5, <1>8
  <2> QED
    BY <1>1, <1>2, <1>6, <1>8, <2>1, <2>2 DEF FieldRead, FieldSigned
<1>9. CASE field.type = "real"
  <2>1. v \in -(high + 1) .. high + 1
    BY <1>1, <1>2, <1>9 DEF FieldValues
  <2>2. CASE n > high
    <3>1. v = IF v < 0 THEN -(high + 1) ELSE high + 1
      BY <1>4, <2>1, <2>2
    <3>2. token.form = "inf" /\ (token.sign = "-" <=> v < 0)
      BY <1>5, <1>9, <2>2
    <3>3. FieldRead(token, field) = {IF v < 0 THEN -(high + 1) ELSE high + 1}
      BY <1>2, <1>9, <3>2 DEF FieldRead, FieldReal
    <3> QED
      BY <1>1, <3>1, <3>3
  <2>3. CASE ~(n > high)
    <3>1. v \in -high .. high
      BY <1>3, <1>4, <2>3
    <3>2. token.form = "digits"
      BY <1>5, <2>3
    <3> QED
      BY <1>1, <1>2, <1>6, <1>9, <3>1, <3>2 DEF FieldRead, FieldReal, FieldSigned
  <2> QED
    BY <2>2, <2>3
<1>10. CASE field.type = "bool"
  <2>1. v \in 0 .. 1
    BY <1>1, <1>10 DEF FieldValues
  <2>a. token.form = "digits" /\ token.sign = ""
    <3>1. token.form = "digits"
      BY <1>5, <1>10
    <3>2. ~(v < 0)
      BY <1>2, <2>1
    <3> QED
      BY <1>5, <3>1, <3>2
  <2>b. n = v /\ n <= n
    BY <1>4, <2>1
  <2>2. token.form = "digits" /\ token.sign = "" /\ n = v /\ n <= n
    BY <2>a, <2>b
  <2>3. FieldUnsigned(token, token.n) = {n}
    BY <1>5, <2>2 DEF FieldUnsigned
  <2>4. FieldRead(token, field) = {IF n = 0 THEN 0 ELSE 1}
    BY <1>10, <2>3 DEF FieldRead
  <2>5. (IF n = 0 THEN 0 ELSE 1) = v
    BY <2>1, <2>b
  <2> QED
    BY <1>1, <2>4, <2>5
<1> QED
  BY <1>1, <1>7, <1>8, <1>9, <1>10 DEF IsField

(* What the leading fields read of a line's value: the first most of them,  *)
(* and all of them where they all read.                                     *)
Reading(value, fields, most) ==
  /\ most <= Len(value) /\ most <= Len(fields)
  /\ FieldsRead(value, fields) = [i \in 1 .. most |-> FieldRead(value[i], fields[i])]
  /\ \A i \in 1 .. most : FieldRead(value[i], fields[i]) # {}
  /\ Len(value) = Len(fields) /\ (\A i \in 1 .. Len(fields) : FieldRead(value[i], fields[i]) # {})
       => most = Len(fields)

(* The leading fields that read. *)
LEMMA FieldsReadIs ==
  ASSUME NEW value, Len(value) \in Nat, NEW fields, Len(fields) \in Nat
  PROVE  \E most \in Nat : Reading(value, fields, most)
<1>1. PICK a \in Nat, b \in Nat : a = Len(value) /\ b = Len(fields)
  OBVIOUS
<1>2. PICK least \in {a, b} : least = Min({Len(value), Len(fields)}) /\ least <= a /\ least <= b
  <2>1. {a, b} \in SUBSET Nat /\ {a, b} # {}
    OBVIOUS
  <2>2. Min({a, b}) \in {a, b} /\ \A n \in {a, b} : Min({a, b}) <= n
    BY <2>1, MinIs
  <2> QED
    BY <1>1, <2>2
<1> DEFINE Leads(n) == \A i \in 1 .. n : FieldRead(value[i], fields[i]) # {}
           T == {n \in 0 .. least : Leads(n)}
<1>3. least \in Nat /\ T \in SUBSET (0 .. least) /\ 0 \in T
  BY <1>2
<1>4. PICK most : most = Max(T) /\ most \in T /\ \A n \in T : n <= most
  <2> HIDE DEF T
  <2> QED
    BY <1>3, MaxIs
<1>5. FieldsRead(value, fields) = [i \in 1 .. most |-> FieldRead(value[i], fields[i])]
  BY <1>2, <1>4 DEF FieldsRead
<1>6. most \in Nat /\ most <= a /\ most <= b /\ Leads(most)
  <2>1. most \in 0 .. least /\ Leads(most)
    BY <1>4
  <2> QED
    BY <1>2, <1>3, <2>1
<1>7. ASSUME a = b, Leads(b)
      PROVE  most = b
  <2>1. least = b
    BY <1>2, <1>7
  <2>2. b \in T
    BY <1>7, <2>1
  <2>3. b <= most
    BY <1>4, <2>2
  <2> QED
    BY <1>6, <2>3
<1> QED
  BY <1>1, <1>5, <1>6, <1>7 DEF Reading

-----------------------------------------------------------------------------
(* A row of the form, and the lines it is on.                              *)

(* A walk goes where it should, and to what the row may hold. *)
LEMMA WalkIs ==
  ASSUME form \in Forms, NEW id \in DOMAIN form.rows, NEW v, MayHold(form.rows[id], v),
         NEW delta \in {-1, 0, 1}
  PROVE  LET row == form.rows[id]
             w   == Walk(id, v, delta)
         IN /\ MayHold(row, w)
            /\ row.kind = "NUMBER" => NumberWalks(id, delta, v, w)
            /\ row.kind \in {"ENUM", "KEY"} => ChoiceWalks(row, delta, v, w)
            /\ row.kind \notin {"NUMBER", "ENUM", "KEY"} => w = v
<1>1. PICK row : row = form.rows[id] /\ row = Field(id) /\ IsRow(row)
  BY FormAssumption DEF Field, IsForm
<1>2. PICK w : w = Walk(id, v, delta)
  OBVIOUS
<1>3. ASSUME row.kind \in {"NUMBER", "ENUM", "KEY"}
      PROVE  /\ row.codec = "none" /\ v \in Nat /\ v \in FieldValues(row.field)
             /\ \A u : MayHold(row, u) <=> u \in FieldValues(row.field)
  <2>1. row.codec = "none"
    BY <1>1, <1>3 DEF IsRow
  <2>2. \A u : MayHold(row, u) <=> u \in FieldValues(row.field)
    BY <2>1 DEF MayHold
  <2>3. FieldValues(row.field) \subseteq Words /\ Words \subseteq Nat
    BY <1>1, <1>3, ScaleAssumption DEF IsRow, Words
  <2> QED
    BY <1>1, <2>1, <2>2, <2>3
<1>4. CASE row.kind = "NUMBER"
  <2>1. w = PresetsStep(row.presets, v, delta)
    BY <1>1, <1>2, <1>4 DEF Walk
  <2>2. IsPresets(row.presets) /\ Range(row.presets.values) \subseteq FieldValues(row.field)
    BY <1>1, <1>4 DEF IsRow
  <2>3. v \in Nat
    BY <1>3, <1>4
  <2>4. NumberWalks(id, delta, v, w)
    BY <1>1, <1>4, <2>1, <2>2, <2>3, NumbersWalk
  <2>5. w = v \/ \E i \in DOMAIN row.presets.values : row.presets.values[i] = w
    BY <2>1, <2>2, <2>3, StepIsTheNext
  <2>6. w \in FieldValues(row.field)
    BY <1>3, <1>4, <2>2, <2>5 DEF Range
  <2> QED
    BY <1>1, <1>2, <1>3, <1>4, <2>4, <2>6
<1>5. CASE row.kind \in {"ENUM", "KEY"}
  <2>1. /\ IsChoice(row) /\ 0 .. row.limit - 1 \subseteq FieldValues(row.field)
    BY <1>1, <1>5 DEF IsRow, IsChoice
  <2>2. w = ChoiceStep(ChoicesOf(row), row.limit, v, delta)
    BY <1>1, <1>2, <1>5 DEF Walk, ChoicesOf
  <2>3. v \in Nat
    BY <1>3, <1>5
  <2>4. ChoiceWalks(row, delta, v, w) /\ (w = v \/ w \in 0 .. row.limit - 1)
    BY <2>1, <2>2, <2>3, ChoicesWalk
  <2>5. w \in FieldValues(row.field)
    BY <1>3, <1>5, <2>1, <2>4
  <2> QED
    BY <1>1, <1>2, <1>3, <1>5, <2>4, <2>5
<1>6. CASE row.kind \notin {"NUMBER", "ENUM", "KEY"}
  <2>1. w = v
    BY <1>1, <1>2, <1>6 DEF Walk
  <2> QED
    BY <1>1, <1>2, <1>6, <2>1
<1> QED
  BY <1>4, <1>5, <1>6

(* A txt is taken for what the row may hold. *)
LEMMA ParseHolds ==
  ASSUME NEW row, IsRow(row), NEW txt, MayBeTyped(row, txt), NEW w \in Taken(row, txt)
  PROVE  MayHold(row, w)
<1>1. CASE row.codec = "none"
  BY <1>1 DEF MayBeTyped
<1>2. CASE row.codec = "decimal"
  <2>1. PICK digits, limit : digits = row.digits /\ limit = row.limit
    OBVIOUS
  <2>2. digits \in 0 .. DigitsMax /\ limit \in 1 .. IntMax \div DecimalScale(digits) - 1
    BY <1>2, <2>1 DEF IsRow
  <2>3. txt.whole \in Seq(Digits(10)) /\ txt.fraction \in Seq(Digits(10))
    BY <1>2 DEF MayBeTyped, IsDecimal
  <2>4. PICK s \in Nat \ {0} : s = DecimalScale(digits) /\ limit \in 0 .. IntMax
    BY <2>2, LimitIs
  <2>5. PICK whole \in Int : whole = WholePart(txt.whole, limit)
    BY <2>3, <2>4, WholeIs
  <2>6. Fraction(txt.fraction, digits) \subseteq Nat
    <3>1. digits \in Nat
      BY <2>2, CodecAssumption
    <3> QED
      BY <2>3, <3>1, FractionIs
  <2>7. \A f \in Fraction(txt.fraction, digits) : Wrapped(whole * s + f) \in Int
    <3> TAKE f \in Fraction(txt.fraction, digits)
    <3>1. PICK n \in Nat : n = f
      BY <2>6
    <3>2. whole * s + n \in Int
      OBVIOUS
    <3> QED
      BY <3>1, <3>2, WrappedInt
  <2>8. DecimalParse(txt, digits, limit) \subseteq
          {IF txt.sign = "-" THEN -v ELSE v : v \in {Wrapped(whole * s + f) : f \in Fraction(txt.fraction, digits)}}
    BY <2>4, <2>5 DEF DecimalParse
  <2>9. w \in Int
    BY <1>2, <2>1, <2>7, <2>8 DEF Taken
  <2> QED
    BY <1>2, <2>9 DEF MayHold
<1>3. CASE row.codec = "id"
  <2>1. w \in IdMeant(txt)
    BY <1>3, IdParseIs DEF MayBeTyped, Taken
  <2>2. w \in 0 .. IdMost
    BY <2>1 DEF IdMeant
  <2> QED
    BY <1>3, <2>2 DEF MayHold
<1>4. CASE row.codec = "bytes"
  BY <1>4 DEF MayHold
<1> QED
  BY <1>1, <1>2, <1>3, <1>4 DEF IsRow

(* The line of a group, of some values of the rows. *)
OwnLine(vals, m) ==
  LET g == form.groups[m]
  IN LineOf(g.key, g.at, [i \in DOMAIN g.rows |-> TokenOf(form.rows[g.rows[i]], vals[g.rows[i]])])

Sound(vals) == \A i \in DOMAIN form.rows : MayHold(form.rows[i], vals[i])

LEMMA GroupIs ==
  ASSUME form \in Forms, NEW m \in DOMAIN form.groups
  PROVE  LET g == form.groups[m]
         IN /\ g.key \in DOMAIN Table /\ IsPlace(Table[g.key].kind, g.at)
            /\ Len(g.rows) \in Nat /\ DOMAIN g.rows = 1 .. Len(g.rows)
            /\ \A i \in DOMAIN g.rows :
                 /\ g.rows[i] \in DOMAIN form.rows /\ form.rows[g.rows[i]].codec = "none"
                 /\ IsField(form.rows[g.rows[i]].field)
<1>1. PICK g : g = form.groups[m]
  OBVIOUS
<1>2. /\ g.key \in DOMAIN Table /\ IsPlace(Table[g.key].kind, g.at)
      /\ g.rows \in Seq({i \in DOMAIN form.rows : form.rows[i].codec = "none"})
  BY <1>1, FormAssumption DEF IsForm
<1>3. Len(g.rows) \in Nat /\ DOMAIN g.rows = 1 .. Len(g.rows)
  BY <1>2
<1>4. \A i \in DOMAIN g.rows : g.rows[i] \in DOMAIN form.rows /\ form.rows[g.rows[i]].codec = "none"
  <2>1. \A i \in 1 .. Len(g.rows) : g.rows[i] \in {j \in DOMAIN form.rows : form.rows[j].codec = "none"}
    BY <1>2
  <2> QED
    BY <1>3, <2>1
<1>5. \A j \in DOMAIN form.rows : form.rows[j].codec = "none" => IsField(form.rows[j].field)
  BY FormAssumption DEF IsForm, IsRow
<1> QED
  BY <1>1, <1>2, <1>3, <1>4, <1>5

(* The key of a group's line is found. *)
LEMMA KeyFound ==
  ASSUME form \in Forms, NEW m \in DOMAIN form.groups, NEW vals
  PROVE  KeyLookup(OwnLine(vals, m).key) = {[key |-> form.groups[m].key, at |-> form.groups[m].at]}
<1>1. PICK g, key : g = form.groups[m] /\ key = OwnLine(vals, m).key
  OBVIOUS
<1>2. g.key \in DOMAIN Table /\ IsPlace(Table[g.key].kind, g.at)
  BY <1>1, GroupIs
<1>3. key = [name |-> Table[g.key].name, kind |-> Table[g.key].kind,
             index |-> g.at[1], slot |-> g.at[2]]
  BY <1>1 DEF OwnLine, LineOf
<1>4. /\ key.name = Table[g.key].name /\ key.kind = Table[g.key].kind
      /\ key.index = g.at[1] /\ key.slot = g.at[2]
  BY <1>3
<1>5. /\ g.at = <<g.at[1], g.at[2]>> /\ ~(g.at[1] > IndexMax) /\ ~(g.at[2] > IndexMax)
  BY <1>2, RecordsAssumption DEF IsPlace
<1>6. {k \in DOMAIN Table : Table[k] = [name |-> key.name, kind |-> key.kind]} = {g.key}
  <2>1. Table[g.key] = [name |-> key.name, kind |-> key.kind]
    BY <1>2, <1>4, RecordsAssumption
  <2>2. \A k \in DOMAIN Table : Table[k] = Table[g.key] => k = g.key
    BY <1>2, RecordsAssumption
  <2> QED
    BY <1>2, <2>1, <2>2
<1>7. Min({g.key}) = g.key
  <2>1. g.key \in Nat
    BY <1>2, RecordsAssumption
  <2> QED
    BY <2>1, MinIs
<1> QED
  BY <1>1, <1>4, <1>5, <1>6, <1>7 DEF KeyLookup

(* A group's own line gives its rows the values it was written of, and no   *)
(* other row any.                                                           *)
LEMMA OwnGives ==
  ASSUME form \in Forms, NEW m \in DOMAIN form.groups, NEW vals, Sound(vals), NEW row
  PROVE  Given(OwnLine(vals, m), row) =
           IF \E n \in DOMAIN form.groups[m].rows : form.groups[m].rows[n] = row THEN {vals[row]} ELSE {}
<1>1. PICK line, rows : line = OwnLine(vals, m) /\ rows = form.groups[m].rows
  OBVIOUS
<1> DEFINE mine == {n \in DOMAIN form.groups : \E k \in KeyLookup(line.key) :
                      k = [key |-> form.groups[n].key, at |-> form.groups[n].at]}
<1>2. mine = {m}
  <2>1. \A n \in DOMAIN form.groups :
          n \in mine <=> [key |-> form.groups[m].key, at |-> form.groups[m].at]
                           = [key |-> form.groups[n].key, at |-> form.groups[n].at]
    BY <1>1, KeyFound
  <2>2. \A n \in DOMAIN form.groups :
          form.groups[m].key = form.groups[n].key /\ form.groups[m].at = form.groups[n].at => m = n
    BY FormAssumption DEF IsForm
  <2> QED
    BY <2>1, <2>2
<1>3. Min(mine) = m
  <2>1. m \in Nat
    BY FormAssumption DEF IsForm
  <2> HIDE DEF mine
  <2> QED
    BY <1>2, <2>1, MinIs
<1> DEFINE these == IF mine = {} THEN <<>> ELSE form.groups[Min(mine)].rows
           all == FieldsRead(line.value, [i \in DOMAIN these |-> form.rows[these[i]].field])
<1>a. Given(line, row) = UNION {all[i] : i \in {i \in DOMAIN all : these[i] = row}}
  BY DEF Given
<1>b. these = rows
  BY <1>1, <1>2, <1>3
<1> HIDE DEF these
<1> DEFINE fields == [i \in DOMAIN rows |-> form.rows[rows[i]].field]
           read == FieldsRead(line.value, fields)
<1>4. Given(line, row) = UNION {read[i] : i \in {i \in DOMAIN read : rows[i] = row}}
  BY <1>a, <1>b
<1>5. /\ Len(rows) \in Nat /\ DOMAIN rows = 1 .. Len(rows)
      /\ \A i \in DOMAIN rows :
           /\ rows[i] \in DOMAIN form.rows /\ form.rows[rows[i]].codec = "none"
           /\ IsField(form.rows[rows[i]].field)
  BY <1>1, GroupIs
<1>6. line.value = [i \in DOMAIN rows |-> TokenOf(form.rows[rows[i]], vals[rows[i]])]
  BY <1>1 DEF OwnLine, LineOf
<1>7. Len(fields) = Len(rows) /\ Len(line.value) = Len(rows)
  BY <1>5, <1>6
<1>8. \A i \in DOMAIN rows : FieldRead(line.value[i], fields[i]) = {vals[rows[i]]}
  <2> TAKE i \in DOMAIN rows
  <2>1. vals[rows[i]] \in FieldValues(form.rows[rows[i]].field)
    BY <1>5 DEF Sound, MayHold
  <2> QED
    BY <1>5, <1>6, <2>1, TokenReads
<1> HIDE DEF fields, mine
<1>9. DOMAIN read = DOMAIN rows /\ \A i \in DOMAIN rows : read[i] = {vals[rows[i]]}
  <2>0. Len(line.value) \in Nat /\ Len(fields) \in Nat
    BY <1>5, <1>7
  <2>1. PICK most \in Nat : Reading(line.value, fields, most)
    BY <2>0, FieldsReadIs
  <2>r. /\ read = [i \in 1 .. most |-> FieldRead(line.value[i], fields[i])]
        /\ Len(line.value) = Len(fields) /\ (\A i \in 1 .. Len(fields) : FieldRead(line.value[i], fields[i]) # {})
             => most = Len(fields)
    BY <2>1 DEF Reading
  <2>2. most = Len(rows)
    BY <1>5, <1>7, <1>8, <2>r
  <2> QED
    BY <1>5, <1>8, <2>r, <2>2
<1> HIDE DEF read
<1> QED
  BY <1>1, <1>4, <1>9

LEMMA SeqDomain ==
  ASSUME NEW S, NEW s \in Seq(S)
  PROVE  Len(s) \in Nat /\ DOMAIN s = 1 .. Len(s) /\ DOMAIN s \subseteq Nat
OBVIOUS

LEMMA EntryIs ==
  ASSUME NEW entry, NEW name, NEW kind, entry = [name |-> name, kind |-> kind]
  PROVE  entry.name = name /\ entry.kind = kind
OBVIOUS

LEMMA PairIs ==
  ASSUME NEW at, NEW a, NEW b, at = <<a, b>>
  PROVE  at[1] = a /\ at[2] = b
OBVIOUS

LEMMA RecordIs ==
  ASSUME NEW a, NEW b, NEW c, NEW d, [key |-> a, at |-> b] = [key |-> c, at |-> d]
  PROVE  a = c /\ b = d
<1>1. [key |-> a, at |-> b].key = [key |-> c, at |-> d].key
  OBVIOUS
<1>2. [key |-> a, at |-> b].at = [key |-> c, at |-> d].at
  OBVIOUS
<1> QED
  BY <1>1, <1>2

(* A key that is found is one of the table's, of the same name and kind. *)
LEMMA KeyIs ==
  ASSUME NEW key, NEW k, NEW at, [key |-> k, at |-> at] \in KeyLookup(key)
  PROVE  /\ k \in {n \in DOMAIN Table : Table[n] = [name |-> key.name, kind |-> key.kind]}
         /\ at = <<key.index, key.slot>>
<1> DEFINE ks == {n \in DOMAIN Table : Table[n] = [name |-> key.name, kind |-> key.kind]}
<1>1. ks # {} /\ [key |-> k, at |-> at] = [key |-> Min(ks), at |-> <<key.index, key.slot>>]
  BY DEF KeyLookup
<1>2. ks \in SUBSET Nat
  <2>1. Table \in Seq(Range(Table))
    BY RecordsAssumption
  <2>2. DOMAIN Table \subseteq Nat
    BY <2>1, SeqDomain
  <2> QED
    BY <2>2
<1> HIDE DEF ks
<1>3. k = Min(ks) /\ at = <<key.index, key.slot>>
  BY <1>1, RecordIs
<1>4. Min(ks) \in ks
  BY <1>1, <1>2, MinIs
<1> QED
  BY <1>3, <1>4 DEF ks

(* What any line gives a row is on it, on the line of the row's own group.  *)
LEMMA LineGives ==
  ASSUME form \in Forms, NEW line, IsLine(line), NEW row, NEW v \in Given(line, row)
  PROVE  \E m \in DOMAIN form.groups : \E n \in DOMAIN form.groups[m].rows :
           /\ form.groups[m].rows[n] = row /\ v \in FieldValues(form.rows[row].field)
           /\ IsOf(line, form.groups[m]) /\ v \in Says(line, form.groups[m], n)
<1> DEFINE mine == {n \in DOMAIN form.groups : \E k \in KeyLookup(line.key) :
                      k = [key |-> form.groups[n].key, at |-> form.groups[n].at]}
           rows == IF mine = {} THEN <<>> ELSE form.groups[Min(mine)].rows
           fields == [i \in DOMAIN rows |-> form.rows[rows[i]].field]
           read == FieldsRead(line.value, fields)
<1>1. Given(line, row) = UNION {read[i] : i \in {i \in DOMAIN read : rows[i] = row}}
  BY DEF Given
<1>2. PICK n \in DOMAIN read : rows[n] = row /\ v \in read[n]
  BY <1>1
<1>3. Len(line.value) \in Nat /\ DOMAIN line.value = 1 .. Len(line.value)
  <2>1. line.value \in Seq(Range(line.value))
    BY DEF IsLine
  <2> QED
    BY <2>1, LenProperties
<1>4. mine # {}
  <2> SUFFICES ASSUME mine = {}
               PROVE  FALSE
    OBVIOUS
  <2>1. rows = <<>>
    OBVIOUS
  <2>2. Len(fields) = 0
    BY <2>1
  <2> HIDE DEF fields
  <2>c. Len(line.value) \in Nat /\ Len(fields) \in Nat
    BY <1>3, <2>2
  <2>3. PICK most \in Nat : Reading(line.value, fields, most)
    BY <2>c, FieldsReadIs
  <2>r. most <= 0 /\ read = [i \in 1 .. most |-> FieldRead(line.value[i], fields[i])]
    BY <2>2, <2>3 DEF Reading
  <2>4. 1 .. most = {}
    BY <2>r
  <2> HIDE DEF read
  <2> QED
    BY <1>2, <2>r, <2>4
<1>5. PICK m \in DOMAIN form.groups : m = Min(mine) /\ m \in mine
  <2>0. form.groups \in Seq(Range(form.groups))
    BY FormAssumption DEF IsForm
  <2>a. DOMAIN form.groups \subseteq Nat
    BY <2>0, SeqDomain
  <2>1. mine \in SUBSET Nat
    BY <2>a
  <2> HIDE DEF mine
  <2>2. Min(mine) \in mine
    BY <1>4, <2>1, MinIs
  <2> QED
    BY <2>2 DEF mine
<1>6. PICK g : g = form.groups[m]
  OBVIOUS
<1>7. rows = g.rows
  BY <1>4, <1>5, <1>6
<1>8. /\ g.key \in DOMAIN Table /\ Len(g.rows) \in Nat /\ DOMAIN g.rows = 1 .. Len(g.rows)
      /\ \A i \in DOMAIN g.rows : g.rows[i] \in DOMAIN form.rows /\ IsField(form.rows[g.rows[i]].field)
  BY <1>6, GroupIs
<1>9. IsOf(line, g)
  <2>1. [key |-> g.key, at |-> g.at] \in KeyLookup(line.key)
    BY <1>5, <1>6
  <2>2. g.key \in {k \in DOMAIN Table : Table[k] = [name |-> line.key.name, kind |-> line.key.kind]}
        /\ g.at = <<line.key.index, line.key.slot>>
    BY <2>1, KeyIs
  <2>5. Table[g.key].name = line.key.name /\ Table[g.key].kind = line.key.kind
    <3>1. PICK entry, name, kind : /\ entry = Table[g.key] /\ name = line.key.name /\ kind = line.key.kind
                                   /\ entry = [name |-> name, kind |-> kind]
      BY <2>2
    <3>0. entry = [name |-> name, kind |-> kind]
      BY <3>1
    <3>2. entry.name = name /\ entry.kind = kind
      BY ONLY <3>0, EntryIs
    <3> QED
      BY <3>1, <3>2
  <2>6. g.at[1] = line.key.index /\ g.at[2] = line.key.slot
    BY <2>2, PairIs
  <2> QED
    BY <2>5, <2>6 DEF IsOf, IsLine
<1> HIDE DEF mine, rows
<1>10. Len(fields) = Len(g.rows) /\ \A i \in DOMAIN g.rows : fields[i] = form.rows[g.rows[i]].field
  BY <1>7, <1>8
<1> HIDE DEF fields
<1>a. PICK most \in Nat : Reading(line.value, fields, most)
  <2>1. Len(fields) \in Nat
    BY <1>8, <1>10
  <2> QED
    BY <1>3, <2>1, FieldsReadIs
<1>11. /\ most <= Len(line.value) /\ most <= Len(g.rows)
       /\ read = [i \in 1 .. most |-> FieldRead(line.value[i], fields[i])]
       /\ \A i \in 1 .. most : FieldRead(line.value[i], fields[i]) # {}
  BY <1>10, <1>a DEF Reading
<1> HIDE DEF read
<1>12. n \in 1 .. most /\ v \in FieldRead(line.value[n], fields[n])
  BY <1>2, <1>11
<1>13. \A i \in 1 .. most : i \in DOMAIN g.rows /\ i \in DOMAIN line.value
  <2>1. DOMAIN line.value = 1 .. Len(line.value)
    BY <1>3
  <2> QED
    BY <1>3, <1>8, <1>11, <2>1
<1> DEFINE Told(i) == FieldValues(form.rows[g.rows[i]].field) \cap
                        UNION {Means(line.value[j], form.rows[g.rows[i]].field) : j \in DOMAIN line.value \cap {i}}
<1>14. \A i \in 1 .. most : FieldRead(line.value[i], fields[i]) \subseteq Told(i)
  <2> TAKE i \in 1 .. most
  <2>1. line.value[i].n \in Nat
    BY <1>13 DEF IsLine
  <2>2. FieldRead(line.value[i], fields[i]) \subseteq FieldValues(fields[i]) \cap Means(line.value[i], fields[i])
    BY <1>8, <1>10, <1>13, <2>1, FieldReadIs
  <2> QED
    BY <1>10, <1>13, <2>2
<1>15. Says(line, g, n) = {u \in Told(n) : \A i \in 1 .. n : Told(i) # {}}
  BY DEF Says
<1> HIDE DEF Told
<1>16. v \in Says(line, g, n)
  <2>1. \A i \in 1 .. n : i \in 1 .. most
    BY <1>12
  <2>2. \A i \in 1 .. n : Told(i) # {}
    BY <1>11, <1>14, <2>1
  <2> QED
    BY <1>12, <1>14, <1>15, <2>2
<1>17. v \in FieldValues(form.rows[row].field)
  BY <1>2, <1>7, <1>12, <1>14 DEF Told
<1> QED
  BY <1>2, <1>6, <1>7, <1>9, <1>12, <1>13, <1>16, <1>17

-----------------------------------------------------------------------------
(* The file, edited or not, and what is loaded of it.                      *)

LEMMA InsertAtIs ==
  ASSUME NEW s, NEW i, NEW e
  PROVE  InsertAt(s, i, e) = SubSeq(s, 1, i - 1) \o <<e>> \o SubSeq(s, i, Len(s))
BY Zenon DEF InsertAt

(* A line put into a sequence moves those behind it by one. *)
IsInserted(S, s, e, place, t) ==
  /\ t \in Seq(S \cup {e}) /\ DOMAIN t = 1 .. Len(s) + 1
  /\ \A i \in 1 .. Len(s) + 1 :
       t[i] = IF i <= place THEN s[i] ELSE IF i = place + 1 THEN e ELSE s[i - 1]

LEMMA Inserted ==
  ASSUME NEW S, NEW s \in Seq(S), NEW e, NEW place \in 0 .. Len(s),
         NEW t, t = InsertAt(s, place + 1, e)
  PROVE  IsInserted(S, s, e, place, t)
<1>1. PICK n \in Nat : n = Len(s)
  BY LenProperties
<1> DEFINE a == SubSeq(s, 1, place)
           b == SubSeq(s, place + 1, n)
<1>2. t = (a \o <<e>>) \o b
  <2>1. (place + 1) - 1 = place
    BY <1>1
  <2>2. InsertAt(s, place + 1, e) = SubSeq(s, 1, (place + 1) - 1) \o <<e>> \o SubSeq(s, place + 1, Len(s))
    BY InsertAtIs
  <2> QED
    BY <1>1, <2>1, <2>2, Zenon
<1>3. a \in Seq(S) /\ Len(a) = place /\ \A i \in 1 .. place : a[i] = s[i]
  BY <1>1
<1>4. b \in Seq(S) /\ Len(b) = n - place /\ \A i \in 1 .. n - place : b[i] = s[place + i]
  <2>1. CASE place = n
    BY <1>1, <2>1
  <2>2. CASE place < n
    <3>1. place + 1 \in 1 .. n
      BY <1>1, <2>2
    <3>2. b \in Seq(S) /\ Len(b) = n - (place + 1) + 1
      BY <1>1, <3>1
    <3>3. \A i \in 1 .. n - place : b[i] = s[place + i]
      BY <1>1, <3>1, <3>2
    <3> QED
      BY <1>1, <3>2, <3>3
  <2> QED
    BY <1>1, <2>1, <2>2
<1>5. a \in Seq(S \cup {e}) /\ <<e>> \in Seq(S \cup {e}) /\ b \in Seq(S \cup {e})
  <2>1. S \subseteq S \cup {e}
    OBVIOUS
  <2>2. a \in Seq(S \cup {e})
    BY <1>3, <2>1, SeqWithin
  <2>3. b \in Seq(S \cup {e})
    BY <1>4, <2>1, SeqWithin
  <2>4. <<e>> \in Seq(S \cup {e})
    OBVIOUS
  <2> QED
    BY <2>2, <2>3, <2>4
<1> HIDE DEF a, b
<1> DEFINE c == a \o <<e>>
<1>6. /\ c \in Seq(S \cup {e}) /\ Len(c) = place + 1 /\ c[place + 1] = e
      /\ \A i \in 1 .. place : c[i] = a[i]
  BY <1>1, <1>3, <1>5
<1> HIDE DEF c
<1>7. /\ c \o b \in Seq(S \cup {e}) /\ Len(c \o b) = n + 1
      /\ \A i \in 1 .. place + 1 : (c \o b)[i] = c[i]
      /\ \A i \in place + 2 .. n + 1 : (c \o b)[i] = b[i - (place + 1)]
  BY <1>1, <1>4, <1>5, <1>6
<1>8. \A i \in 1 .. n + 1 :
        (c \o b)[i] = IF i <= place THEN s[i] ELSE IF i = place + 1 THEN e ELSE s[i - 1]
  <2> TAKE i \in 1 .. n + 1
  <2>1. CASE i <= place
    <3>1. i \in 1 .. place /\ i \in 1 .. place + 1
      BY <1>1, <2>1
    <3> QED
      BY <1>3, <1>6, <1>7, <2>1, <3>1
  <2>2. CASE i = place + 1
    <3>1. ~(i <= place) /\ i \in 1 .. place + 1
      BY <1>1, <2>2
    <3> QED
      BY <1>6, <1>7, <2>2, <3>1
  <2>3. CASE i > place + 1
    <3>1. /\ ~(i <= place) /\ i # place + 1 /\ i \in place + 2 .. n + 1
          /\ i - (place + 1) \in 1 .. n - place /\ place + (i - (place + 1)) = i - 1
      BY <1>1, <2>3
    <3> QED
      BY <1>4, <1>7, <3>1
  <2>4. i <= place \/ i = place + 1 \/ i > place + 1
    BY <1>1
  <2> HIDE DEF a, b, c
  <2> QED
    BY <2>1, <2>2, <2>3, <2>4
<1>9. t = c \o b
  BY <1>2 DEF c
<1>10. DOMAIN t = 1 .. n + 1 /\ t \in Seq(S \cup {e})
  <2>1. t \in Seq(S \cup {e}) /\ Len(t) = n + 1
    BY <1>7, <1>9
  <2> QED
    BY <2>1, SeqDomain
<1>11. \A i \in 1 .. n + 1 :
         t[i] = IF i <= place THEN s[i] ELSE IF i = place + 1 THEN e ELSE s[i - 1]
  BY <1>8, <1>9
<1> QED
  BY <1>1, <1>10, <1>11 DEF IsInserted

(* What a stream under way and the file have in them. *)
StreamOf(vals, n, s) ==
  /\ s.failed \in BOOLEAN
  /\ s.failed \/ s.lines = [k \in 1 .. n |-> OwnLine(vals, k)]

FileOf(vals, handled, f) ==
  /\ f \in Seq(Range(f))
  /\ \A i \in DOMAIN f : \/ \E m \in DOMAIN form.groups : f[i] = OwnLine(vals, m)
                         \/ handled /\ f[i] \in HandLines
  /\ \A m \in DOMAIN form.groups : \E i \in DOMAIN f : f[i] = OwnLine(vals, m)

FormInv ==
  /\ form \in Forms /\ values = [i \in DOMAIN form.rows |-> values[i]]
  /\ Sound(values) /\ Sound(kept)
  /\ written \in 0 .. Len(form.groups)
  /\ \A s \in stream : StreamOf(values, written, s)
  /\ \A f \in file : FileOf(kept, edited, f)

LEMMA OwnGivesOnly ==
  ASSUME form \in Forms, NEW m \in DOMAIN form.groups, NEW vals, Sound(vals), NEW row
  PROVE  Given(OwnLine(vals, m), row) \subseteq {vals[row]}
<1>1. Given(OwnLine(vals, m), row) =
        IF \E n \in DOMAIN form.groups[m].rows : form.groups[m].rows[n] = row THEN {vals[row]} ELSE {}
  BY OwnGives
<1> QED
  BY <1>1

LEMMA OwnGivesIt ==
  ASSUME form \in Forms, NEW m \in DOMAIN form.groups, NEW vals, Sound(vals), NEW row,
         NEW n \in DOMAIN form.groups[m].rows, form.groups[m].rows[n] = row
  PROVE  Given(OwnLine(vals, m), row) = {vals[row]}
<1>1. Given(OwnLine(vals, m), row) =
        IF \E k \in DOMAIN form.groups[m].rows : form.groups[m].rows[k] = row THEN {vals[row]} ELSE {}
  BY OwnGives
<1> QED
  BY <1>1

(* What a row is loaded with: a value of the last save, or what a line put  *)
(* into the file gives it; its default only where it is on no line.         *)
LEMMA LoadGives ==
  ASSUME form \in Forms, Sound(kept), NEW f, FileOf(kept, edited, f),
         NEW row \in DOMAIN form.rows
  PROVE  \/ Load(f)[row] = kept[row]
         \/ edited /\ \E i \in DOMAIN f : f[i] \in HandLines /\ Load(f)[row] \in Given(f[i], row)
         \/ /\ Load(f)[row] = form.rows[row].default
            /\ \A m \in DOMAIN form.groups : \A n \in DOMAIN form.groups[m].rows :
                 form.groups[m].rows[n] # row
<1> DEFINE by == {i \in DOMAIN f : Given(f[i], row) # {}}
<1>1. PICK v : v = Load(f)[row] /\ v = Loaded(f, row)
  BY DEF Load
<1>d. form.rows[row].default = Defaults[row]
  BY DEF Defaults
<1>2. Len(f) \in Nat /\ DOMAIN f = 1 .. Len(f)
  BY SeqDomain DEF FileOf
<1>3. CASE by = {}
  <2>1. \A m \in DOMAIN form.groups : \A n \in DOMAIN form.groups[m].rows :
          form.groups[m].rows[n] # row
    <3> SUFFICES ASSUME NEW m \in DOMAIN form.groups, NEW n \in DOMAIN form.groups[m].rows,
                        form.groups[m].rows[n] = row
                 PROVE  FALSE
      OBVIOUS
    <3>1. PICK i \in DOMAIN f : f[i] = OwnLine(kept, m)
      BY DEF FileOf
    <3>2. Given(OwnLine(kept, m), row) = {kept[row]}
      BY OwnGivesIt
    <3>3. Given(f[i], row) = {}
      BY <1>3
    <3> QED
      BY <3>1, <3>2, <3>3
  <2>2. v = Defaults[row]
    BY <1>1, <1>3 DEF Loaded
  <2> QED
    BY <1>1, <1>d, <2>1, <2>2
<1>4. CASE by # {}
  <2>1. by \in SUBSET (0 .. Len(f))
    BY <1>2
  <2>2. PICK i : i = Max(by) /\ i \in by
    <3> HIDE DEF by
    <3> QED
      BY <1>2, <1>4, <2>1, MaxIs
  <2>v. v = CHOOSE u \in Given(f[i], row) : TRUE
    BY <1>1, <1>4, <2>2 DEF Loaded
  <2>3. i \in DOMAIN f /\ v \in Given(f[i], row)
    BY <2>2, <2>v
  <2>4. CASE edited /\ f[i] \in HandLines
    BY <1>1, <2>3, <2>4
  <2>5. ASSUME NEW m \in DOMAIN form.groups, f[i] = OwnLine(kept, m)
        PROVE  v = kept[row]
    <3>1. Given(OwnLine(kept, m), row) \subseteq {kept[row]}
      BY OwnGivesOnly
    <3> QED
      BY <2>3, <2>5, <3>1
  <2> QED
    BY <1>1, <2>3, <2>4, <2>5 DEF FileOf
<1> QED
  BY <1>3, <1>4

-----------------------------------------------------------------------------
(* Every step of the form.                                                 *)

LEMMA DefaultsSound == ASSUME form \in Forms PROVE Sound(Defaults)
<1>1. \A i \in DOMAIN form.rows : MayHold(form.rows[i], form.rows[i].default)
  BY FormAssumption DEF IsForm
<1> QED
  BY <1>1 DEF Sound, Defaults

LEMMA FormInvInit == FormInit => FormInv
<1> SUFFICES ASSUME FormInit
             PROVE  FormInv
  OBVIOUS
<1>1. form \in Forms /\ values \in form.starts /\ stream = {} /\ written = 0 /\ file = {} /\ kept = Defaults
  BY DEF FormInit
<1>2. IsForm(form)
  BY <1>1, FormAssumption
<1>3. values = [i \in DOMAIN form.rows |-> values[i]] /\ Sound(values)
  BY <1>1, <1>2 DEF IsForm, Sound
<1>4. Sound(kept)
  BY <1>1, DefaultsSound
<1>5. written \in 0 .. Len(form.groups)
  <2>1. Len(form.groups) \in Nat
    BY <1>2, SeqDomain DEF IsForm
  <2> QED
    BY <1>1, <2>1
<1> QED
  BY <1>1, <1>3, <1>4, <1>5 DEF FormInv

(* The invariant, of a form that stays and of what a step leaves. *)
LEMMA FormInvNext ==
  ASSUME form' = form, form \in Forms,
         values' = [i \in DOMAIN form.rows |-> values'[i]],
         \A i \in DOMAIN form.rows : MayHold(form.rows[i], values'[i]) /\ MayHold(form.rows[i], kept'[i]),
         written' \in 0 .. Len(form.groups),
         \A s \in stream' : StreamOf(values', written', s),
         \A f \in file' : FileOf(kept', edited', f)
  PROVE  FormInv'
<1>1. (\A s \in stream' : StreamOf(values, written, s)')
  BY DEF StreamOf, OwnLine
<1>2. \A f \in file' : FileOf(kept, edited, f)'
  <2> TAKE f \in file'
  <2>1. FileOf(kept', edited', f)
    OBVIOUS
  <2>2. \A m : OwnLine(kept, m)' = OwnLine(kept', m)
    BY DEF OwnLine
  <2>3. \A i \in DOMAIN f : \/ \E m \in (DOMAIN form.groups)' : f[i] = OwnLine(kept, m)'
                            \/ edited' /\ f[i] \in HandLines
    <3> TAKE i \in DOMAIN f
    <3>1. CASE edited' /\ f[i] \in HandLines
      BY <3>1
    <3>2. ASSUME NEW m \in DOMAIN form.groups, f[i] = OwnLine(kept', m)
          PROVE  \E k \in (DOMAIN form.groups)' : f[i] = OwnLine(kept, k)'
      BY <2>2, <3>2
    <3>3. (\E m \in DOMAIN form.groups : f[i] = OwnLine(kept', m)) \/ (edited' /\ f[i] \in HandLines)
      BY <2>1 DEF FileOf
    <3>4. CASE \E m \in DOMAIN form.groups : f[i] = OwnLine(kept', m)
      <4>1. PICK m \in DOMAIN form.groups : f[i] = OwnLine(kept', m)
        BY <3>4
      <4> QED
        BY <3>2, <4>1
    <3> QED
      BY <3>1, <3>3, <3>4
  <2>4. \A m \in (DOMAIN form.groups)' : \E i \in DOMAIN f : f[i] = OwnLine(kept, m)'
    BY <2>1, <2>2, Zenon DEF FileOf
  <2>5. f \in Seq(Range(f))
    BY <2>1 DEF FileOf
  <2> QED
    BY <2>3, <2>4, <2>5, Zenon DEF FileOf
<1>3. Sound(values)' /\ Sound(kept)'
  BY DEF Sound
<1> QED
  BY <1>1, <1>2, <1>3 DEF FormInv

LEMMA AppendIs ==
  ASSUME NEW n \in Nat, NEW vals, NEW line, line = OwnLine(vals, n + 1)
  PROVE  Append([k \in 1 .. n |-> OwnLine(vals, k)], line) = [k \in 1 .. n + 1 |-> OwnLine(vals, k)]
<1> DEFINE a == [k \in 1 .. n |-> OwnLine(vals, k)]
           b == [k \in 1 .. n + 1 |-> OwnLine(vals, k)]
           S == {OwnLine(vals, k) : k \in 1 .. n + 1}
<1>1. a \in Seq(S) /\ b \in Seq(S) /\ line \in S /\ Len(a) = n /\ Len(b) = n + 1
  <2>1. a \in [1 .. n -> S] /\ b \in [1 .. n + 1 -> S] /\ n + 1 \in 1 .. n + 1
    OBVIOUS
  <2>2. DOMAIN a = 1 .. n /\ DOMAIN b = 1 .. n + 1 /\ line \in S
    BY <2>1
  <2> HIDE DEF a, b, S
  <2>3. a \in Seq(S) /\ b \in Seq(S)
    BY <2>1
  <2> QED
    BY <2>2, <2>3
<1>2. \A k \in 1 .. n + 1 : Append(a, line)[k] = b[k]
  <2>1. \A k \in 1 .. n : a[k] = b[k]
    OBVIOUS
  <2>2. b[n + 1] = line
    OBVIOUS
  <2> HIDE DEF a, b, S
  <2> QED
    BY <1>1, <2>1, <2>2
<1>3. Append(a, line) \in Seq(S) /\ Len(Append(a, line)) = n + 1
  <2> HIDE DEF a, b, S
  <2> QED
    BY <1>1
<1> HIDE DEF a, b, S
<1> QED
  BY <1>1, <1>2, <1>3, SeqEqual DEF a, b

(* What is loaded is what a row may hold. *)
LEMMA LoadHolds ==
  ASSUME form \in Forms, Sound(kept), NEW f, FileOf(kept, edited, f), NEW row \in DOMAIN form.rows
  PROVE  MayHold(form.rows[row], Load(f)[row])
<1>1. PICK v : v = Load(f)[row]
  OBVIOUS
<1>2. \/ v = kept[row] \/ v = form.rows[row].default
      \/ \E i \in DOMAIN f : f[i] \in HandLines /\ v \in Given(f[i], row)
  BY <1>1, LoadGives
<1>3. CASE v = kept[row]
  BY <1>1, <1>3 DEF Sound
<1>4. CASE v = form.rows[row].default
  BY <1>1, <1>4, FormAssumption DEF IsForm
<1>5. ASSUME NEW i \in DOMAIN f, f[i] \in HandLines, v \in Given(f[i], row)
      PROVE  MayHold(form.rows[row], v)
  <2>1. IsLine(f[i])
    BY <1>5, FormAssumption
  <2>2. PICK m \in DOMAIN form.groups : \E n \in DOMAIN form.groups[m].rows :
           form.groups[m].rows[n] = row /\ v \in FieldValues(form.rows[row].field)
    BY <1>5, <2>1, LineGives
  <2>3. PICK n \in DOMAIN form.groups[m].rows :
           form.groups[m].rows[n] = row /\ v \in FieldValues(form.rows[row].field)
    BY <2>2
  <2>4. form.rows[row].codec = "none"
    BY <2>3, GroupIs
  <2> QED
    BY <2>3, <2>4 DEF MayHold
<1> QED
  BY <1>1, <1>2, <1>3, <1>4, <1>5

LEMMA PressKeeps ==
  ASSUME FormInv, NEW id, NEW delta \in {-1, 0, 1}, Press(id, delta)
  PROVE  FormInv'
<1>1. /\ form' = form /\ stream' = stream /\ written' = written /\ file' = file
      /\ kept' = kept /\ edited' = edited /\ stream = {}
  BY DEF Press, Filed
<1>2. form \in Forms /\ values = [i \in DOMAIN form.rows |-> values[i]] /\ Sound(values) /\ Sound(kept)
  BY DEF FormInv
<1>3. DOMAIN values = DOMAIN form.rows
  BY <1>2
<1>4. CASE id \notin DOMAIN values
  <2>1. values' = values
    BY <1>4 DEF Press
  <2> QED
    BY <1>1, <1>2, <2>1, FormInvNext DEF FormInv, Sound
<1>5. CASE id \in DOMAIN values
  <2>1. values' = [values EXCEPT ![id] = Walk(id, values[id], delta)]
    BY <1>5 DEF Press
  <2>2. MayHold(form.rows[id], Walk(id, values[id], delta))
    BY <1>2, <1>3, <1>5, WalkIs DEF Sound
  <2>3. values' = [i \in DOMAIN form.rows |-> values'[i]]
    BY <1>2, <1>3, <2>1
  <2>4. \A i \in DOMAIN form.rows : MayHold(form.rows[i], values'[i])
    BY <1>2, <1>3, <2>1, <2>2 DEF Sound
  <2> QED
    BY <1>1, <1>2, <2>3, <2>4, FormInvNext DEF FormInv, Sound
<1> QED
  BY <1>4, <1>5

LEMMA TypeKeeps ==
  ASSUME FormInv, NEW id \in DOMAIN form.rows, NEW t \in form.texts[id], Type(id, t)
  PROVE  FormInv'
<1>1. /\ form' = form /\ stream' = stream /\ written' = written /\ file' = file
      /\ kept' = kept /\ edited' = edited /\ stream = {}
  BY DEF Type, Filed
<1>2. form \in Forms /\ values = [i \in DOMAIN form.rows |-> values[i]] /\ Sound(values) /\ Sound(kept)
  BY DEF FormInv
<1>3. IsRow(form.rows[id]) /\ MayBeTyped(form.rows[id], t)
  BY <1>2, FormAssumption DEF IsForm
<1>4. CASE values' = values
  BY <1>1, <1>2, <1>4, FormInvNext DEF FormInv, Sound
<1>5. ASSUME NEW v \in Taken(form.rows[id], t), values' = [values EXCEPT ![id] = v]
      PROVE  FormInv'
  <2>1. MayHold(form.rows[id], v)
    BY <1>3, ParseHolds
  <2>2. values' = [i \in DOMAIN form.rows |-> values'[i]]
    BY <1>2, <1>5
  <2>3. \A i \in DOMAIN form.rows : MayHold(form.rows[i], values'[i])
    BY <1>2, <1>5, <2>1 DEF Sound
  <2> QED
    BY <1>1, <1>2, <2>2, <2>3, FormInvNext DEF FormInv, Sound
<1> QED
  BY <1>4, <1>5 DEF Type

LEMMA SaveLineKeeps ==
  ASSUME FormInv, NEW works \in BOOLEAN, SaveLine(works)
  PROVE  FormInv'
<1>1. /\ form' = form /\ values' = values /\ file' = file /\ kept' = kept /\ edited' = edited
      /\ written < Len(form.groups) /\ written' = written + 1
  BY DEF SaveLine
<1>2. /\ form \in Forms /\ values = [i \in DOMAIN form.rows |-> values[i]] /\ Sound(values) /\ Sound(kept)
      /\ \A f \in file : FileOf(kept, edited, f)
  BY DEF FormInv
<1>3. Len(form.groups) \in Nat /\ DOMAIN form.groups = 1 .. Len(form.groups)
  BY <1>2, FormAssumption, SeqDomain DEF IsForm
<1>4. PICK n \in Nat : n = written /\ n + 1 \in DOMAIN form.groups /\ n + 1 \in 0 .. Len(form.groups)
  BY <1>1, <1>3 DEF FormInv
<1>5. PICK g : g = form.groups[n + 1] /\ g.key \in DOMAIN Table
  BY <1>2, <1>4, FormAssumption DEF IsForm
<1>6. PICK s \in stream :
        stream' = {WriteKey(s, g.key, g.at,
                            [i \in DOMAIN g.rows |-> TokenOf(form.rows[g.rows[i]], values[g.rows[i]])], works)}
  BY <1>4, <1>5 DEF SaveLine
<1>7. PICK line : line = OwnLine(values, n + 1)
  OBVIOUS
<1>8. stream' = {[lines  |-> IF works THEN Append(s.lines, line) ELSE s.lines,
                  failed |-> s.failed \/ ~works]}
  BY <1>5, <1>6, <1>7 DEF WriteKey, OwnLine
<1>9. s.failed \in BOOLEAN /\ (s.failed \/ s.lines = [k \in 1 .. n |-> OwnLine(values, k)])
  BY <1>4 DEF FormInv, StreamOf
<1>10. PICK t : t = [lines  |-> IF works THEN Append(s.lines, line) ELSE s.lines,
                     failed |-> s.failed \/ ~works]
  OBVIOUS
<1>11. StreamOf(values, n + 1, t)
  <2>1. t.failed = (s.failed \/ ~works) /\ t.lines = IF works THEN Append(s.lines, line) ELSE s.lines
    BY <1>10
  <2>2. CASE s.failed \/ ~works
    BY <2>1, <2>2 DEF StreamOf
  <2>3. CASE ~s.failed /\ works
    <3>1. t.lines = Append([k \in 1 .. n |-> OwnLine(values, k)], line) /\ t.failed \in BOOLEAN
      BY <1>9, <2>1, <2>3
    <3>2. t.lines = [k \in 1 .. n + 1 |-> OwnLine(values, k)]
      BY <1>7, <3>1, AppendIs
    <3> QED
      BY <3>1, <3>2 DEF StreamOf
  <2> QED
    BY <1>9, <2>2, <2>3
<1>12. \A u \in stream' : StreamOf(values', written', u)
  BY <1>1, <1>4, <1>8, <1>10, <1>11
<1> QED
  BY <1>1, <1>2, <1>4, <1>12, FormInvNext DEF Sound

LEMMA SaveEndKeeps ==
  ASSUME FormInv, NEW closes \in BOOLEAN, SaveEnd(closes)
  PROVE  FormInv'
<1>1. form' = form /\ values' = values /\ stream' = {} /\ written' = 0 /\ form.groups # <<>>
  BY DEF SaveEnd, Idle
<1>2. /\ form \in Forms /\ values = [i \in DOMAIN form.rows |-> values[i]] /\ Sound(values) /\ Sound(kept)
      /\ \A f \in file : FileOf(kept, edited, f)
  BY DEF FormInv
<1>3. form.groups \in Seq(Range(form.groups)) /\ Len(form.groups) \in Nat /\ DOMAIN form.groups = 1 .. Len(form.groups)
  BY <1>2, FormAssumption, SeqDomain DEF IsForm
<1>4. 0 \in 0 .. Len(form.groups)
  BY <1>3
<1>5. CASE UNCHANGED <<file, kept, edited>>
  BY <1>1, <1>2, <1>4, <1>5, FormInvNext DEF Sound
<1>6. ASSUME NEW s \in stream, WriteResult(s, form.groups[written].key) = "ok",
             file' = {s.lines}, kept' = values, edited' = FALSE
      PROVE  FormInv'
  <2>1. PICK n \in Nat : n = written /\ n = Len(form.groups)
    BY <1>3 DEF SaveEnd
  <2>2. s.lines = [k \in 1 .. n |-> OwnLine(values, k)]
    BY <1>6, <2>1 DEF FormInv, StreamOf, WriteResult
  <2>3. PICK f : f = s.lines /\ DOMAIN f = DOMAIN form.groups /\ \A m \in DOMAIN form.groups : f[m] = OwnLine(values, m)
    BY <1>3, <2>1, <2>2
  <2>4. f \in Seq(Range(f))
    <3>1. f = [k \in 1 .. n |-> OwnLine(values, k)]
      BY <2>2, <2>3
    <3>2. \A k \in 1 .. n : OwnLine(values, k) \in Range(f)
      BY <3>1 DEF Range
    <3> QED
      BY <3>1, <3>2
  <2>5. FileOf(values, FALSE, f)
    BY <2>3, <2>4 DEF FileOf
  <2> QED
    BY <1>1, <1>2, <1>4, <1>6, <2>3, <2>5, FormInvNext DEF Sound
<1> QED
  BY <1>5, <1>6 DEF SaveEnd

LEMMA HandEditKeeps ==
  ASSUME FormInv, NEW line \in HandLines, NEW place \in 0 .. 2, HandEdit(line, place)
  PROVE  FormInv'
<1>1. /\ form' = form /\ values' = values /\ stream' = stream /\ written' = written /\ kept' = kept
      /\ edited' = TRUE
  BY DEF HandEdit
<1>2. /\ form \in Forms /\ values = [i \in DOMAIN form.rows |-> values[i]] /\ Sound(values) /\ Sound(kept)
      /\ written \in 0 .. Len(form.groups) /\ \A s \in stream : StreamOf(values, written, s)
  BY DEF FormInv
<1>3. PICK f \in file : place <= Len(f) /\ file' = {InsertAt(f, place + 1, line)}
  BY DEF HandEdit
<1>4. /\ f \in Seq(Range(f)) /\ Len(f) \in Nat /\ DOMAIN f = 1 .. Len(f)
      /\ \A i \in DOMAIN f : (\E m \in DOMAIN form.groups : f[i] = OwnLine(kept, m)) \/ f[i] \in HandLines
      /\ \A m \in DOMAIN form.groups : \E i \in DOMAIN f : f[i] = OwnLine(kept, m)
  <2>1. FileOf(kept, edited, f)
    BY DEF FormInv
  <2> QED
    BY <2>1, SeqDomain DEF FileOf
<1>5. place \in 0 .. Len(f)
  BY <1>3, <1>4
<1>6. PICK t : t = InsertAt(f, place + 1, line)
  OBVIOUS
<1>i. IsInserted(Range(f), f, line, place, t)
  BY <1>4, <1>5, <1>6, Inserted
<1>7. /\ t \in Seq(Range(f) \cup {line}) /\ DOMAIN t = 1 .. Len(f) + 1
      /\ \A i \in 1 .. Len(f) + 1 :
           t[i] = IF i <= place THEN f[i] ELSE IF i = place + 1 THEN line ELSE f[i - 1]
  BY <1>i DEF IsInserted
<1>8. \A i \in DOMAIN t : t[i] = line \/ \E k \in DOMAIN f : t[i] = f[k]
  <2> TAKE i \in DOMAIN t
  <2>1. i \in 1 .. Len(f) + 1
    BY <1>7
  <2>2. CASE i <= place
    <3>1. i \in DOMAIN f
      BY <1>4, <1>5, <2>1, <2>2
    <3> QED
      BY <1>7, <2>1, <2>2, <3>1
  <2>3. CASE i = place + 1
    <3>1. ~(i <= place)
      BY <2>3
    <3> QED
      BY <1>7, <2>1, <2>3, <3>1
  <2>4. CASE ~(i <= place) /\ i # place + 1
    <3>1. i - 1 \in DOMAIN f
      BY <1>4, <1>5, <2>1, <2>4
    <3> QED
      BY <1>7, <2>1, <2>4, <3>1
  <2> QED
    BY <2>2, <2>3, <2>4
<1>9. \A k \in DOMAIN f : \E i \in DOMAIN t : t[i] = f[k]
  <2> TAKE k \in DOMAIN f
  <2>1. CASE k <= place
    <3>1. k \in 1 .. Len(f) + 1
      BY <1>4
    <3> QED
      BY <1>7, <2>1, <3>1
  <2>2. CASE ~(k <= place)
    <3>1. k + 1 \in 1 .. Len(f) + 1 /\ ~(k + 1 <= place) /\ k + 1 # place + 1 /\ (k + 1) - 1 = k
      BY <1>4, <2>2
    <3> QED
      BY <1>7, <3>1
  <2> QED
    BY <2>1, <2>2
<1>10. t \in Seq(Range(t))
  <2>1. Len(t) \in Nat /\ t \in [1 .. Len(t) -> Range(f) \cup {line}] /\ DOMAIN t = 1 .. Len(t)
    BY <1>7, LenProperties
  <2>2. t \in [1 .. Len(t) -> Range(t)]
    BY <2>1 DEF Range
  <2> QED
    BY <2>1, <2>2
<1>11. FileOf(kept, TRUE, t)
  BY <1>4, <1>8, <1>9, <1>10 DEF FileOf
<1> QED
  BY <1>1, <1>2, <1>3, <1>6, <1>11, FormInvNext DEF Sound

LEMMA RestartKeeps ==
  ASSUME FormInv, Restart
  PROVE  FormInv'
<1>1. /\ form' = form /\ stream' = {} /\ written' = 0 /\ file' = file /\ kept' = kept /\ edited' = edited
      /\ values' = IF file = {} THEN Defaults ELSE Load(CHOOSE f \in file : TRUE)
  BY DEF Restart
<1>2. /\ form \in Forms /\ Sound(kept) /\ \A f \in file : FileOf(kept, edited, f)
  BY DEF FormInv
<1>3. 0 \in 0 .. Len(form.groups)
  <2>1. Len(form.groups) \in Nat
    BY <1>2, FormAssumption, SeqDomain DEF IsForm
  <2> QED
    BY <2>1
<1>4. values' = [i \in DOMAIN form.rows |-> values'[i]]
  BY <1>1 DEF Defaults, Load
<1>5. CASE file = {}
  <2>1. values' = Defaults /\ Sound(Defaults)
    BY <1>1, <1>2, <1>5, DefaultsSound
  <2> QED
    BY <1>1, <1>2, <1>3, <1>4, <1>5, <2>1, FormInvNext DEF Sound
<1>6. CASE file # {}
  <2>1. PICK f \in file : values' = Load(f)
    BY <1>1, <1>6
  <2>2. FileOf(kept, edited, f)
    BY <1>2
  <2>3. ASSUME NEW row \in DOMAIN form.rows
        PROVE  MayHold(form.rows[row], Load(f)[row])
    BY <1>2, <2>2, LoadHolds
  <2> QED
    BY <1>1, <1>2, <1>3, <1>4, <2>1, <2>3, FormInvNext DEF Sound
<1> QED
  BY <1>5, <1>6

-----------------------------------------------------------------------------
(* What holds of it, always.                                               *)

(* Every step leaves the rows what they may hold, the stream and the file  *)
(* with the lines of the values they are of.                                *)
LEMMA FormInvStep == FormInv /\ [FormNext]_formVars => FormInv'
<1> SUFFICES ASSUME FormInv, [FormNext]_formVars
             PROVE  FormInv'
  OBVIOUS
<1>1. /\ form \in Forms /\ values = [i \in DOMAIN form.rows |-> values[i]] /\ Sound(values) /\ Sound(kept)
      /\ written \in 0 .. Len(form.groups) /\ (\A s \in stream : StreamOf(values, written, s))
      /\ \A f \in file : FileOf(kept, edited, f)
  BY DEF FormInv
<1>2. ASSUME NEW id \in form.presses, NEW delta \in {-1, 0, 1}, Press(id, delta)
      PROVE  FormInv'
  BY <1>2, PressKeeps
<1>3. ASSUME NEW id \in DOMAIN form.rows, NEW t \in form.texts[id], Type(id, t)
      PROVE  FormInv'
  BY <1>3, TypeKeeps
<1>4. CASE Leave
  <2>1. /\ form' = form /\ values' = values /\ stream' = stream /\ written' = written /\ file' = file
        /\ kept' = kept /\ edited' = edited
    BY <1>4 DEF Leave, Filed
  <2> QED
    BY <1>1, <2>1, FormInvNext DEF Sound
<1>5. CASE SaveBegin
  <2>1. /\ form' = form /\ values' = values /\ stream' = {NewStream} /\ written' = 0 /\ file' = file
        /\ kept' = kept /\ edited' = edited
    BY <1>5 DEF SaveBegin
  <2>2. StreamOf(values, 0, NewStream)
    <3>1. <<>> = [k \in 1 .. 0 |-> OwnLine(values, k)]
      OBVIOUS
    <3> QED
      BY <3>1 DEF StreamOf, NewStream
  <2>3. 0 \in 0 .. Len(form.groups)
    BY <1>1, FormAssumption, SeqDomain DEF IsForm
  <2> QED
    BY <1>1, <2>1, <2>2, <2>3, FormInvNext DEF Sound
<1>6. ASSUME NEW works \in BOOLEAN, SaveLine(works)
      PROVE  FormInv'
  BY <1>6, SaveLineKeeps
<1>7. ASSUME NEW closes \in BOOLEAN, SaveEnd(closes)
      PROVE  FormInv'
  BY <1>7, SaveEndKeeps
<1>8. ASSUME NEW line \in HandLines, NEW place \in 0 .. 2, HandEdit(line, place)
      PROVE  FormInv'
  BY <1>8, HandEditKeeps
<1>9. CASE Restart
  BY <1>9, RestartKeeps
<1>10. CASE UNCHANGED formVars
  <2>1. /\ form' = form /\ values' = values /\ stream' = stream /\ written' = written /\ file' = file
        /\ kept' = kept /\ edited' = edited
    BY <1>10 DEF formVars
  <2> QED
    BY <1>1, <2>1, FormInvNext DEF Sound
<1> QED
  BY <1>2, <1>3, <1>4, <1>5, <1>6, <1>7, <1>8, <1>9, <1>10 DEF FormNext

(* FormInv, always: a row holds what its type and its codec can give it,    *)
(* a stream that has not failed has the lines of the values so far, and the *)
(* file those of the last save the application was told of, with at most    *)
(* the line of a hand between them.                                         *)
THEOREM FormStays == FormSpec => []FormInv
<1>1. FormInit => FormInv
  BY FormInvInit
<1>2. FormInv /\ [FormNext]_formVars => FormInv'
  BY FormInvStep
<1> QED
  BY <1>1, <1>2, PTL DEF FormSpec

(* RowsReadBack: whatever a row comes to hold, its text (form_decimal_print,*)
(* form_id_print, the hex and the base64 of bytes) parses as that value, or,*)
(* with fewer places shown, as the nearest there is.                        *)
THEOREM NoRowDrifts == FormSpec => []RowsReadBack
<1>1. FormInv => RowsReadBack
  <2> SUFFICES ASSUME FormInv, NEW i \in DOMAIN values
               PROVE  CASE form.rows[i].codec = "decimal" -> DecimalReadsBack(form.rows[i], values[i])
                        [] form.rows[i].codec = "id"      -> IdParse(IdText(values[i])) = {values[i]}
                        [] form.rows[i].codec = "bytes"   -> BytesReadBack(form.rows[i], values[i])
                        [] OTHER                          -> TRUE
    BY DEF RowsReadBack
  <2>1. PICK row, v : row = form.rows[i] /\ v = values[i]
    OBVIOUS
  <2>2. IsRow(row) /\ MayHold(row, v)
    BY <2>1, FormAssumption DEF FormInv, IsForm, Sound
  <2>3. row.codec = "decimal" => DecimalReadsBack(row, v)
    <3> SUFFICES ASSUME row.codec = "decimal"
                 PROVE  DecimalReadsBack(row, v)
      OBVIOUS
    <3>1. row.digits \in 0 .. DigitsMax /\ row.limit \in 1 .. IntMax \div DecimalScale(row.digits) - 1
      BY <2>2 DEF IsRow
    <3>2. v \in Int
      BY <2>2 DEF MayHold
    <3> QED
      BY <3>1, <3>2, DecimalReads
  <2>4. row.codec = "id" => IdParse(IdText(v)) = {v}
    BY <2>2, IdReadsBack DEF MayHold
  <2>5. row.codec = "bytes" => BytesReadBack(row, v)
    BY <2>2, BytesRead DEF IsRow
  <2> QED
    BY <2>1, <2>3, <2>4, <2>5
<1> QED
  BY <1>1, FormStays, PTL

(* LoadedIsSaved: a restart gives each row of the file what the last        *)
(* successful save wrote, however later saves failed; a line a hand has put *)
(* there changes only the rows it names, to a number it says.               *)
THEOREM SavedIsLoaded == FormSpec => []LoadedIsSaved
<1>1. FormInv => LoadedIsSaved
  <2> SUFFICES ASSUME FormInv, NEW f \in file, NEW m \in DOMAIN form.groups,
                      NEW n \in DOMAIN form.groups[m].rows
               PROVE  \/ Load(f)[form.groups[m].rows[n]] = kept[form.groups[m].rows[n]]
                      \/ edited /\ \E i \in DOMAIN f : /\ IsOf(f[i], form.groups[m])
                                                       /\ Load(f)[form.groups[m].rows[n]] \in Says(f[i], form.groups[m], n)
    BY DEF LoadedIsSaved
  <2>1. form \in Forms /\ Sound(kept) /\ FileOf(kept, edited, f)
    BY DEF FormInv
  <2>2. PICK row \in DOMAIN form.rows : row = form.groups[m].rows[n]
    BY <2>1, GroupIs
  <2>3. PICK v : v = Load(f)[row]
    OBVIOUS
  <2>4. v = kept[row] \/ (edited /\ \E i \in DOMAIN f : f[i] \in HandLines /\ v \in Given(f[i], row))
    BY <2>1, <2>2, <2>3, LoadGives
  <2>5. ASSUME edited, NEW i \in DOMAIN f, f[i] \in HandLines, v \in Given(f[i], row)
        PROVE  IsOf(f[i], form.groups[m]) /\ v \in Says(f[i], form.groups[m], n)
    <3>1. IsLine(f[i])
      BY <2>5, FormAssumption
    <3>2. PICK k \in DOMAIN form.groups : \E j \in DOMAIN form.groups[k].rows :
            /\ form.groups[k].rows[j] = row
            /\ IsOf(f[i], form.groups[k]) /\ v \in Says(f[i], form.groups[k], j)
      BY <2>1, <2>5, <3>1, LineGives
    <3>3. PICK j \in DOMAIN form.groups[k].rows :
            /\ form.groups[k].rows[j] = row
            /\ IsOf(f[i], form.groups[k]) /\ v \in Says(f[i], form.groups[k], j)
      BY <3>2
    <3>4. k = m /\ j = n
      BY <2>1, <2>2, <3>3, FormAssumption DEF IsForm
    <3> QED
      BY <3>3, <3>4
  <2> QED
    BY <2>2, <2>3, <2>4, <2>5
<1> QED
  BY <1>1, FormStays, PTL

(* WalksAreTrue: form_number_step and the choice walks go to the next preset*)
(* or the next value of the set that way, from any value a row holds, and   *)
(* the track has its mark where they stop.                                  *)
THEOREM WalksGoRight == FormSpec => WalksAreTrue
<1>1. FormInv /\ [FormNext]_formVars =>
        [\A p \in walked' :
           LET row == Field(p[1])
           IN IF p[1] \notin DOMAIN values THEN values' = values
              ELSE CASE row.kind = "NUMBER" ->
                          NumberWalks(p[1], p[2], values[p[1]], values'[p[1]])
                     [] row.kind \in {"ENUM", "KEY"} ->
                          ChoiceWalks(row, p[2], values[p[1]], values'[p[1]])
                     [] OTHER -> values' = values]_formVars
  <2> SUFFICES ASSUME FormInv, FormNext, NEW p \in walked'
               PROVE  IF p[1] \notin DOMAIN values THEN values' = values
                      ELSE CASE Field(p[1]).kind = "NUMBER" ->
                                  NumberWalks(p[1], p[2], values[p[1]], values'[p[1]])
                             [] Field(p[1]).kind \in {"ENUM", "KEY"} ->
                                  ChoiceWalks(Field(p[1]), p[2], values[p[1]], values'[p[1]])
                             [] OTHER -> values' = values
    OBVIOUS
  <2>1. ASSUME NEW id \in form.presses, NEW delta \in {-1, 0, 1}, Press(id, delta), p = <<id, delta>>
        PROVE  IF id \notin DOMAIN values THEN values' = values
               ELSE CASE Field(id).kind = "NUMBER" -> NumberWalks(id, delta, values[id], values'[id])
                      [] Field(id).kind \in {"ENUM", "KEY"} ->
                           ChoiceWalks(Field(id), delta, values[id], values'[id])
                      [] OTHER -> values' = values
    <3>1. CASE id \notin DOMAIN values
      BY <2>1, <3>1 DEF Press
    <3>2. CASE id \in DOMAIN values
      <4>1. form \in Forms /\ values = [i \in DOMAIN form.rows |-> values[i]] /\ Sound(values)
        BY DEF FormInv
      <4>2. id \in DOMAIN form.rows
        BY <3>2, <4>1
      <4>3. PICK row, v, w : row = form.rows[id] /\ v = values[id] /\ w = Walk(id, v, delta)
        OBVIOUS
      <4>4. row = Field(id)
        BY <4>2, <4>3 DEF Field
      <4>5. MayHold(row, v)
        BY <4>1, <4>2, <4>3 DEF Sound
      <4>6. /\ row.kind = "NUMBER" => NumberWalks(id, delta, v, w)
            /\ row.kind \in {"ENUM", "KEY"} => ChoiceWalks(row, delta, v, w)
            /\ row.kind \notin {"NUMBER", "ENUM", "KEY"} => w = v
        BY <4>1, <4>2, <4>3, <4>5, WalkIs
      <4>7. values' = [values EXCEPT ![id] = w]
        BY <2>1, <3>2, <4>3 DEF Press
      <4>8. values'[id] = w /\ (w = v => values' = values)
        BY <3>2, <4>1, <4>3, <4>7
      <4> QED
        BY <3>2, <4>3, <4>4, <4>6, <4>8
    <3> QED
      BY <3>1, <3>2
  <2>2. \E id \in form.presses, delta \in {-1, 0, 1} : Press(id, delta) /\ p = <<id, delta>>
    <3>1. walked' # {}
      OBVIOUS
    <3>2. \E id \in form.presses, delta \in {-1, 0, 1} : Press(id, delta)
      <4>1. \A id \in DOMAIN form.rows : \A t \in form.texts[id] : ~Type(id, t)
        BY <3>1 DEF Type
      <4>2. \A b \in BOOLEAN : ~SaveLine(b) /\ ~SaveEnd(b)
        BY <3>1 DEF SaveLine, SaveEnd
      <4>3. \A l \in HandLines, place \in 0 .. 2 : ~HandEdit(l, place)
        BY <3>1 DEF HandEdit
      <4>4. ~Leave /\ ~SaveBegin /\ ~Restart
        BY <3>1 DEF Leave, SaveBegin, Restart
      <4> QED
        BY <4>1, <4>2, <4>3, <4>4 DEF FormNext
    <3> QED
      BY <3>2 DEF Press
  <2>3. PICK id \in form.presses, delta \in {-1, 0, 1} : Press(id, delta) /\ p = <<id, delta>>
    BY <2>2
  <2>4. p[1] = id /\ p[2] = delta
    BY <2>3
  <2> QED
    BY <2>1, <2>3, <2>4
<1> QED
  BY <1>1, FormStays, PTL DEF FormSpec, WalksAreTrue

(* Every limit leaves an int room for one digit more. *)
LimitsFit ==
  \A f \in Forms : \A i \in DOMAIN f.rows :
    f.rows[i].codec = "decimal" => 10 * f.rows[i].limit + 9 <= IntMax

LEMMA ParseIsMeant ==
  ASSUME NEW row, IsRow(row), row.codec \in {"decimal", "id"},
         row.codec = "decimal" => 10 * row.limit + 9 <= IntMax,
         NEW txt, MayBeTyped(row, txt)
  PROVE  Taken(row, txt) = Meant(row, txt)
<1>1. CASE row.codec = "decimal"
  <2>1. row.digits \in 0 .. DigitsMax /\ row.limit \in 1 .. IntMax \div DecimalScale(row.digits) - 1
    BY <1>1 DEF IsRow
  <2>2. IsDecimal(txt) /\ 10 * row.limit + 9 <= IntMax
    BY <1>1 DEF MayBeTyped
  <2>3. DecimalParse(txt, row.digits, row.limit) = DecimalMeant(txt, row.digits, row.limit)
    BY <2>1, <2>2, DecimalParseIs
  <2> QED
    BY <1>1, <2>3 DEF Taken, Meant
<1>2. CASE row.codec = "id"
  BY <1>2, IdParseIs DEF MayBeTyped, Taken, Meant
<1> QED
  BY <1>1, <1>2

(* TypedIsTaken, of limits that leave an int room for a digit more: a text  *)
(* is taken exactly when it says a number the row can hold, for that number,*)
(* and leaves the row as it was otherwise.                                  *)
THEOREM TypedTextIsTaken ==
  ASSUME LimitsFit
  PROVE  FormSpec => TypedIsTaken
<1>1. FormInv /\ [FormNext]_formVars =>
        [\A e \in typed' \ typed :
           LET row == form.rows[e[1]]
               may == Meant(row, e[2])
           IN row.codec # "bytes" =>
                IF may = {} THEN values' = values ELSE values'[e[1]] \in may]_formVars
  <2> SUFFICES ASSUME FormInv, FormNext, NEW e \in typed' \ typed, form.rows[e[1]].codec # "bytes"
               PROVE  IF Meant(form.rows[e[1]], e[2]) = {} THEN values' = values
                      ELSE values'[e[1]] \in Meant(form.rows[e[1]], e[2])
    OBVIOUS
  <2>1. \E id \in DOMAIN form.rows : \E t \in form.texts[id] : Type(id, t) /\ e = <<id, t>>
    <3>1. typed' # typed /\ typed' # {}
      OBVIOUS
    <3>2. \E id \in DOMAIN form.rows : \E t \in form.texts[id] : Type(id, t)
      BY <3>1 DEF FormNext, Press, Leave, SaveBegin, SaveLine, SaveEnd, HandEdit, Restart
    <3> QED
      BY <3>2 DEF Type
  <2>2. PICK id \in DOMAIN form.rows : \E t \in form.texts[id] : Type(id, t) /\ e = <<id, t>>
    BY <2>1
  <2>3. PICK t \in form.texts[id] : Type(id, t) /\ e = <<id, t>>
    BY <2>2
  <2>4. PICK row : row = form.rows[id] /\ e[1] = id /\ e[2] = t
    BY <2>3
  <2>5. form \in Forms /\ DOMAIN values = DOMAIN form.rows
    BY DEF FormInv
  <2>6. /\ IsRow(row) /\ MayBeTyped(row, t)
        /\ row.codec = "decimal" => 10 * row.limit + 9 <= IntMax
    BY <2>4, <2>5, FormAssumption DEF IsForm, LimitsFit
  <2>7. row.codec \in {"decimal", "id"}
    BY <2>4, <2>6 DEF IsRow, MayBeTyped
  <2>8. Taken(row, t) = Meant(row, t)
    BY <2>6, <2>7, ParseIsMeant
  <2>9. IF Taken(row, t) = {} THEN values' = values
        ELSE \E v \in Taken(row, t) : values' = [values EXCEPT ![id] = v]
    BY <2>3, <2>4 DEF Type
  <2> QED
    BY <2>4, <2>5, <2>8, <2>9
<1> QED
  BY <1>1, FormStays, PTL DEF FormSpec, TypedIsTaken
=============================================================================
