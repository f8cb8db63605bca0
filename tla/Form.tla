-------------------------------- MODULE Form --------------------------------
(***************************************************************************)
(* An application's form (src/form/field.c) and the record file it keeps   *)
(* it in: rows are walked with the keys of Scale or typed into through     *)
(* Codec, saved a line at a time through a stream that may fail, and read  *)
(* back, by Records, from a file that somebody may have edited.            *)
(*                                                                         *)
(* A form is [rows, starts, groups, presses, texts]: rows[0] is no row;    *)
(* starts are the values it may be opened with; a group is a line of the   *)
(* file, [key, at, rows]; presses are the ids a key may be pressed on, and *)
(* texts[i] is what may be typed into row i.                               *)
(***************************************************************************)
EXTENDS Scale, Codec, Records, SequencesExt

CONSTANTS
  Forms,        (* The forms an application may have.                      *)
  HandLines     (* Lines a hand may put into the file.                     *)

-----------------------------------------------------------------------------
(* struct inkstand_form_field, with the type its value is held in and the   *)
(* parse of what is typed into it, which only a row of text has.            *)
IsRow(row) ==
  /\ IF row.codec = "none" THEN row.kind \in {"INFO", "NUMBER", "ENUM", "KEY"} /\ IsField(row.field)
     ELSE row.kind = "TEXT" /\ row.codec \in {"decimal", "id", "bytes"}
  /\ row.kind \in {"NUMBER", "ENUM", "KEY"} => FieldValues(row.field) \subseteq Words
  /\ row.kind = "NUMBER" =>
       IsPresets(row.presets) /\ Range(row.presets.values) \subseteq FieldValues(row.field)
  /\ row.kind \in {"ENUM", "KEY"} =>
       /\ row.limit \in Nat /\ 2 * row.limit <= Word
       /\ 0 .. row.limit - 1 \subseteq FieldValues(row.field)
  /\ row.kind = "KEY" => row.choices \subseteq 0 .. MaskBits - 1
  /\ row.codec = "decimal" =>
       /\ row.digits \in 0 .. DigitsMax
       /\ row.limit \in 1 .. IntMax \div DecimalScale(row.digits) - 1
  /\ row.codec = "bytes" => row.limit \in Nat /\ row.sizes \subseteq 1 .. row.limit

(* What a row may hold. *)
MayHold(row, v) ==
  CASE row.codec = "none"    -> v \in FieldValues(row.field)
    [] row.codec = "decimal" -> v \in Int
    [] row.codec = "id"      -> v \in 0 .. IdMost
    [] OTHER                 -> TRUE

(* What may be typed into it. *)
MayBeTyped(row, text) ==
  CASE row.codec = "none"    -> FALSE
    [] row.codec = "decimal" -> IsDecimal(text)
    [] row.codec = "id"      -> IsId(text)
    [] OTHER                 -> TRUE

(* struct inkstand_form and the lines of its file: none of them the same    *)
(* one, and no row on two.                                                  *)
IsForm(f) ==
  /\ 0 \in DOMAIN f.rows
  /\ \A i \in DOMAIN f.rows :
       /\ IsRow(f.rows[i]) /\ MayHold(f.rows[i], f.rows[i].default)
       /\ \A t \in f.texts[i] : MayBeTyped(f.rows[i], t)
       /\ \A s \in f.starts : MayHold(f.rows[i], s[i])
  /\ \A s \in f.starts : s = [i \in DOMAIN f.rows |-> s[i]]
  /\ f.groups \in Seq(Range(f.groups))
  /\ \A n \in DOMAIN f.groups :
       LET g == f.groups[n]
       IN /\ g.key \in DOMAIN Table /\ IsPlace(Table[g.key].kind, g.at)
          /\ g.rows \in Seq({i \in DOMAIN f.rows : f.rows[i].codec = "none"})
  /\ \A m, n \in DOMAIN f.groups :
       /\ f.groups[m].key = f.groups[n].key /\ f.groups[m].at = f.groups[n].at => m = n
       /\ \A i \in DOMAIN f.groups[m].rows, j \in DOMAIN f.groups[n].rows :
            f.groups[m].rows[i] = f.groups[n].rows[j] => m = n /\ i = j

ASSUME FormAssumption ==
  /\ \A f \in Forms : IsForm(f)
  /\ \A line \in HandLines : IsLine(line)

VARIABLES
  form,         (* struct inkstand_form                                    *)
  values,       (* What each row holds.                                    *)
  typed,        (* {} or {<<row, text>>}: what the last step was typed.    *)
  walked,       (* {} or {<<row, delta>>}: the walk the last step took.    *)
  stream,       (* The save under way: {} or {FILE}.                       *)
  written,      (* The lines of it the application has gone through.       *)
  file,         (* The record file: {} or {its lines}.                     *)
  kept,         (* The values of the last save the application was told of.*)
  edited        (* A hand has been at the file since.                      *)

formVars == <<form, values, typed, walked, stream, written, file, kept, edited>>

-----------------------------------------------------------------------------
(* inkstand_form_field: row 0 answers for every id the table does not have. *)
Field(id) == form.rows[IF id \in DOMAIN form.rows THEN id ELSE 0]

(* inkstand_form_number_step; the choice walks of an ENUM row, over its     *)
(* inkstand_form_enum_count, and of a KEY row, over its key_choices.        *)
Walk(id, value, delta) ==
  LET row == Field(id)
  IN CASE row.kind = "NUMBER" -> PresetsStep(row.presets, value, delta)
       [] row.kind = "ENUM"   -> ChoiceStep({}, row.limit, value, delta)
       [] row.kind = "KEY"    -> ChoiceStep(row.choices, row.limit, value, delta)
       [] OTHER               -> value

(* inkstand_form_number_track *)
Track(id, value) ==
  IF Field(id).kind = "NUMBER" THEN PresetsTrack(Field(id).presets, value) ELSE {}

(* What a text typed into a row is taken for. *)
Taken(row, text) ==
  CASE row.codec = "decimal" -> DecimalParse(text, row.digits, row.limit)
    [] row.codec = "id"      -> IdParse(text)
    [] row.codec = "bytes"   -> BytesParse(text, row.sizes, row.limit)

-----------------------------------------------------------------------------
Defaults == [i \in DOMAIN form.rows |-> form.rows[i].default]

FormInit ==
  /\ form \in Forms
  /\ values \in form.starts
  /\ typed = {} /\ walked = {}
  /\ stream = {} /\ written = 0 /\ file = {} /\ kept = Defaults /\ edited = FALSE

Filed == <<stream, written, file, kept, edited>>

(* A press on a row, of an id that may have no row; nothing is pressed or   *)
(* typed in the middle of a save.                                           *)
Press(id, delta) ==
  /\ typed = {} /\ stream = {}
  /\ walked' = {<<id, delta>>}
  /\ values' = IF id \in DOMAIN values
               THEN [values EXCEPT ![id] = Walk(id, @, delta)] ELSE values
  /\ UNCHANGED <<form, typed, Filed>>

(* A text is typed into a row: it is taken, or refused and the row stays.   *)
Type(id, text) ==
  /\ typed = {} /\ stream = {}
  /\ typed' = {<<id, text>>} /\ walked' = {}
  /\ LET taken == Taken(form.rows[id], text)
     IN IF taken = {} THEN UNCHANGED values
        ELSE \E v \in taken : values' = [values EXCEPT ![id] = v]
  /\ UNCHANGED <<form, Filed>>

(* The reader leaves the row. *)
Leave ==
  /\ typed # {}
  /\ typed' = {} /\ walked' = {}
  /\ UNCHANGED <<form, values, Filed>>

-----------------------------------------------------------------------------
(* What the application writes for a row, as its own printf spells it. *)
TokenOf(row, v) ==
  [form |-> IF row.field.type = "real" /\ Magnitude(v) > row.field.high
            THEN "inf" ELSE "digits",
   sign |-> IF v < 0 THEN "-" ELSE "", n |-> Magnitude(v)]

Idle == typed = {} /\ form.groups # <<>>

SaveBegin ==
  /\ Idle /\ stream = {}
  /\ stream' = {NewStream} /\ written' = 0 /\ walked' = {}
  /\ UNCHANGED <<form, values, typed, file, kept, edited>>

SaveLine(works) ==
  /\ Idle /\ written < Len(form.groups)
  /\ LET g == form.groups[written + 1]
         v == [i \in DOMAIN g.rows |-> TokenOf(form.rows[g.rows[i]], values[g.rows[i]])]
     IN \E s \in stream : stream' = {WriteKey(s, g.key, g.at, v, works)}
  /\ written' = written + 1 /\ walked' = {}
  /\ UNCHANGED <<form, values, typed, file, kept, edited>>

(* The application has asked after the last line only, as keys.h says it    *)
(* may, and after its own closing of the file; a save that failed leaves    *)
(* the file it had.                                                         *)
SaveEnd(closes) ==
  /\ Idle /\ written = Len(form.groups)
  /\ \E s \in stream :
       IF closes /\ WriteResult(s, form.groups[written].key) = "ok"
       THEN file' = {s.lines} /\ kept' = values /\ edited' = FALSE
       ELSE UNCHANGED <<file, kept, edited>>
  /\ stream' = {} /\ written' = 0 /\ walked' = {}
  /\ UNCHANGED <<form, values, typed>>

(* Somebody puts a line into the file. *)
HandEdit(line, place) ==
  /\ ~edited
  /\ \E f \in file : place <= Len(f) /\ file' = {InsertAt(f, place + 1, line)}
  /\ edited' = TRUE /\ walked' = {}
  /\ UNCHANGED <<form, values, typed, stream, written, kept>>

(* What a line gives a row: nothing, unless it is of a key the form has and *)
(* its leading fields read as far as the row's.                             *)
Given(line, row) ==
  LET mine == {n \in DOMAIN form.groups : \E k \in KeyLookup(line.key) :
                 k = [key |-> form.groups[n].key, at |-> form.groups[n].at]}
      rows == IF mine = {} THEN <<>> ELSE form.groups[Min(mine)].rows
      read == FieldsRead(line.value, [i \in DOMAIN rows |-> form.rows[rows[i]].field])
  IN UNION {read[i] : i \in {i \in DOMAIN read : rows[i] = row}}

(* Of the lines that give a row a value, the last is read last. *)
Loaded(lines, row) ==
  LET by == {i \in DOMAIN lines : Given(lines[i], row) # {}}
  IN IF by = {} THEN Defaults[row] ELSE CHOOSE v \in Given(lines[Max(by)], row) : TRUE
Load(lines) == [row \in DOMAIN form.rows |-> Loaded(lines, row)]

(* The program stops, in the middle of a save or not, and starts again. *)
Restart ==
  /\ Idle
  /\ values' = IF file = {} THEN Defaults ELSE Load(CHOOSE f \in file : TRUE)
  /\ stream' = {} /\ written' = 0 /\ walked' = {}
  /\ UNCHANGED <<form, typed, file, kept, edited>>

FormNext ==
  \/ \E id \in form.presses, delta \in {-1, 0, 1} : Press(id, delta)
  \/ \E id \in DOMAIN form.rows : \E t \in form.texts[id] : Type(id, t)
  \/ Leave
  \/ SaveBegin
  \/ \E b \in BOOLEAN : SaveLine(b) \/ SaveEnd(b)
  \/ \E l \in HandLines, place \in 0 .. 2 : HandEdit(l, place)
  \/ Restart

FormSpec == FormInit /\ [][FormNext]_formVars

-----------------------------------------------------------------------------
(* The numbers a text says, within what its row can hold. *)
DecimalMeant(text, digits, limit) ==
  LET scale  == DecimalScale(digits)
      number == Number(text.whole \o text.fraction, 10) * scale
  IN {v \in -(limit * scale) .. limit * scale :
        /\ text.clean /\ text.whole \o text.fraction # <<>>
        /\ v * DecimalScale(Len(text.fraction))
             = IF text.sign = "-" THEN -number ELSE number}

IdMeant(text) ==
  LET letters == \E i \in DOMAIN text.digits : text.digits[i] > 9
      base    == IF letters \/ text.prefix # "" THEN 16 ELSE 10
  IN {v \in 0 .. IdMost :
        /\ text.clean /\ (text.prefix # "" => text.digits # <<>>)
        /\ v = Number(text.digits, base)}

Meant(row, text) ==
  IF row.codec = "decimal" THEN DecimalMeant(text, row.digits, row.limit)
                           ELSE IdMeant(text)

(* "A parse refuses rather than guesses": a text is taken exactly when it   *)
(* is a number the row can hold, for that number to the last place, and     *)
(* leaves the row as it was otherwise.                                      *)
TypedIsTaken ==
  [][\A e \in typed' \ typed :
       LET row == form.rows[e[1]]
           may == Meant(row, e[2])
       IN row.codec # "bytes" =>
            IF may = {} THEN values' = values ELSE values'[e[1]] \in may]_formVars

(* "A magnitude past `limit_whole`" is refused. *)
PastTheLimitIsRefused ==
  [][\A e \in typed' \ typed :
       LET row == form.rows[e[1]]
       IN row.codec = "decimal" /\ Number(e[2].whole, 10) > row.limit
            => values' = values]_formVars

DecimalReadsBack(row, v) ==
  Magnitude(v) <= row.limit * DecimalScale(row.digits) =>
    \A shown \in 0 .. row.digits :
      LET text == DecimalText(v, row.digits, shown)
          half == DecimalScale(row.digits - shown)
      IN /\ text.sign = "-" <=> v < 0
         /\ \E w \in DecimalParse(text, row.digits, row.limit) :
              /\ 2 * Magnitude(w - v) <= half
              /\ shown = row.digits => w = v

(* Bytes of one of the row's sizes, where no two of them are as 3 to 2: the *)
(* base64 of the larger can look like the hex of the smaller.               *)
BytesReadBack(row, v) ==
  v.size \in row.sizes /\ (\A n \in row.sizes : 3 * n # 2 * v.size) =>
    \A text \in {BytesHex(v), BytesBase64(v)} :
      BytesParse(text, row.sizes, row.limit) = {v}

(* A row printed and saved again without being edited does not drift: its   *)
(* text reads back as the value, or, printed to fewer places, as the        *)
(* nearest that can be printed.                                             *)
RowsReadBack ==
  \A i \in DOMAIN values :
    CASE form.rows[i].codec = "decimal" -> DecimalReadsBack(form.rows[i], values[i])
      [] form.rows[i].codec = "id"      -> IdParse(IdText(values[i])) = {values[i]}
      [] form.rows[i].codec = "bytes"   -> BytesReadBack(form.rows[i], values[i])
      [] OTHER                          -> TRUE

-----------------------------------------------------------------------------
Between(a, b, c) == (a < b /\ b < c) \/ (c < b /\ b < a)

(* A step of a number row goes to the next preset that way, and to its mark *)
(* on the track: a track and the keys never disagree.                       *)
NumberWalks(id, delta, v, w) ==
  LET presets == Field(id).presets
      vs == presets.values
  IN /\ IF w = v THEN delta = 0 \/ \A i \in DOMAIN vs : delta * (vs[i] - v) <= 0
                  ELSE \E i \in DOMAIN vs : vs[i] = w /\ delta * (w - v) > 0
     /\ ~\E i \in DOMAIN vs : Between(v, vs[i], w)
     /\ \A tv \in Track(id, v), tw \in Track(id, w) :
          /\ tv.position \in 0 .. One /\ (tv.unplaced => tv.position = 0)
          /\ v < w => tv.position <= tw.position
          /\ ~tw.unplaced /\ w # v => \E i \in 0 .. tw.stops - 1 :
               /\ tw.position = (i * One) \div (tw.stops - 1)
               /\ Stops(presets)[i + 1] = w

(* A step of a choice row goes to the first value of its set that way round,*)
(* and stays only where there is no other.                                  *)
ChoiceWalks(row, delta, v, w) ==
  LET set   == {c \in 0 .. row.limit - 1 :
                  row.kind = "ENUM" \/ row.choices = {} \/ c \in row.choices}
      start == IF v < row.limit THEN v ELSE 0
      Far(c) == (delta * (c - start) - 1) % row.limit
  IN IF delta = 0 \/ set = {} THEN w = v
     ELSE w \in set /\ \A c \in set : Far(w) <= Far(c)

(* Left and Right do what the row shows, from any value it may be handed,   *)
(* and a press on a row there is not changes nothing.                       *)
WalksAreTrue ==
  [][\A p \in walked' :
       LET row == Field(p[1])
       IN IF p[1] \notin DOMAIN values THEN values' = values
          ELSE CASE row.kind = "NUMBER" ->
                      NumberWalks(p[1], p[2], values[p[1]], values'[p[1]])
                 [] row.kind \in {"ENUM", "KEY"} ->
                      ChoiceWalks(row, p[2], values[p[1]], values'[p[1]])
                 [] OTHER -> values' = values]_formVars

-----------------------------------------------------------------------------
(* A foreign line that is, to the letter, a line of group g. *)
IsOf(line, g) ==
  line.key = [name |-> Table[g.key].name, kind |-> Table[g.key].kind,
              index |-> g.at[1], slot |-> g.at[2]]

(* What a token says, whether its field can hold it or not. *)
Means(token, field) ==
  CASE token.form = "digits" -> {IF field.type = "bool" /\ token.n # 0 THEN 1 ELSE Signed(token)}
    [] token.form = "inf"    -> {v \in {field.high + 1, -(field.high + 1)} : field.type = "real"}
    [] OTHER                 -> {}

(* What it may say of the group's n-th row: nothing, once a token before it *)
(* is not of its own row.                                                   *)
Says(line, g, n) ==
  LET Told(i) == LET field == form.rows[g.rows[i]].field
                 IN FieldValues(field) \cap UNION {Means(line.value[j], field) :
                                                   j \in DOMAIN line.value \cap {i}}
  IN {v \in Told(n) : \A i \in 1 .. n : Told(i) # {}}

(* A restart gives back what the application was told it had saved, however *)
(* the stream failed; and a line put into the file by hand changes only the *)
(* rows it names exactly, and those only to a number that is on it and that *)
(* their types can hold.                                                    *)
LoadedIsSaved ==
  \A f \in file, m \in DOMAIN form.groups :
    LET g == form.groups[m]
    IN \A n \in DOMAIN g.rows :
         LET v == Load(f)[g.rows[n]]
         IN \/ v = kept[g.rows[n]]
            \/ edited /\ \E i \in DOMAIN f : IsOf(f[i], g) /\ v \in Says(f[i], g, n)
=============================================================================
