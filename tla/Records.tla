------------------------------ MODULE Records ------------------------------
(***************************************************************************)
(* src/persist/keys.c and fields.c: the key and the value of a line of a   *)
(* record file, written and read back.                                     *)
(*                                                                         *)
(* A line's key is [name, kind, index, slot], of kind "broken" when its    *)
(* brackets do not parse; its value is a sequence of tokens [form, sign,   *)
(* n], which spell a number ("digits"), an infinity ("inf") or nothing.    *)
(***************************************************************************)
EXTENDS Integers, Sequences, FiniteSetsExt, Functions

CONSTANTS
  Table,        (* The application's keys from 1 on: [name, kind].         *)
  IndexMax      (* UINT32_MAX                                              *)

(* struct inkstand_key: a name may be there twice, of two kinds. *)
ASSUME RecordsAssumption ==
  /\ IndexMax \in Nat
  /\ Table \in Seq(Range(Table))
  /\ \A k \in DOMAIN Table : Table[k] = [name |-> Table[k].name, kind |-> Table[k].kind]
  /\ \A k, l \in DOMAIN Table : Table[k] = Table[l] => k = l

(* enum inkstand_key_kind: what a key of a kind has in its brackets. *)
IsPlace(kind, at) ==
  /\ at = <<at[1], at[2]>> /\ at[1] \in 0 .. IndexMax /\ at[2] \in 0 .. IndexMax
  /\ kind = "plain" => at[1] = 0
  /\ kind # "slot"  => at[2] = 0

(* What a line may be, of a file that somebody may have edited. *)
IsLine(line) ==
  /\ line.key = [name |-> line.key.name, kind |-> line.key.kind,
                 index |-> line.key.index, slot |-> line.key.slot]
  /\ line.key.index \in Nat /\ line.key.slot \in Nat
  /\ line.value \in Seq(Range(line.value))
  /\ \A i \in DOMAIN line.value : line.value[i].n \in Nat

(* enum inkstand_field_type, and what a destination of the type can hold; a *)
(* real holds what is past all that fit as an infinity.                     *)
IsField(field) ==
  /\ field.type \in {"unsigned", "signed", "real", "bool"}
  /\ field.low \in Int /\ field.high \in Nat
FieldValues(field) ==
  CASE field.type = "unsigned" -> 0 .. field.high
    [] field.type = "signed"   -> field.low .. field.high
    [] field.type = "real"     -> -(field.high + 1) .. field.high + 1
    [] field.type = "bool"     -> 0 .. 1

(* Slips of inkstand_key_lookup: a name is enough; an index too wide for    *)
(* its type wraps.                                                          *)
KeyLookupByName(key) ==
  LET rows == {k \in DOMAIN Table : Table[k].name = key.name}
  IN IF rows = {} THEN {} ELSE {[key |-> Min(rows), at |-> <<key.index, key.slot>>]}
KeyLookupWrapping(key) ==
  LET rows == {k \in DOMAIN Table : Table[k] = [name |-> key.name, kind |-> key.kind]}
  IN IF rows = {} THEN {}
     ELSE {[key |-> Min(rows), at |-> <<key.index % (IndexMax + 1), key.slot>>]}

(* inkstand_key_lookup: {} where it answers 0.  The first row whose name    *)
(* and kind both match, of a key whose indices fit.                         *)
KeyLookup(key) ==
  LET rows == {k \in DOMAIN Table : Table[k] = [name |-> key.name, kind |-> key.kind]}
  IN IF rows = {} \/ key.index > IndexMax \/ key.slot > IndexMax THEN {}
     ELSE {[key |-> Min(rows), at |-> <<key.index, key.slot>>]}

-----------------------------------------------------------------------------
(* A stream is [lines, failed]: the lines it was given, and stdio's error   *)
(* indicator, which stays up.                                               *)
NewStream == [lines |-> <<>>, failed |-> FALSE]

LineOf(key, at, value) ==
  [key   |-> [name |-> Table[key].name, kind |-> Table[key].kind,
              index |-> at[1], slot |-> at[2]],
   value |-> value]

(* Slip: a line answers for its own bytes only. *)
WriteKeyForgetful(stream, key, at, value, works) ==
  IF key \notin DOMAIN Table THEN stream
  ELSE [lines  |-> IF works THEN Append(stream.lines, LineOf(key, at, value))
                            ELSE stream.lines,
        failed |-> ~works]

(* inkstand_key_vwrite and the five like it: a line of a key of the table,  *)
(* lost when the stream does not work.                                      *)
WriteKey(stream, key, at, value, works) ==
  IF key \notin DOMAIN Table THEN stream
  ELSE [lines  |-> IF works THEN Append(stream.lines, LineOf(key, at, value))
                            ELSE stream.lines,
        failed |-> stream.failed \/ ~works]

(* write_key and write_end: what a writer answers. *)
WriteResult(stream, key) ==
  IF key \notin DOMAIN Table THEN "ENOENT"
  ELSE IF stream.failed THEN "EIO" ELSE "ok"

-----------------------------------------------------------------------------
Signed(token) == IF token.sign = "-" THEN -token.n ELSE token.n

(* Slip: a number too wide for its field is cut to it. *)
FieldUnsignedCut(token, high) ==
  IF token.form = "digits" /\ token.sign = "" THEN {token.n % (high + 1)} ELSE {}

(* field_unsigned: no sign, nothing behind the digits, and within the type. *)
FieldUnsigned(token, high) ==
  IF token.form = "digits" /\ token.sign = "" /\ token.n <= high THEN {token.n} ELSE {}

(* field_signed *)
FieldSigned(token, low, high) ==
  IF token.form = "digits" /\ Signed(token) \in low .. high THEN {Signed(token)} ELSE {}

(* field_real: a number that fits a float, or an infinity spelled as one,   *)
(* which is the value past all that fit.                                    *)
FieldReal(token, high) ==
  IF token.form = "inf" THEN {IF token.sign = "-" THEN -(high + 1) ELSE high + 1}
  ELSE FieldSigned(token, -high, high)

(* field_read: what the token gives a field [type, low, high] *)
FieldRead(token, field) ==
  CASE field.type = "unsigned" -> FieldUnsigned(token, field.high)
    [] field.type = "signed"   -> FieldSigned(token, field.low, field.high)
    [] field.type = "real"     -> FieldReal(token, field.high)
    [] field.type = "bool"     ->
         {IF n = 0 THEN 0 ELSE 1 : n \in FieldUnsigned(token, token.n)}

(* Slip: a field that does not read is passed over. *)
FieldsReadOn(value, fields) ==
  [i \in 1 .. Min({Len(value), Len(fields)}) |-> FieldRead(value[i], fields[i])]

(* inkstand_fields_read: what the leading fields read, one set each, up to  *)
(* the first that does not.                                                 *)
FieldsRead(value, fields) ==
  LET Reads(n) == \A i \in 1 .. n : FieldRead(value[i], fields[i]) # {}
      most     == Max({n \in 0 .. Min({Len(value), Len(fields)}) : Reads(n)})
  IN [i \in 1 .. most |-> FieldRead(value[i], fields[i])]
=============================================================================
