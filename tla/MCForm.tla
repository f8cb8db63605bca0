------------------------------- MODULE MCForm -------------------------------
(***************************************************************************)
(* Forms for TLC.  One row each for the codecs, with every value of a      *)
(* narrow integer or with what may be typed; one row each for the walks,   *)
(* from every word; and one form kept in a file, one of whose lines        *)
(* carries two rows.                                                       *)
(***************************************************************************)
EXTENDS Form, TLC

u8 == [type |-> "unsigned", low |-> 0, high |-> 15]
i8 == [type |-> "signed", low |-> -8, high |-> 7]
f4 == [type |-> "real", low |-> -20, high |-> 20]

None == [kind |-> "INFO", codec |-> "none", default |-> 0, field |-> u8]
Row(kind, default, more) == [kind |-> kind, codec |-> "none", default |-> default] @@ more

OneRow(row, starts, texts) ==
  [rows |-> (0 :> None) @@ (1 :> row), groups |-> <<>>,
   starts |-> {(0 :> 0) @@ (1 :> v) : v \in starts},
   presses |-> 0 .. 2, texts |-> (0 :> {}) @@ (1 :> texts)]

(* What may be typed: signs, up to three digits, up to two places. *)
Upto(S, n) == UNION {[1 .. k -> S] : k \in 0 .. n}
Decimals(whole) ==
  {[sign |-> sg, whole |-> w, point |-> fr # <<>>, fraction |-> fr, clean |-> cl] :
     sg \in {"", "-"}, w \in Upto(whole, 3), fr \in Upto({0, 5}, 2), cl \in {TRUE}}
  \union {[sign |-> "", whole |-> <<4>>, point |-> FALSE, fraction |-> <<>>, clean |-> FALSE]}
Ids ==
  {[prefix |-> pr, digits |-> d, clean |-> cl] :
     pr \in {"", "marker", "0x"}, d \in Upto({0, 1, 12}, 3), cl \in BOOLEAN}
Keys == {[name |-> nm, size |-> n] : nm \in {"plain", "hexish"}, n \in {2, 3, 6, 8, 9}}

DecimalRow(digits, limit) ==
  [kind |-> "TEXT", codec |-> "decimal", default |-> 0, digits |-> digits, limit |-> limit]
IdRow == [kind |-> "TEXT", codec |-> "id", default |-> 0]
BytesRow(sizes) == [kind |-> "TEXT", codec |-> "bytes", default |-> NoBytes, sizes |-> sizes, limit |-> 9]

Seconds == [values |-> <<0, 2, 4, 8, 15>>, scale |-> TRUE, zeroAside |-> TRUE]
Pins    == [values |-> <<3, 4, 9>>, scale |-> FALSE, zeroAside |-> FALSE]
Meters  == [values |-> <<3, 4, 9>>, scale |-> TRUE, zeroAside |-> FALSE]
NumberRow(presets) == Row("NUMBER", 0, [presets |-> presets, field |-> u8])
EnumRow == Row("ENUM", 0, [limit |-> 3, field |-> u8])
KeyRow  == Row("KEY", 0, [limit |-> 5, choices |-> {1, 4, 7}, field |-> u8])

Kept ==
  [rows |-> (0 :> None) @@ (1 :> [EnumRow EXCEPT !.limit = 2])
            @@ (2 :> [None EXCEPT !.field = i8]) @@ (3 :> [None EXCEPT !.field = f4]),
   starts |-> {(0 :> 0) @@ (1 :> 0) @@ (2 :> -3) @@ (3 :> r) : r \in {-1, 21}},
   groups |-> <<[key |-> 2, at |-> <<1, 0>>, rows |-> <<1, 2>>],
                [key |-> 1, at |-> <<0, 0>>, rows |-> <<3>>]>>,
   presses |-> {1}, texts |-> [i \in 0 .. 3 |-> {}]]

AppTable == <<[name |-> "reading", kind |-> "plain"], [name |-> "reading", kind |-> "row"]>>

Token(n) == [form |-> "digits", sign |-> "", n |-> n]
ForeignKeys == {<<"plain", 0>>, <<"row", 0>>, <<"row", 1>>, <<"row", 17>>, <<"broken", 1>>}
ForeignLines ==
  {[key |-> [name |-> "reading", kind |-> k[1], index |-> k[2], slot |-> 0], value |-> v] :
     k \in ForeignKeys,
     v \in {<<Token(9)>>, <<Token(18), Token(1)>>, <<Token(1), [Token(1) EXCEPT !.sign = "-"]>>,
            <<[Token(5) EXCEPT !.form = "rubbish"], Token(2)>>}}

AllForms ==
  {OneRow(DecimalRow(1, 9), {3}, Decimals({0, 1, 9})), OneRow(DecimalRow(1, 9), -95 .. 95, {}),
   OneRow(IdRow, {3}, Ids), OneRow(IdRow, 0 .. 255, {}),
   OneRow(BytesRow({2, 3, 8, 9}), Keys, {BytesHex(k) : k \in Keys} \union {BytesBase64(k) : k \in Keys}),
   OneRow(NumberRow(Seconds), 0 .. 15, {}), OneRow(NumberRow(Meters), 0 .. 15, {}),
   OneRow(NumberRow(Pins), 0 .. 15, {}),
   OneRow(EnumRow, 0 .. 15, {}), OneRow(KeyRow, 0 .. 15, {}),
   Kept}

(* Whole numbers, their limit almost the whole type. *)
WholeForms == {OneRow(DecimalRow(0, 126), {0}, Decimals({0, 2, 9}))}
=============================================================================
