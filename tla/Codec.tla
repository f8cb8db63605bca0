------------------------------- MODULE Codec -------------------------------
(***************************************************************************)
(* src/form/codec.c: a form's values as text and back.                     *)
(*                                                                         *)
(* A text is what its characters say, blanks around it left out: digits    *)
(* are sequences of them, and `clean` is false once there is a character   *)
(* that belongs to no number.  A parse gives the set of the value it       *)
(* accepts, {} when it refuses.  Integers have the width IntMax says.      *)
(***************************************************************************)
EXTENDS Integers, Sequences

CONSTANTS
  IntMax,       (* INT64_MAX                                               *)
  DigitsMax,    (* INKSTAND_FORM_DECIMAL_DIGITS_MAX                        *)
  IdDigits,     (* Hex digits of an identifier: 8.                         *)
  HexLike       (* Keys whose base64 is spelled in hex digits only.        *)

ASSUME CodecAssumption ==
  /\ IntMax \in Nat /\ IntMax >= 10
  /\ DigitsMax \in Nat
  /\ IdDigits \in Nat \ {0}

Digits(base) == 0 .. base - 1

IsDecimal(text) == text.whole \in Seq(Digits(10)) /\ text.fraction \in Seq(Digits(10))
IsId(text) == text.digits \in Seq(Digits(16))

Power(base, n) ==
  LET upto[k \in 0 .. n] == IF k = 0 THEN 1 ELSE base * upto[k - 1] IN upto[n]

(* decimal_scale *)
DecimalScale(digits) == Power(10, digits)

(* A signed integer of the width, as the build wraps it. *)
Wrapped(n) == ((n + IntMax + 1) % (2 * (IntMax + 1))) - (IntMax + 1)

(* A number as digits of a base, and digits as a number. *)
Numeral(n, base, width) ==
  [i \in 1 .. width |-> (n \div Power(base, width - i)) % base]

Number(digits, base) ==
  LET upto[k \in 0 .. Len(digits)] ==
        IF k = 0 THEN 0 ELSE upto[k - 1] * base + digits[k]
  IN upto[Len(digits)]

WidthOf(n, base) ==
  CHOOSE w \in 1 .. n + 1 : n < Power(base, w) /\ (w > 1 => n >= Power(base, w - 1))

-----------------------------------------------------------------------------
Magnitude(scaled) == IF scaled < 0 THEN -scaled ELSE scaled

(* Slip: cut at the shown width. *)
RoundedDown(magnitude, drop) == magnitude \div drop

(* Half a dropped place goes up, away from zero. *)
Rounded(magnitude, drop) ==
  magnitude \div drop
    + IF drop > 1 /\ magnitude % drop >= drop - drop \div 2 THEN 1 ELSE 0

(* inkstand_form_decimal_text *)
DecimalText(scaled, held, wanted) ==
  LET shown   == IF wanted > held THEN held ELSE wanted
      rounded == Rounded(Magnitude(scaled), DecimalScale(held - shown))
      whole   == rounded \div DecimalScale(shown)
  IN [sign     |-> IF scaled < 0 THEN "-" ELSE "",
      whole    |-> Numeral(whole, 10, WidthOf(whole, 10)),
      point    |-> shown > 0,
      fraction |-> Numeral(rounded % DecimalScale(shown), 10, shown),
      clean    |-> TRUE]

(* The whole part digit by digit: past the limit it is given up, and the    *)
(* digits after that are not looked at.                                     *)
WholePart(digits, limit) ==
  LET upto[k \in 0 .. Len(digits)] ==
        IF k = 0 THEN 0
        ELSE IF upto[k - 1] > limit THEN upto[k - 1]
        ELSE Wrapped(upto[k - 1] * 10 + digits[k])
  IN upto[Len(digits)]

(* A fraction filled up, or cut, to a number of places. *)
Padded(fraction, digits) ==
  [i \in 1 .. digits |-> IF i <= Len(fraction) THEN fraction[i] ELSE 0]

(* Slip: what is finer than the value can hold is dropped. *)
FractionCut(fraction, digits) == {Number(Padded(fraction, digits), 10)}

(* The fraction padded to the places the value is held to; finer than that  *)
(* only zeros may be.                                                       *)
Fraction(fraction, digits) ==
  IF \E i \in DOMAIN fraction : i > digits /\ fraction[i] # 0 THEN {}
  ELSE {Number(Padded(fraction, digits), 10)}

(* Slip: the whole part alone is held to the limit. *)
DecimalParsePastLimit(text, digits, limit) ==
  LET scale == DecimalScale(digits)
      whole == WholePart(text.whole, limit)
      sound == /\ limit > 0 /\ digits <= DigitsMax
               /\ limit <= IntMax \div scale - 1
               /\ text.clean
               /\ text.whole # <<>> \/ text.fraction # <<>>
  IN IF ~sound \/ whole > limit THEN {}
     ELSE {IF text.sign = "-" THEN -v ELSE v :
             v \in {Wrapped(whole * scale + f) : f \in Fraction(text.fraction, digits)}}

(* inkstand_form_decimal_parse *)
DecimalParse(text, digits, limit) ==
  LET scale == DecimalScale(digits)
      whole == WholePart(text.whole, limit)
      sound == /\ limit > 0 /\ digits <= DigitsMax
               /\ limit <= IntMax \div scale - 1
               /\ text.clean
               /\ text.whole # <<>> \/ text.fraction # <<>>
      value == {Wrapped(whole * scale + f) : f \in Fraction(text.fraction, digits)}
  IN IF ~sound \/ whole > limit THEN {}
     ELSE {IF text.sign = "-" THEN -v ELSE v : v \in {v \in value : v <= limit * scale}}

-----------------------------------------------------------------------------
(* inkstand_form_id_text: [prefix, digits, clean]. *)
IdText(id) ==
  [prefix |-> IF id = 0 THEN "" ELSE "marker",
   digits |-> IF id = 0 THEN <<>> ELSE Numeral(id, 16, IdDigits),
   clean  |-> TRUE]

(* Slip: eight digits are taken for an identifier as it is printed. *)
IsHexByWidth(text) ==
  \/ text.prefix # "" \/ Len(text.digits) = IdDigits
  \/ \E i \in DOMAIN text.digits : text.digits[i] > 9

(* A marker or 0x says hex; bare, a letter does. *)
IsHex(text) ==
  text.prefix # "" \/ \E i \in DOMAIN text.digits : text.digits[i] > 9

(* The largest identifier. *)
IdMost == Power(16, IdDigits) - 1

(* Its digits one by one, given up once they are more than fit. *)
IdNumber(digits, base) ==
  LET upto[k \in 0 .. Len(digits)] ==
        IF k = 0 THEN 0
        ELSE IF upto[k - 1] > IdMost THEN upto[k - 1]
        ELSE upto[k - 1] * base + digits[k]
  IN upto[Len(digits)]

(* inkstand_form_id_parse *)
IdParse(text) ==
  LET value == IdNumber(text.digits, IF IsHex(text) THEN 16 ELSE 10)
  IN IF ~text.clean \/ value > IdMost THEN {}
     ELSE IF text.digits = <<>> /\ text.prefix # "" THEN {}
     ELSE {value}

-----------------------------------------------------------------------------
(* Bytes are [name, size]; a text of theirs says of which bytes, in which   *)
(* spelling, it is.                                                         *)
NoBytes == [name |-> "none", size |-> 0]

(* Text read in another spelling than it was written in. *)
Garbled(size) == [name |-> "garbled", size |-> size]

(* inkstand_form_bytes_hex, into a buffer that holds them all *)
BytesHex(bytes) ==
  [of |-> bytes, spelling |-> "hex", chars |-> 2 * bytes.size, allHex |-> TRUE]

(* inkstand_form_bytes_base64 *)
BytesBase64(bytes) ==
  [of |-> bytes, spelling |-> "base64",
   chars |-> 4 * ((bytes.size + 2) \div 3),
   allHex |-> bytes.name \in HexLike /\ bytes.size % 3 = 0]

ReadAs(text, spelling, size, cap) ==
  IF size > cap THEN {}
  ELSE {IF text.spelling = spelling THEN text.of ELSE Garbled(size)}

(* Slip: anything spelled in hex digits is hex. *)
BytesParseHexFirst(text, hexSizes, cap) ==
  IF text.chars = 0 THEN {NoBytes}
  ELSE IF text.allHex THEN ReadAs(text, "hex", text.chars \div 2, cap)
  ELSE ReadAs(text, "base64", text.of.size, cap)

(* inkstand_form_bytes_parse: hex only at one of the sizes given. *)
BytesParse(text, hexSizes, cap) ==
  IF text.chars = 0 THEN {NoBytes}
  ELSE IF text.allHex /\ \E n \in hexSizes : text.chars = 2 * n
       THEN ReadAs(text, "hex", text.chars \div 2, cap)
  ELSE IF text.chars % 4 # 0 THEN {}
  ELSE ReadAs(text, "base64",
              IF text.spelling = "base64" THEN text.of.size
              ELSE 3 * (text.chars \div 4), cap)
=============================================================================
