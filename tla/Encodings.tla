------------------------------ MODULE Encodings ------------------------------
(***************************************************************************)
(* What the library writes as text and reads again: base64 and hex         *)
(* (base64.c, shake256.c), the times and numbers of served molecules. A    *)
(* byte has four quarters of log2(Quarter) bits: three of them make a      *)
(* base64 digit, two a hex digit.                                          *)
(***************************************************************************)
EXTENDS Calls, Integers, Sequences, SequencesExt

CONSTANTS
    Quarter,            \* 4: a byte is 0..255, a base64 digit 0..63, a hex digit 0..15
    CodeBytes,          \* bytes of the instance, in messages of at most ...
    MaxCodeBytes,
    Years               \* those of the instance's dates

ASSUME EncodingAssumption ==
    Quarter \in Nat \ {0, 1} /\ CodeBytes \subseteq 0..Quarter^4 - 1 /\ Years \subseteq Nat

Pad == -1               \* '='
UnknownChar == -2           \* a character base64 does not know
SpaceChar == -3              \* white space, which strtol and sscanf pass over

CeilDiv(n, m) == (n + m - 1) \div m
Padded(s, n) == [i \in 1..n |-> IF i <= Len(s) THEN s[i] ELSE 0]

\* The k-th part of length n.
Part(s, k, n) == SubSeq(s, (k - 1) * n + 1, IF k * n < Len(s) THEN k * n ELSE Len(s))

-----------------------------------------------------------------------------
(* Base64. *)

Digits64(b) ==
    << b[1] \div Quarter,
       (b[1] % Quarter) * Quarter^2 + b[2] \div Quarter^2,
       (b[2] % Quarter^2) * Quarter + b[3] \div Quarter^3,
       b[3] % Quarter^3 >>

Bytes64(d) ==
    << d[1] * Quarter + d[2] \div Quarter^2,
       (d[2] % Quarter^2) * Quarter^2 + d[3] \div Quarter,
       (d[3] % Quarter) * Quarter^3 + d[4] >>

\* knishio_base64_encode: of i bytes in the last group i + 1 digits, and padding.
Base64Encode(data) ==
    FlattenSeq([k \in 1..CeilDiv(Len(data), 3) |->
        LET b == Part(data, k, 3) IN
        SubSeq(Digits64(Padded(b, 3)), 1, Len(b) + 1) \o [i \in 1..3 - Len(b) |-> Pad]])

\* knishio_base64_decode: up to the first padding.
Base64Decode(text) ==
    LET end  == SelectInSeq(text, LAMBDA c : c = Pad)
        body == IF end = 0 THEN text ELSE SubSeq(text, 1, end - 1)
    IN IF text = <<>> \/ Len(text) % 4 # 0 \/ UnknownChar \in ToSet(body) THEN Missing
       ELSE FlattenSeq([k \in 1..CeilDiv(Len(body), 4) |->
                LET d == Part(body, k, 4) IN
                SubSeq(Bytes64(Padded(d, 4)), 1, Len(d) - 1)])

-----------------------------------------------------------------------------
(* Hex. *)

\* knishio_binary_to_hex
ToHexText(data) ==
    FlattenSeq([i \in DOMAIN data |-> <<data[i] \div Quarter^2, data[i] % Quarter^2>>])

IsDigit(c) == c >= 0

\* strtol of two characters, which must end behind them
StrtolByte(a, b) ==
    CASE IsDigit(a) /\ IsDigit(b) -> a * Quarter^2 + b
      [] a = SpaceChar /\ IsDigit(b)  -> b
      [] OTHER                    -> Missing

\* sscanf "%2x" of the text from a place on: blanks, then one or two digits.
SscanfByte(text) ==
    LET from == SelectInSeq(text, LAMBDA c : c # SpaceChar)
        more == from + 1 \in DOMAIN text /\ IsDigit(text[from + 1])
    IN CASE from = 0 \/ (from # 0 /\ ~IsDigit(text[from])) -> Missing
         [] from # 0 /\ IsDigit(text[from]) /\ more -> text[from] * Quarter^2 + text[from + 1]
         [] OTHER -> text[from]

AllOrNone(bytes) == IF Missing \in ToSet(bytes) THEN Missing ELSE bytes

\* knishio_hex_to_binary; nothing is allocated for an empty text.
HexToBinary(text) ==
    IF text = <<>> \/ Len(text) % 2 # 0 THEN Missing
    ELSE AllOrNone([i \in 1..Len(text) \div 2 |-> SscanfByte(SubSeq(text, 2 * i - 1, Len(text)))])

\* knishio_mlkem_public_key_from_hex, _private_key_from_hex: an empty text is an empty key.
KeyFromHex(text) == IF text = <<>> THEN <<>> ELSE HexToBinary(text)

\* knishio_is_valid_hex
IsValidHex(text) == text # <<>> /\ Len(text) % 2 = 0 /\ \A i \in DOMAIN text : IsDigit(text[i])

\* knishio_hex_to_base64
HexToBase64(text) ==
    LET bytes == AllOrNone([i \in 1..Len(text) \div 2 |-> StrtolByte(text[2 * i - 1], text[2 * i])]) IN
    IF text = <<>> \/ Len(text) % 2 # 0 \/ bytes = Missing THEN Missing ELSE Base64Encode(bytes)

\* knishio_base64_to_hex
Base64ToHex(text) ==
    LET bytes == Base64Decode(text) IN IF bytes = Missing THEN Missing ELSE ToHexText(bytes)

-----------------------------------------------------------------------------
(* Times. *)

Leap(y) == (y % 4 = 0 /\ y % 100 # 0) \/ y % 400 = 0
MonthDays == <<31, 29, 31, 30, 31, 30, 31, 31, 30, 31, 30, 31>>

\* days_from_civil; \div rounds down, as its correction of negative years does.
DaysFromCivil(year, m, d) ==
    LET y   == IF m <= 2 THEN year - 1 ELSE year
        era == y \div 400
        yoe == y - era * 400
        doy == (153 * (IF m > 2 THEN m - 3 ELSE m + 9) + 2) \div 5 + d - 1
        doe == yoe * 365 + yoe \div 4 - yoe \div 100 + doy
    IN era * 146097 + doe - 719468

\* rfc3339_to_ms, as days and milliseconds: the fields of a time with the right
\* punctuation, its fraction as digits, the offset in hours and minutes.
Rfc3339(t) ==
    LET fraction == Padded(t.fraction, 3)
        sign     == IF t.zone.west THEN -1 ELSE 1
        offset   == sign * (t.zone.hour * 3600 + t.zone.minute * 60)
        seconds  == t.hour * 3600 + t.minute * 60 + t.second - offset
        ms       == fraction[1] * 100 + fraction[2] * 10 + fraction[3]
    IN IF t.month \notin 1..12 \/ t.day < 1 \/ t.day > MonthDays[t.month]
            \/ (t.month = 2 /\ t.day = 29 /\ ~Leap(t.year))
            \/ t.hour > 23 \/ t.minute > 59 \/ t.second > 59
            \/ t.zone.hour > 23 \/ t.zone.minute > 59
       THEN Missing
       ELSE [day |-> DaysFromCivil(t.year, t.month, t.day) + seconds \div 86400,
             ms |-> (seconds % 86400) * 1000 + ms]

-----------------------------------------------------------------------------
(* Numbers: knishio_json_number_to_string of the shortest digits that read *)
(* back as the same double, with the point behind n of them.               *)

Zeroes(n) == [i \in 1..n |-> "0"]
Numeral(digits) == [i \in DOMAIN digits |-> ToString(digits[i])]

NumberText(negative, digits, n) ==
    LET nd    == Len(digits)
        d     == Numeral(digits)
        point == IF nd > n THEN <<".">> \o SubSeq(d, n + 1, nd) ELSE Zeroes(n - nd)
        e     == n - 1
    IN (IF negative THEN <<"-">> ELSE <<>>)
       \o CASE 0 < n /\ n <= 21 -> SubSeq(d, 1, IF nd < n THEN nd ELSE n) \o point
            [] -6 < n /\ n <= 0 -> <<"0", ".">> \o Zeroes(-n) \o d
            [] OTHER -> <<d[1]>> \o (IF nd > 1 THEN <<".">> \o Tail(d) ELSE <<>>)
                        \o <<"e", IF e < 0 THEN "-" ELSE "+", ToString(IF e < 0 THEN -e ELSE e)>>

-----------------------------------------------------------------------------
(* Calls. *)

Messages64 == UNION {[1..n -> CodeBytes] : n \in 0..MaxCodeBytes}
HexTexts == UNION {[1..n -> {UnknownChar, SpaceChar, 0, 1, Quarter^2 - 1}] : n \in 0..4}

EncodeBytes ==
    Quiet /\ \E data \in Messages64 :
        Made([fn |-> "encode", data |-> data, encoded |-> Base64Encode(data)])

ReadHex ==
    Quiet /\ \E text \in HexTexts :
        Made([fn |-> "hex", text |-> text,
              read |-> [binary |-> HexToBinary(text), base64 |-> HexToBase64(text), key |-> KeyFromHex(text)]])

TimesOf(year, month, day) ==
    [year : {year}, month : {month}, day : {day}, hour : {0, 22, 23, 24}, minute : {30}, second : {59},
     fraction : {<<>>, <<9>>, <<0, 9, 9, 9>>},
     zone : [west : BOOLEAN, hour : {0, 1, 23}, minute : {0, 45}]]

ReadTime ==
    Quiet /\ \/ \E year \in Years, month \in 1..12, day \in {1, 28, 29, 30, 31, 32} :
                    \E t \in TimesOf(year, month, day) :
                        t.hour = 23 /\ t.zone.hour = 0 /\ t.fraction = <<>>
                        /\ Made([fn |-> "time", time |-> t, instant |-> Rfc3339(t)])
             \/ \E t \in TimesOf(1999, 12, 31) : Made([fn |-> "time", time |-> t, instant |-> Rfc3339(t)])

WriteNumber ==
    Quiet /\ \E negative \in BOOLEAN, nd \in 1..3, n \in -8..24 : \E digits \in [1..nd -> {0, 1, 9}] :
        /\ digits[1] # 0 /\ digits[nd] # 0
        /\ Made([fn |-> "number", shown |-> [negative |-> negative, digits |-> digits, n |-> n],
                 numeral |-> NumberText(negative, digits, n)])

EncodingsNext == EncodeBytes \/ ReadHex \/ ReadTime \/ WriteNumber

-----------------------------------------------------------------------------
(* Properties. *)

\* A signature that is compressed for the wire is the signature again, and another one
\* has another text; an empty one is refused. What is_valid_hex accepts, all readers
\* read alike, and write again as it was.
BytesSurvive ==
    /\ call.fn = "encode" =>
        /\ Base64Decode(call.encoded) = IF call.data = <<>> THEN Missing ELSE call.data
        /\ call.data # <<>> =>
            HexToBase64(ToHexText(call.data)) = call.encoded
            /\ Base64ToHex(call.encoded) = ToHexText(call.data)
    /\ call.fn = "hex" /\ IsValidHex(call.text) =>
        /\ ToHexText(call.read.binary) = call.text
        /\ call.read.base64 = Base64Encode(call.read.binary) /\ call.read.key = call.read.binary

Tomorrow(t) ==
    CASE t.day < MonthDays[t.month] - (IF t.month = 2 /\ ~Leap(t.year) THEN 1 ELSE 0)
            -> [t EXCEPT !.day = @ + 1]
      [] t.month = 12 -> [t EXCEPT !.year = @ + 1, !.month = 1, !.day = 1]
      [] OTHER -> [t EXCEPT !.month = @ + 1, !.day = 1]

Milliseconds(from, to) == (to.day - from.day) * 86400000 + to.ms - from.ms

\* The calendar has no gap and no day twice: the next date is a day later, over every
\* end of a month, leap year and century. An hour on the clock is an hour, an hour of
\* the offset takes it back, and the fraction never reaches the next second.
TimesAreCounted ==
    /\ DaysFromCivil(1970, 1, 1) = 0
    /\ call.fn = "time" /\ call.instant # Missing =>
        LET t == call.time  at == call.instant
            east == [t EXCEPT !.hour = @ - 1, !.zone.hour = IF t.zone.west THEN @ + 1 ELSE @ - 1]
        IN /\ at.ms \in 0..86399999
           /\ Milliseconds(at, Rfc3339(Tomorrow(t))) = 86400000
           /\ t.hour > 0 /\ east.zone.hour \in 0..23 => Rfc3339(east) = at
           /\ Milliseconds(Rfc3339([t EXCEPT !.fraction = <<>>]), at) \in 0..999

\* A number that is hashed as text is read back from it: sign, digits and point.
NumeralRead(numeral) ==
    LET negative == numeral[1] = "-"
        text  == IF negative THEN Tail(numeral) ELSE numeral
        at    == SelectInSeq(text, LAMBDA c : c = "e")
        mantissa == IF at = 0 THEN text ELSE SubSeq(text, 1, at - 1)
        size  == IF at = 0 THEN 0 ELSE CHOOSE e \in 0..99 : ToString(e) = text[at + 2]
        dot   == SelectInSeq(mantissa, LAMBDA c : c = ".")
        whole == IF dot = 0 THEN Len(mantissa) ELSE dot - 1
        all   == SelectSeq(mantissa, LAMBDA c : c # ".")
        first == SelectInSeq(all, LAMBDA c : c # "0")
        last  == SelectLastInSeq(all, LAMBDA c : c # "0")
    IN [negative |-> negative, digits |-> SubSeq(all, first, last),
        n |-> whole - (first - 1)
              + (IF at = 0 THEN 0 ELSE IF text[at + 1] = "-" THEN -size ELSE size)]

NumbersSurvive ==
    call.fn = "number" =>
        NumeralRead(call.numeral) = [call.shown EXCEPT !.digits = Numeral(@)]

EncodingsSurvive == BytesSurvive /\ TimesAreCounted /\ NumbersSurvive

=============================================================================
