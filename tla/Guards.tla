------------------------------- MODULE Guards --------------------------------
(***************************************************************************)
(* What stands between the library and its inputs (utils/security.c): the  *)
(* checks of texts, comparisons, arithmetic that cannot overflow, and      *)
(* random numbers, with the positions and bundle hashes made of them       *)
(* (wallet.c). Words and bytes are scaled down; the kernel's random        *)
(* numbers are external, and say by "new" which bytes they have written.   *)
(***************************************************************************)
EXTENDS Calls, Integers, Sequences, SequencesExt

CONSTANTS
    WordMax,            \* SIZE_MAX
    IntMax,             \* INT_MAX
    MostBytes,          \* of an allocation: KNISHIO_MAX_STRING_LENGTH * 10
    SecretLength,       \* 2048
    AddressLengths,     \* 64 and 128
    MaxPosition,        \* 64
    MaxToken,           \* 64
    MaxPadding,         \* 2
    ByteValues          \* 256

ASSUME GuardAssumption ==
    /\ {WordMax, IntMax, MostBytes, SecretLength, MaxPosition, MaxToken, MaxPadding} \subseteq Nat
    /\ ByteValues \in Nat \ {0} /\ MostBytes <= WordMax

\* Characters, one or two of a kind.
HexChars   == {"0", "f"}
AlnumChars == HexChars \cup {"g"}
Blanks     == {"\t", "\n"}
Printed    == AlnumChars \cup {"-", "_", "=", "+", "|"}
Control    == "control"     \* a character nobody prints
Chars      == Printed \cup Blanks \cup {Control}

Consists(text, of) == \A i \in DOMAIN text : text[i] \in of

-----------------------------------------------------------------------------
(* Texts. *)

\* knishio_validate_hex; a length of 0 is any.
ValidHex(text, expected) == (expected = 0 \/ Len(text) = expected) /\ Consists(text, HexChars)

\* knishio_validate_base64
ValidBase64(text) ==
    LET last == SelectLastInSeq(text, LAMBDA c : c # "=") IN
    Consists(text, AlnumChars \cup {"+", "="}) /\ Len(text) - last <= MaxPadding

\* knishio_validate_address, _position, _token
ValidAddress(text)  == Len(text) \in AddressLengths /\ ValidHex(text, Len(text))
ValidPosition(text) == Len(text) \in 1..MaxPosition /\ ValidHex(text, 0)
ValidToken(text)    == Len(text) \in 1..MaxToken /\ Consists(text, AlnumChars \cup {"_", "-"})

\* knishio_sanitize_string
Sanitized(text, max) ==
    SelectSeq(SubSeq(text, 1, IF Len(text) < max THEN Len(text) ELSE max), LAMBDA c : c # Control)

\* knishio_safe_strcpy, knishio_safe_strcat into a buffer of that size: what fits, and
\* whether it all did.
SafeStrcpy(src, size) ==
    IF Len(src) >= size THEN [ok |-> FALSE, text |-> SubSeq(src, 1, size - 1)] ELSE [ok |-> TRUE, text |-> src]

SafeStrcat(dest, src, size) ==
    LET remaining == size - Len(dest) - 1 IN
    CASE Len(dest) >= size - 1                         -> [ok |-> FALSE, text |-> dest]
      [] Len(dest) < size - 1 /\ Len(src) > remaining -> [ok |-> FALSE, text |-> dest \o SubSeq(src, 1, remaining)]
      [] OTHER                                         -> [ok |-> TRUE, text |-> dest \o src]

\* knishio_generate_bundle_hash: the hash of the secret, if all that is there is valid.
GenerateBundleHash(secret, token, position) ==
    IF /\ ValidHex(secret, SecretLength)
       /\ token = <<>> \/ ValidToken(token)
       /\ position = <<>> \/ ValidPosition(position)
    THEN [hashed |-> secret] ELSE Missing

\* What knishio_generate_wallet_key takes as numbers (is_strict_hex).
TakenAsNumber(text) == text # <<>> /\ Consists(text, HexChars)

-----------------------------------------------------------------------------
(* Comparisons. *)

CharAt(text, i) == IF i \in DOMAIN text THEN text[i] ELSE "NUL"
Longer(a, b) == IF Len(a) > Len(b) THEN Len(a) ELSE Len(b)

\* knishio_secure_strcmp: 0 for equal. Every character of the longer one is looked at.
SecureStrcmp(a, b) ==
    IF Len(a) = Len(b) /\ \A i \in 1..Longer(a, b) : CharAt(a, i) = CharAt(b, i) THEN 0 ELSE 1

-----------------------------------------------------------------------------
(* Arithmetic. *)

\* knishio_safe_add_size_t, _mul_size_t, _add_int
SafeAdd(a, b) == IF a > WordMax - b THEN Missing ELSE a + b
SafeMul(a, b) ==
    CASE a = 0 \/ b = 0                               -> 0
      [] a # 0 /\ b # 0 /\ a > WordMax \div b         -> Missing
      [] OTHER                                        -> a * b
SafeAddInt(a, b) ==
    IF (b > 0 /\ a > IntMax - b) \/ (b < 0 /\ a < -IntMax - 1 - b) THEN Missing ELSE a + b

\* knishio_safe_calloc: the bytes it gets.
SafeCalloc(count, size) ==
    LET total == SafeMul(count, size) IN
    IF total = Missing \/ total > MostBytes THEN Missing ELSE total

-----------------------------------------------------------------------------
(* Random numbers. *)

\* A buffer the kernel has written so many bytes of.
Written(buffer, n) == [i \in DOMAIN buffer |-> IF i <= n THEN "new" ELSE buffer[i]]

\* knishio_secure_random: getrandom, and if that falls short the device, with a file of
\* its own (Missing if it cannot be opened).
SecureRandom(size, got, read) ==
    LET before == [i \in 1..size |-> "old"]
        first  == Written(before, got)
        second == IF read = Missing THEN first ELSE Written(first, read)
    IN CASE size = 0                 -> [ok |-> FALSE, buffer |-> before]
         [] size # 0 /\ got = size   -> [ok |-> TRUE, buffer |-> first]
         [] OTHER                    -> [ok |-> read = size, buffer |-> second]

\* The least 2^k - 1 that is not less than range.
MaskOf(range) == CHOOSE m \in {2^k - 1 : k \in 0..range} :
                    m >= range /\ \A k \in 0..range : 2^k - 1 >= range => m <= 2^k - 1

\* knishio_secure_random_range: the first draw within the range; the draws end where
\* one fails.
RandomRange(min, max, draws) ==
    LET range == max - min
        Masked(d) == d % (MaskOf(range) + 1)
        until == SelectInSeq(draws, LAMBDA d : d = Missing \/ Masked(d) <= range)
    IN CASE max < min -> Missing
         [] max = min -> min
         [] OTHER -> IF until = 0 \/ draws[until] = Missing THEN Missing ELSE min + Masked(draws[until])

\* knishio_random_hex_string, knishio_generate_random_position: a character of the
\* charset for each byte drawn, and no text without them.
RandomText(length, charset, drawn) ==
    IF length = 0 \/ drawn = Missing THEN Missing
    ELSE [i \in 1..length |-> charset[(drawn[i] % Len(charset)) + 1]]

-----------------------------------------------------------------------------
(* Calls. *)

InputTexts(n) == UNION {[1..k -> Chars] : k \in 0..n}

CheckText ==
    Quiet /\ \E text \in InputTexts(3) :
        Made([fn |-> "guard", text |-> text, base64 |-> ValidBase64(text), address |-> ValidAddress(text),
              position |-> ValidPosition(text), token |-> ValidToken(text), sanitized |-> Sanitized(text, 2)])

HashBundle ==
    Quiet /\ \E secret \in InputTexts(2), position \in InputTexts(1), token \in {<<>>, <<"g">>, <<"|">>} :
        Made([fn |-> "bundle", secret |-> secret, token |-> token, position |-> position,
              bundle |-> GenerateBundleHash(secret, token, position)])

CopyText ==
    Quiet /\ \E dest, src \in {SubSeq(<<"f", "g", "0">>, 1, n) : n \in 0..3}, size \in 1..5 :
        Len(dest) < size
        /\ Made([fn |-> "copy", dest |-> dest, src |-> src, size |-> size,
                 copied |-> SafeStrcpy(src, size), joined |-> SafeStrcat(dest, src, size)])

CompareTexts ==
    Quiet /\ \E a, b \in UNION {[1..k -> {"f", "g"}] : k \in 0..3} :
        Made([fn |-> "compare", left |-> a, right |-> b, differ |-> SecureStrcmp(a, b)])

Compute ==
    Quiet /\ \E a, b \in 0..WordMax :
        Made([fn |-> "compute", left |-> a, right |-> b, sum |-> SafeAdd(a, b), product |-> SafeMul(a, b),
              bytes |-> SafeCalloc(a, b), int |-> SafeAddInt(a - IntMax - 1, b - IntMax - 1)])

FillRandom ==
    Quiet /\ \E size \in 0..3 : \E got \in 0..size, read \in 0..size \cup {Missing} :
        Made([fn |-> "fill", size |-> size, filled |-> SecureRandom(size, got, read)])

DrawInRange ==
    Quiet /\ \E min \in 0..2, max \in 0..6, draws \in SeqOf((0..ByteValues - 1) \cup {Missing}, 2) :
        Made([fn |-> "draw", min |-> min, max |-> max, draws |-> draws, drawn |-> RandomRange(min, max, draws)])

DrawText ==
    Quiet /\ \E length \in 0..MaxPosition :
        \E drawn \in [1..length -> 0..ByteValues - 1] \cup {Missing} :
            Made([fn |-> "text", length |-> length, position |-> RandomText(length, <<"0", "f">>, drawn)])

GuardsNext ==
    CheckText \/ HashBundle \/ CopyText \/ CompareTexts \/ Compute \/ FillRandom \/ DrawInRange \/ DrawText

-----------------------------------------------------------------------------
(* Properties. *)

\* What is let through is what its users understand: an address, a position or a secret
\* that was checked is taken as a number and never hashed as a text; a token that was
\* checked has no delimiter of a key; and what is cleaned or cut keeps its order, starts
\* as it did and ends within the buffer.
InputsAreUnderstood ==
    /\ call.fn = "guard" =>
        /\ call.address \/ call.position => TakenAsNumber(call.text)
        /\ call.token => "|" \notin ToSet(call.text)
        /\ Control \notin ToSet(call.sanitized) /\ Len(call.sanitized) <= 2
        /\ Control \notin ToSet(call.text) => IsPrefix(call.sanitized, call.text)
    /\ call.fn = "bundle" /\ call.bundle # Missing =>
        TakenAsNumber(call.secret) /\ (call.position # <<>> => TakenAsNumber(call.position))
    /\ call.fn = "copy" =>
        /\ IsPrefix(call.copied.text, call.src) /\ IsPrefix(call.joined.text, call.dest \o call.src)
        /\ Len(call.copied.text) < call.size /\ Len(call.joined.text) < call.size
        /\ call.copied.ok <=> call.copied.text = call.src
        /\ call.joined.ok => call.joined.text = call.dest \o call.src

\* Two texts are equal if and only if they are told to be, and a sum, a product or the
\* size of an allocation is right or refused.
ComparedAndCounted ==
    /\ call.fn = "compare" => (call.differ = 0 <=> call.left = call.right)
    /\ call.fn = "compute" =>
        /\ IF call.left + call.right <= WordMax THEN call.sum = call.left + call.right ELSE call.sum = Missing
        /\ IF call.left * call.right <= WordMax THEN call.product = call.left * call.right ELSE call.product = Missing
        /\ call.bytes # Missing => call.bytes = call.left * call.right /\ call.bytes <= MostBytes
        /\ LET sum == call.left + call.right - 2 * (IntMax + 1) IN
           IF sum \in -IntMax - 1..IntMax THEN call.int = sum ELSE call.int = Missing

\* Nothing is taken for random that the kernel has not written in full. A number of a
\* range is in it, and each of its numbers comes of as many draws as any other; a
\* position is as long as asked, and one that will be accepted.
RandomIsRandom ==
    /\ call.fn = "fill" /\ call.filled.ok => ToSet(call.filled.buffer) = {"new"}
    /\ call.fn = "draw" =>
        /\ call.drawn # Missing => call.drawn \in call.min..call.max
        /\ call.draws = <<>> /\ call.min <= call.max =>
            LET Ways(v) == Cardinality({d \in 0..ByteValues - 1 : RandomRange(call.min, call.max, <<d>>) = v}) IN
            \A v \in call.min..call.max : Ways(v) > 0 /\ Ways(v) = Ways(call.min)
    /\ call.fn = "text" /\ call.position # Missing =>
        Len(call.position) = call.length /\ ValidPosition(call.position)

GuardsHold == InputsAreUnderstood /\ ComparedAndCounted /\ RandomIsRandom

=============================================================================
