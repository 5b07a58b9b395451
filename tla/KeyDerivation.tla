---------------------------- MODULE KeyDerivation ----------------------------
(***************************************************************************)
(* From secret, token and position to a one-time key (wallet.c, and the    *)
(* numbers of bigint.c over GMP, which is external). SHAKE256 is ideal:    *)
(* a key is known by the text it was last hashed from, and what is no hex  *)
(* is hashed to a number of its own. A text is a sequence of characters,   *)
(* of which the digits of Radix, in small letters, are the hex ones.       *)
(***************************************************************************)
EXTENDS Calls, Integers, Sequences, SequencesExt

CONSTANTS
    Radix,              \* 16
    SecretDigest,       \* what the hash makes of a secret that is no hex
    PositionDigest,     \* and of a position
    Slugs,              \* token slugs, as texts
    MaxDigits           \* of base_convert: 999

ASSUME RadixAssumption ==
    Radix \in Nat \ {0, 1} /\ {SecretDigest, PositionDigest} \subseteq Nat /\ MaxDigits \in Nat

HexDigits == {ToString(d) : d \in 0..Radix - 1}
Valued(digit) == CHOOSE d \in 0..Radix - 1 : ToString(d) = digit

-----------------------------------------------------------------------------
(* Numbers. *)

\* knishio_bigint_init_hex, of a text without "0x"
FromHex(text) == FoldLeft(LAMBDA v, c : v * Radix + Valued(c), 0, text)

\* The digits of a number, the last first.
RECURSIVE DigitsOf(_, _)
DigitsOf(n, base) == IF n = 0 THEN <<>> ELSE <<n % base>> \o DigitsOf(n \div base, base)

\* knishio_bigint_to_hex: no leading zeros, "0" for zero.
ToHex(n) == IF n = 0 THEN <<"0">> ELSE LET d == Reverse(DigitsOf(n, Radix)) IN [i \in DOMAIN d |-> ToString(d[i])]

\* knishio_bigint_base_convert, symbols as their values; too many digits are refused.
BaseConvert(input, from, to) ==
    LET value  == FoldLeft(LAMBDA v, d : v * from + d, 0, input)
        digits == DigitsOf(value, to)
    IN CASE (\E i \in DOMAIN input : input[i] >= from) \/ Len(digits) >= MaxDigits -> Missing
         [] (\A i \in DOMAIN input : input[i] < from) /\ value = 0 -> <<0>>
         [] OTHER -> Reverse(digits)

-----------------------------------------------------------------------------
(* Keys. *)

\* is_strict_hex
IsStrictHex(text) == text # <<>> /\ ToSet(text) \subseteq HexDigits

\* knishio_wallet_key_from_hex, with what comes before it.
IndexedKey(secret, position) ==
    (IF IsStrictHex(secret) THEN FromHex(secret) ELSE SecretDigest)
    + (IF IsStrictHex(position) THEN FromHex(position) ELSE PositionDigest)

Tag == <<"K", "2">>     \* KNISHIO_OTS_V2_DOMAIN_TAG

\* stage1 of knishio_generate_wallet_key_with_ots_version
Stage1(secret, token, position, ver) ==
    LET indexed == ToHex(IndexedKey(secret, position)) IN
    IF ver = 2 THEN Tag \o <<"|">> \o indexed \o <<"|">> \o token ELSE indexed \o token

\* The key, and with it the chains it is cut into and the address.
WalletKey(secret, token, position, ver) ==
    IF ver \notin {1, 2} \/ secret = <<>> \/ position = <<>> THEN Missing
    ELSE [text |-> Stage1(secret, token, position, ver), chains |-> IF ver = 2 THEN 64 ELSE 16]

\* knishio_detect_ots_version: the preferred version, then the other; 0 for neither.
DetectOtsVersion(secret, token, position, address, preferred) ==
    LET Derives(ver) == WalletKey(secret, token, position, ver) = address
        other == IF preferred = 1 THEN 2 ELSE 1
    IN CASE address = Missing \/ preferred \notin {1, 2} \/ secret = <<>> \/ position = <<>> -> 0
         [] address # Missing /\ preferred \in {1, 2} /\ secret # <<>> /\ position # <<>>
                /\ Derives(preferred) -> preferred
         [] address # Missing /\ preferred \in {1, 2} /\ secret # <<>> /\ position # <<>>
                /\ ~Derives(preferred) /\ Derives(other) -> other
         [] OTHER -> 0

\* knishio_chunk_string
ChunkString(text, size) ==
    [k \in 1..(Len(text) + size - 1) \div size |->
        SubSeq(text, (k - 1) * size + 1, IF k * size <= Len(text) THEN k * size ELSE Len(text))]

-----------------------------------------------------------------------------
(* Calls. *)

Hexes == UNION {[1..n -> HexDigits] : n \in 1..2}
Secrets == Hexes \cup {<<>>, <<"g">>}
Positions == {<<d>> : d \in HexDigits} \cup {<<>>, <<"g">>, <<"1", "0">>}

DeriveKey ==
    Quiet /\ \E secret \in Secrets, token \in Slugs, position \in Positions, ver \in 1..3 :
        LET key == WalletKey(secret, token, position, ver) IN
        Made([fn |-> "key", secret |-> secret, token |-> token, position |-> position, ver |-> ver,
              key |-> key,
              detected |-> {DetectOtsVersion(secret, token, position, key, preferred) : preferred \in 1..2}])

ConvertBase ==
    Quiet /\ \E from, to \in 2..3 : \E input \in UNION {[1..n -> 0..2] : n \in 0..4} :
        Made([fn |-> "convert", from |-> from, input |-> input, to |-> to,
              converted |-> BaseConvert(input, from, to)])

CutKey ==
    Quiet /\ \E n \in 0..7, size \in 1..4 :
        Made([fn |-> "chunk", n |-> n, size |-> size,
              chunked |-> ChunkString([i \in 1..n |-> i], size)])

KeyNext == DeriveKey \/ ConvertBase \/ CutKey

-----------------------------------------------------------------------------
(* Properties. *)

\* All derivations of the instance that lead to a key.
Derivations == {d \in Secrets \X Slugs \X Positions : d[1] # <<>> /\ d[3] # <<>>}

\* The keys of a wallet are its own. At version 2 another sum of secret and position or
\* another token makes another text to hash, whatever the token; at version 1, which
\* joins the two, only if no token goes on with a small hex digit; and no text of one
\* version is one of the other ("both delimiters always", wallet.c:166).
KeysAreApart ==
    call.fn = "key" /\ call.key # Missing =>
        \A d \in Derivations :
            LET same == /\ IndexedKey(call.secret, call.position) = IndexedKey(d[1], d[3])
                        /\ call.token = d[2]
                plain == Head(call.token) \notin HexDigits /\ Head(d[2]) \notin HexDigits
            IN /\ call.ver = 2 \/ plain =>
                    (Stage1(d[1], d[2], d[3], call.ver) = call.key.text <=> same)
               /\ Stage1(d[1], d[2], d[3], 3 - call.ver) # call.key.text

\* An address tells its version, whichever is tried first.
VersionIsDetected ==
    call.fn = "key" => call.detected = IF call.key = Missing THEN {0} ELSE {call.ver}

\* Conversion keeps the number: back again it is the input, without leading zeros.
ConversionIsExact ==
    call.fn = "convert" /\ call.converted # Missing =>
        LET value(digits, base) == FoldLeft(LAMBDA v, d : v * base + d, 0, digits) IN
        /\ value(call.converted, call.to) = value(call.input, call.from)
        /\ Len(call.converted) > 1 => call.converted[1] # 0

\* And a key is cut without loss.
ChunksAreWhole ==
    call.fn = "chunk" => /\ FlattenSeq(call.chunked) = [i \in 1..call.n |-> i]
                         /\ \A k \in 1..Len(call.chunked) - 1 : Len(call.chunked[k]) = call.size

KeysAreDerived == KeysAreApart /\ VersionIsDetected /\ ConversionIsExact /\ ChunksAreWhole

=============================================================================
