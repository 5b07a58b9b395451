------------------------------- MODULE OneTime -------------------------------
(***************************************************************************)
(* The digits of a molecular hash and what the one-time signature makes of *)
(* them. molecule.c writes the SHAKE256 output in base 17, takes each of   *)
(* its 64 characters for a digit from -8 to 8, balances the digits, and    *)
(* takes chain i of the key 8 - n[i] steps; check_molecule.c takes it      *)
(* another 8 + n[i]; wallet.c derives the address from chains of 16 steps. *)
(* Here a character is its value, and the end of a chain the steps to it.  *)
(***************************************************************************)
EXTENDS Calls, Integers, Sequences, SequencesExt

CONSTANTS
    Width,      \* KNISHIO_MOLECULAR_HASH_LENGTH
    Top,        \* 8: the base is twice that and one
    ByteBase,   \* 256
    Octets      \* the bytes of the hash: 32

ASSUME DigitsAssumption ==
    Width \in Nat \ {0} /\ Top \in Nat \ {0} /\ ByteBase \in Nat \ {0, 1} /\ Octets \in Nat \ {0}

Base == 2 * Top + 1

ValueIn(base, digits) == FoldLeft(LAMBDA v, d : v * base + d, 0, digits)

\* Every hash can be written: 2^256 is less than 17^64.
ASSUME FitsAssumption ==
    ValueIn(ByteBase, [i \in 1..Octets |-> ByteBase - 1]) <= ValueIn(Base, [i \in 1..Width |-> Base - 1])

-----------------------------------------------------------------------------
(* hex_to_base17: long division of the bytes, over and over. *)

\* One division of the whole number: the quotient's bytes and the remainder.
DividedBy(num, base) ==
    FoldLeft(LAMBDA q, byte :
                LET temp == q.rest * ByteBase + byte IN
                [num |-> Append(q.num, temp \div base), rest |-> temp % base],
             [num |-> <<>>, rest |-> 0], num)

Zeros(n) == [i \in 1..n |-> 0]

\* The last Width digits are kept, zeros go before a shorter number.
Base17(bytes) ==
    LET Divide(s, i) ==
            IF s.num = Zeros(Octets) THEN s
            ELSE LET q == DividedBy(s.num, Base) IN
                 [num |-> q.num, digits |-> <<q.rest>> \o s.digits]
        digits == FoldLeft(Divide, [num |-> bytes, digits |-> <<>>], Zeros(Width)).digits
    IN Zeros(Width - Len(digits)) \o digits

-----------------------------------------------------------------------------
(* Digits and chains. *)

\* knishio_molecule_hash_is_signable
Signable(hash) == Len(hash) = Width /\ \A i \in 1..Width : hash[i] \in 0..Base - 1

\* knishio_molecule_enumerate_hash
Enumerated(hash) == [i \in 1..Width |-> hash[i] - Top]

Total(digits) == FoldLeft(+, 0, digits)

\* Mutant of Nudged: room or not.
NudgedAnyway(digits, i) ==
    CASE Total(digits) < 0 -> [digits EXCEPT ![i] = @ + 1]
      [] Total(digits) > 0 -> [digits EXCEPT ![i] = @ - 1]
      [] OTHER -> digits

\* The digit of the sweep, a step nearer to a balance if it has room for one.
Nudged(digits, i) ==
    CASE Total(digits) < 0 /\ digits[i] < Top  -> [digits EXCEPT ![i] = @ + 1]
      [] Total(digits) > 0 /\ digits[i] > -Top -> [digits EXCEPT ![i] = @ - 1]
      [] OTHER -> digits

\* knishio_molecule_normalize_hash: sweeps from the left until the sum is zero. In
\* Base of them every digit with room has come to the end of it.
Normalized(digits) ==
    FoldLeft(Nudged, digits, [i \in 1..Width * Base |-> ((i - 1) % Width) + 1])

\* knishio_shake256 over its own output, as often as it says: not at all for a
\* count below zero.
Advanced(chain, steps) == chain + (IF steps > 0 THEN steps ELSE 0)

\* knishio_molecule_sign with a key of so many chains: 16, or as many as digits.
SignChains(digits, chains) == [i \in 1..chains |-> Advanced(0, Top - digits[i])]

\* check_ots
CheckChains(signature, digits) ==
    [i \in DOMAIN signature |-> Advanced(signature[i], Top + digits[i])]

\* knishio_generate_address, before the digest
AddressOf(chains) == [i \in 1..chains |-> Advanced(0, 2 * Top)]

-----------------------------------------------------------------------------
(* Calls. *)

Strings == UNION {[1..n -> 0..Base] : n \in {Width - 1, Width}}
Versions17 == {(Width + 1) \div 2, Width}

\* A signature is made over a hash, or refused, and checked against it.
SignHash ==
    Quiet /\ \E hash \in Strings, chains \in Versions17 :
        IF Signable(hash)
        THEN LET digits == Normalized(Enumerated(hash)) IN
             Made([fn |-> "sign", digits |-> digits, chains |-> chains,
                   signature |-> SignChains(digits, chains),
                   checked |-> CheckChains(SignChains(digits, chains), digits)])
        ELSE Made([fn |-> "sign", refused |-> Len(hash)])

ConvertHash ==
    Quiet /\ \E bytes \in [1..Octets -> 0..ByteBase - 1] :
        Made([fn |-> "base17", bytes |-> bytes, digits |-> Base17(bytes)])

OneTimeNext == SignHash \/ ConvertHash

OneTimeSpec == call = NoCall /\ [][OneTimeNext \/ Return]_call

-----------------------------------------------------------------------------
(* Properties. *)

IsSignature == call.fn = "sign" /\ "signature" \in DOMAIN call

\* What the signer publishes of its chains leads to the address of the wallet, for
\* every hash and both versions (knishio_generate_address, _sign and check_ots count
\* the steps each on its own).
SignatureReachesAddress == IsSignature => call.checked = AddressOf(call.chains)

AllDigits == {Normalized(Enumerated(hash)) : hash \in [1..Width -> 0..Base - 1]}

\* A signature with a chain for every digit is one over its digits only: for any
\* other, some chain would have to be taken back. That is what the balance is for
\* ("Normalize to sum to zero", molecule.c:1164).
SignatureIsOfItsDigits ==
    IsSignature /\ call.chains = Width =>
        \A other \in AllDigits \ {call.digits} :
            \E i \in 1..Width : Top - other[i] < call.signature[i]

\* The text of a hash is its value in base 17, whole and of full length: two hashes
\* never have one text.
Base17IsExact ==
    call.fn = "base17" =>
        /\ Len(call.digits) = Width
        /\ ValueIn(Base, call.digits) = ValueIn(ByteBase, call.bytes)

\* From a hash to its text, its digits, its signature and the address it leads to,
\* nothing is lost and nothing taken for another.
SignatureIsOfTheHash == Base17IsExact /\ SignatureReachesAddress /\ SignatureIsOfItsDigits

=============================================================================
