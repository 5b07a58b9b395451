------------------------------ MODULE Molecule ------------------------------
(***************************************************************************)
(* The life of one knishio_molecule_t (molecule.c): atoms are added by the *)
(* builders or one by one, an atom may still be given meta afterwards, the *)
(* molecule is hashed and signed any number of times, and it may go        *)
(* through JSON. The caller is free: calls come in any order, a builder    *)
(* may be called twice, may fail half way, may hit the atom limit.         *)
(***************************************************************************)
EXTENDS MoleculeBuilders

CONSTANTS
    Sources, Remainders,    \* wallets (or NoWallet) knishio_molecule_create gets
    Recipients,             \* wallets the builders are called with
    Secrets,                \* secrets the molecule may hold
    Amounts,                \* int amounts
    Metas,                  \* sets of <<key, value>> pairs
    UnitLists, NewIds,      \* lists of token unit ids, ids of new units
    LooseAtoms,             \* atoms a caller makes itself
    LateMetas,              \* meta pairs an atom is given after it was added
    MaxAtoms,               \* KNISHIO_MAX_ATOMS_PER_MOLECULE
    MaxCalls,               \* bound: builder calls per molecule
    Orders                  \* orders a JSON peer may list the atoms in

Texts == STRING

AddressType == [owner : Texts, token : Texts, pos : Texts, ver : Nat]

HashedType ==
    [iso : Isotopes, addr : AddressType, token : Texts,
     value : Int \cup {NotANumber}, batch : Texts \cup {NoBatch},
     bundle : Texts, meta : SUBSET (Texts \X Texts), units : Seq(Texts)]

FragmentType ==
    [key : AddressType, msg : Seq(HashedType), enc : Encodings, from : Int, to : Int]

AtomType ==
    [iso : Isotopes, addr : AddressType, token : Texts,
     value : Int \cup {NotANumber}, batch : Texts \cup {NoBatch},
     bundle : Texts, meta : SUBSET (Texts \X Texts), units : Seq(Texts),
     index : Int, frag : FragmentType \cup {NoFrag}]

WalletType ==
    [addr : AddressType, token : Texts, bundle : Texts, ver : 1 .. 2,
     balance : Int, batch : Texts \cup {NoBatch}, units : Seq(Texts)]

ASSUME MaxAtomsAssumption == MaxAtoms \in Nat \ {0}
ASSUME WalletsAssumption ==
    Sources \cup Remainders \cup Recipients \subseteq WalletType \cup {NoWallet}
ASSUME InputsAssumption ==
    /\ Secrets \subseteq Texts /\ Amounts \subseteq Int /\ NewIds \subseteq Texts
    /\ LateMetas \subseteq Texts \X Texts /\ Metas \subseteq SUBSET (Texts \X Texts)
    /\ UnitLists \subseteq Seq(Texts) /\ LooseAtoms \subseteq AtomType
\* The texts the builders write (STRING is a set the provers know nothing of).
ASSUME LiteralsAssumption ==
    {"", "0000", "1", "action", "add", "burnBatch", "encrypt", "false", "fusionBatch",
     "previousPosition", "shadowWalletClaim", "walletBundleHash", "walletPosition",
     "walletTokenSlug"} \subseteq Texts
ASSUME AbsentAssumption ==
    /\ NoWallet \notin WalletType /\ NoFrag \notin FragmentType /\ NoBatch \notin Texts
    /\ NoHash \notin Seq(HashedType) /\ NotANumber \notin Int

NoSecret == ""

VARIABLES
    source, remainder, secret,  \* the fields of the same names
    atoms, hash, isSigned,      \* atoms, molecular_hash, is_signed
    calls,      \* history: the builder calls made, and whether they succeeded
    touched     \* history: an atom was given meta since the last signing

fields == <<source, remainder, secret>>
vars   == <<source, remainder, secret, atoms, hash, isSigned, calls, touched>>

verdict == Check(atoms, hash)

-----------------------------------------------------------------------------
(* knishio_molecule_create *)
Init ==
    /\ source \in Sources
    /\ remainder \in Remainders
    /\ secret \in Secrets
    /\ atoms = <<>> /\ hash = NoHash /\ isSigned = FALSE
    /\ calls = <<>> /\ touched = FALSE

Smaller(m, n) == IF m <= n THEN m ELSE n

\* The array with the first k of the new atoms after the present ones; the
\* first of them gets the index from.
Extended(new, k, from) ==
    LET n == Len(atoms)
    IN  [i \in 1 .. n + k |->
            IF i <= n THEN atoms[i]
            ELSE [new[i - n] EXCEPT !.index = from + (i - n) - 1]]

\* Mutants of AddAtoms: the limit is not looked at; the index restarts with
\* every builder; the signed mark is kept.
AddAtomsUnlimited(new) ==
    /\ atoms' = Extended(new, Len(new), Len(atoms))
    /\ hash' = NoHash /\ isSigned' = FALSE
    /\ UNCHANGED <<fields, touched>>

AddAtomsRestartIndex(new) ==
    /\ atoms' = Extended(new, Smaller(Len(new), MaxAtoms - Len(atoms)), 0)
    /\ hash' = NoHash /\ isSigned' = FALSE
    /\ UNCHANGED <<fields, touched>>

AddAtomsKeepMark(new) ==
    LET room == Smaller(Len(new), MaxAtoms - Len(atoms))
    IN  /\ atoms' = Extended(new, room, Len(atoms))
        /\ hash' = IF room = 0 THEN hash ELSE NoHash
        /\ UNCHANGED <<fields, isSigned, touched>>

\* knishio_molecule_add_atom for each created atom in turn. An atom added drops
\* the hash and the signed mark; the first that finds the molecule full is
\* refused, changes nothing and ends the builder.
AddAtoms(new) ==
    LET room == Smaller(Len(new), MaxAtoms - Len(atoms))
    IN  /\ atoms' = Extended(new, room, Len(atoms))
        /\ hash' = IF room = 0 THEN hash ELSE NoHash
        /\ isSigned' = (isSigned /\ room = 0)
        /\ UNCHANGED <<fields, touched>>

\* One builder call; rules is whether the caller paired the wallets as the
\* protocol asks (see the caller's rules below).
Build(op, built, rules) ==
    /\ Len(calls) < MaxCalls
    /\ AddAtoms(built.atoms)
    /\ calls' = Append(calls,
            [op |-> op, rules |-> rules,
             ok |-> built.err = "SUCCESS"
                    /\ Len(built.atoms) <= MaxAtoms - Len(atoms)])

-----------------------------------------------------------------------------
(* The caller's rules: which wallets belong together in one molecule. *)

Owned(w) == w # NoWallet /\ w.addr # NoAddress /\ w.addr.owner = secret

UserSigned(tokens) ==
    Owned(source) /\ source.token \in tokens
    /\ remainder # NoWallet /\ remainder.token = "USER"

\* A value molecule is signed by a token wallet, its V atoms share that token,
\* and with a batch-bearing source the last V atom has the source's batch id.
ValueSigned == Owned(source) /\ source.token # "USER"
               /\ source.balance <= IntMax

SameToken(ws) == \A w \in ws : w.token = source.token

Batched(credited, last) ==
    source.batch # NoBatch =>
        /\ last.batch = source.batch
        /\ \A w \in credited : w.batch # NoBatch

-----------------------------------------------------------------------------
(* The builders. *)

CallInitMeta == \E m \in Metas :
    Build("meta", InitMeta(source, remainder, m),
          UserSigned({"USER"}) /\ m # {})

CallInitAuthorization ==
    Build("auth", InitAuthorization(source, remainder, "false"),
          UserSigned({"USER", "AUTH"}))

CallInitTokenCreation == \E w \in Recipients \ {NoWallet}, n \in Amounts :
    Build("token", InitTokenCreation(source, remainder, w, n),
          UserSigned({"USER"}))

CallInitWalletCreation == \E w \in Recipients \ {NoWallet} :
    Build("wallet", InitWalletCreation(source, remainder, w, {}),
          UserSigned({"USER"}))

CallInitShadowWalletClaim == \E w \in Recipients \ {NoWallet} :
    Build("claim", InitShadowWalletClaim(source, remainder, w),
          UserSigned({"USER"}))

CallInitReplenish ==
    \E w \in Recipients \ {NoWallet}, n \in Amounts, us \in UnitLists :
        Build("replenish", InitReplenish(source, remainder, w, n, us),
              UserSigned({"USER"}))

CallInitValue == \E w \in Recipients \ {NoWallet}, n \in Amounts :
    Build("value", InitValue(source, remainder, w, n),
          /\ ValueSigned
          /\ IF remainder = NoWallet
             THEN SameToken({w}) /\ Batched({w}, w) /\ n = source.balance
             ELSE SameToken({w, remainder}) /\ Batched({w}, remainder))

CallInitValues == \E v, w \in Recipients, m, n \in Amounts :
    Build("values", InitValues(source, remainder, <<v, w>>, <<m, n>>),
          /\ ValueSigned
          /\ NoWallet \notin {v, w, remainder}
          /\ SameToken({v, w, remainder})
          /\ Batched({v, w}, remainder))

CallInitDepositBuffer == \E w \in Recipients \ {NoWallet}, n \in Amounts :
    Build("deposit", InitDepositBuffer(source, remainder, w, n),
          /\ ValueSigned /\ remainder # NoWallet
          /\ SameToken({w, remainder}) /\ Batched({}, remainder))

CallInitWithdrawBuffer == \E w \in Recipients \ {NoWallet}, n \in Amounts :
    Build("withdraw", InitWithdrawBuffer(source, remainder, w, n),
          ValueSigned /\ remainder # NoWallet /\ SameToken({w, remainder}))

CallInitBurn == \E n \in Amounts :
    Build("burn", InitBurn(source, remainder, n),
          ValueSigned /\ remainder # NoWallet /\ SameToken({remainder}))

CallInitFuseToken ==
    \E w \in Recipients \ {NoWallet}, us \in UnitLists, id \in NewIds :
        Build("fuse", InitFuseToken(source, remainder, w, us, id),
              ValueSigned /\ remainder # NoWallet /\ SameToken({w, remainder}))

-----------------------------------------------------------------------------
(* The other calls. *)

\* knishio_molecule_add_atom with an atom of the caller's own.
CallAddAtom == \E a \in LooseAtoms :
    Build("loose", [atoms |-> <<a>>, err |-> "SUCCESS"], FALSE)

\* knishio_atom_add_meta on an atom already in the molecule: it knows nothing
\* of the molecule's hash. At most one per signing (bound).
CallAtomAddMeta ==
    /\ ~touched
    /\ \E i \in DOMAIN atoms, pair \in LateMetas :
        atoms' = [atoms EXCEPT ![i].meta = @ \cup {pair}]
    /\ touched' = TRUE
    /\ UNCHANGED <<fields, hash, isSigned, calls>>

\* knishio_molecule_generate_hash
CallGenerateHash ==
    /\ atoms # <<>>
    /\ hash' = MolecularHash(atoms)
    /\ UNCHANGED <<fields, atoms, isSigned, calls, touched>>

\* The key knishio_molecule_sign derives: the molecule's secret, the first
\* atom's token and position, the source wallet's OTS version (v1 without one).
SigningKey(first) ==
    [owner |-> secret, token |-> first.token, pos |-> first.addr.pos,
     ver |-> IF source = NoWallet THEN 1 ELSE source.ver]

\* knishio_molecule_sign; compressed is base64, uncompressed is hex.
CallSign == \E enc \in Encodings :
    /\ secret # NoSecret
    /\ atoms # <<>>
    /\ LET sorted == SortByIndex(atoms)
           hash2  == MolecularHash(sorted)
       IN  /\ atoms' = Distribute(sorted, SigningKey(sorted[1]), hash2, enc)
           /\ hash' = hash2
    /\ isSigned' = TRUE
    /\ touched' = FALSE
    /\ UNCHANGED <<fields, calls>>

\* Mutant of CallFromJson: the hash is set before the atoms are added.
CallFromJsonHashFirst == \E order \in Orders :
    /\ secret # NoSecret
    /\ source' = NoWallet /\ remainder' = NoWallet /\ secret' = NoSecret
    /\ atoms' = IF order = "reversed" THEN Reverse(atoms) ELSE atoms
    /\ isSigned' = FALSE /\ hash' = NoHash
    /\ UNCHANGED <<calls, touched>>

\* knishio_molecule_from_json of this molecule's JSON, its atoms listed in some
\* order: atoms, fragments, indexes and hash are the sender's; there is no
\* secret, no wallet and no signed mark.
CallFromJson == \E order \in Orders :
    /\ secret # NoSecret
    /\ source' = NoWallet /\ remainder' = NoWallet /\ secret' = NoSecret
    /\ atoms' = IF order = "reversed" THEN Reverse(atoms) ELSE atoms
    /\ isSigned' = FALSE
    /\ UNCHANGED <<hash, calls, touched>>

Next ==
    \/ CallInitMeta \/ CallInitAuthorization
    \/ CallInitTokenCreation \/ CallInitWalletCreation
    \/ CallInitShadowWalletClaim \/ CallInitReplenish
    \/ CallInitValue \/ CallInitValues
    \/ CallInitDepositBuffer \/ CallInitWithdrawBuffer
    \/ CallInitBurn \/ CallInitFuseToken
    \/ CallAddAtom \/ CallAtomAddMeta
    \/ CallGenerateHash \/ CallSign \/ CallFromJson

Spec == Init /\ [][Next]_vars

-----------------------------------------------------------------------------
(* Properties. *)

\* Types, and the molecule's limit: no sequence of builder and add_atom calls
\* takes a molecule past KNISHIO_MAX_ATOMS_PER_MOLECULE.
TypeOK ==
    /\ source \in Sources \cup {NoWallet}
    /\ remainder \in Remainders \cup {NoWallet}
    /\ secret \in Secrets \cup {NoSecret}
    /\ atoms \in Seq(AtomType)
    /\ Len(atoms) <= MaxAtoms
    /\ isSigned \in BOOLEAN /\ touched \in BOOLEAN

\* An atom's index is its place in the array for as long as the molecule is the
\* caller's own (a molecule read from JSON keeps its sender's indexes): the
\* order the hash is taken in and the order the fragments are joined in agree,
\* whatever builders ran, failed or hit the limit (add_atom, sign's qsort).
IndexIsPlace ==
    secret # NoSecret => \A i \in DOMAIN atoms : atoms[i].index = i - 1

\* The signed mark never outlives the content: unless an atom was given meta
\* behind the molecule's back, a signed molecule carries the hash of the atoms
\* it has now, whatever was added, refused at the limit or re-hashed since.
SignedIsCurrent ==
    isSigned /\ ~touched => hash = MolecularHash(atoms)

EncodingsUsed == {Fragments(atoms)[i].enc : i \in DOMAIN Fragments(atoms)}

\* The fragments of a signed molecule join to one whole signature over its
\* hash, for any number of atoms and any earlier signing in the same encoding:
\* no atom keeps a fragment of an earlier, differently cut signature.
\* (Signing once in hex and again in the shorter base64 form can leave some.)
SignedIsWhole ==
    isSigned /\ ~touched /\ Cardinality(EncodingsUsed) = 1 =>
        /\ IsWholeSignature(Fragments(atoms))
        /\ atoms[1].frag.msg = hash

OneBuilder == Len(calls) = 1 /\ calls[1].ok

\* Every builder, called once by a caller that pairs the wallets as the protocol
\* asks, yields a molecule that passes knishio_molecule_check once signed: no
\* builder emits what its own library then refuses to send.
BuilderPassesCheck ==
    /\ OneBuilder /\ calls[1].rules
    /\ isSigned /\ ~touched /\ Cardinality(EncodingsUsed) = 1
    => verdict = "SUCCESS"

BuiltBy(ops) == \A k \in DOMAIN calls : calls[k].op \in ops

ValueOps == {"value", "values", "deposit", "withdraw", "burn", "fuse"}

\* A molecule the value builders made, in any number of calls, half built or
\* cut off at the limit, passes the check only if no wallet but the signer's
\* is debited, each time by the signer's whole balance; and if the balance did
\* not fit an int, so that the debit is no number, only if it credits nobody.
PassingDebitsSigner ==
    verdict = "SUCCESS" /\ BuiltBy(ValueOps) =>
        \A i \in DOMAIN atoms :
            IF atoms[i].value = NotANumber
            THEN \A j \in DOMAIN atoms : Parsed(atoms[j].value) = 0
            ELSE atoms[i].value < 0 =>
                    /\ atoms[i].addr = atoms[1].addr
                    /\ source # NoWallet => atoms[i].value = -source.balance

\* Nothing that passes the check creates or destroys value, caller-made atoms,
\* half-built molecules and cross-isotope (B, F) molecules included.
PassingConserves ==
    verdict = "SUCCESS" => ValueSum(atoms, {"V", "B", "F"}) = 0

\* Fusing distinct units of a wallet whose balance is its number of units: the
\* units sent are the units fused, and each V credit and the new unit are worth
\* as many tokens as they carry units.
FusionBalances ==
    OneBuilder /\ calls[1].op = "fuse" /\ atoms # <<>>
        /\ source # NoWallet /\ source.balance = Len(source.units) =>
        /\ \A i \in 2 .. Len(atoms) : atoms[i].value = Len(atoms[i].units)
        /\ atoms[4].units \o atoms[1].units \in SetToSeqs(ToSet(source.units))

\* Value that goes somewhere comes out of the signer's wallet, whole, unit by unit.
BuildersBalance == FusionBalances /\ PassingDebitsSigner

\* A molecule whose JSON lists the atoms in another order than it was signed in
\* is not accepted: its hash still matches, its joined fragments do not.
ReorderedIsRefused ==
    ~InIndexOrder(atoms) => verdict # "SUCCESS"

\* Going through JSON in the same order changes no verdict.
VerdictSurvivesJson ==
    [][secret' # secret /\ atoms' = atoms => verdict' = verdict]_vars

-----------------------------------------------------------------------------
(* What the documentation says and the code does not always do. *)

\* transfer.h on several recipients: "a remainder returns the rest to the
\* sender". The remainder of a transfer that passes the check is at most what the
\* sender had. Neither init_values nor knishio_client_transfer_tokens_multi, which
\* calls it, looks at the amounts one by one.
RemainderIsRest ==
    verdict = "SUCCESS" /\ OneBuilder /\ calls[1].op = "values" =>
        atoms[Len(atoms)].value \in 0 .. source.balance

=============================================================================
