--------------------------- MODULE CheckMolecule ---------------------------
(***************************************************************************)
(* Atoms, the molecular hash, the distributed one-time signature, and the  *)
(* local verdict of libraries/check_molecule.c: the gate every high-level  *)
(* client operation passes a molecule through before it is sent.           *)
(*                                                                         *)
(* Cryptography is ideal: the hash of a molecule IS the hashed content of  *)
(* its atoms in index order, an address IS the key it is derived from, and *)
(* a signature is the pair of its key and the hash it was made over.       *)
(***************************************************************************)
EXTENDS Integers, FiniteSetsExt, SequencesExt

CONSTANTS
    SigLen      \* SigLen[version][encoding]: characters of a whole signature

CONSTANTS NoBatch, NoHash, NoFrag,
    NotANumber  \* a value string that does not parse

Encodings == {"hex", "base64"}

\* In both OTS versions a signature is some characters long, in either encoding.
ASSUME SigLenAssumption ==
    \A v \in 1 .. 2, enc \in Encodings : SigLen[v][enc] \in Nat /\ SigLen[v][enc] > 1

Isotopes == {"C", "V", "U", "T", "M", "I", "R", "L", "S", "B", "F"}

\* An address names the key it is derived from (owner's secret, token,
\* position, OTS version); burn targets and shadow recipients have none.
NoAddress == [owner |-> "", token |-> "", pos |-> "", ver |-> 0]

\* knishio_atom_create: index -1, no meta, no fragment.
NewAtom(iso, addr, token, value, batch) ==
    [iso |-> iso, addr |-> addr, token |-> token, value |-> value,
     batch |-> batch, bundle |-> "", meta |-> {}, units |-> <<>>,
     index |-> -1, frag |-> NoFrag]

\* The k-th of a set of places, and what s has at those places, in order.
Nth(I, k) == CHOOSE i \in I : Cardinality({j \in I : j <= i}) = k
At(s, I)  == [k \in 1 .. Cardinality(I) |-> s[Nth(I, k)]]

\* a is a record with the fields of an atom.
IsAtom(a) ==
    a = [iso |-> a.iso, addr |-> a.addr, token |-> a.token, value |-> a.value,
         batch |-> a.batch, bundle |-> a.bundle, meta |-> a.meta,
         units |-> a.units, index |-> a.index, frag |-> a.frag]

-----------------------------------------------------------------------------
(* The molecular hash. *)

\* What update_sponge_with_atom absorbs of an atom: neither the index nor the
\* fragment.
HashedPart(a) ==
    [iso |-> a.iso, addr |-> a.addr, token |-> a.token, value |-> a.value,
     batch |-> a.batch, bundle |-> a.bundle, meta |-> a.meta,
     units |-> a.units]

InIndexOrder(atoms) ==
    \A i, j \in DOMAIN atoms : i < j => atoms[i].index < atoms[j].index

\* qsort by compare_atoms_by_index, which leaves an ordered array alone.
SortByIndex(atoms) ==
    LET Before(i) == {j \in DOMAIN atoms :
                        \/ atoms[j].index < atoms[i].index
                        \/ atoms[j].index = atoms[i].index /\ j <= i}
    IN  IF InIndexOrder(atoms) THEN atoms
        ELSE [k \in DOMAIN atoms |->
                atoms[CHOOSE i \in DOMAIN atoms : Cardinality(Before(i)) = k]]

MolecularHash(atoms) ==
    LET sorted == SortByIndex(atoms)
    IN  [i \in DOMAIN sorted |-> HashedPart(sorted[i])]

-----------------------------------------------------------------------------
(* The one-time signature, spread over the atoms as fragments. *)

\* Mutant of Distribute: the chunk is rounded down.
DistributeFloor(atoms, key, hash, enc) ==
    LET len   == SigLen[key.ver][enc]
        chunk == len \div Len(atoms)
    IN  [i \in DOMAIN atoms |-> [atoms[i] EXCEPT !.frag =
            [key |-> key, msg |-> hash, enc |-> enc,
             from |-> (i - 1) * chunk + 1, to |-> i * chunk]]]

\* knishio_molecule_sign: atom i (from 0) receives characters i*chunk up to
\* (i+1)*chunk of the signature; an atom past its end keeps what it had.
Distribute(atoms, key, hash, enc) ==
    LET n     == Len(atoms)
        len   == SigLen[key.ver][enc]
        chunk == (len + n - 1) \div n
    IN  [i \in DOMAIN atoms |->
            IF (i - 1) * chunk >= len THEN atoms[i]
            ELSE [atoms[i] EXCEPT !.frag =
                    [key |-> key, msg |-> hash, enc |-> enc,
                     from |-> (i - 1) * chunk + 1,
                     to   |-> IF i * chunk <= len THEN i * chunk ELSE len]]]

\* Mutant of Fragments: joined in index order.
FragmentsByIndex(atoms) ==
    LET sorted  == SortByIndex(atoms)
        present == At(sorted, {i \in DOMAIN sorted : sorted[i].frag # NoFrag})
    IN  [i \in DOMAIN present |-> present[i].frag]

Fragments(atoms) ==
    LET present == At(atoms, {i \in DOMAIN atoms : atoms[i].frag # NoFrag})
    IN  [i \in DOMAIN present |-> present[i].frag]

\* The concatenated fragments, in array order, are one whole signature.
IsWholeSignature(fs) ==
    /\ fs # <<>>
    /\ \A i \in DOMAIN fs : /\ fs[i].key = fs[1].key
                            /\ fs[i].msg = fs[1].msg
                            /\ fs[i].enc = fs[1].enc
    /\ fs[1].from = 1
    /\ \A i \in 1 .. Len(fs) - 1 : fs[i + 1].from = fs[i].to + 1
    /\ fs[Len(fs)].to = SigLen[fs[1].key.ver][fs[1].enc]

\* check_ots: advance the chains by 8 + n and compare the address they reach
\* with the one the first atom of the array claims. Chains started 8 - n over
\* another hash, or from another key, reach another address.
OtsError(atoms, hash) ==
    LET fs == Fragments(atoms)
    IN  IF ~IsWholeSignature(fs) THEN "SIGNATURE_MALFORMED"
        ELSE IF fs[1].msg = hash /\ fs[1].key = atoms[1].addr THEN "SUCCESS"
        ELSE "SIGNATURE_MISMATCH"

-----------------------------------------------------------------------------
(* The structural checks. *)

OfIsotope(atoms, isos) == {i \in DOMAIN atoms : atoms[i].iso \in isos}

\* atof reads a string that does not parse as 0; strtold tells it apart.
Parsed(value) == IF value = NotANumber THEN 0 ELSE value

ValueSum(atoms, isos) ==
    SumFunctionOnSet([i \in DOMAIN atoms |-> Parsed(atoms[i].value)],
                     OfIsotope(atoms, isos))

\* check_batch_id: only when a V atom with a batch id signs.
BatchIdOk(atoms) ==
    (atoms[1].iso = "V" /\ atoms[1].batch # NoBatch) =>
        LET vs == OfIsotope(atoms, {"V"})
        IN  /\ atoms[Max(vs)].batch = atoms[1].batch
            /\ \A i \in vs : atoms[i].batch # NoBatch

\* check_continuid
ContinuIdOk(atoms) ==
    atoms[1].token = "USER" => OfIsotope(atoms, {"I"}) # {}

\* check_isotope_m
IsotopeMOk(atoms) ==
    \A i \in OfIsotope(atoms, {"M"}) :
        atoms[i].meta # {} /\ atoms[i].token = "USER"

\* check_isotope_t, _c, _u and _i
IsotopeTOk(atoms) ==
    \A i \in OfIsotope(atoms, {"T"}) : atoms[i].token = "USER" /\ atoms[i].index = 0

IsotopeCOk(atoms) ==
    \A i \in OfIsotope(atoms, {"C"}) : atoms[i].token = "USER" /\ atoms[i].index = 0

IsotopeUOk(atoms) ==
    \A i \in OfIsotope(atoms, {"U"}) :
        atoms[i].token \in {"AUTH", "USER"} /\ atoms[i].index = 0

IsotopeIOk(atoms) ==
    \A i \in OfIsotope(atoms, {"I"}) : atoms[i].token = "USER" /\ atoms[i].index # 0

\* All four; check_isotope_r never fails.
IsotopeTCUIOk(atoms) ==
    IsotopeTOk(atoms) /\ IsotopeCOk(atoms) /\ IsotopeUOk(atoms) /\ IsotopeIOk(atoms)

\* Mutant of IsotopeVError: the V-only sum, with no cross-isotope delegate.
IsotopeVErrorNoDelegate(atoms) ==
    IF ValueSum(atoms, {"V"}) = 0 THEN "SUCCESS" ELSE "TRANSFER_UNBALANCED"

\* check_isotope_v and the cross-isotope delegate (no sender wallet is given
\* by knishio_client_submit_molecule). A B or F atom needs walletBundle meta;
\* then V, B and F values together sum to zero; without B or F the V values do.
IsotopeVError(atoms) ==
    LET cross == OfIsotope(atoms, {"B", "F"})
        bare  == {i \in cross : atoms[i].bundle = ""}
        wrong == {i \in OfIsotope(atoms, {"V", "B", "F"}) :
                    \/ atoms[i].value = NotANumber
                    \/ atoms[i].iso = "F" /\ Parsed(atoms[i].value) < 0}
    IN  IF cross = {}
        THEN IF ValueSum(atoms, {"V"}) = 0 THEN "SUCCESS"
             ELSE "TRANSFER_UNBALANCED"
        ELSE IF bare # {} /\ \A i \in wrong : Min(bare) <= i
        THEN "META_MISSING"
        ELSE IF wrong = {} /\ ValueSum(atoms, {"V", "B", "F"}) = 0
        THEN "SUCCESS"
        ELSE "TRANSFER_UNBALANCED"

\* check_token_consistency: V atoms only.
TokenOk(atoms) ==
    \A i \in OfIsotope(atoms, {"V"}) : atoms[i].token = atoms[1].token

\* knishio_molecule_check: the first failing check names the error.
Check(atoms, hash) ==
    CASE atoms = <<>>                   -> "ATOMS_MISSING"
      [] atoms # <<>> /\ hash = NoHash  -> "MOLECULAR_HASH_MISSING"
      [] OTHER ->
         IF hash # MolecularHash(atoms) THEN "MOLECULAR_HASH_MISMATCH"
         ELSE IF OtsError(atoms, hash) # "SUCCESS" THEN OtsError(atoms, hash)
         ELSE IF ~BatchIdOk(atoms)      THEN "BATCH_ID"
         ELSE IF ~ContinuIdOk(atoms)    THEN "ATOMS_MISSING"
         ELSE IF ~IsotopeMOk(atoms)     THEN "META_MISSING"
         ELSE IF ~IsotopeTCUIOk(atoms)  THEN "INVALID_STATE"
         ELSE IF IsotopeVError(atoms) # "SUCCESS" THEN IsotopeVError(atoms)
         ELSE IF ~TokenOk(atoms)        THEN "TRANSFER_MISMATCHED"
         ELSE "SUCCESS"

=============================================================================
