------------------------------ MODULE AtomForms ------------------------------
(***************************************************************************)
(* The forms of an atom: the structure (atom.c), the client's JSON of it   *)
(* (knishio_atom_to_json and _from_json), the form a validator serves it   *)
(* in (served_molecule.c), and the two texts a molecular hash is made of.  *)
(* A hash is the text it is made of; texts differ as whole texts. Position *)
(* stands for the wallet address too, metaType for metaId.                 *)
(***************************************************************************)
EXTENDS Calls, Integers, Sequences, SequencesExt

\* knishio_atom_t; created in milliseconds. A meta pair may lack its value.
Optional(text) == {Missing, "", text}
AtomVersions == {Missing, "1", "3", "4"}
Metas(n) == {<<>>} \cup [1..n -> [key : {"k"}, value : Optional("x")]]
AtomStructs == [position : {"", "p"}, token : {"T"}, value : Optional("5"),
                batchId : Optional("b"), metaType : Optional("m"), meta : Metas(1),
                created : {1000, 1001}, index : {1}, version : AtomVersions]

Refusal == [error |-> "INVALID_JSON"]

-----------------------------------------------------------------------------
(* What is hashed. *)

\* compare_atoms_by_index
ByIndex(atoms) == SortSeq(atoms, LAMBDA a, b : a.index < b.index)

\* A text that is NULL or empty adds nothing to the sponge.
Absorbed(texts) == SelectSeq(texts, LAMBDA t : t \notin {Missing, ""})

\* update_sponge_with_atom: texts one after another, a meta pair without a value not
\* at all. `created` is what snprintf makes of it.
LegacyPart(a, n) ==
    LET pairs == FoldLeft(LAMBDA s, m : IF m.value = Missing THEN s ELSE s \o <<m.key, m.value>>,
                          <<>>, a.meta)
    IN Absorbed(<<ToString(n), a.position, a.token, a.value, a.batchId, a.metaType>> \o pairs
                \o <<ToString(a.created)>>)

\* atom_version4_view: every field with its name, NULL for a missing one.
Version4View(a) == a

\* knishio_molecule_generate_hash: the view if every atom has a version.
HashedText(atoms) ==
    LET sorted == ByIndex(atoms) IN
    IF \A i \in DOMAIN sorted : sorted[i].version # Missing
    THEN [i \in DOMAIN sorted |-> Version4View(sorted[i])]
    ELSE FlattenSeq([i \in DOMAIN sorted |-> LegacyPart(sorted[i], Len(atoms))])

-----------------------------------------------------------------------------
(* The client's JSON. *)

NullIfEmpty(text) == IF text = "" THEN Missing ELSE text

\* knishio_atom_to_json; created as milliseconds.
AtomToJson(a) ==
    [a EXCEPT !.value = NullIfEmpty(@), !.batchId = NullIfEmpty(@), !.metaType = NullIfEmpty(@)]

\* knishio_atom_from_cjson: a token there must be, and a key for every meta; a null meta
\* value stays only where there is a version.
AtomFromJson(j) ==
    IF j.token = Missing \/ (\E m \in ToSet(j.meta) : m.key = Missing) THEN Refusal
    ELSE [j EXCEPT !.position = IF @ = Missing THEN "" ELSE @,
                   !.meta = IF j.version # Missing THEN @
                            ELSE SelectSeq(@, LAMBDA m : m.value # Missing)]

-----------------------------------------------------------------------------
(* The served form. *)

\* What a validator, which is external, serves of an atom: with its version or
\* without, an absent text as null or as "", the time as an RFC 3339 text, as a number,
\* or as digits, which all say the milliseconds.
ServedAtom(a, withVersion, absent, time) ==
    LET Text(t) == IF t = Missing THEN absent ELSE t IN
    [position |-> Text(a.position), tokenSlug |-> Text(a.token), value |-> a.value,
     batchId |-> Text(a.batchId), metaType |-> Text(a.metaType), metasJson |-> a.meta,
     createdAt |-> [as |-> time, ms |-> a.created], index |-> a.index,
     version |-> IF withVersion THEN a.version ELSE Missing]

\* build_served_atom
BuildServedAtom(s, override) ==
    IF s.createdAt.as = "other" THEN Refusal
    ELSE [position |-> IF s.position = Missing THEN "" ELSE s.position,
          token |-> NullIfEmpty(s.tokenSlug), value |-> s.value,
          batchId |-> NullIfEmpty(s.batchId), metaType |-> NullIfEmpty(s.metaType),
          meta |-> s.metasJson, created |-> s.createdAt.ms, index |-> s.index,
          version |-> IF override # Missing THEN override ELSE s.version]

\* build_served_molecule: add_atom numbers the atoms as they come, and each gets the
\* served index back.
BuildServedMolecule(served, override) ==
    LET built == [i \in DOMAIN served |-> BuildServedAtom(served[i], override)] IN
    IF \E i \in DOMAIN built : built[i] = Refusal THEN <<>> ELSE built

\* verify_once, as far as the hash; the rest of the check is in CheckMolecule.
HashMatches(served, override, hash) ==
    LET built == BuildServedMolecule(served, override) IN
    built # <<>> /\ HashedText(built) = hash

\* Mutant of VerifyServed: version "3" is not tried.
VerifyServed4(served, hash) ==
    \/ HashMatches(served, Missing, hash)
    \/ /\ \A i \in DOMAIN served : served[i].version = Missing
       /\ HashMatches(served, "4", hash)

\* knishio_verify_from_server_data: versions are tried where none is served.
VerifyServed(served, hash) ==
    \/ HashMatches(served, Missing, hash)
    \/ /\ \A i \in DOMAIN served : served[i].version = Missing
       /\ \E version \in {"4", "3"} : HashMatches(served, version, hash)

-----------------------------------------------------------------------------
(* Calls. *)

\* A second atom of every version, after the one in question.
Second(version) ==
    [position |-> "p", token |-> "T", value |-> Missing, batchId |-> Missing,
     metaType |-> "m", meta |-> <<[key |-> "k", value |-> "y"]>>, created |-> 1000,
     index |-> 2, version |-> version]

WriteAndRead ==
    Quiet /\ \E a \in AtomStructs, version \in AtomVersions :
        LET atoms == <<a, Second(version)>> IN
        Made([fn |-> "json", atoms |-> atoms,
              again |-> [i \in 1..2 |-> AtomFromJson(AtomToJson(atoms[i]))]])

\* What may have been changed between the signer and the reader.
Changes(s) ==
    {s, [s EXCEPT !.value = "6"], [s EXCEPT !.tokenSlug = "U"], [s EXCEPT !.createdAt.ms = 1002],
     [s EXCEPT !.metasJson = <<[key |-> "k", value |-> "z"]>>],
     [s EXCEPT !.version = "3"]}

\* Molecules signed with no versions or one, served in either order.
VerifyServedMolecule ==
    Quiet /\ \E a \in {b \in AtomStructs : b.metaType # "" /\ b.position # ""},
                withVersion, swapped \in BOOLEAN, absent \in {Missing, ""},
                time \in {"text", "other"} :
        LET atoms  == <<a, Second(a.version)>>
            first  == ServedAtom(a, withVersion, absent, time)
            second == ServedAtom(Second(a.version), withVersion, absent, "text")
        IN \E s \in Changes(first) :
            Made([fn |-> "served", atoms |-> atoms, faithful |-> s = first,
                  withVersion |-> withVersion, time |-> time,
                  reversioned |-> s = [first EXCEPT !.version = s.version],
                  verified |-> VerifyServed(IF swapped THEN <<second, s>> ELSE <<s, second>>,
                                        HashedText(atoms))])

AtomFormsNext == WriteAndRead \/ VerifyServedMolecule

-----------------------------------------------------------------------------
(* Properties. *)

\* The hash of a molecule names empty texts only if every atom has a version.
EmptyTextNamed(atoms) ==
    /\ \A i \in DOMAIN atoms : atoms[i].version # Missing
    /\ \E i \in DOMAIN atoms : "" \in {atoms[i].value, atoms[i].batchId, atoms[i].metaType}

\* A signed molecule that goes through the client's JSON keeps its hash, whatever is
\* missing, empty or null in it and whichever atoms have versions ("a molecule signed at
\* any millisecond verifies", atom.c:690). The exception is an empty text under a
\* version, which is written as null.
JsonKeepsHash ==
    call.fn = "json" =>
        \/ EmptyTextNamed(call.atoms)
        \/ /\ Refusal \notin ToSet(call.again)
           /\ HashedText(call.again) = HashedText(call.atoms)

\* What a validator serves of a molecule verifies, with the versions of its atoms or,
\* for the versions 3 and 4 that clients sign with, without, in whatever order and form
\* ("Verify a molecule exactly as a validator's GraphQL API serves it").
ServedVerifies ==
    call.fn = "served" /\ call.faithful /\ call.time = "text"
        /\ ~EmptyTextNamed(call.atoms)
        /\ (call.withVersion \/ call.atoms[1].version \in {Missing, "3", "4"})
    => call.verified

\* And nothing else does: with another value, token, time or meta, in an unreadable
\* form or as of another version it is refused, whichever versions are tried.
ChangedIsRefused ==
    call.fn = "served" /\ call.verified =>
        /\ call.time = "text"
        /\ \/ call.faithful
           \/ call.reversioned /\ call.atoms[1].version = Missing

\* A molecule verifies in every form it is written, served and read in, and only as it
\* was signed.
FormsKeepHash == JsonKeepsHash /\ ServedVerifies /\ ChangedIsRefused

=============================================================================
