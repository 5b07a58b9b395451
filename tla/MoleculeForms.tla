---------------------------- MODULE MoleculeForms ----------------------------
(***************************************************************************)
(* What else is written of atoms, metas and molecules: the form of an atom *)
(* as a JSON value and arrays of atoms (json/serializers.c), the text of   *)
(* an array of metas (meta.c), the text of a molecule (molecule.c), and    *)
(* the letters of isotopes (atom.c). The last two texts are put together   *)
(* in buffers of a size guessed beforehand: a text is its length here.     *)
(***************************************************************************)
EXTENDS AtomForms

CONSTANTS
    ItemSize,       \* of the buffer one meta is formatted in (512)
    ItemFrame,      \* length of {"key":"","value":""}
    MetaLengths     \* of the texts of a meta

ASSUME ItemAssumption == ItemFrame < ItemSize /\ MetaLengths \subseteq Nat

-----------------------------------------------------------------------------
(* Atoms as JSON values. *)

\* knishio_atom_to_json_obj: a text that is there is written even when it is empty; the
\* time is written in seconds, if it is not 0; of a meta only an empty object.
AtomToJsonObj(a) ==
    [a EXCEPT !.meta = [i \in DOMAIN @ |-> [key |-> Missing, value |-> Missing]],
              !.created = @ \div 1000]

\* knishio_json_parse_atom_array: the atoms read so far are freed when one does not parse.
ParseAtomArray(js) ==
    LET read == [i \in DOMAIN js |-> AtomFromJson(js[i])]
    IN IF \E i \in DOMAIN read : read[i] = Refusal THEN <<>> ELSE read

\* knishio_json_create_atom_array; the other writer is knishio_atom_to_json.
CreateAtomArray(atoms) == [i \in DOMAIN atoms |-> AtomToJsonObj(atoms[i])]

-----------------------------------------------------------------------------
(* Texts of metas. A meta is the lengths of its key and value. *)

ItemLength(m) == ItemFrame + m.key + m.value

\* knishio_meta_array_to_json: a comma before each but the first; nothing for a meta that
\* lacks its value, as much as fits the buffer for a long one. Nothing is escaped.
MetaArrayToJson(metas) ==
    [i \in DOMAIN metas |->
        IF metas[i].value = Missing THEN "nothing"
        ELSE IF ItemLength(metas[i]) > ItemSize - 1 THEN "cut" ELSE "whole"]

\* knishio_meta_validate, of an array of metas
Validated(metas) == \A i \in DOMAIN metas : metas[i].value # Missing

\* A JSON parser, which is external, reads the whole items, or nothing at all.
ItemsRead(items) ==
    IF items = <<"nothing">> THEN {} ELSE
    IF \E i \in DOMAIN items : items[i] # "whole" THEN Missing ELSE DOMAIN items

-----------------------------------------------------------------------------
(* The text of a molecule, in KiB. *)

BaseSize == 16
AtomSize == 8

\* The molecule's own fields and its wallets; the signature, in hex, which the atoms carry
\* in equal parts: 2 for OTS v1, 8 for v2.
OwnText == 3
SignatureTexts == {0, 2, 8}

\* snprintf and strncat, to what is left of the buffer.
Appended(b, length) ==
    IF b.length + length < b.room THEN [b EXCEPT !.length = @ + length]
    ELSE [b EXCEPT !.length = b.room - 1, !.whole = FALSE]

\* knishio_molecule_to_json
MoleculeToJson(texts, signature) ==
    FoldLeft(Appended, [length |-> 0, room |-> BaseSize + AtomSize * Len(texts), whole |-> TRUE],
             <<OwnText, signature>> \o texts)

-----------------------------------------------------------------------------
(* Isotopes. *)

\* isotope_strings
IsotopeStrings == <<"V", "C", "M", "U", "I", "R", "T", "L", "S", "F", "B">>

\* knishio_isotope_to_string and _from_string
IsotopeToString(n) == IF n \in DOMAIN IsotopeStrings THEN IsotopeStrings[n] ELSE Missing
IsotopeFromString(text) == SelectInSeq(IsotopeStrings, LAMBDA s : s = text)

\* knishio_atom_is_valid_for_isotope, which knows neither F nor B
IsValidForIsotope(a, isotope) ==
    CASE isotope = "V" -> a.value # Missing
      [] isotope = "M" -> a.metaType # Missing
      [] OTHER -> isotope \in {"C", "R", "U", "I", "T", "L", "S"}

-----------------------------------------------------------------------------
(* Calls. *)

Plain == {a \in AtomStructs : a.value # "" /\ a.batchId = Missing /\ a.created = 1000}

WriteAtomArray ==
    Quiet /\ \E a \in Plain, b \in {Second(v) : v \in AtomVersions}, form \in {"json", "obj"} :
        Made([fn |-> "array", atoms |-> <<a, b>>, form |-> form,
              read |-> ParseAtomArray(IF form = "obj" THEN CreateAtomArray(<<a, b>>)
                                      ELSE <<AtomToJson(a), AtomToJson(b)>>)])

WriteMetas ==
    Quiet /\ \E metas \in SeqOf([key : MetaLengths, value : MetaLengths \cup {Missing}], 2) :
        Made([fn |-> "metas", metas |-> metas, read |-> ItemsRead(MetaArrayToJson(metas))])

\* Atoms of any size up to the estimate.
WriteMolecule ==
    Quiet /\ \E n \in 1..3, signature \in SignatureTexts : \E texts \in [1..n -> {1, 4, AtomSize}] :
        Made([fn |-> "molecule", texts |-> texts, signature |-> signature,
              json |-> MoleculeToJson(texts, signature)])

NameIsotope ==
    Quiet /\ \E n \in 1..11, a \in Plain :
        Made([fn |-> "isotope", n |-> n, text |-> IsotopeToString(n),
              again |-> IsotopeFromString(IsotopeToString(n)),
              valid |-> IsValidForIsotope(a, IsotopeToString(n))])

MoleculeFormsNext == WriteAtomArray \/ WriteMetas \/ WriteMolecule \/ NameIsotope

-----------------------------------------------------------------------------
(* Properties. *)

\* An array of atoms is read back atom by atom, or not at all: never shorter, never with
\* an atom that has lost its metas ("dropping an atom that does not parse would hand back
\* a shorter array that still looks complete", serializers.c:303).
ArraysAreWhole ==
    call.fn = "array" =>
        /\ Len(call.read) \in {0, Len(call.atoms)}
        /\ \A i \in DOMAIN call.read :
            Len(call.read[i].meta) = 0 \/ call.read[i].meta = SelectSeq(call.atoms[i].meta,
                LAMBDA m : m.value # Missing \/ call.atoms[i].version # Missing)
        /\ call.form = "json" => Len(call.read) = 2

\* Metas whose items fit their buffer are read back; the others make the text unreadable,
\* and are never read as fewer, unless they do not validate.
MetasAreRead ==
    call.fn = "metas" =>
        /\ call.read \in {Missing, DOMAIN call.metas} \/ ~Validated(call.metas)
        /\ Validated(call.metas) /\ (\A i \in DOMAIN call.metas : ItemLength(call.metas[i]) < ItemSize)
            => call.read = DOMAIN call.metas

\* A molecule is written whole, signed either way, as long as no atom has more than the
\* estimate of its own text ("a fixed 8192 truncated any molecule with a pubkey I-atom,
\* producing malformed JSON", molecule.c:882).
MoleculeIsWhole == call.fn = "molecule" => call.json.whole

\* Every isotope has a letter of its own, by which it is read back ("Nothing failed loudly
\* - the data just went missing", atom.c:40).
IsotopesAreNamed == call.fn = "isotope" => call.text # Missing /\ call.again = call.n

MoleculeFormsHold == ArraysAreWhole /\ MetasAreRead /\ MoleculeIsWhole /\ IsotopesAreNamed

=============================================================================
