---------------------------- MODULE MoleculeParts ----------------------------
(***************************************************************************)
(* What a molecule is made of, as memory: metas and arrays of them         *)
(* (meta.c), atoms (atom.c) and the molecule (molecule.c). Each is some    *)
(* allocations, any of which may fail. An atom and an array point to metas *)
(* and a molecule points to atoms; the caller of the builders owns them    *)
(* all, and frees each once: by itself, with its array or, by the _deep    *)
(* functions, with the atom or the molecule that points to it.             *)
(***************************************************************************)
EXTENDS Calls, Integers, Sequences, FiniteSets, FiniteSetsExt, SequencesExt

CONSTANTS
    MetaIds, AtomIds,   \* allocations of knishio_meta_t, of knishio_atom_t
    FirstCapacity,      \* of an array of metas (4) and of a molecule's atoms (8)
    MaxAtoms            \* KNISHIO_MAX_ATOMS_PER_MOLECULE

ASSUME CapacityAssumption == FirstCapacity \in Nat \ {0} /\ MaxAtoms \in Nat \ {0}

\* What each of them is, when there is one.
MetaStructs == SUBSET {"key", "value"}
MetaArrays == [items : Seq(MetaIds), capacity : Nat]
AtomRecords == [strings : {0, 1}, array : {0, 1}, meta : Seq(MetaIds), index : Int]
MoleculeStructs == [strings : Int, atoms : Seq(AtomIds), capacity : Nat, hash : Seq(AtomIds) \cup {Missing}]

ASSUME PartsAssumption ==
    /\ \A m \in MetaStructs : m # Missing
    /\ Missing \notin MetaArrays /\ Missing \notin AtomRecords /\ Missing \notin MoleculeStructs

VARIABLES
    meta,       \* meta[k]: which of its strings it has, or Missing
    list,       \* a knishio_meta_array_t: items and capacity, or Missing
    atom,       \* atom[a]: its strings, its metas, whether it has an array of them, its index
    molecule,   \* its strings, atoms, capacity and hash, or Missing
    blocks      \* allocations made for them and not freed

partVars == <<meta, list, atom, molecule, blocks>>

PartsInit ==
    /\ meta = [k \in MetaIds |-> Missing] /\ list = Missing
    /\ atom = [a \in AtomIds |-> Missing] /\ molecule = Missing
    /\ blocks = 0

\* What the free functions release: the strings there are, the array if there is one, and
\* the structure (free_string_field; knishio_meta_free, _array_free, _atom_free, _molecule_free).
MetaBlocks(m) == 1 + Cardinality({s \in {"key", "value"} : s \in m})
ListBlocks == 2
AtomBlocks(a) == 1 + a.strings + a.array
MoleculeBlocks(m) == 2 + m.strings
AllMetaBlocks(ks) == SumFunctionOnSet([k \in ks |-> MetaBlocks(meta[k])], ks)

\* Mutant of DeepBlocks: the metas of an atom stay behind.
DeepBlocksOfAtom(a) == AtomBlocks(atom[a])

DeepBlocks(a) == AtomBlocks(atom[a]) + AllMetaBlocks(ToSet(atom[a].meta))

Alive(things) == {x \in DOMAIN things : things[x] # Missing}

\* What points to a thing.
ListedMetas == IF list = Missing THEN {} ELSE ToSet(list.items)
AtomMetas(as) == UNION {ToSet(atom[a].meta) : a \in as}
HeldMetas == ListedMetas \cup AtomMetas(Alive(atom))
HeldAtoms == IF molecule = Missing THEN {} ELSE ToSet(molecule.atoms)
LooseMetas == Alive(meta) \ HeldMetas
FreeForAtoms == Alive(meta) \ AtomMetas(Alive(atom))
LooseAtoms == Alive(atom) \ HeldAtoms

Without(things, gone) == [x \in DOMAIN things |-> IF x \in gone THEN Missing ELSE things[x]]

-----------------------------------------------------------------------------
(* Metas and arrays of metas. got is how many allocations succeed. *)

\* The structure, the key, the value, in the order they are allocated.
MetaOf(got) == {s \in {"key", "value"} : got > (IF s = "key" THEN 1 ELSE 2)}

\* knishio_meta_create: what a failure leaves is freed.
CreateMeta(k) ==
    /\ meta[k] = Missing
    /\ \E got \in 0..3 :
        IF got = 3 THEN meta' = [meta EXCEPT ![k] = MetaOf(3)] /\ blocks' = blocks + 3
        ELSE /\ blocks' = blocks + got - (IF got = 0 THEN 0 ELSE MetaBlocks(MetaOf(got)))
             /\ UNCHANGED meta
    /\ UNCHANGED <<list, atom, molecule>>

\* knishio_meta_set_value: the old value is gone whether or not there is a new one.
SetValue(k) ==
    /\ meta[k] # Missing
    /\ \E ok \in BOOLEAN :
        /\ meta' = [meta EXCEPT ![k] = IF ok THEN @ \cup {"value"} ELSE @ \ {"value"}]
        /\ blocks' = blocks - MetaBlocks(meta[k]) + MetaBlocks(meta'[k])
    /\ UNCHANGED <<list, atom, molecule>>

\* knishio_meta_free, of a meta that is the caller's own.
FreeMeta(k) ==
    /\ k \in LooseMetas
    /\ meta' = Without(meta, {k}) /\ blocks' = blocks - MetaBlocks(meta[k])
    /\ UNCHANGED <<list, atom, molecule>>

\* knishio_meta_array_create
CreateList ==
    /\ list = Missing
    /\ list' = [items |-> <<>>, capacity |-> FirstCapacity] /\ blocks' = blocks + ListBlocks
    /\ UNCHANGED <<meta, atom, molecule>>

\* resize_meta_array (meta.c), which may fail; resize_atoms_array, up to the limit.
Resized(items, capacity) == IF Len(items) < capacity THEN capacity ELSE capacity * 2
ResizedTo(items, capacity, most) ==
    IF Resized(items, capacity) > most THEN most ELSE Resized(items, capacity)

\* knishio_meta_array_add
AddToList(k) ==
    /\ list # Missing /\ k \in Alive(meta) \ ListedMetas
    /\ list' = [items |-> Append(list.items, k), capacity |-> Resized(list.items, list.capacity)]
    /\ UNCHANGED <<meta, atom, molecule, blocks>>

\* knishio_meta_array_free, with the items when no atom points to them.
FreeList(items) ==
    /\ list # Missing /\ (items => ListedMetas \cap AtomMetas(Alive(atom)) = {})
    /\ list' = Missing
    /\ meta' = IF items THEN Without(meta, ToSet(list.items)) ELSE meta
    /\ blocks' = blocks - ListBlocks - (IF items THEN AllMetaBlocks(ToSet(list.items)) ELSE 0)
    /\ UNCHANGED <<atom, molecule>>

-----------------------------------------------------------------------------
(* Atoms. Its strings stand for what an atom has of them. *)

\* After got allocations: the structure, the strings, the array if there are metas.
AtomOf(got, metas) ==
    [strings |-> IF got = 1 THEN 0 ELSE 1, array |-> IF got = 3 THEN 1 ELSE 0,
     meta |-> IF got = 3 THEN metas ELSE <<>>, index |-> -1]

\* knishio_atom_create_with_meta, whose metas stay the caller's.
CreateAtom(a, metas) ==
    /\ atom[a] = Missing
    /\ LET whole == IF metas = <<>> THEN 2 ELSE 3 IN
       \E got \in 0..whole :
        IF got = whole
        THEN atom' = [atom EXCEPT ![a] = AtomOf(whole, metas)] /\ blocks' = blocks + whole
        ELSE /\ blocks' = blocks + got - (IF got = 0 THEN 0 ELSE AtomBlocks(AtomOf(got, metas)))
             /\ UNCHANGED atom
    /\ UNCHANGED <<meta, list, molecule>>

\* knishio_atom_add_meta: an array of one, or the array with room for one more.
AddMeta(a, k) ==
    /\ atom[a] # Missing /\ k \in FreeForAtoms
    /\ atom' = [atom EXCEPT ![a].meta = Append(@, k), ![a].array = 1]
    /\ blocks' = IF atom[a].meta = <<>> THEN blocks + 1 ELSE blocks
    /\ UNCHANGED <<meta, list, molecule>>

\* knishio_atom_free leaves the metas to the caller.
FreeAtom(a) ==
    /\ a \in LooseAtoms
    /\ atom' = Without(atom, {a}) /\ blocks' = blocks - AtomBlocks(atom[a])
    /\ UNCHANGED <<meta, list, molecule>>

\* knishio_atom_free_deep
FreeAtomDeep(a) ==
    /\ a \in LooseAtoms /\ ListedMetas \cap AtomMetas({a}) = {}
    /\ atom' = Without(atom, {a}) /\ meta' = Without(meta, ToSet(atom[a].meta))
    /\ blocks' = blocks - DeepBlocks(a)
    /\ UNCHANGED <<list, molecule>>

-----------------------------------------------------------------------------
(* Molecules. *)

\* knishio_molecule_create; a failure of its last strings frees what there is.
CreateMolecule ==
    /\ molecule = Missing
    /\ \E got \in {2, 3} :
        IF got = 3
        THEN /\ molecule' = [strings |-> 1, atoms |-> <<>>, capacity |-> FirstCapacity,
                             hash |-> Missing]
             /\ blocks' = blocks + 3
        ELSE blocks' = blocks + got - MoleculeBlocks([strings |-> 0]) /\ UNCHANGED molecule
    /\ UNCHANGED <<meta, list, atom>>

\* knishio_molecule_add_atom: the atom is numbered, and there is no hash any more. At the
\* limit, or when there is no memory, nothing changes.
AddAtom(a) ==
    /\ molecule # Missing /\ a \in LooseAtoms
    /\ Len(molecule.atoms) < ResizedTo(molecule.atoms, molecule.capacity, MaxAtoms)
    /\ molecule' = [molecule EXCEPT !.atoms = Append(@, a), !.hash = Missing,
                                    !.strings = IF molecule.hash = Missing THEN @ ELSE @ - 1,
                                    !.capacity = ResizedTo(molecule.atoms, @, MaxAtoms)]
    /\ atom' = [atom EXCEPT ![a].index = Len(molecule.atoms)]
    /\ blocks' = IF molecule.hash = Missing THEN blocks ELSE blocks - 1
    /\ UNCHANGED <<meta, list>>

\* knishio_molecule_generate_hash, as far as memory goes.
HashMolecule ==
    /\ molecule # Missing /\ molecule.atoms # <<>>
    /\ molecule' = [molecule EXCEPT !.hash = molecule.atoms,
                                    !.strings = IF molecule.hash = Missing THEN @ + 1 ELSE @]
    /\ blocks' = IF molecule.hash = Missing THEN blocks + 1 ELSE blocks
    /\ UNCHANGED <<meta, list, atom>>

\* knishio_molecule_free leaves the atoms to the caller.
FreeMolecule ==
    /\ molecule # Missing
    /\ molecule' = Missing /\ blocks' = blocks - MoleculeBlocks(molecule)
    /\ UNCHANGED <<meta, list, atom>>

\* knishio_molecule_free_deep
FreeMoleculeDeep ==
    /\ molecule # Missing /\ ListedMetas \cap AtomMetas(HeldAtoms) = {}
    /\ molecule' = Missing
    /\ atom' = Without(atom, HeldAtoms)
    /\ meta' = Without(meta, AtomMetas(HeldAtoms))
    /\ blocks' = blocks - MoleculeBlocks(molecule) - SumFunctionOnSet([a \in HeldAtoms |-> DeepBlocks(a)], HeldAtoms)
    /\ UNCHANGED list

PartsNext ==
    \/ \E k \in MetaIds : CreateMeta(k) \/ SetValue(k) \/ FreeMeta(k) \/ AddToList(k)
    \/ CreateList \/ \E items \in BOOLEAN : FreeList(items)
    \/ \E a \in AtomIds :
        \/ FreeAtom(a) \/ FreeAtomDeep(a) \/ AddAtom(a)
        \/ \E metas \in {<<>>} \cup {<<k>> : k \in FreeForAtoms} : CreateAtom(a, metas)
        \/ \E k \in MetaIds : AddMeta(a, k)
    \/ CreateMolecule \/ HashMolecule \/ FreeMolecule \/ FreeMoleculeDeep

PartSpec == PartsInit /\ [][PartsNext]_partVars

-----------------------------------------------------------------------------
(* Properties. *)

\* After any order of building, failing and freeing, whichever of the two free functions
\* is used for what: nothing is leaked or freed twice, and no array points to what is gone.
PartsAreOwned ==
    /\ blocks = AllMetaBlocks(Alive(meta)) + (IF list = Missing THEN 0 ELSE ListBlocks)
                + SumFunctionOnSet([a \in Alive(atom) |-> AtomBlocks(atom[a])], Alive(atom))
                + (IF molecule = Missing THEN 0 ELSE MoleculeBlocks(molecule))
    /\ HeldMetas \subseteq Alive(meta) /\ HeldAtoms \subseteq Alive(atom)

\* The atoms of a molecule are numbered in their order and fit its array, and a hash it has
\* is of the atoms it has ("Adding an atom resets the molecular hash", molecule.h:129).
MoleculeIsNumbered ==
    molecule # Missing =>
        /\ \A i \in DOMAIN molecule.atoms : atom[molecule.atoms[i]].index = i - 1
        /\ Len(molecule.atoms) <= molecule.capacity /\ Len(molecule.atoms) <= MaxAtoms
        /\ molecule.hash \in {Missing, molecule.atoms}

PartsAreSound == PartsAreOwned /\ MoleculeIsNumbered

=============================================================================
