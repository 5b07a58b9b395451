---------------------------- MODULE SecretRecords ----------------------------
(***************************************************************************)
(* Secrets as records of a backend in memory: the JSON of an envelope      *)
(* (storage/types.c), the backend that keeps its pairs in an array         *)
(* (storage/backend.c), which threads share, and the listing of secrets    *)
(* (storage/envelope.c), which asks for the keys and then for one value    *)
(* after another. Growing the array may fail. A failure of strdup, which   *)
(* the code does not look at, is left out. JSON is that of JsonTree.       *)
(***************************************************************************)
EXTENDS Answers

CONSTANTS
    KeptBundles,    \* bundle hashes of the secrets
    FirstPairs,     \* the first capacity of the array (16)
    MaxPairs        \* bound on the pairs kept

ASSUME RecordsAssumption == KeptBundles \subseteq STRING /\ FirstPairs \in Nat \ {0}

VARIABLES
    pairs,      \* the array of the backend: keys and values
    room,       \* its capacity
    kept,       \* history: what the calls that succeeded left under each key
    listing,    \* a listing in progress: the keys, how many are done, what was found
    steady      \* history: the secrets nobody has written since the listing began

recordVars == <<pairs, room, kept, listing, steady>>

-----------------------------------------------------------------------------
(* The JSON of an envelope. Numbers are their texts. *)

PayloadFields == {"ciphertext", "iv", "salt"}

DefaultVersion == "1"
DefaultIterations == "100000"
DefaultAlgorithm == "AES-GCM"
DefaultProvider == "aes-gcm"

Else(text, other) == IF text = Missing THEN other ELSE text
ElseNumber(text, other) == IF text = "0" THEN other ELSE text

\* knishio_encrypted_payload_to_json
PayloadToJson(p) ==
    LET meta == With(With(With(WithString(
                    WithString(Obj(<<>>), "bundleHash", Else(p.bundle_hash, "")), "label", p.label),
                    "createdAt", Num(p.created_at)), "hardwareBacked", Bool(p.hardware_backed)),
                    "providerType", Str(Else(p.provider_type, DefaultProvider)))
        texts == FoldLeft(LAMBDA o, f : WithString(o, f, Else(p[f], "")),
                          With(Obj(<<>>), "version", Num(ElseNumber(p.version, DefaultVersion))),
                          <<"ciphertext", "iv", "salt">>)
    IN With(With(WithString(texts, "algorithm", Else(p.algorithm, DefaultAlgorithm)),
                 "iterations", Num(ElseNumber(p.iterations, DefaultIterations))), "metadata", meta)

\* A member by its name or, if there is none, by the other clients' name.
Aliased(v, name, alias) == IF Has(v, name) THEN Child(v, name) ELSE Child(v, alias)

\* knishio_encrypted_payload_from_json: three texts and an object of metadata there must be.
PayloadFromJson(json) ==
    IF json.type # "object" \/ (\E f \in PayloadFields : OfType(Child(json, f), "string") = Missing)
        \/ ~(Has(json, "metadata") /\ Child(json, "metadata").type = "object")
    THEN Missing
    ELSE LET meta == Child(json, "metadata") IN
         [version |-> Else(OfType(Child(json, "version"), "number"), DefaultVersion),
          ciphertext |-> StringAt(json, <<"ciphertext">>), iv |-> StringAt(json, <<"iv">>),
          salt |-> StringAt(json, <<"salt">>),
          algorithm |-> Else(StringAt(json, <<"algorithm">>), DefaultAlgorithm),
          iterations |-> Else(OfType(Child(json, "iterations"), "number"), DefaultIterations),
          bundle_hash |-> OfType(Aliased(meta, "bundleHash", "bundle_hash"), "string"),
          label |-> StringAt(meta, <<"label">>),
          created_at |-> Else(OfType(Aliased(meta, "createdAt", "created_at"), "number"), "0"),
          hardware_backed |-> Aliased(meta, "hardwareBacked", "hardware_backed") = Bool(TRUE),
          provider_type |-> OfType(Aliased(meta, "providerType", "provider_type"), "string")]

\* The envelope of a secret as knishio_envelope_seal_json writes it, and as a client that
\* names its metadata otherwise would have.
SealedPayload(b) ==
    [version |-> "1", ciphertext |-> b, iv |-> "i", salt |-> "s", algorithm |-> Missing,
     iterations |-> "0", bundle_hash |-> b, label |-> Missing, created_at |-> "7",
     hardware_backed |-> FALSE, provider_type |-> Missing]

Renamed(json) ==
    LET Alias(key) == CASE key = "bundleHash" -> "bundle_hash" [] key = "createdAt" -> "created_at"
                        [] key = "hardwareBacked" -> "hardware_backed"
                        [] key = "providerType" -> "provider_type" [] OTHER -> key
        RenamedMeta(meta) == Obj([i \in DOMAIN meta.items |->
                                    Item(Alias(meta.items[i].key), meta.items[i].value)])
    IN Obj([i \in DOMAIN json.items |->
            IF json.items[i].key = "metadata" THEN Item("metadata", RenamedMeta(json.items[i].value))
            ELSE json.items[i]])

\* Texts stay what they are, nothing is the default.
Canonical(p) ==
    [p EXCEPT !.version = ElseNumber(@, DefaultVersion), !.iterations = ElseNumber(@, DefaultIterations),
              !.algorithm = Else(@, DefaultAlgorithm), !.provider_type = Else(@, DefaultProvider),
              !.bundle_hash = Else(@, ""), !.ciphertext = Else(@, ""), !.iv = Else(@, ""),
              !.salt = Else(@, "")]

-----------------------------------------------------------------------------
(* The backend. Every call holds the lock from its start to its end. *)

\* knishio_storage_build_key, with either prefix.
SecretKey(b) == <<"knishio:secret:", b>>
RecoveryRecord(b) == <<"knishio:recovery:", b>>
RecordNames == {SecretKey(b) : b \in KeptBundles} \cup {RecoveryRecord(b) : b \in KeptBundles}

\* What is kept under them: an envelope of the bundle, as another client wrote it; or, under
\* a secret's name, no JSON object.
RecordValues(k) ==
    {Renamed(PayloadToJson(SealedPayload(k[2])))}
        \cup (IF k[1] = "knishio:secret:" THEN {Str("x")} ELSE {})

PairOf(k) == SelectInSeq(pairs, LAMBDA pair : pair.key = k)

RecordsInit ==
    /\ pairs = <<>> /\ room = 0
    /\ kept = [k \in RecordNames |-> Missing]
    /\ listing = Missing /\ steady = {}

Touched(k) == steady' = steady \ {k}

\* mem_set_item
MemSetItem(k, value) ==
    /\ IF PairOf(k) # 0
       THEN /\ pairs' = [pairs EXCEPT ![PairOf(k)].value = value]
            /\ kept' = [kept EXCEPT ![k] = value] /\ Touched(k) /\ UNCHANGED room
       ELSE \/ /\ room' = IF Len(pairs) < room THEN room ELSE IF room = 0 THEN FirstPairs ELSE room * 2
               /\ pairs' = Append(pairs, [key |-> k, value |-> value])
               /\ kept' = [kept EXCEPT ![k] = value] /\ Touched(k)
            \/ Len(pairs) >= room /\ UNCHANGED <<pairs, room, kept, steady>>
    /\ UNCHANGED listing

\* mem_remove_item: those behind it move up.
MemRemoveItem(k) ==
    /\ PairOf(k) # 0
    /\ pairs' = RemoveAt(pairs, PairOf(k))
    /\ kept' = [kept EXCEPT ![k] = Missing] /\ Touched(k)
    /\ UNCHANGED <<room, listing>>

\* mem_get_item; knishio_envelope_has_secret
MemGetItem(k) == IF PairOf(k) = 0 THEN Missing ELSE pairs[PairOf(k)].value
HasSecret(b) == MemGetItem(SecretKey(b)) # Missing

-----------------------------------------------------------------------------
(* knishio_envelope_list_secrets, while other threads use the backend. *)

\* mem_keys
BeginListing ==
    /\ listing = Missing
    /\ listing' = [keys |-> [i \in DOMAIN pairs |-> pairs[i].key], done |-> 0, found |-> <<>>]
    /\ steady' = {SecretKey(b) : b \in KeptBundles}
    /\ UNCHANGED <<pairs, room, kept>>

\* A key of the prefix, whose value is there and is an envelope, adds its metadata.
ListNext ==
    /\ listing # Missing /\ listing.done < Len(listing.keys)
    /\ LET k == listing.keys[listing.done + 1]
           value == MemGetItem(k)
           payload == IF k[1] # "knishio:secret:" \/ value = Missing THEN Missing ELSE PayloadFromJson(value)
       IN listing' = [listing EXCEPT !.done = @ + 1,
                        !.found = IF payload = Missing THEN @ ELSE Append(@, payload.bundle_hash)]
    /\ UNCHANGED <<pairs, room, kept, steady>>

\* knishio_secret_metadata_list_free
FreeListing ==
    /\ listing # Missing /\ listing.done = Len(listing.keys)
    /\ listing' = Missing /\ steady' = {}
    /\ UNCHANGED <<pairs, room, kept>>

RecordsNext ==
    \/ \E k \in RecordNames : MemRemoveItem(k) \/ \E value \in RecordValues(k) :
        (Len(pairs) < MaxPairs \/ PairOf(k) # 0) /\ MemSetItem(k, value)
    \/ BeginListing \/ ListNext \/ FreeListing

-----------------------------------------------------------------------------
(* Calls. *)

WriteEnvelope ==
    Quiet /\ \E text \in {Missing, "", "c"}, label \in {Missing, "l"}, number \in {"0", "2"},
                name \in {Missing, "b"}, hardware \in BOOLEAN, dropped \in {"none", "iv", "metadata"} :
        LET p == [version |-> number, ciphertext |-> text, iv |-> "i", salt |-> text,
                  algorithm |-> name, iterations |-> number, bundle_hash |-> name, label |-> label,
                  created_at |-> number, hardware_backed |-> hardware, provider_type |-> name]
            json == PayloadToJson(p)
            sent == Obj(SelectSeq(json.items, LAMBDA item : item.key # dropped))
        IN Made([fn |-> "envelope", payload |-> p, dropped |-> dropped,
                 read |-> PayloadFromJson(sent), renamed |-> PayloadFromJson(Renamed(sent))])

-----------------------------------------------------------------------------
(* Properties. *)

\* An envelope that is written is read back with all it had, what was not given is the
\* default, and an envelope whose metadata has the other clients' names says the same;
\* without its texts or its metadata it is no envelope.
EnvelopeSurvives ==
    call.fn = "envelope" =>
        IF call.dropped # "none" THEN call.read = Missing /\ call.renamed = Missing
        ELSE call.read = Canonical(call.payload) /\ call.renamed = call.read

\* The array holds every key once, within its capacity, and under it what the last call
\* that succeeded left there.
PairsAreKept ==
    /\ Len(pairs) <= room
    /\ \A i, j \in DOMAIN pairs : pairs[i].key = pairs[j].key => i = j
    /\ \A k \in RecordNames : MemGetItem(k) = kept[k]

\* A listing names no bundle twice and no recovery record; and whatever
\* other threads do meanwhile, it names every secret that was there throughout and can
\* be read, and none that was not there.
ListingIsTrue ==
    listing # Missing /\ listing.done = Len(listing.keys) =>
        /\ IsInjective(listing.found)
        /\ ToSet(listing.found) \subseteq {k[2] : k \in {x \in ToSet(listing.keys) : x[1] = "knishio:secret:"}}
        /\ \A b \in KeptBundles : SecretKey(b) \in steady =>
            (b \in ToSet(listing.found) <=> HasSecret(b) /\ PayloadFromJson(kept[SecretKey(b)]) # Missing)

RecordsAreSound == EnvelopeSurvives /\ PairsAreKept /\ ListingIsTrue

=============================================================================
