---------------------------- MODULE ClientSecret ----------------------------
(***************************************************************************)
(* The secret of one client (client_ops.c) over a provider that other code *)
(* of the application uses too (SecretStorage). The client signs with the  *)
(* cleartext if it holds one, else with what the attached provider opens   *)
(* for the bundle hash it has. Storing goes through the provider's steps,  *)
(* any of which may fail, and the client decides by the result whether the *)
(* cleartext may be dropped.                                               *)
(***************************************************************************)
EXTENDS SecretStorage

CONSTANTS
    NoBundle,           \* bundle_hash NULL
    DefaultPass,        \* the provider's default passphrase, or NoPass
    SelectsWhileHolding \* premise: set_secret_storage may be given the bundle
                        \* hash of another secret than the one held

ASSUME DefaultPassAssumption == DefaultPass \in Passphrases \cup {NoPass}

\* A bundle hash is of one secret.
ASSUME SecretOfAssumption ==
    /\ \A a, b \in Bundles : SecretOf[a] = SecretOf[b] => a = b
    /\ \A b \in Bundles : SecretOf[b] # Missing

ASSUME NoneAssumption == NoBundle \notin Bundles /\ Idle \notin CallsInProgress

VARIABLES
    cleartext,  \* auth_state.secret, or Missing
    bundle,     \* auth_state.bundle_hash
    attached,   \* auth_state.secret_storage is not NULL
    options,    \* auth_state.storage_passphrase, storage_recovery_passphrase
    last,       \* history: what the client's last call returned
    before,     \* history: the secret resolved when the call in progress began
    entrusted   \* history: bundles whose cleartext the client gave up since
                \* they were last deleted

client == <<cleartext, bundle, attached, options>>
vars   == <<store, client, last, before, entrusted>>

NoOptions == [pass |-> NoPass, rec |-> NoPass]

BundleOf(secret) == CHOOSE b \in Bundles : SecretOf[b] = secret

Init ==
    /\ StoreInit
    /\ cleartext = Missing /\ bundle = NoBundle
    /\ attached = FALSE /\ options = NoOptions
    /\ last = "SUCCESS" /\ before = Missing
    /\ entrusted = {}

\* resolve_passphrase of the provider.
PassOf(opts) == IF opts.pass # NoPass THEN opts.pass ELSE DefaultPass

\* client_resolve_secret, which every operation that signs starts with: the
\* secret, or Missing when it fails.
Resolved ==
    IF cleartext # Missing THEN cleartext
    ELSE IF attached /\ bundle # NoBundle THEN Retrieve(bundle, PassOf(options))
    ELSE Missing

-----------------------------------------------------------------------------
(* client_store_secret with a provider. *)

\* Up to the provider's work. A provider that has no passphrase to seal with
\* refuses at once.
StoreFor(by, b, opts) ==
    LET c == StoreCall(by, b, PassOf(opts), opts.rec)
    IN  IF PassOf(opts) = NoPass
        THEN /\ call' = [c EXCEPT !.step = "done", !.err = "INVALID_ARGS"]
             /\ UNCHANGED asked
        ELSE Begin(c)

\* After it, on success: the bundle hash is replaced, the cleartext dropped.
Stored ==
    /\ bundle' = call.bundle
    /\ cleartext' = Missing
    /\ entrusted' = entrusted \cup {call.bundle}

\* Both callers of client_store_secret end here.
Answered(by) == call # Idle /\ call.by = by /\ call.step = "done"

Answer ==
    /\ last' = call.err
    /\ before' = Missing
    /\ call' = Idle
    /\ UNCHANGED <<mem, disk, asked, attached, options>>

-----------------------------------------------------------------------------
(* knishio_client_set_secret *)

SetSecretWithoutProvider(b) ==
    /\ call = Idle /\ ~attached
    /\ cleartext' = SecretOf[b]
    /\ bundle' = b
    /\ last' = "SUCCESS"
    /\ UNCHANGED <<store, attached, options, before, entrusted>>

SetSecret(b) ==
    /\ call = Idle /\ attached
    /\ StoreFor("set_secret", b, options)
    /\ before' = Resolved
    /\ UNCHANGED <<mem, disk, client, last, entrusted>>

\* Mutant of SetSecretDone: the bundle hash is replaced and the cleartext
\* dropped before the result is known.
SetSecretDoneEarly ==
    /\ Answered("set_secret")
    /\ Answer
    /\ Stored

\* Mutant of SetSecretDone: the bundle hash is replaced whatever the result.
SetSecretDoneNaming ==
    /\ Answered("set_secret")
    /\ Answer
    /\ bundle' = call.bundle
    /\ IF call.err = "SUCCESS"
       THEN cleartext' = Missing /\ entrusted' = entrusted \cup {call.bundle}
       ELSE UNCHANGED <<cleartext, entrusted>>

SetSecretDone ==
    /\ Answered("set_secret")
    /\ Answer
    /\ IF call.err = "SUCCESS" THEN Stored
       ELSE UNCHANGED <<bundle, cleartext, entrusted>>

-----------------------------------------------------------------------------
(* knishio_client_set_secret_storage: replaces provider, options and, if one *)
(* is given, bundle hash, whatever comes of storing the cleartext.           *)

Selects(b) ==
    /\ b # NoBundle /\ cleartext # Missing /\ ~SelectsWhileHolding =>
            b = BundleOf(cleartext)
    /\ bundle' = IF b = NoBundle THEN bundle ELSE b

\* provider NULL: detaches, the cleartext stays.
Detach(b, opts) ==
    /\ call = Idle
    /\ Selects(b)
    /\ attached' = FALSE /\ options' = opts
    /\ last' = "SUCCESS"
    /\ UNCHANGED <<store, cleartext, before, entrusted>>

\* A client that holds no cleartext has nothing to store.
AttachOnly(b, opts) ==
    /\ call = Idle /\ cleartext = Missing
    /\ Selects(b)
    /\ attached' = TRUE /\ options' = opts
    /\ last' = "SUCCESS"
    /\ UNCHANGED <<store, cleartext, before, entrusted>>

\* The secret held goes to the provider, as if it was being set; meanwhile the
\* client holds none.
Attach(b, opts) ==
    /\ call = Idle /\ cleartext # Missing
    /\ Selects(b)
    /\ attached' = TRUE /\ options' = opts
    /\ cleartext' = Missing
    /\ StoreFor("attach", BundleOf(cleartext), opts)
    /\ before' = Resolved
    /\ UNCHANGED <<mem, disk, last, entrusted>>

\* Mutant of AttachDone: the cleartext is not put back.
AttachDoneWithout ==
    /\ Answered("attach")
    /\ Answer
    /\ IF call.err = "SUCCESS" THEN Stored
       ELSE UNCHANGED <<cleartext, bundle, entrusted>>

\* On an error the cleartext is put back.
AttachDone ==
    /\ Answered("attach")
    /\ Answer
    /\ IF call.err = "SUCCESS" THEN Stored
       ELSE /\ cleartext' = SecretOf[call.bundle]
            /\ UNCHANGED <<bundle, entrusted>>

-----------------------------------------------------------------------------

\* The application uses the provider by itself; what it deletes is no longer
\* the client's to count on.
Application ==
    /\ ApplicationCalls
    /\ entrusted' = IF call'.op = "delete" THEN entrusted \ {call'.bundle}
                    ELSE entrusted
    /\ UNCHANGED <<client, last, before>>

Provider == StoreSteps /\ UNCHANGED <<client, last, before, entrusted>>

\* The process dies, and with it the client.
Die ==
    /\ Restart
    /\ cleartext' = Missing /\ bundle' = NoBundle
    /\ attached' = FALSE /\ options' = NoOptions
    /\ last' = "SUCCESS" /\ before' = Missing
    /\ UNCHANGED entrusted

Options == [pass : Passphrases \cup {NoPass}, rec : Passphrases \cup {NoPass}]

Next ==
    \/ \E b \in Bundles : SetSecretWithoutProvider(b) \/ SetSecret(b)
    \/ \E b \in Bundles \cup {NoBundle}, opts \in Options :
        Detach(b, opts) \/ AttachOnly(b, opts) \/ Attach(b, opts)
    \/ SetSecretDone \/ AttachDone
    \/ Application \/ Provider \/ Die

Spec == Init /\ [][Next]_vars

-----------------------------------------------------------------------------
(* Properties. *)

\* Types; the client has calls in progress only through a provider it has.
TypeOK ==
    /\ StoreTypeOK
    /\ cleartext \in {SecretOf[b] : b \in Bundles} \cup {Missing}
    /\ before \in {SecretOf[b] : b \in Bundles} \cup {Missing}
    /\ bundle \in Bundles \cup {NoBundle}
    /\ attached \in BOOLEAN
    /\ options \in Options
    /\ last \in Results
    /\ entrusted \subseteq Bundles
    /\ call # Idle /\ call.by # "application" => attached

\* A secret whose cleartext a client gave up is in the file, sealed, until
\* somebody deletes it: through failing and half-done calls of the client and
\* of others, and through restarts (client_store_secret, "Success: replace
\* bundle_hash, and do not retain cleartext").
EntrustedIsStored ==
    \A b \in entrusted :
        /\ disk[PrimaryKey(b)] # Missing
        /\ disk[PrimaryKey(b)].secret = SecretOf[b]

\* A client that has a provider and whose last call succeeded holds no
\* cleartext (README, "stores the secret and unregisters cleartext memory").
CleartextIsGone ==
    call = Idle /\ attached /\ last = "SUCCESS" => cleartext = Missing

\* What a call that stores a secret returns decides what the client signs with
\* afterwards: on success that secret, opened by the provider under the options
\* in force; on failure the one it would have signed with when the call began,
\* if there was one, though the call may have written records before it failed.
ResultDecidesSecret ==
    [][SetSecretDone \/ AttachDone =>
        IF call.err = "SUCCESS" THEN Resolved' = SecretOf[call.bundle]
        ELSE before # Missing => Resolved' = before]_vars

\* bundle_hash is the "Bundle hash of the active secret" (client_internal.h):
\* what a client reports as its bundle is the bundle it signs for. Holds as
\* long as nobody selects another bundle while the client holds a secret.
BundleIsOfSecret ==
    call = Idle /\ Resolved # Missing => bundle = BundleOf(Resolved)

\* What a client is left with between calls: no cleartext it promised to give up, and
\* a bundle that is the bundle of what it signs with.
ClientIsInOrder == CleartextIsGone /\ BundleIsOfSecret

=============================================================================
