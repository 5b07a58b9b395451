--------------------------- MODULE SecretStorage ---------------------------
(***************************************************************************)
(* The envelope layer and the aes-gcm provider of storage/envelope.c and   *)
(* storage/provider.c, over one file backend. A secret is kept in up to    *)
(* two envelopes, the primary one and the recovery one, each under its own *)
(* key and passphrase; storing and deleting write the keys one after the   *)
(* other, so any call may be cut in two by a failing write or a crash.     *)
(*                                                                         *)
(* One set or remove of the backend is one step here: it changes the       *)
(* handle's memory, and the file if it succeeds. FileBackend shows that    *)
(* this is what a handle does, step by step, to the file (DurableMap).     *)
(* The file can be read whenever it is opened. Encryption is ideal: an     *)
(* envelope opens under its passphrase only.                               *)
(***************************************************************************)
EXTENDS Naturals

CONSTANTS
    Bundles,                \* bundle hashes
    SecretOf,               \* SecretOf[b]: the secret whose bundle hash is b
    Passphrases, NoPass,
    Missing, Idle

ASSUME NoPassAssumption == NoPass \notin Passphrases

VARIABLES
    mem, disk,  \* the backend's memory and its file, by key
    call,       \* the provider call in progress, or Idle
    asked       \* history: asked[k] is what the calls that may have written
                \* record k, since the last one that succeeded, asked it to be

records == <<mem, disk>>
store   == <<mem, disk, call, asked>>

PrimaryKey(b)  == <<"knishio:secret:", b>>
RecoveryKey(b) == <<"knishio:recovery:", b>>
RecordKeys     == {PrimaryKey(b) : b \in Bundles} \cup {RecoveryKey(b) : b \in Bundles}

Seal(secret, pass) == [secret |-> secret, pass |-> pass]

StoreInit ==
    /\ mem = [k \in RecordKeys |-> Missing]
    /\ disk = mem
    /\ call = Idle
    /\ asked = [k \in RecordKeys |-> {Missing}]

-----------------------------------------------------------------------------
(* The backend. *)

Write(k, value, ok) ==
    /\ mem' = [mem EXCEPT ![k] = value]
    /\ disk' = IF ok THEN mem' ELSE disk

\* remove_item of a key the memory does not hold succeeds and writes nothing.
Remove(k, ok) ==
    IF mem[k] = Missing THEN ok /\ UNCHANGED records ELSE Write(k, Missing, ok)

-----------------------------------------------------------------------------
(* Calls. by names the caller: an application, or an operation of the client *)
(* (ClientSecret), which goes on when the call is done.                      *)

\* What a call makes of the records, those it leaves alone excepted.
Wanted(c) ==
    [k \in IF c.op = "store" /\ c.rec = NoPass THEN {PrimaryKey(c.bundle)}
           ELSE {PrimaryKey(c.bundle), RecoveryKey(c.bundle)} |->
        IF c.op = "delete" THEN Missing
        ELSE Seal(SecretOf[c.bundle],
                  IF k = PrimaryKey(c.bundle) THEN c.pass ELSE c.rec)]

Begin(c) ==
    /\ call' = c
    /\ asked' = [k \in RecordKeys |->
            IF k \in DOMAIN Wanted(c) THEN asked[k] \cup {Wanted(c)[k]}
            ELSE asked[k]]

\* The call returns err; call keeps the result until the caller has it. A
\* delete that found neither record promises nothing: it may follow one that
\* failed to write.
Finish(c, err) ==
    /\ call' = [c EXCEPT !.step = "done", !.err = err]
    /\ asked' =
        IF err = "SUCCESS" /\ (c.op = "delete" => c.existed)
        THEN [k \in RecordKeys |->
                IF k \in DOMAIN Wanted(c) THEN {Wanted(c)[k]} ELSE asked[k]]
        ELSE asked

StoreCall(by, b, pass, rec) ==
    [by |-> by, op |-> "store", bundle |-> b, pass |-> pass, rec |-> rec,
     step |-> "primary", err |-> "SUCCESS", existed |-> FALSE]

DeleteCall(by, b) ==
    [by |-> by, op |-> "delete", bundle |-> b, pass |-> NoPass, rec |-> NoPass,
     step |-> "primary", err |-> "SUCCESS", existed |-> FALSE]

\* knishio_envelope_store_secret, called with a passphrase (without one it
\* returns INVALID_ARGS and changes nothing).
BeginStore(by, b, pass, rec) ==
    /\ call = Idle
    /\ Begin(StoreCall(by, b, pass, rec))
    /\ UNCHANGED records

\* Mutant of StorePrimary: the recovery passphrase is not asked for.
StorePrimaryThenRecovery ==
    /\ call # Idle /\ call.op = "store" /\ call.step = "primary"
    /\ \E ok \in BOOLEAN :
        /\ Write(PrimaryKey(call.bundle),
                 Seal(SecretOf[call.bundle], call.pass), ok)
        /\ IF ~ok THEN Finish(call, "INVALID_STATE")
           ELSE call' = [call EXCEPT !.step = "recovery"] /\ UNCHANGED asked

\* The primary envelope; a failure ends the call.
StorePrimary ==
    /\ call # Idle /\ call.op = "store" /\ call.step = "primary"
    /\ \E ok \in BOOLEAN :
        /\ Write(PrimaryKey(call.bundle),
                 Seal(SecretOf[call.bundle], call.pass), ok)
        /\ IF ~ok THEN Finish(call, "INVALID_STATE")
           ELSE IF call.rec = NoPass THEN Finish(call, "SUCCESS")
           ELSE /\ call' = [call EXCEPT !.step = "recovery"]
                /\ UNCHANGED asked

\* Mutant of StoreRecovery: its result is not looked at.
StoreRecoveryUnchecked ==
    /\ call # Idle /\ call.op = "store" /\ call.step = "recovery"
    /\ \E ok \in BOOLEAN :
        Write(RecoveryKey(call.bundle),
              Seal(SecretOf[call.bundle], call.rec), ok)
    /\ Finish(call, "SUCCESS")

\* The recovery envelope, when there is a recovery passphrase.
StoreRecovery ==
    /\ call # Idle /\ call.op = "store" /\ call.step = "recovery"
    /\ \E ok \in BOOLEAN :
        /\ Write(RecoveryKey(call.bundle),
                 Seal(SecretOf[call.bundle], call.rec), ok)
        /\ Finish(call, IF ok THEN "SUCCESS" ELSE "INVALID_STATE")

\* Mutant of RecoverSecret: the primary record is cleared before it is stored
\* again.
RecoverSecretClearing(by, b, recPass, pass, rec) ==
    /\ call = Idle
    /\ mem[RecoveryKey(b)] # Missing /\ mem[RecoveryKey(b)].pass = recPass
    /\ Begin(StoreCall(by, b, pass, rec))
    /\ Write(PrimaryKey(b), Missing, TRUE)

\* knishio_envelope_recover_secret: opens the recovery envelope and stores what
\* it holds under the new passphrase. A missing record and a wrong passphrase
\* (INVALID_STATE, CRYPTO) change nothing.
RecoverSecret(by, b, recPass, pass, rec) ==
    /\ call = Idle
    /\ mem[RecoveryKey(b)] # Missing /\ mem[RecoveryKey(b)].pass = recPass
    /\ Begin(StoreCall(by, b, pass, rec))
    /\ UNCHANGED records

\* knishio_storage_backend_delete_secret: both removals are always tried, the
\* first error is returned.
BeginDelete(by, b) ==
    /\ call = Idle
    /\ Begin(DeleteCall(by, b))
    /\ UNCHANGED records

DeletePrimary ==
    /\ call # Idle /\ call.op = "delete" /\ call.step = "primary"
    /\ \E ok \in BOOLEAN :
        /\ Remove(PrimaryKey(call.bundle), ok)
        /\ call' = [call EXCEPT
                !.step = "recovery",
                !.err = IF ok THEN "SUCCESS" ELSE "INVALID_STATE",
                !.existed = mem[PrimaryKey(call.bundle)] # Missing]
    /\ UNCHANGED asked

\* Mutant of DeleteRecovery: the first removal's error is forgotten.
DeleteRecoveryForgetting ==
    /\ call # Idle /\ call.op = "delete" /\ call.step = "recovery"
    /\ \E ok \in BOOLEAN :
        /\ Remove(RecoveryKey(call.bundle), ok)
        /\ Finish([call EXCEPT !.existed =
                        @ \/ mem[RecoveryKey(call.bundle)] # Missing],
                  IF ok THEN "SUCCESS" ELSE "INVALID_STATE")

DeleteRecovery ==
    /\ call # Idle /\ call.op = "delete" /\ call.step = "recovery"
    /\ \E ok \in BOOLEAN :
        /\ Remove(RecoveryKey(call.bundle), ok)
        /\ Finish([call EXCEPT !.existed =
                        @ \/ mem[RecoveryKey(call.bundle)] # Missing],
                  IF ok THEN call.err ELSE "INVALID_STATE")

\* The application has the result.
Return ==
    /\ call # Idle /\ call.by = "application" /\ call.step = "done"
    /\ call' = Idle
    /\ UNCHANGED <<mem, disk, asked>>

\* The process dies and another opens the file.
Restart ==
    /\ mem' = disk
    /\ call' = Idle
    /\ UNCHANGED <<disk, asked>>

ApplicationCalls ==
    \/ \E b \in Bundles, pass \in Passphrases, rec \in Passphrases \cup {NoPass} :
        \/ BeginStore("application", b, pass, rec)
        \/ \E recPass \in Passphrases :
                RecoverSecret("application", b, recPass, pass, rec)
    \/ \E b \in Bundles : BeginDelete("application", b)

StoreSteps ==
    \/ StorePrimary \/ StoreRecovery \/ DeletePrimary \/ DeleteRecovery
    \/ Return

StoreNext == ApplicationCalls \/ StoreSteps \/ Restart

StoreSpec == StoreInit /\ [][StoreNext]_store

\* retrieve_secret of the provider: the secret, or that there is none.
Retrieve(b, pass) ==
    LET record == mem[PrimaryKey(b)]
    IN  IF record = Missing \/ record.pass # pass THEN Missing ELSE record.secret

-----------------------------------------------------------------------------
(* Properties. *)

\* A record of the file is always one that was asked for: after a store or a
\* recover that returned SUCCESS the envelopes it wrote, after a delete that
\* found something none, and through failing calls, crashes and writes on other
\* secrets' behalf nothing but that or what a later call asked for. So a secret
\* that is being re-encrypted or recovered is never lost.
RecordsAreAsked == \A k \in RecordKeys : disk[k] \in asked[k]

\* What an envelope opens to.
Envelopes == [secret : {SecretOf[b] : b \in Bundles}, pass : Passphrases]

ASSUME MissingAssumption == Missing \notin Envelopes

Callers == {"application", "set_secret", "attach"}
Results == {"SUCCESS", "INVALID_STATE", "INVALID_ARGS"}

CallsInProgress ==
    [by : Callers, op : {"store", "delete"}, bundle : Bundles,
     pass : Passphrases \cup {NoPass}, rec : Passphrases \cup {NoPass},
     step : {"primary", "recovery", "done"}, err : Results, existed : BOOLEAN]

\* Types; the call in progress is at a step it has.
StoreTypeOK ==
    /\ mem \in [RecordKeys -> Envelopes \cup {Missing}]
    /\ disk \in [RecordKeys -> Envelopes \cup {Missing}]
    /\ asked \in [RecordKeys -> SUBSET (Envelopes \cup {Missing})]
    /\ call # Idle =>
        /\ call \in CallsInProgress
        /\ call.op = "store" /\ call.step = "primary" =>
                call.pass \in Passphrases
        /\ call.op = "store" /\ call.step = "recovery" =>
                call.rec \in Passphrases

=============================================================================
