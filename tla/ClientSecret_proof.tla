-------------------------- MODULE ClientSecret_proof --------------------------
(***************************************************************************)
(* The records of a file of secrets, and what a client and the application *)
(* do to them between them, for any number of secrets and passphrases,     *)
(* with or without a default one: every record was asked for, whatever     *)
(* fails or crashes, and a secret whose cleartext the client gave up is in *)
(* the file.                                                               *)
(***************************************************************************)
EXTENDS ClientSecret, TLAPS

(* The provider alone (SecretStorage). *)

\* What is in memory was asked for too, and what a call is about to write is.
MemoryIsAsked == \A k \in RecordKeys : mem[k] \in asked[k]

WantedIsAsked ==
    call # Idle /\ call.step # "done" =>
        \A k \in DOMAIN Wanted(call) : Wanted(call)[k] \in asked[k]

\* Half way through a store the primary record is in the file; half way through
\* a delete it is out of memory, and out of the file if it was found and no
\* removal failed.
HalfDone ==
    call # Idle /\ call.step = "recovery" =>
        IF call.op = "store"
        THEN /\ disk = mem
             /\ mem[PrimaryKey(call.bundle)] =
                    Seal(SecretOf[call.bundle], call.pass)
        ELSE /\ mem[PrimaryKey(call.bundle)] = Missing
             /\ call.existed /\ call.err = "SUCCESS" => disk = mem

IInv == /\ StoreTypeOK /\ RecordsAreAsked
        /\ MemoryIsAsked /\ WantedIsAsked /\ HalfDone

\* A state of the records that was asked for.
Fit(m) == /\ m \in [RecordKeys -> Envelopes \cup {Missing}]
          /\ \A k \in RecordKeys : m[k] \in asked[k]

\* m is what c wants.
Holds(m, c) == \A k \in DOMAIN Wanted(c) : m[k] = Wanted(c)[k]

LEMMA KeysDiffer ==
    \A b, c \in Bundles : /\ PrimaryKey(b) \in RecordKeys
                          /\ RecoveryKey(b) \in RecordKeys
                          /\ PrimaryKey(b) # RecoveryKey(c)
  BY DEF PrimaryKey, RecoveryKey, RecordKeys

LEMMA InitIInv == StoreInit => IInv
  BY DEF StoreInit, IInv, StoreTypeOK, RecordsAreAsked, MemoryIsAsked,
         WantedIsAsked, HalfDone

\* A call that begins adds what it wants to what was asked.
LEMMA BeginStep ==
    ASSUME IInv, NEW c \in CallsInProgress, Begin(c), UNCHANGED records,
           c.step = "primary", c.op = "store" => c.pass \in Passphrases
    PROVE  IInv'
<1>1. DOMAIN Wanted(c) \subseteq RecordKeys
  BY KeysDiffer DEF Wanted, CallsInProgress
<1>2. \A k \in DOMAIN Wanted(c) : Wanted(c)[k] \in Envelopes \cup {Missing}
  <2>1. c.op = "delete" =>
            \A k \in DOMAIN Wanted(c) : Wanted(c)[k] = Missing
    BY DEF Wanted
  <2>2. c.op = "store" =>
            \A k \in DOMAIN Wanted(c) :
                \E p \in Passphrases : Wanted(c)[k] = Seal(SecretOf[c.bundle], p)
    BY KeysDiffer DEF Wanted, CallsInProgress
  <2>3. \A p \in Passphrases : Seal(SecretOf[c.bundle], p) \in Envelopes
    BY DEF Seal, Envelopes, CallsInProgress
  <2>4. c.op \in {"store", "delete"}
    BY DEF CallsInProgress
  <2> QED
    BY <2>1, <2>2, <2>3, <2>4
<1>3. mem' = mem /\ disk' = disk /\ call' = c
  BY DEF Begin, records
<1>4. \A k \in RecordKeys : asked[k] \subseteq asked'[k]
  BY DEF Begin
<1>5. StoreTypeOK'
  BY <1>2, <1>3 DEF IInv, StoreTypeOK, Begin
<1>6. RecordsAreAsked' /\ MemoryIsAsked'
  BY <1>3, <1>4 DEF IInv, RecordsAreAsked, MemoryIsAsked
<1>7. WantedIsAsked'
  BY <1>1, <1>3 DEF Begin, WantedIsAsked, Wanted
<1>8. HalfDone'
  BY <1>3 DEF HalfDone
<1> QED
  BY <1>5, <1>6, <1>7, <1>8 DEF IInv

\* A write of what was asked for.
LEMMA WriteAsked ==
    ASSUME IInv, NEW k \in RecordKeys, NEW v \in Envelopes \cup {Missing},
           v \in asked[k], NEW ok \in BOOLEAN, Write(k, v, ok)
    PROVE  /\ Fit(mem') /\ Fit(disk')
           /\ mem'[k] = v
           /\ \A j \in RecordKeys : j # k => mem'[j] = mem[j]
           /\ ok => disk' = mem'
  BY DEF Fit, IInv, StoreTypeOK, RecordsAreAsked, MemoryIsAsked, Write

LEMMA RemoveAsked ==
    ASSUME IInv, NEW k \in RecordKeys, Missing \in asked[k],
           NEW ok \in BOOLEAN, Remove(k, ok)
    PROVE  /\ Fit(mem') /\ Fit(disk')
           /\ mem'[k] = Missing
           /\ \A j \in RecordKeys : j # k => mem'[j] = mem[j]
           /\ ok /\ mem[k] # Missing => disk' = mem'
           /\ mem[k] = Missing => UNCHANGED records
<1>1. CASE mem[k] = Missing
  BY <1>1 DEF Fit, Remove, records, IInv, StoreTypeOK, RecordsAreAsked, MemoryIsAsked
<1>2. CASE mem[k] # Missing
  BY <1>2, WriteAsked DEF Remove
<1> QED
  BY <1>1, <1>2

\* What a call wants does not change while it runs.
LEMMA WantedStays ==
    ASSUME NEW c \in CallsInProgress, NEW d \in CallsInProgress,
           c.op = d.op, c.bundle = d.bundle, c.pass = d.pass, c.rec = d.rec
    PROVE  Wanted(c) = Wanted(d)
  BY DEF Wanted

\* A call may return SUCCESS when the records are what it wants.
LEMMA FinishStep ==
    ASSUME IInv, NEW c \in CallsInProgress, NEW err \in Results,
           Finish(c, err),
           Fit(mem'), Fit(disk'),
           err = "SUCCESS" /\ (c.op = "delete" => c.existed) =>
                Holds(mem', c) /\ Holds(disk', c)
    PROVE  IInv'
<1> DEFINE keeps == err = "SUCCESS" /\ (c.op = "delete" => c.existed)
<1>1. call' \in CallsInProgress /\ call'.step = "done"
  BY DEF Finish, CallsInProgress, Results
<1>2. asked' = IF keeps
               THEN [k \in RecordKeys |-> IF k \in DOMAIN Wanted(c)
                                          THEN {Wanted(c)[k]} ELSE asked[k]]
               ELSE asked
  BY DEF Finish
<1>3. /\ asked' \in [RecordKeys -> SUBSET (Envelopes \cup {Missing})]
      /\ RecordsAreAsked' /\ MemoryIsAsked'
  <2>1. keeps => \A k \in RecordKeys : k \in DOMAIN Wanted(c) =>
            /\ Wanted(c)[k] \in Envelopes \cup {Missing}
            /\ mem'[k] = Wanted(c)[k] /\ disk'[k] = Wanted(c)[k]
    BY DEF Fit, Holds
  <2> QED
    BY <1>2, <2>1 DEF Fit, IInv, StoreTypeOK, RecordsAreAsked, MemoryIsAsked
<1>4. WantedIsAsked' /\ HalfDone' /\ StoreTypeOK'
  BY <1>1, <1>3 DEF Fit, WantedIsAsked, HalfDone, StoreTypeOK, IInv
<1> QED
  BY <1>3, <1>4 DEF IInv

\* The keys a call writes, and what it wants of them.
LEMMA WantedKeys ==
    ASSUME NEW c \in CallsInProgress
    PROVE  /\ c.bundle \in Bundles
           /\ PrimaryKey(c.bundle) \in RecordKeys
           /\ RecoveryKey(c.bundle) \in RecordKeys
           /\ PrimaryKey(c.bundle) # RecoveryKey(c.bundle)
           /\ PrimaryKey(c.bundle) \in DOMAIN Wanted(c)
           /\ DOMAIN Wanted(c) \subseteq
                {PrimaryKey(c.bundle), RecoveryKey(c.bundle)}
           /\ c.op = "store" =>
                Wanted(c)[PrimaryKey(c.bundle)] =
                    Seal(SecretOf[c.bundle], c.pass)
           /\ c.op = "store" /\ c.rec = NoPass =>
                RecoveryKey(c.bundle) \notin DOMAIN Wanted(c)
           /\ c.op = "store" /\ c.rec # NoPass =>
                /\ RecoveryKey(c.bundle) \in DOMAIN Wanted(c)
                /\ Wanted(c)[RecoveryKey(c.bundle)] =
                        Seal(SecretOf[c.bundle], c.rec)
           /\ c.op = "delete" =>
                /\ RecoveryKey(c.bundle) \in DOMAIN Wanted(c)
                /\ \A k \in DOMAIN Wanted(c) : Wanted(c)[k] = Missing
<1>1. c.bundle \in Bundles /\ c.op \in {"store", "delete"}
  BY DEF CallsInProgress
<1>2. PrimaryKey(c.bundle) # RecoveryKey(c.bundle)
  BY <1>1, KeysDiffer
<1> QED
  BY <1>1, <1>2, KeysDiffer DEF Wanted

LEMMA StorePrimaryStep == IInv /\ StorePrimary => IInv'
<1> SUFFICES ASSUME IInv, StorePrimary PROVE IInv'
  OBVIOUS
<1> DEFINE k == PrimaryKey(call.bundle)
           v == Seal(SecretOf[call.bundle], call.pass)
<1>1. /\ call # Idle /\ call \in CallsInProgress
      /\ call.op = "store" /\ call.step = "primary"
      /\ call.pass \in Passphrases
  BY DEF StorePrimary, IInv, StoreTypeOK
<1>2. /\ k \in RecordKeys /\ v \in Envelopes /\ v \in asked[k]
      /\ Wanted(call)[k] = v
  BY <1>1, WantedKeys DEF IInv, WantedIsAsked, Seal, Envelopes
<1>3. PICK ok \in BOOLEAN :
        /\ Write(k, v, ok)
        /\ IF ~ok THEN Finish(call, "INVALID_STATE")
           ELSE IF call.rec = NoPass THEN Finish(call, "SUCCESS")
           ELSE /\ call' = [call EXCEPT !.step = "recovery"]
                /\ UNCHANGED asked
  BY DEF StorePrimary
<1>4. /\ Fit(mem') /\ Fit(disk')
      /\ mem'[k] = v
      /\ ok => disk' = mem'
  <2> HIDE DEF k, v
  <2> QED
    BY <1>2, <1>3, WriteAsked
<1>5. CASE ~ok
  <2>1. Finish(call, "INVALID_STATE")
    BY <1>3, <1>5
  <2> QED
    BY <1>1, <1>4, <2>1, FinishStep DEF Results
<1>6. CASE ok /\ call.rec = NoPass
  <2>1. Finish(call, "SUCCESS")
    BY <1>3, <1>6
  <2>2. Holds(mem', call) /\ Holds(disk', call)
    BY <1>1, <1>2, <1>4, <1>6, WantedKeys DEF Holds
  <2> QED
    BY <1>1, <1>4, <2>1, <2>2, FinishStep DEF Results
<1>7. CASE ok /\ call.rec # NoPass
  <2>1. call' = [call EXCEPT !.step = "recovery"] /\ asked' = asked
    BY <1>3, <1>7
  <2>2. /\ call' \in CallsInProgress /\ call'.step = "recovery"
        /\ call'.op = call.op /\ call'.bundle = call.bundle
        /\ call'.pass = call.pass /\ call'.rec = call.rec
        /\ call.rec \in Passphrases
    BY <1>1, <1>7, <2>1 DEF CallsInProgress
  <2>3. Wanted(call') = Wanted(call)
    BY <1>1, <2>2, WantedStays
  <2>4. WantedIsAsked'
    BY <1>1, <2>1, <2>3 DEF IInv, WantedIsAsked
  <2>5. HalfDone'
    BY <1>1, <1>4, <1>7, <2>2 DEF HalfDone
  <2>6. StoreTypeOK' /\ RecordsAreAsked' /\ MemoryIsAsked'
    BY <1>1, <1>4, <2>1, <2>2
       DEF Fit, IInv, StoreTypeOK, RecordsAreAsked, MemoryIsAsked
  <2> QED
    BY <2>4, <2>5, <2>6 DEF IInv
<1> QED
  BY <1>5, <1>6, <1>7

LEMMA StoreRecoveryStep == IInv /\ StoreRecovery => IInv'
<1> SUFFICES ASSUME IInv, StoreRecovery PROVE IInv'
  OBVIOUS
<1> DEFINE p == PrimaryKey(call.bundle)
           k == RecoveryKey(call.bundle)
           v == Seal(SecretOf[call.bundle], call.rec)
<1>1. /\ call # Idle /\ call \in CallsInProgress
      /\ call.op = "store" /\ call.step = "recovery"
      /\ call.rec \in Passphrases /\ call.rec # NoPass
  BY NoPassAssumption DEF StoreRecovery, IInv, StoreTypeOK
<1>2. /\ k \in RecordKeys /\ v \in Envelopes /\ v \in asked[k]
      /\ Wanted(call)[k] = v
      /\ p \in RecordKeys /\ p # k /\ Wanted(call)[p] = mem[p]
      /\ DOMAIN Wanted(call) \subseteq {p, k}
  BY <1>1, WantedKeys DEF IInv, WantedIsAsked, HalfDone, Seal, Envelopes
<1>3. PICK ok \in BOOLEAN :
        /\ Write(k, v, ok)
        /\ Finish(call, IF ok THEN "SUCCESS" ELSE "INVALID_STATE")
  BY DEF StoreRecovery
<1>4. /\ Fit(mem') /\ Fit(disk')
      /\ mem'[k] = v
      /\ \A j \in RecordKeys : j # k => mem'[j] = mem[j]
      /\ ok => disk' = mem'
  <2> HIDE DEF k, v
  <2> QED
    BY <1>2, <1>3, WriteAsked
<1>5. ok => Holds(mem', call) /\ Holds(disk', call)
  <2> HIDE DEF k, v, p
  <2> QED
    BY <1>2, <1>4 DEF Holds
<1>6. CASE ok
  <2>1. Finish(call, "SUCCESS")
    BY <1>3, <1>6
  <2> QED
    BY <1>1, <1>4, <1>5, <1>6, <2>1, FinishStep DEF Results
<1>7. CASE ~ok
  <2>1. Finish(call, "INVALID_STATE")
    BY <1>3, <1>7
  <2> QED
    BY <1>1, <1>4, <2>1, FinishStep DEF Results
<1> QED
  BY <1>6, <1>7

LEMMA DeletePrimaryStep == IInv /\ DeletePrimary => IInv'
<1> SUFFICES ASSUME IInv, DeletePrimary PROVE IInv'
  OBVIOUS
<1> DEFINE k == PrimaryKey(call.bundle)
<1>1. /\ call # Idle /\ call \in CallsInProgress
      /\ call.op = "delete" /\ call.step = "primary"
  BY DEF DeletePrimary, IInv, StoreTypeOK
<1>2. k \in RecordKeys /\ Missing \in asked[k]
  BY <1>1, WantedKeys DEF IInv, WantedIsAsked
<1>3. PICK ok \in BOOLEAN :
        /\ Remove(k, ok)
        /\ call' = [call EXCEPT
                !.step = "recovery",
                !.err = IF ok THEN "SUCCESS" ELSE "INVALID_STATE",
                !.existed = mem[k] # Missing]
  BY DEF DeletePrimary
<1>4. asked' = asked
  BY DEF DeletePrimary
<1>5. /\ Fit(mem') /\ Fit(disk')
      /\ mem'[k] = Missing
      /\ ok /\ mem[k] # Missing => disk' = mem'
  <2> HIDE DEF k
  <2> QED
    BY <1>2, <1>3, RemoveAsked
<1>6. /\ call' \in CallsInProgress /\ call'.step = "recovery"
      /\ call'.op = call.op /\ call'.bundle = call.bundle
      /\ call'.pass = call.pass /\ call'.rec = call.rec
      /\ call'.err = "SUCCESS" => ok
      /\ call'.existed => mem[k] # Missing
  <2> HIDE DEF k
  <2> QED
    BY <1>1, <1>3 DEF CallsInProgress, Results
<1>7. WantedIsAsked'
  BY <1>1, <1>4, <1>6, WantedStays DEF IInv, WantedIsAsked
<1>8. HalfDone'
  BY <1>1, <1>5, <1>6 DEF HalfDone
<1>9. StoreTypeOK' /\ RecordsAreAsked' /\ MemoryIsAsked'
  BY <1>1, <1>4, <1>5, <1>6
     DEF Fit, IInv, StoreTypeOK, RecordsAreAsked, MemoryIsAsked
<1> QED
  BY <1>7, <1>8, <1>9 DEF IInv

LEMMA DeleteRecoveryStep == IInv /\ DeleteRecovery => IInv'
<1> SUFFICES ASSUME IInv, DeleteRecovery PROVE IInv'
  OBVIOUS
<1> DEFINE p == PrimaryKey(call.bundle)
           k == RecoveryKey(call.bundle)
           c == [call EXCEPT !.existed = @ \/ mem[k] # Missing]
<1>1. /\ call # Idle /\ call \in CallsInProgress
      /\ call.op = "delete" /\ call.step = "recovery"
  BY DEF DeleteRecovery, IInv, StoreTypeOK
<1>2. /\ k \in RecordKeys /\ Missing \in asked[k]
      /\ p \in RecordKeys /\ p # k /\ mem[p] = Missing
      /\ call.existed /\ call.err = "SUCCESS" => disk = mem
  BY <1>1, WantedKeys DEF IInv, WantedIsAsked, HalfDone
<1>3. PICK ok \in BOOLEAN :
        /\ Remove(k, ok)
        /\ Finish(c, IF ok THEN call.err ELSE "INVALID_STATE")
  BY DEF DeleteRecovery
<1>4. /\ c \in CallsInProgress
      /\ c.op = call.op /\ c.bundle = call.bundle
      /\ c.pass = call.pass /\ c.rec = call.rec
      /\ c.existed => call.existed \/ mem[k] # Missing
  <2> HIDE DEF k
  <2> QED
    BY <1>1 DEF CallsInProgress
<1>5. /\ Fit(mem') /\ Fit(disk')
      /\ mem'[k] = Missing
      /\ \A j \in RecordKeys : j # k => mem'[j] = mem[j]
      /\ ok /\ mem[k] # Missing => disk' = mem'
      /\ mem[k] = Missing => mem' = mem /\ disk' = disk
  <2> HIDE DEF k
  <2> QED
    BY <1>2, <1>3, RemoveAsked DEF records
<1>6. /\ DOMAIN Wanted(c) \subseteq {p, k}
      /\ \A j \in DOMAIN Wanted(c) : Wanted(c)[j] = Missing
  <2>1. /\ DOMAIN Wanted(call) \subseteq {p, k}
        /\ \A j \in DOMAIN Wanted(call) : Wanted(call)[j] = Missing
    BY <1>1, WantedKeys
  <2>2. Wanted(c) = Wanted(call)
    <3> HIDE DEF c
    <3> QED
      BY <1>1, <1>4, WantedStays
  <2> QED
    BY <2>1, <2>2
<1> HIDE DEF p, k, c
<1>7. CASE ok
  <2>1. Finish(c, call.err) /\ call.err \in Results
    BY <1>1, <1>3, <1>7 DEF CallsInProgress
  <2>2. Holds(mem', c)
    BY <1>2, <1>5, <1>6 DEF Holds
  <2>3. call.err = "SUCCESS" /\ c.existed => disk' = mem'
    BY <1>2, <1>4, <1>5, <1>7
  <2>4. call.err = "SUCCESS" /\ (c.op = "delete" => c.existed) =>
            Holds(mem', c) /\ Holds(disk', c)
    BY <1>1, <1>4, <2>2, <2>3
  <2> QED
    BY <1>1, <1>4, <1>5, <2>1, <2>4, FinishStep
<1>8. CASE ~ok
  <2>1. Finish(c, "INVALID_STATE")
    BY <1>3, <1>8
  <2> QED
    BY <1>1, <1>4, <1>5, <2>1, FinishStep DEF Results
<1> QED
  BY <1>7, <1>8

LEMMA ApplicationStep == IInv /\ ApplicationCalls => IInv'
<1> SUFFICES ASSUME IInv, ApplicationCalls PROVE IInv'
  OBVIOUS
<1>1. ASSUME NEW b \in Bundles, NEW pass \in Passphrases,
             NEW rec \in Passphrases \cup {NoPass},
             Begin(StoreCall("application", b, pass, rec)), UNCHANGED records
      PROVE  IInv'
  <2> DEFINE c == StoreCall("application", b, pass, rec)
  <2>1. /\ c \in CallsInProgress /\ c.step = "primary"
        /\ c.op = "store" => c.pass \in Passphrases
    BY DEF StoreCall, CallsInProgress, Callers, Results
  <2> HIDE DEF c
  <2> QED
    BY <1>1, <2>1, BeginStep DEF c
<1>2. ASSUME NEW b \in Bundles, BeginDelete("application", b)
      PROVE  IInv'
  <2> DEFINE c == DeleteCall("application", b)
  <2>1. /\ c \in CallsInProgress /\ c.step = "primary"
        /\ c.op = "store" => c.pass \in Passphrases
    BY DEF DeleteCall, CallsInProgress, Callers, Results
  <2>2. Begin(c) /\ UNCHANGED records
    BY <1>2 DEF BeginDelete
  <2> HIDE DEF c
  <2> QED
    BY <2>1, <2>2, BeginStep
<1> QED
  BY <1>1, <1>2 DEF ApplicationCalls, BeginStore, RecoverSecret

LEMMA ReturnStep == IInv /\ Return => IInv'
  BY DEF Return, IInv, StoreTypeOK, RecordsAreAsked, MemoryIsAsked,
         WantedIsAsked, HalfDone

\* What another process reads was asked for, as everything in the file.
LEMMA RestartStep == IInv /\ Restart => IInv'
  BY DEF Restart, IInv, StoreTypeOK, RecordsAreAsked, MemoryIsAsked,
         WantedIsAsked, HalfDone

LEMMA StutterStep == IInv /\ UNCHANGED store => IInv'
  BY DEF store, IInv, StoreTypeOK, RecordsAreAsked, MemoryIsAsked,
         WantedIsAsked, HalfDone, Wanted

LEMMA Invariance == IInv /\ [StoreNext]_store => IInv'
  BY ApplicationStep, StorePrimaryStep, StoreRecoveryStep, DeletePrimaryStep,
     DeleteRecoveryStep, ReturnStep, RestartStep, StutterStep
     DEF StoreNext, StoreSteps

LEMMA AlwaysIInv == StoreSpec => []IInv
  BY InitIInv, Invariance, PTL DEF StoreSpec

\* The call in progress, the records and the history have their types whatever
\* fails in a store, recover or delete (envelope.c, backend.c).
THEOREM StoreIsAlwaysTyped == StoreSpec => []StoreTypeOK
<1>1. IInv => StoreTypeOK
  BY DEF IInv
<1> QED
  BY AlwaysIInv, <1>1, PTL

\* Every record of the file is one that was asked for: stores, recoveries and
\* deletes cut short by a failing write or a crash at any step
\* (knishio_envelope_store_secret, _recover_secret,
\* knishio_storage_backend_delete_secret) leave nothing else behind, and a call
\* that returned SUCCESS what it promised.
THEOREM StoreRecordsAreAsked == StoreSpec => []RecordsAreAsked
<1>1. IInv => RecordsAreAsked
  BY DEF IInv
<1> QED
  BY AlwaysIInv, <1>1, PTL

-----------------------------------------------------------------------------
(* The provider with a client (ClientSecret). *)

\* m has a primary record of b.
Keeps(m, b) ==
    /\ m[PrimaryKey(b)] # Missing
    /\ m[PrimaryKey(b)].secret = SecretOf[b]

ClientTypeOK ==
    /\ cleartext \in {SecretOf[b] : b \in Bundles} \cup {Missing}
    /\ options \in Options
    /\ entrusted \subseteq Bundles

\* Memory keeps what the file keeps, since it is written over it.
EntrustedIsKept ==
    \A b \in entrusted : Keeps(mem, b) /\ Keeps(disk, b)

\* The client's calls store; once past the primary record, unless they failed,
\* the record is in the file. A delete took its secret from the client's care.
CallInv ==
    call # Idle =>
        /\ call.by # "application" => call.op = "store"
        /\ call.op = "store" /\ call.step # "primary" /\ call.err = "SUCCESS" =>
                Keeps(mem, call.bundle) /\ Keeps(disk, call.bundle)
        /\ call.op = "delete" => call.bundle \notin entrusted
        /\ call.op = "store" /\ call.step # "done" => call.err = "SUCCESS"

CInv == IInv /\ ClientTypeOK /\ EntrustedIsKept /\ CallInv

LEMMA KeysOfBundles ==
    \A b, c \in Bundles : PrimaryKey(b) = PrimaryKey(c) => b = c
  BY DEF PrimaryKey

LEMMA InitCInv == Init => CInv
<1> SUFFICES ASSUME Init PROVE CInv
  OBVIOUS
<1>1. IInv
  BY InitIInv DEF Init
<1>2. ClientTypeOK /\ EntrustedIsKept /\ CallInv
  BY DEF Init, StoreInit, ClientTypeOK, EntrustedIsKept, CallInv, Options,
         NoOptions
<1> QED
  BY <1>1, <1>2 DEF CInv

\* A call of the client that begins, or is refused for want of a passphrase.
LEMMA StoreForStep ==
    ASSUME CInv, NEW by \in {"set_secret", "attach"}, NEW b \in Bundles,
           NEW opts \in Options, StoreFor(by, b, opts), UNCHANGED records
    PROVE  /\ IInv'
           /\ entrusted' = entrusted => EntrustedIsKept' /\ CallInv'
<1> DEFINE c == StoreCall(by, b, PassOf(opts), opts.rec)
<1>1. /\ c.by = by /\ c.op = "store" /\ c.bundle = b /\ c.step = "primary"
      /\ c.err = "SUCCESS" /\ c.pass = PassOf(opts)
  BY DEF StoreCall
<1>2. c \in CallsInProgress
  BY DefaultPassAssumption
     DEF StoreCall, CallsInProgress, Callers, Results, Options, PassOf
<1>3. PassOf(opts) \in Passphrases \cup {NoPass}
  BY DefaultPassAssumption DEF Options, PassOf
<1>4. mem' = mem /\ disk' = disk
  BY DEF records
<1>5. CASE PassOf(opts) = NoPass
  <2>1. /\ call' = [c EXCEPT !.step = "done", !.err = "INVALID_ARGS"]
        /\ asked' = asked
    BY <1>5 DEF StoreFor
  <2> HIDE DEF c
  <2>2. /\ call' \in CallsInProgress /\ call'.step = "done"
        /\ call'.err = "INVALID_ARGS" /\ call'.op = "store"
    BY <1>1, <1>2, <2>1 DEF CallsInProgress, Results
  <2>3. IInv'
    BY <1>4, <2>1, <2>2 DEF CInv, IInv, StoreTypeOK, RecordsAreAsked,
                            MemoryIsAsked, WantedIsAsked, HalfDone
  <2>4. entrusted' = entrusted => EntrustedIsKept' /\ CallInv'
    BY <1>4, <2>2 DEF CInv, EntrustedIsKept, CallInv, Keeps
  <2> QED
    BY <2>3, <2>4
<1>6. CASE PassOf(opts) # NoPass
  <2>1. Begin(c)
    BY <1>6 DEF StoreFor
  <2> HIDE DEF c
  <2>2. IInv'
    BY <1>1, <1>2, <1>3, <1>6, <2>1, BeginStep DEF CInv
  <2>3. call' = c
    BY <2>1 DEF Begin
  <2>4. entrusted' = entrusted => EntrustedIsKept' /\ CallInv'
    BY <1>1, <1>4, <2>3 DEF CInv, EntrustedIsKept, CallInv, Keeps
  <2> QED
    BY <2>2, <2>4
<1> QED
  BY <1>5, <1>6

\* Writing any record but another one in its place keeps a primary record.
LEMMA WriteKeeps ==
    ASSUME CInv, NEW k \in RecordKeys, NEW v, NEW ok \in BOOLEAN,
           Write(k, v, ok),
           NEW b \in Bundles, Keeps(mem, b), Keeps(disk, b),
           k = PrimaryKey(b) => v # Missing /\ v.secret = SecretOf[b]
    PROVE  Keeps(mem', b) /\ Keeps(disk', b)
<1>1. PrimaryKey(b) \in RecordKeys
  BY KeysDiffer
<1> QED
  BY <1>1 DEF CInv, IInv, StoreTypeOK, Write, Keeps

LEMMA RemoveKeeps ==
    ASSUME CInv, NEW k \in RecordKeys, NEW ok \in BOOLEAN, Remove(k, ok),
           NEW b \in Bundles, Keeps(mem, b), Keeps(disk, b),
           k # PrimaryKey(b)
    PROVE  Keeps(mem', b) /\ Keeps(disk', b)
<1>1. CASE mem[k] = Missing
  BY <1>1 DEF Remove, records, Keeps
<1>2. CASE mem[k] # Missing
  BY <1>2, WriteKeeps DEF Remove
<1> QED
  BY <1>1, <1>2

\* Finish leaves everything of the call but its step and result.
LEMMA FinishedCall ==
    ASSUME NEW c \in CallsInProgress, NEW err, Finish(c, err)
    PROVE  /\ call'.by = c.by /\ call'.op = c.op /\ call'.bundle = c.bundle
           /\ call'.step = "done" /\ call'.err = err
  BY DEF Finish, CallsInProgress

LEMMA StorePrimaryKeeps ==
    ASSUME CInv, StorePrimary, entrusted' = entrusted
    PROVE  EntrustedIsKept' /\ CallInv'
<1> DEFINE k == PrimaryKey(call.bundle)
           v == Seal(SecretOf[call.bundle], call.pass)
<1>1. /\ call # Idle /\ call \in CallsInProgress /\ call.bundle \in Bundles
      /\ call.op = "store" /\ call.step = "primary" /\ call.err = "SUCCESS"
      /\ call.pass \in Passphrases
      /\ call.by # "application" => call.op = "store"
  BY DEF StorePrimary, CInv, IInv, StoreTypeOK, CallInv, CallsInProgress
<1>2. k \in RecordKeys /\ v \in Envelopes /\ v.secret = SecretOf[call.bundle]
  BY <1>1, KeysDiffer DEF Seal, Envelopes
<1>3. v # Missing
  BY <1>2, MissingAssumption
<1>4. PICK ok \in BOOLEAN :
        /\ Write(k, v, ok)
        /\ IF ~ok THEN Finish(call, "INVALID_STATE")
           ELSE IF call.rec = NoPass THEN Finish(call, "SUCCESS")
           ELSE /\ call' = [call EXCEPT !.step = "recovery"]
                /\ UNCHANGED asked
  BY DEF StorePrimary
<1>5. ASSUME NEW b \in entrusted PROVE Keeps(mem', b) /\ Keeps(disk', b)
  <2>1. b \in Bundles /\ Keeps(mem, b) /\ Keeps(disk, b)
    BY DEF CInv, ClientTypeOK, EntrustedIsKept
  <2>2. k = PrimaryKey(b) => v # Missing /\ v.secret = SecretOf[b]
    BY <1>1, <1>2, <1>3, <2>1, KeysOfBundles
  <2> HIDE DEF k, v
  <2> QED
    BY <1>2, <1>4, <2>1, <2>2, WriteKeeps
<1>6. ok => Keeps(mem', call.bundle) /\ Keeps(disk', call.bundle)
  <2>1. ok => mem'[k] = v /\ disk'[k] = v
    <3> HIDE DEF k, v
    <3> QED
      BY <1>2, <1>4 DEF Write, CInv, IInv, StoreTypeOK
  <2> QED
    BY <1>2, <1>3, <2>1 DEF Keeps
<1>7. /\ call'.by = call.by /\ call'.op = "store"
      /\ call'.bundle = call.bundle /\ call'.step \in {"recovery", "done"}
      /\ call'.err = "SUCCESS" => ok
      /\ call'.step = "recovery" => call'.err = "SUCCESS"
  <2>1. CASE ~ok
    <3>1. Finish(call, "INVALID_STATE")
      BY <1>4, <2>1
    <3> QED
      BY <1>1, <3>1, FinishedCall
  <2>2. CASE ok /\ call.rec = NoPass
    <3>1. Finish(call, "SUCCESS")
      BY <1>4, <2>2
    <3> QED
      BY <1>1, <2>2, <3>1, FinishedCall
  <2>3. CASE ok /\ call.rec # NoPass
    BY <1>1, <1>4, <2>3 DEF CallsInProgress
  <2> QED
    BY <2>1, <2>2, <2>3
<1>8. EntrustedIsKept'
  BY <1>5 DEF EntrustedIsKept, Keeps
<1>9. CallInv'
  BY <1>1, <1>6, <1>7 DEF CallInv, Keeps
<1> QED
  BY <1>8, <1>9

LEMMA StoreRecoveryKeeps ==
    ASSUME CInv, StoreRecovery, entrusted' = entrusted
    PROVE  EntrustedIsKept' /\ CallInv'
<1> DEFINE k == RecoveryKey(call.bundle)
           v == Seal(SecretOf[call.bundle], call.rec)
<1>1. /\ call # Idle /\ call \in CallsInProgress /\ call.bundle \in Bundles
      /\ call.op = "store" /\ call.step = "recovery" /\ call.err = "SUCCESS"
      /\ Keeps(mem, call.bundle) /\ Keeps(disk, call.bundle)
  BY DEF StoreRecovery, CInv, IInv, StoreTypeOK, CallInv, CallsInProgress
<1>2. /\ k \in RecordKeys
      /\ \A b \in Bundles : k # PrimaryKey(b)
  BY <1>1, KeysDiffer
<1>3. PICK ok \in BOOLEAN :
        /\ Write(k, v, ok)
        /\ Finish(call, IF ok THEN "SUCCESS" ELSE "INVALID_STATE")
  BY DEF StoreRecovery
<1>4. ASSUME NEW b \in Bundles, Keeps(mem, b), Keeps(disk, b)
      PROVE  Keeps(mem', b) /\ Keeps(disk', b)
  <2> HIDE DEF k, v
  <2> QED
    BY <1>2, <1>3, <1>4, WriteKeeps
<1>5. EntrustedIsKept'
  BY <1>4 DEF CInv, ClientTypeOK, EntrustedIsKept, Keeps
<1>6. /\ call'.by = call.by /\ call'.op = "store"
      /\ call'.bundle = call.bundle /\ call'.step = "done"
  BY <1>1, <1>3, FinishedCall
<1>7. CallInv'
  BY <1>1, <1>4, <1>6 DEF CallInv, Keeps
<1> QED
  BY <1>5, <1>7

\* A removal touches no entrusted secret: the call took its own away.
LEMMA RemovalKeeps ==
    ASSUME CInv, call # Idle, call.op = "delete", call \in CallsInProgress,
           NEW k \in {PrimaryKey(call.bundle), RecoveryKey(call.bundle)},
           NEW ok \in BOOLEAN, Remove(k, ok), entrusted' = entrusted
    PROVE  EntrustedIsKept'
<1>1. call.bundle \in Bundles /\ call.bundle \notin entrusted
  BY DEF CallsInProgress, CInv, CallInv
<1>2. k \in RecordKeys
  BY <1>1, KeysDiffer
<1>3. ASSUME NEW b \in entrusted PROVE Keeps(mem', b) /\ Keeps(disk', b)
  <2>1. b \in Bundles /\ Keeps(mem, b) /\ Keeps(disk, b)
    BY DEF CInv, ClientTypeOK, EntrustedIsKept
  <2>2. k # PrimaryKey(b)
    BY <1>1, <2>1, KeysDiffer, KeysOfBundles
  <2> QED
    BY <1>2, <2>1, <2>2, RemoveKeeps
<1> QED
  BY <1>3 DEF EntrustedIsKept, Keeps

LEMMA DeleteKeeps ==
    ASSUME CInv, DeletePrimary \/ DeleteRecovery, entrusted' = entrusted
    PROVE  EntrustedIsKept' /\ CallInv'
<1>1. /\ call # Idle /\ call \in CallsInProgress /\ call.op = "delete"
      /\ call.bundle \notin entrusted /\ call.by = "application"
  BY DEF DeletePrimary, DeleteRecovery, CInv, IInv, StoreTypeOK, CallInv
<1>2. EntrustedIsKept'
  BY <1>1, RemovalKeeps DEF DeletePrimary, DeleteRecovery
<1>3. /\ call'.by = call.by /\ call'.op = "delete"
      /\ call'.bundle = call.bundle
  BY <1>1 DEF DeletePrimary, DeleteRecovery, Finish, CallsInProgress
<1> QED
  BY <1>1, <1>2, <1>3 DEF CallInv

\* A step that leaves the records and the call in progress alone.
LEMMA StoreStands ==
    ASSUME CInv, UNCHANGED <<store, entrusted>>
    PROVE  IInv' /\ EntrustedIsKept' /\ CallInv'
<1>1. IInv'
  BY StutterStep DEF CInv
<1>2. EntrustedIsKept' /\ CallInv'
  BY DEF CInv, EntrustedIsKept, CallInv, Keeps, store
<1> QED
  BY <1>1, <1>2

LEMMA ApplicationKeeps == CInv /\ Application => CInv'
<1> SUFFICES ASSUME CInv, Application PROVE CInv'
  OBVIOUS
<1>1. IInv'
  BY ApplicationStep DEF CInv, Application
<1>2. /\ mem' = mem /\ disk' = disk
      /\ call' # Idle => /\ call'.by = "application"
                         /\ call'.op \in {"store", "delete"}
                         /\ call'.step = "primary" /\ call'.err = "SUCCESS"
  <2>1. /\ UNCHANGED records
        /\ \/ \E b \in Bundles, p \in Passphrases, r \in Passphrases \cup {NoPass} :
                Begin(StoreCall("application", b, p, r))
           \/ \E b \in Bundles : Begin(DeleteCall("application", b))
    BY DEF Application, ApplicationCalls, BeginStore, RecoverSecret, BeginDelete
  <2>2. CASE \E b \in Bundles, p \in Passphrases, r \in Passphrases \cup {NoPass} :
                Begin(StoreCall("application", b, p, r))
    BY <2>1, <2>2 DEF Begin, StoreCall, records
  <2>3. CASE \E b \in Bundles : Begin(DeleteCall("application", b))
    BY <2>1, <2>3 DEF Begin, DeleteCall, records
  <2> QED
    BY <2>1, <2>2, <2>3
<1>3. /\ entrusted' = IF call'.op = "delete" THEN entrusted \ {call'.bundle}
                      ELSE entrusted
      /\ cleartext' = cleartext /\ options' = options
  BY DEF Application, client
<1>4. ClientTypeOK'
  BY <1>3 DEF CInv, ClientTypeOK
<1>5. EntrustedIsKept'
  BY <1>2, <1>3 DEF CInv, EntrustedIsKept, Keeps
<1>6. CallInv'
  BY <1>2, <1>3 DEF CallInv
<1> QED
  BY <1>1, <1>4, <1>5, <1>6 DEF CInv

LEMMA ProviderKeeps == CInv /\ Provider => CInv'
<1> SUFFICES ASSUME CInv, Provider PROVE CInv'
  OBVIOUS
<1>1. /\ entrusted' = entrusted /\ cleartext' = cleartext /\ options' = options
      /\ StoreSteps
  BY DEF Provider, client
<1>2. ClientTypeOK'
  BY <1>1 DEF CInv, ClientTypeOK
<1>3. IInv'
  BY <1>1, StorePrimaryStep, StoreRecoveryStep, DeletePrimaryStep,
     DeleteRecoveryStep, ReturnStep DEF CInv, StoreSteps
<1>4. ASSUME Return PROVE EntrustedIsKept' /\ CallInv'
  BY <1>1, <1>4 DEF Return, CInv, EntrustedIsKept, CallInv, Keeps
<1>5. EntrustedIsKept' /\ CallInv'
  BY <1>1, <1>4, StorePrimaryKeeps, StoreRecoveryKeeps, DeleteKeeps
     DEF StoreSteps
<1> QED
  BY <1>2, <1>3, <1>5 DEF CInv

\* The caller has the result of a call that stored, and the client goes on.
LEMMA AnsweredKeeps ==
    ASSUME CInv, NEW by \in {"set_secret", "attach"}, Answered(by), Answer,
           entrusted' = IF call.err = "SUCCESS"
                        THEN entrusted \cup {call.bundle} ELSE entrusted
    PROVE  IInv' /\ EntrustedIsKept' /\ CallInv' /\ call.bundle \in Bundles
<1>1. /\ call # Idle /\ call \in CallsInProgress /\ call.bundle \in Bundles
      /\ call.op = "store" /\ call.step = "done"
      /\ call.err = "SUCCESS" =>
            Keeps(mem, call.bundle) /\ Keeps(disk, call.bundle)
  BY DEF Answered, CInv, IInv, StoreTypeOK, CallInv, CallsInProgress
<1>2. /\ mem' = mem /\ disk' = disk /\ asked' = asked /\ call' = Idle
  BY DEF Answer
<1>3. IInv'
  BY <1>2 DEF CInv, IInv, StoreTypeOK, RecordsAreAsked, MemoryIsAsked,
              WantedIsAsked, HalfDone
<1>4. EntrustedIsKept'
  BY <1>1, <1>2 DEF CInv, EntrustedIsKept, Keeps
<1>5. CallInv'
  BY <1>2 DEF CallInv
<1> QED
  BY <1>1, <1>3, <1>4, <1>5

LEMMA SetSecretKeeps ==
    CInv /\ (\E b \in Bundles : SetSecretWithoutProvider(b) \/ SetSecret(b))
    => CInv'
<1> SUFFICES ASSUME CInv, NEW b \in Bundles,
                    SetSecretWithoutProvider(b) \/ SetSecret(b)
             PROVE  CInv'
  OBVIOUS
<1>1. CASE SetSecretWithoutProvider(b)
  <2>1. UNCHANGED <<store, entrusted>> /\ ClientTypeOK'
    BY <1>1 DEF SetSecretWithoutProvider, CInv, ClientTypeOK
  <2> QED
    BY <2>1, StoreStands DEF CInv
<1>2. CASE SetSecret(b)
  <2>1. /\ StoreFor("set_secret", b, options) /\ UNCHANGED records
        /\ options \in Options /\ entrusted' = entrusted /\ ClientTypeOK'
    BY <1>2 DEF SetSecret, client, records, CInv, ClientTypeOK
  <2> QED
    BY <2>1, StoreForStep DEF CInv
<1> QED
  BY <1>1, <1>2

LEMMA SetStorageKeeps ==
    CInv /\ (\E b \in Bundles \cup {NoBundle}, opts \in Options :
                Detach(b, opts) \/ AttachOnly(b, opts) \/ Attach(b, opts))
    => CInv'
<1> SUFFICES ASSUME CInv, NEW b \in Bundles \cup {NoBundle},
                    NEW opts \in Options,
                    Detach(b, opts) \/ AttachOnly(b, opts) \/ Attach(b, opts)
             PROVE  CInv'
  OBVIOUS
<1>1. CASE Detach(b, opts) \/ AttachOnly(b, opts)
  <2>1. UNCHANGED <<store, entrusted>> /\ ClientTypeOK'
    BY <1>1 DEF Detach, AttachOnly, CInv, ClientTypeOK
  <2> QED
    BY <2>1, StoreStands DEF CInv
<1>2. CASE Attach(b, opts)
  <2>1. /\ StoreFor("attach", BundleOf(cleartext), opts) /\ UNCHANGED records
        /\ entrusted' = entrusted /\ ClientTypeOK'
    BY <1>2 DEF Attach, records, CInv, ClientTypeOK
  <2>2. BundleOf(cleartext) \in Bundles
    BY <1>2 DEF Attach, BundleOf, CInv, ClientTypeOK
  <2> QED
    BY <2>1, <2>2, StoreForStep DEF CInv
<1> QED
  BY <1>1, <1>2

LEMMA DoneKeeps == CInv /\ (SetSecretDone \/ AttachDone) => CInv'
<1> SUFFICES ASSUME CInv, SetSecretDone \/ AttachDone PROVE CInv'
  OBVIOUS
<1>1. PICK by \in {"set_secret", "attach"} : Answered(by)
  BY DEF SetSecretDone, AttachDone
<1>2. /\ Answer
      /\ entrusted' = IF call.err = "SUCCESS"
                      THEN entrusted \cup {call.bundle} ELSE entrusted
      /\ cleartext' \in {Missing, cleartext, SecretOf[call.bundle]}
      /\ options' = options
  BY DEF SetSecretDone, AttachDone, Stored, Answer
<1>3. IInv' /\ EntrustedIsKept' /\ CallInv' /\ call.bundle \in Bundles
  BY <1>1, <1>2, AnsweredKeeps
<1>4. ClientTypeOK'
  BY <1>2, <1>3 DEF CInv, ClientTypeOK
<1> QED
  BY <1>3, <1>4 DEF CInv

\* What is lost with the process is not what the file keeps.
LEMMA DieKeeps == CInv /\ Die => CInv'
<1> SUFFICES ASSUME CInv, Die PROVE CInv'
  OBVIOUS
<1>1. IInv'
  BY RestartStep DEF CInv, Die
<1>2. ClientTypeOK' /\ EntrustedIsKept' /\ CallInv'
  BY DEF Die, Restart, CInv, ClientTypeOK, EntrustedIsKept, CallInv, Keeps,
         NoOptions, Options
<1> QED
  BY <1>1, <1>2 DEF CInv

LEMMA StutterKeeps == CInv /\ UNCHANGED vars => CInv'
<1> SUFFICES ASSUME CInv, UNCHANGED vars PROVE CInv'
  OBVIOUS
<1>1. UNCHANGED <<store, entrusted>> /\ ClientTypeOK'
  BY DEF vars, client, CInv, ClientTypeOK
<1> QED
  BY <1>1, StoreStands DEF CInv

LEMMA ClientInvariance == CInv /\ [Next]_vars => CInv'
  BY SetSecretKeeps, SetStorageKeeps, DoneKeeps, ApplicationKeeps,
     ProviderKeeps, DieKeeps, StutterKeeps DEF Next

LEMMA AlwaysCInv == Spec => []CInv
  BY InitCInv, ClientInvariance, PTL DEF Spec

\* Every record of the file is one that was asked for, whatever the client
\* (client_store_secret) and the application do over one provider, and whatever
\* fails or is cut short by a crash.
THEOREM RecordsAreAlwaysAsked == Spec => []RecordsAreAsked
<1>1. CInv => RecordsAreAsked
  BY DEF CInv, IInv
<1> QED
  BY AlwaysCInv, <1>1, PTL

\* A secret whose cleartext a client gave up (client_store_secret,
\* knishio_client_set_secret_storage) is in the file until it is deleted.
THEOREM EntrustedIsAlwaysStored == Spec => []EntrustedIsStored
<1>1. CInv => EntrustedIsStored
  BY DEF CInv, EntrustedIsKept, EntrustedIsStored, Keeps
<1> QED
  BY AlwaysCInv, <1>1, PTL

-----------------------------------------------------------------------------
(* What the client is left with. *)

\* The primary records of m hold the secrets of their own bundles.
Own(m) ==
    \A b \in Bundles : m[PrimaryKey(b)] # Missing => m[PrimaryKey(b)].secret = SecretOf[b]

SecretsHeld == {SecretOf[b] : b \in Bundles} \cup {Missing}

RestTypeOK ==
    /\ before \in SecretsHeld
    /\ bundle \in Bundles \cup {NoBundle}
    /\ attached \in BOOLEAN
    /\ last \in Results
    /\ call # Idle /\ call.by # "application" => attached

\* CleartextIsGone, also while the application is in a call.
GoneInv ==
    (call = Idle \/ call.by = "application") /\ attached /\ last = "SUCCESS" => cleartext = Missing

\* The bundle is that of the cleartext, or of the secret on its way to the provider.
BundleInv ==
    ~SelectsWhileHolding =>
        /\ cleartext # Missing => bundle = BundleOf(cleartext)
        /\ call # Idle /\ call.by = "attach" => bundle = call.bundle

\* A call of the client seals with the passphrase it will open with, has sealed when it
\* is past the primary record, and until it ends what was resolved before still is, or
\* is what it stores.
ResultInv ==
    call # Idle /\ call.by # "application" =>
        /\ call.pass = PassOf(options)
        /\ call.step # "primary" /\ call.err = "SUCCESS" =>
                mem[PrimaryKey(call.bundle)] = Seal(SecretOf[call.bundle], call.pass)
        /\ before # Missing => IF call.by = "set_secret" THEN before = Resolved
                               ELSE before = SecretOf[call.bundle]

OInv == Own(mem) /\ Own(disk) /\ RestTypeOK /\ GoneInv /\ BundleInv /\ ResultInv

LEMMA BundleOfSecret ==
    /\ \A b \in Bundles : BundleOf(SecretOf[b]) = b
    /\ \A s \in SecretsHeld : s # Missing => BundleOf(s) \in Bundles /\ SecretOf[BundleOf(s)] = s
BY SecretOfAssumption DEF BundleOf, SecretsHeld

\* What is resolved is one of the secrets, that of the bundle if it is not the cleartext.
LEMMA ResolvedIsOfBundle ==
    ASSUME CInv, OInv
    PROVE  /\ Resolved \in SecretsHeld
           /\ Resolved # Missing /\ cleartext = Missing => bundle \in Bundles /\ Resolved = SecretOf[bundle]
<1>1. CASE cleartext # Missing
  BY <1>1 DEF Resolved, CInv, ClientTypeOK, SecretsHeld
<1>2. CASE cleartext = Missing /\ attached /\ bundle # NoBundle
  <2>1. bundle \in Bundles
    BY <1>2 DEF OInv, RestTypeOK
  <2>2. Resolved = Missing \/ Resolved = SecretOf[bundle]
    BY <1>2, <2>1 DEF Resolved, Retrieve, OInv, Own
  <2> QED
    BY <2>1, <2>2 DEF SecretsHeld
<1>3. CASE cleartext = Missing /\ ~(attached /\ bundle # NoBundle)
  BY <1>3 DEF Resolved, SecretsHeld
<1> QED
  BY <1>1, <1>2, <1>3

LEMMA InitOInv == Init => OInv
<1> SUFFICES ASSUME Init PROVE OInv
  OBVIOUS
<1>1. \A b \in Bundles : mem[PrimaryKey(b)] = Missing /\ disk[PrimaryKey(b)] = Missing
  BY KeysDiffer DEF Init, StoreInit
<1> QED
  BY <1>1 DEF Init, StoreInit, OInv, Own, RestTypeOK, GoneInv, BundleInv, ResultInv, SecretsHeld, Results

\* A call of the client begins with what was resolved, or is refused for want of a passphrase.
LEMMA StoreForCall ==
    ASSUME CInv, NEW by \in {"set_secret", "attach"}, NEW b \in Bundles, NEW opts \in Options,
           StoreFor(by, b, opts)
    PROVE  /\ call' # Idle /\ call'.by = by /\ call'.bundle = b /\ call'.pass = PassOf(opts)
           /\ call'.step = "primary" \/ call'.err = "INVALID_ARGS"
<1> DEFINE c == StoreCall(by, b, PassOf(opts), opts.rec)
<1>1. c \in CallsInProgress
  BY DefaultPassAssumption DEF StoreCall, CallsInProgress, Callers, Results, Options, PassOf
<1>2. c.by = by /\ c.bundle = b /\ c.pass = PassOf(opts) /\ c.step = "primary"
  BY DEF StoreCall
<1> HIDE DEF c
<1>3. call' = c \/ call' = [c EXCEPT !.step = "done", !.err = "INVALID_ARGS"]
  BY DEF StoreFor, Begin, c
<1>4. [c EXCEPT !.step = "done", !.err = "INVALID_ARGS"] \in CallsInProgress
  BY <1>1 DEF CallsInProgress, Results
<1> QED
  BY <1>1, <1>2, <1>3, <1>4, NoneAssumption DEF CallsInProgress

LEMMA SetSecretOrder ==
    ASSUME CInv, OInv, NEW b \in Bundles, SetSecretWithoutProvider(b) \/ SetSecret(b)
    PROVE  OInv'
<1>1. CASE SetSecretWithoutProvider(b)
  <2>1. /\ call = Idle /\ ~attached /\ cleartext' = SecretOf[b] /\ bundle' = b /\ last' = "SUCCESS"
        /\ UNCHANGED <<mem, disk, call, attached, before>>
    BY <1>1 DEF SetSecretWithoutProvider, store
  <2> QED
    BY <2>1, BundleOfSecret
       DEF OInv, Own, RestTypeOK, GoneInv, BundleInv, ResultInv, Results
<1>2. CASE SetSecret(b)
  <2>1. /\ StoreFor("set_secret", b, options) /\ options \in Options
        /\ call = Idle /\ attached /\ before' = Resolved
        /\ UNCHANGED <<mem, disk, cleartext, bundle, attached, options, last>>
    BY <1>2 DEF SetSecret, client, CInv, ClientTypeOK
  <2>2. /\ call' # Idle /\ call'.by = "set_secret" /\ call'.pass = PassOf(options)
        /\ call'.step = "primary" \/ call'.err = "INVALID_ARGS"
    BY <2>1, StoreForCall
  <2>3. Resolved' = Resolved
    BY <2>1 DEF Resolved, Retrieve, PassOf
  <2>4. ResultInv'
    BY <2>1, <2>2, <2>3 DEF ResultInv, PassOf
  <2>5. RestTypeOK'
    BY <2>1, <2>2, ResolvedIsOfBundle DEF OInv, RestTypeOK
  <2> QED
    BY <2>1, <2>2, <2>4, <2>5 DEF OInv, Own, GoneInv, BundleInv
<1> QED
  BY <1>1, <1>2

LEMMA SetStorageOrder ==
    ASSUME CInv, OInv, NEW b \in Bundles \cup {NoBundle}, NEW opts \in Options,
           Detach(b, opts) \/ AttachOnly(b, opts) \/ Attach(b, opts)
    PROVE  OInv'
<1>1. /\ call = Idle /\ Selects(b) /\ cleartext \in SecretsHeld
      /\ attached' \in BOOLEAN
      /\ UNCHANGED <<mem, disk>>
  BY DEF Detach, AttachOnly, Attach, store, CInv, ClientTypeOK, SecretsHeld
<1>2. /\ bundle' \in Bundles \cup {NoBundle}
      /\ ~SelectsWhileHolding /\ cleartext # Missing => bundle' = BundleOf(cleartext)
  BY <1>1 DEF Selects, OInv, RestTypeOK, BundleInv
<1>3. Own(mem)' /\ Own(disk)'
  BY <1>1 DEF OInv, Own
<1>4. CASE Detach(b, opts) \/ AttachOnly(b, opts)
  <2>1. /\ call' = Idle /\ cleartext' = cleartext /\ before' = before /\ last' = "SUCCESS"
        /\ attached' => cleartext = Missing
    BY <1>1, <1>4 DEF Detach, AttachOnly, store
  <2> QED
    BY <1>1, <1>2, <1>3, <2>1 DEF OInv, RestTypeOK, GoneInv, BundleInv, ResultInv, Results
<1>5. CASE Attach(b, opts)
  <2> DEFINE d == BundleOf(cleartext)
  <2>1. /\ StoreFor("attach", d, opts) /\ attached' = TRUE /\ options' = opts
        /\ cleartext # Missing /\ cleartext' = Missing /\ before' = Resolved /\ last' = last
    BY <1>5 DEF Attach
  <2>2. d \in Bundles /\ SecretOf[d] = cleartext
    BY <1>1, <2>1, BundleOfSecret
  <2>3. Resolved = cleartext
    BY <2>1 DEF Resolved
  <2> HIDE DEF d
  <2>4. /\ call' # Idle /\ call'.by = "attach" /\ call'.bundle = d /\ call'.pass = PassOf(opts)
        /\ call'.step = "primary" \/ call'.err = "INVALID_ARGS"
    BY <2>1, <2>2, StoreForCall
  <2>5. ResultInv'
    BY <2>1, <2>2, <2>3, <2>4 DEF ResultInv, PassOf
  <2>6. RestTypeOK'
    BY <1>1, <1>2, <2>1, <2>3 DEF OInv, RestTypeOK
  <2>7. GoneInv' /\ BundleInv'
    BY <1>2, <2>1, <2>4 DEF GoneInv, BundleInv, d
  <2> QED
    BY <1>3, <2>5, <2>6, <2>7 DEF OInv
<1> QED
  BY <1>4, <1>5

\* The result of a call of the client.
LEMMA DoneDecides ==
    ASSUME CInv, OInv, SetSecretDone \/ AttachDone
    PROVE  /\ OInv'
           /\ IF call.err = "SUCCESS" THEN Resolved' = SecretOf[call.bundle]
              ELSE before # Missing => Resolved' = before
<1>1. /\ call # Idle /\ call.by \in {"set_secret", "attach"} /\ call.step = "done"
      /\ call \in CallsInProgress /\ call.bundle \in Bundles /\ call.err \in Results
      /\ call.pass = PassOf(options) /\ attached
      /\ call' = Idle /\ last' = call.err /\ before' = Missing
      /\ UNCHANGED <<mem, disk, attached, options>>
  BY DEF SetSecretDone, AttachDone, Answered, Answer, CInv, IInv, StoreTypeOK,
         CallsInProgress, OInv, RestTypeOK, ResultInv
<1>2. Own(mem)' /\ Own(disk)' /\ ResultInv'
  BY <1>1 DEF OInv, Own, ResultInv
<1>3. CASE call.err = "SUCCESS"
  <2>1. cleartext' = Missing /\ bundle' = call.bundle
    BY <1>3 DEF SetSecretDone, AttachDone, Stored
  <2>2. mem[PrimaryKey(call.bundle)] = Seal(SecretOf[call.bundle], call.pass)
    BY <1>1, <1>3 DEF OInv, ResultInv
  <2>3. mem[PrimaryKey(call.bundle)] # Missing
    BY <1>1, <1>3 DEF CInv, CallInv, Keeps
  <2>4. bundle' # NoBundle
    BY <1>1, <2>1, NoneAssumption
  <2>5. Resolved' = Retrieve(call.bundle, PassOf(options))
    BY <1>1, <2>1, <2>4 DEF Resolved, Retrieve, PassOf
  <2>6. Resolved' = SecretOf[call.bundle]
    BY <1>1, <2>2, <2>3, <2>5 DEF Retrieve, Seal
  <2>7. RestTypeOK' /\ GoneInv' /\ BundleInv'
    BY <1>1, <2>1 DEF OInv, RestTypeOK, GoneInv, BundleInv, SecretsHeld
  <2> QED
    BY <1>2, <1>3, <2>6, <2>7 DEF OInv
<1>4. CASE call.err # "SUCCESS" /\ call.by = "set_secret"
  <2>1. cleartext' = cleartext /\ bundle' = bundle
    BY <1>4 DEF SetSecretDone, AttachDone, Answered
  <2>2. Resolved' = Resolved
    BY <1>1, <2>1 DEF Resolved, Retrieve, PassOf
  <2>3. before # Missing => Resolved' = before
    BY <1>1, <1>4, <2>2 DEF OInv, ResultInv
  <2>4. RestTypeOK' /\ GoneInv' /\ BundleInv'
    BY <1>1, <1>4, <2>1 DEF OInv, RestTypeOK, GoneInv, BundleInv, SecretsHeld
  <2> QED
    BY <1>2, <1>4, <2>3, <2>4 DEF OInv
<1>5. CASE call.err # "SUCCESS" /\ call.by = "attach"
  <2>1. cleartext' = SecretOf[call.bundle] /\ bundle' = bundle
    BY <1>5 DEF SetSecretDone, AttachDone, Answered
  <2>2. Resolved' = SecretOf[call.bundle]
    BY <1>1, <2>1, SecretOfAssumption DEF Resolved
  <2>3. before # Missing => Resolved' = before
    BY <1>1, <1>5, <2>2 DEF OInv, ResultInv
  <2>4. RestTypeOK' /\ GoneInv' /\ BundleInv'
    BY <1>1, <1>5, <2>1, BundleOfSecret DEF OInv, RestTypeOK, GoneInv, BundleInv, SecretsHeld
  <2> QED
    BY <1>2, <1>5, <2>3, <2>4 DEF OInv
<1> QED
  BY <1>1, <1>3, <1>4, <1>5

\* What a write makes of the records.
LEMMA WriteOwn ==
    ASSUME CInv, Own(mem), Own(disk), NEW k \in RecordKeys, NEW v, NEW ok \in BOOLEAN,
           Write(k, v, ok),
           \A b \in Bundles : k = PrimaryKey(b) => v = Missing \/ v.secret = SecretOf[b]
    PROVE  /\ Own(mem)' /\ Own(disk)'
           /\ mem'[k] = v
           /\ \A j \in RecordKeys : j # k => mem'[j] = mem[j]
<1>1. /\ mem \in [RecordKeys -> Envelopes \cup {Missing}]
      /\ mem' = [mem EXCEPT ![k] = v] /\ disk' \in {disk, mem'}
  BY DEF Write, CInv, IInv, StoreTypeOK
<1>2. mem'[k] = v /\ \A j \in RecordKeys : j # k => mem'[j] = mem[j]
  BY <1>1
<1>3. Own(mem)'
  BY <1>2, KeysDiffer DEF Own
<1>4. Own(disk)'
  BY <1>1, <1>3 DEF Own
<1> QED
  BY <1>2, <1>3, <1>4

LEMMA StorePassphrase ==
    ASSUME CInv, StorePrimary \/ StoreRecovery
    PROVE  call.pass \in Passphrases
<1>1. CASE StorePrimary
  BY <1>1 DEF StorePrimary, CInv, IInv, StoreTypeOK
<1>2. CASE StoreRecovery
  <2>1. /\ call # Idle /\ call.bundle \in Bundles
        /\ mem[PrimaryKey(call.bundle)] = Seal(SecretOf[call.bundle], call.pass)
        /\ mem[PrimaryKey(call.bundle)] # Missing
        /\ mem[PrimaryKey(call.bundle)] \in Envelopes \cup {Missing}
    BY <1>2, KeysDiffer DEF StoreRecovery, CInv, CallInv, Keeps, IInv, HalfDone, StoreTypeOK, CallsInProgress
  <2> QED
    BY <2>1 DEF Seal, Envelopes
<1> QED
  BY <1>1, <1>2

\* A step of a store goes on with the same call, and once it is past the primary record,
\* unless it failed, that record is sealed for it.
LEMMA StoreStepOrder ==
    ASSUME CInv, OInv, StorePrimary \/ StoreRecovery
    PROVE  /\ Own(mem)' /\ Own(disk)'
           /\ call # Idle /\ call' # Idle
           /\ call'.by = call.by /\ call'.bundle = call.bundle /\ call'.pass = call.pass
           /\ call'.err = "SUCCESS" =>
                mem'[PrimaryKey(call.bundle)] = Seal(SecretOf[call.bundle], call.pass)
           /\ \A b \in Bundles :
                \/ mem'[PrimaryKey(b)] = mem[PrimaryKey(b)]
                \/ b = call.bundle /\ mem'[PrimaryKey(b)] = Seal(SecretOf[b], call.pass)
<1>1. /\ call # Idle /\ call \in CallsInProgress /\ call.bundle \in Bundles
      /\ PrimaryKey(call.bundle) \in RecordKeys /\ RecoveryKey(call.bundle) \in RecordKeys
      /\ Own(mem) /\ Own(disk)
  BY KeysDiffer DEF StorePrimary, StoreRecovery, CInv, IInv, StoreTypeOK, CallsInProgress, OInv
<1>2. ASSUME NEW err \in Results, Finish(call, err)
      PROVE  /\ call' \in CallsInProgress /\ call'.err = err
             /\ call'.by = call.by /\ call'.bundle = call.bundle /\ call'.pass = call.pass
  BY <1>1, <1>2 DEF Finish, CallsInProgress
<1>3. CASE StorePrimary
  <2> DEFINE k == PrimaryKey(call.bundle)
             v == Seal(SecretOf[call.bundle], call.pass)
  <2>1. PICK ok \in BOOLEAN :
            /\ Write(k, v, ok)
            /\ IF ~ok THEN Finish(call, "INVALID_STATE")
               ELSE IF call.rec = NoPass THEN Finish(call, "SUCCESS")
               ELSE call' = [call EXCEPT !.step = "recovery"]
    BY <1>3 DEF StorePrimary
  <2>2. v.secret = SecretOf[call.bundle]
    BY DEF Seal
  <2>3. \A b \in Bundles : k = PrimaryKey(b) => v.secret = SecretOf[b]
    BY <1>1, <2>2, KeysOfBundles
  <2> HIDE DEF v
  <2>4. /\ Own(mem)' /\ Own(disk)' /\ mem'[k] = v
        /\ \A j \in RecordKeys : j # k => mem'[j] = mem[j]
    BY <1>1, <2>1, <2>3, WriteOwn
  <2>5. \A b \in Bundles : mem'[PrimaryKey(b)] = mem[PrimaryKey(b)] \/ b = call.bundle
    BY <1>1, <2>4, KeysDiffer, KeysOfBundles
  <2>6. call' = [call EXCEPT !.step = "recovery"] =>
            /\ call' \in CallsInProgress
            /\ call'.by = call.by /\ call'.bundle = call.bundle /\ call'.pass = call.pass
    BY <1>1 DEF CallsInProgress
  <2>7. /\ call' \in CallsInProgress
        /\ call'.by = call.by /\ call'.bundle = call.bundle /\ call'.pass = call.pass
    BY <1>2, <2>1, <2>6 DEF Results
  <2> QED
    BY <1>1, <2>4, <2>5, <2>7, NoneAssumption DEF v
<1>4. CASE StoreRecovery
  <2> DEFINE k == RecoveryKey(call.bundle)
             v == Seal(SecretOf[call.bundle], call.rec)
  <2>1. PICK ok \in BOOLEAN :
            Write(k, v, ok) /\ Finish(call, IF ok THEN "SUCCESS" ELSE "INVALID_STATE")
    BY <1>4 DEF StoreRecovery
  <2>2. \A b \in Bundles : k # PrimaryKey(b)
    BY <1>1, KeysDiffer
  <2> HIDE DEF v
  <2>3. /\ Own(mem)' /\ Own(disk)'
        /\ \A j \in RecordKeys : j # k => mem'[j] = mem[j]
    BY <1>1, <2>1, <2>2, WriteOwn
  <2>4. \A b \in Bundles : mem'[PrimaryKey(b)] = mem[PrimaryKey(b)]
    BY <2>2, <2>3, KeysDiffer
  <2>5. mem[PrimaryKey(call.bundle)] = Seal(SecretOf[call.bundle], call.pass)
    BY <1>1, <1>4 DEF StoreRecovery, CInv, IInv, HalfDone
  <2>6. /\ call' \in CallsInProgress
        /\ call'.by = call.by /\ call'.bundle = call.bundle /\ call'.pass = call.pass
    BY <1>2, <2>1 DEF Results
  <2> QED
    BY <1>1, <2>3, <2>4, <2>5, <2>6, NoneAssumption
<1> QED
  BY <1>3, <1>4

\* So what is resolved during a call of the client stays.
LEMMA StoreOrder ==
    ASSUME CInv, OInv, StorePrimary \/ StoreRecovery, UNCHANGED <<client, last, before>>
    PROVE  OInv'
<1>1. UNCHANGED <<cleartext, bundle, attached, options, last, before>>
  BY DEF client
<1>2. /\ Own(mem)' /\ Own(disk)'
      /\ call # Idle /\ call' # Idle
      /\ call'.by = call.by /\ call'.bundle = call.bundle /\ call'.pass = call.pass
      /\ call'.err = "SUCCESS" =>
            mem'[PrimaryKey(call.bundle)] = Seal(SecretOf[call.bundle], call.pass)
      /\ \A b \in Bundles :
            \/ mem'[PrimaryKey(b)] = mem[PrimaryKey(b)]
            \/ b = call.bundle /\ mem'[PrimaryKey(b)] = Seal(SecretOf[b], call.pass)
  BY StoreStepOrder
<1>3. RestTypeOK' /\ GoneInv' /\ BundleInv'
  BY <1>1, <1>2 DEF OInv, RestTypeOK, GoneInv, BundleInv
<1>4. ASSUME call.by # "application", before # Missing, call.by = "set_secret"
      PROVE  before = Resolved'
  <2>1. before = Resolved /\ call.pass = PassOf(options)
    BY <1>2, <1>4 DEF OInv, ResultInv
  <2>2. CASE cleartext # Missing
    BY <1>1, <2>1, <2>2 DEF Resolved
  <2>3. CASE cleartext = Missing
    <3>1. attached /\ bundle \in Bundles /\ bundle # NoBundle /\ Resolved = SecretOf[bundle]
      BY <1>4, <2>1, <2>3, ResolvedIsOfBundle, NoneAssumption DEF Resolved
    <3>2. Resolved' = LET record == mem'[PrimaryKey(bundle)] IN
                      IF record = Missing \/ record.pass # PassOf(options) THEN Missing
                      ELSE record.secret
      BY <1>1, <2>3, <3>1 DEF Resolved, Retrieve, PassOf
    <3>3. CASE mem'[PrimaryKey(bundle)] = mem[PrimaryKey(bundle)]
      BY <2>1, <2>3, <3>1, <3>2, <3>3 DEF Resolved, Retrieve
    <3>4. CASE bundle = call.bundle /\ mem'[PrimaryKey(bundle)] = Seal(SecretOf[bundle], call.pass)
      <4>1. Seal(SecretOf[bundle], call.pass) # Missing
        <5>1. call.pass \in Passphrases
          BY <1>2, StorePassphrase
        <5> QED
          BY <3>1, <5>1, MissingAssumption DEF Seal, Envelopes
      <4> QED
        BY <2>1, <3>1, <3>2, <3>4, <4>1 DEF Seal
    <3> QED
      BY <1>2, <3>1, <3>3, <3>4
  <2> QED
    BY <2>2, <2>3
<1>5. ResultInv'
  BY <1>1, <1>2, <1>4 DEF OInv, ResultInv, PassOf
<1> QED
  BY <1>2, <1>3, <1>5 DEF OInv

LEMMA DeleteOrder ==
    ASSUME CInv, OInv, DeletePrimary \/ DeleteRecovery, UNCHANGED <<client, last, before>>
    PROVE  OInv'
<1>1. UNCHANGED <<cleartext, bundle, attached, options, last, before>>
  BY DEF client
<1>2. /\ call # Idle /\ call \in CallsInProgress /\ call.op = "delete" /\ call.by = "application"
      /\ PrimaryKey(call.bundle) \in RecordKeys /\ RecoveryKey(call.bundle) \in RecordKeys
      /\ Own(mem) /\ Own(disk)
  BY KeysDiffer DEF DeletePrimary, DeleteRecovery, CInv, CallInv, IInv, StoreTypeOK, CallsInProgress, OInv
<1>3. PICK k \in RecordKeys, ok \in BOOLEAN : Remove(k, ok)
  BY <1>2 DEF DeletePrimary, DeleteRecovery
<1>4. Own(mem)' /\ Own(disk)'
  <2>1. CASE mem[k] = Missing
    BY <1>2, <1>3, <2>1 DEF Remove, records, Own
  <2>2. CASE mem[k] # Missing
    BY <1>2, <1>3, <2>2, WriteOwn DEF Remove
  <2> QED
    BY <2>1, <2>2
<1>5. call'.by = "application"
  BY <1>2 DEF DeletePrimary, DeleteRecovery, Finish, CallsInProgress
<1> QED
  BY <1>1, <1>2, <1>4, <1>5 DEF OInv, RestTypeOK, GoneInv, BundleInv, ResultInv

\* Calls of the application, their ends, and crashes.
LEMMA OthersOrder ==
    ASSUME CInv, OInv,
           \/ Application
           \/ Return /\ UNCHANGED <<client, last, before>>
           \/ Die
           \/ UNCHANGED vars
    PROVE  OInv'
<1>1. CASE Application
  <2>1. /\ UNCHANGED <<mem, disk, cleartext, bundle, attached, options, last, before>>
        /\ call = Idle /\ call'.by = "application"
    <3>1. /\ call = Idle /\ UNCHANGED records
          /\ \E c : Begin(c) /\ c.by = "application"
      <4>1. \A b, p, r : StoreCall("application", b, p, r).by = "application"
                        /\ DeleteCall("application", b).by = "application"
        BY DEF StoreCall, DeleteCall
      <4> QED
        BY <1>1, <4>1 DEF Application, ApplicationCalls, BeginStore, RecoverSecret, BeginDelete
    <3>2. call'.by = "application"
      BY <3>1 DEF Begin
    <3> QED
      BY <1>1, <3>1, <3>2 DEF Application, records, client
  <2> QED
    BY <2>1 DEF OInv, Own, RestTypeOK, GoneInv, BundleInv, ResultInv
<1>2. CASE Return /\ UNCHANGED <<client, last, before>>
  <2>1. /\ UNCHANGED <<mem, disk, cleartext, bundle, attached, options, last, before>>
        /\ call.by = "application" /\ call' = Idle
    BY <1>2 DEF Return, client
  <2> QED
    BY <2>1 DEF OInv, Own, RestTypeOK, GoneInv, BundleInv, ResultInv
<1>3. CASE Die
  BY <1>3 DEF Die, Restart, OInv, Own, RestTypeOK, GoneInv, BundleInv, ResultInv, SecretsHeld, Results
<1>4. CASE UNCHANGED vars
  <2>1. UNCHANGED <<mem, disk, call, cleartext, bundle, attached, options, last, before>>
    BY <1>4 DEF vars, store, client
  <2> QED
    BY <2>1 DEF OInv, Own, RestTypeOK, GoneInv, BundleInv, ResultInv, Resolved, Retrieve, PassOf
<1> QED
  BY <1>1, <1>2, <1>3, <1>4

LEMMA OrderInvariance == CInv /\ OInv /\ [Next]_vars => OInv'
BY SetSecretOrder, SetStorageOrder, DoneDecides, StoreOrder, DeleteOrder, OthersOrder
   DEF Next, Provider, StoreSteps

LEMMA AlwaysInOrder == Spec => [](CInv /\ OInv)
<1>1. Init => CInv /\ OInv
  BY InitCInv, InitOInv
<1>2. CInv /\ OInv /\ [Next]_vars => CInv' /\ OInv'
  BY ClientInvariance, OrderInvariance
<1> QED
  BY <1>1, <1>2, PTL DEF Spec

\* The client, its calls and the records keep their types (client_ops.c,
\* storage/envelope.c); a call of the client is in progress only while it has a provider.
THEOREM ClientIsAlwaysTyped == Spec => []TypeOK
<1>1. CInv /\ OInv => TypeOK
  BY DEF CInv, IInv, OInv, ClientTypeOK, RestTypeOK, SecretsHeld, TypeOK
<1> QED
  BY AlwaysInOrder, <1>1, PTL

\* A client with a provider whose last call succeeded holds no cleartext, and what it
\* reports as its bundle is the bundle it signs for, unless somebody selected another
\* while it held a secret (knishio_client_set_secret, _set_secret_storage).
THEOREM ClientIsAlwaysInOrder ==
    ASSUME ~SelectsWhileHolding
    PROVE  Spec => []ClientIsInOrder
<1>1. CInv /\ OInv => ClientIsInOrder
  <2> SUFFICES ASSUME CInv, OInv PROVE ClientIsInOrder
    OBVIOUS
  <2>1. CleartextIsGone
    BY DEF OInv, GoneInv, CleartextIsGone
  <2>2. ASSUME Resolved # Missing PROVE bundle = BundleOf(Resolved)
    <3>1. CASE cleartext # Missing
      BY <3>1 DEF Resolved, OInv, BundleInv
    <3>2. CASE cleartext = Missing
      BY <2>2, <3>2, ResolvedIsOfBundle, BundleOfSecret
    <3> QED
      BY <3>1, <3>2
  <2> QED
    BY <2>1, <2>2 DEF ClientIsInOrder, BundleIsOfSecret
<1> QED
  BY AlwaysInOrder, <1>1, PTL

\* What a storing call returns decides the secret the client signs with: the new one on
\* success, on failure the one it had, whatever the call had written before it failed
\* (client_store_secret).
THEOREM ResultAlwaysDecides == Spec => ResultDecidesSecret
<1>1. CInv /\ OInv =>
        [SetSecretDone \/ AttachDone =>
            IF call.err = "SUCCESS" THEN Resolved' = SecretOf[call.bundle]
            ELSE before # Missing => Resolved' = before]_vars
  BY DoneDecides
<1> QED
  BY AlwaysInOrder, <1>1, PTL DEF ResultDecidesSecret

=============================================================================
