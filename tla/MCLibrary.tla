------------------------------ MODULE MCLibrary ------------------------------
(***************************************************************************)
(* The parts of the library that share no state with each other, in one    *)
(* instance: one of them is in use at a time, the others are as they are   *)
(* before anybody has used them.                                           *)
(***************************************************************************)
EXTENDS Calls, HandlePool, CipherWallet, Shake256, OneTime, TokenUnits, AuthToken,
        JsonTree, Policies, AtomForms, StringBuffer, MemoryPool, KeyDerivation, Encodings,
        ErrorContexts, Requests, Seals, Guards, MoleculeParts, MoleculeForms, SecretRecords

libVars == <<vars, walletVars, shakeVars, jsonVars, memVars, ref, partVars, recordVars, call>>

LibInit == Init /\ WalletInit /\ ShakeInit /\ JsonInit /\ MemInit /\ RefInit
           /\ PartsInit /\ RecordsInit /\ call = NoCall

\* Nobody else is in use.
OnlyTransport == WalletInit /\ ShakeInit /\ JsonInit /\ MemInit /\ RefInit /\ PartsInit /\ RecordsInit /\ Quiet
OnlyWallet == Init /\ ShakeInit /\ JsonInit /\ MemInit /\ RefInit /\ PartsInit /\ RecordsInit /\ Quiet
OnlyShake == Init /\ WalletInit /\ JsonInit /\ MemInit /\ RefInit /\ PartsInit /\ RecordsInit /\ Quiet
OnlyJson == Init /\ WalletInit /\ ShakeInit /\ MemInit /\ RefInit /\ PartsInit /\ RecordsInit /\ Quiet
OnlyPool == Init /\ WalletInit /\ ShakeInit /\ JsonInit /\ RefInit /\ PartsInit /\ RecordsInit /\ Quiet
OnlyRef == Init /\ WalletInit /\ ShakeInit /\ JsonInit /\ MemInit /\ PartsInit /\ RecordsInit /\ Quiet
OnlyParts == Init /\ WalletInit /\ ShakeInit /\ JsonInit /\ MemInit /\ RefInit /\ RecordsInit /\ Quiet
OnlyRecords == Init /\ WalletInit /\ ShakeInit /\ JsonInit /\ MemInit /\ RefInit /\ PartsInit /\ Quiet
OnlyCalls == Init /\ WalletInit /\ ShakeInit /\ JsonInit /\ MemInit /\ RefInit /\ PartsInit /\ RecordsInit

CallsNext ==
    \/ OneTimeNext \/ DealUnits \/ AuthTokenNext \/ Compare \/ PoliciesNext \/ AtomFormsNext
    \/ StringsNext \/ AllocateBytes \/ KeyNext \/ EncodingsNext \/ ErrorsNext \/ AnswersNext \/ RequestsNext
    \/ SealsNext \/ GuardsNext \/ MoleculeFormsNext \/ WriteEnvelope \/ Return

LibNext ==
    \/ OnlyTransport /\ Next
       /\ UNCHANGED <<walletVars, shakeVars, jsonVars, memVars, ref, partVars, recordVars, call>>
    \/ OnlyWallet /\ WalletNext
       /\ UNCHANGED <<vars, shakeVars, jsonVars, memVars, ref, partVars, recordVars, call>>
    \/ OnlyShake /\ ShakeNext
       /\ UNCHANGED <<vars, walletVars, jsonVars, memVars, ref, partVars, recordVars, call>>
    \/ OnlyJson /\ JsonNext
       /\ UNCHANGED <<vars, walletVars, shakeVars, memVars, ref, partVars, recordVars, call>>
    \/ OnlyPool /\ MemNext
       /\ UNCHANGED <<vars, walletVars, shakeVars, jsonVars, ref, partVars, recordVars, call>>
    \/ OnlyRef /\ RefNext
       /\ UNCHANGED <<vars, walletVars, shakeVars, jsonVars, memVars, partVars, recordVars, call>>
    \/ OnlyParts /\ PartsNext
       /\ UNCHANGED <<vars, walletVars, shakeVars, jsonVars, memVars, ref, recordVars, call>>
    \/ OnlyRecords /\ RecordsNext
       /\ UNCHANGED <<vars, walletVars, shakeVars, jsonVars, memVars, ref, partVars, call>>
    \/ OnlyCalls /\ CallsNext
       /\ UNCHANGED <<vars, walletVars, shakeVars, jsonVars, memVars, ref, partVars, recordVars>>

LibSpec == LibInit /\ [][LibNext]_libVars /\ Fairness

-----------------------------------------------------------------------------
(* What the instance calls texts, and what it lets an error be. *)

UpperOf(c) == IF c = "a" THEN "A" ELSE c
SomeSlugs == {<<"1", "U">>, <<"U">>, <<"|">>, <<"U", "1">>, <<"1", "|", "U">>}
SomeCodes == {-5, -100, -101, -902}
KnownCodes == {-5, -100, -101}
KemSizes(param) == IF param = 768 THEN 1 ELSE 2
SomePlaintexts == {<<>>, <<"q", "p">>}

-----------------------------------------------------------------------------
\* What a caller asks is sent whole, and what it is told is what the validator answered, or
\* an error with its own causes; a wrapper of JSON does not outlive the tree it is read from.
AnswersAreTold == AnswersAreRead /\ RequestsAreTold /\ JsonIsOwned /\ ErrorsAreTold

\* A text is of one thing. What is written and read again, by the client, a validator or an
\* application that keeps its session, is what it was: molecules, sessions, secrets, bytes,
\* times, numbers. And the text a key is hashed of belongs to one secret, token, position
\* and version. Whatever fails, a string keeps its content and room for its end; an input
\* that is let through is understood, and a number that is taken for random is.
FormsRoundTrip ==
    /\ FormsKeepHash /\ MoleculeFormsHold /\ SessionSurvives /\ EncodingsSurvive
    /\ RecordsAreSound /\ KeysAreDerived
    /\ StringsAreWhole /\ FindingAgrees /\ GuardsHold

=============================================================================
