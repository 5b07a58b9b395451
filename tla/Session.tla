------------------------------ MODULE Session ------------------------------
(***************************************************************************)
(* The session of a client with its validator (src/client.c,               *)
(* src/operations/auth.c, src/graphql.c, src/auth_token.c): whose secret   *)
(* it signs with, the token and the headers its requests carry, the switch *)
(* that asks for encryption and the context that provides it.  A login is  *)
(* a call of several exchanges (ContinuID query, a proposal signed from    *)
(* the pointer, a second one signed from a fresh AUTH wallet), between     *)
(* which other devices of the same user move the pointer, and any of which *)
(* may be lost.  The validator is external: it is what the login assumes   *)
(* it to be.                                                               *)
(***************************************************************************)
EXTENDS Naturals

CONSTANTS
    Users,      \* the secrets, each with a bundle of its own
    Nobody,     \* no user, no key, no call
    MaxFresh    \* so many random positions are drawn and remembered

Positions == 1..MaxFresh

\* A wallet of a user, named by what it is derived from; its address is the
\* pubkey of the tokens issued to it.
Keys == [owner : Users, token : {"USER", "AUTH"}, position : Positions]

ASSUME MaxFreshAssumption == MaxFresh \in Nat
\* A login in progress: its parameters, the exchange that comes next, and the
\* key it signs with.
Calls ==
    [user : Users, encrypt : BOOLEAN,
     by : {"authenticate", "request_profile_auth_token"},
     step : {"query", "pointer", "auth"}, signer : Keys \cup {Nobody}]

ASSUME NobodyAssumption == Nobody \notin Users \cup Keys \cup Calls

\* An ML-KEM key as the validator may advertise it.
ServerKeys == {"none", "empty", "malformed", "good"}

VARIABLES
    inForce,        \* the user whose secret the client signs with
    auth,           \* client->auth_token: the key it was issued to and its
                    \* pubkey
    headerToken,    \* the token in X-Auth-Token
    headerPubkey,   \* the key in X-KnishIO-Pubkey
    encrypt,        \* cipher_enabled
    serverKey,      \* cipher_server_pubkey
    cipherWallet,   \* cipher_wallet
    kept,           \* a token the application kept a copy of
    call,           \* the login in progress
    result,         \* of the last call
    pointer,        \* at the validator: the position a bundle signs from next
    fresh,          \* positions somebody remembers
    wire,           \* history: the request the last step sent
    wanted,         \* history: the encryption asked for last
    before,         \* history: the session the login in progress found
    login           \* history: the login in force, Nobody when the application
                    \* changed part of it since

session == <<auth, headerToken, headerPubkey, encrypt, serverKey, cipherWallet>>
histories == <<wire, wanted, before, login>>
vars == <<inForce, session, kept, call, result, pointer, fresh, histories>>

NoToken == [token |-> Nobody, pubkey |-> Nobody]

Init ==
    /\ inForce = Nobody
    /\ auth = NoToken /\ headerToken = Nobody /\ headerPubkey = Nobody
    /\ encrypt = FALSE /\ serverKey = "none" /\ cipherWallet = Nobody
    /\ kept = Nobody
    /\ call = Nobody /\ result = "SUCCESS"
    /\ pointer = [u \in Users |-> 0] /\ fresh = 0
    /\ wire = Nobody /\ wanted = FALSE /\ before = Nobody /\ login = Nobody

-----------------------------------------------------------------------------
(* Requests: knishio_client_execute_graphql. *)

\* "Authorize" is the ProposeMolecule of a U-isotope, "Propose" any other.
Ops == {"QueryContinuId", "Authorize", "Balance", "Propose"}

\* Mutant of Bypassed: the validator's name of the query, not the SDK's.
BypassedByRootField(op) == op \in {"ContinuId", "Authorize"}

\* What has to go out before the validator's key is known.
Bypassed(op) == op \in {"QueryContinuId", "Authorize"}

RequiresAuth(op) == op = "Propose"

\* Mutant of Sealed: encrypts only when it can.
SealedIfPossible(op) ==
    encrypt /\ ~Bypassed(op) /\ serverKey = "good" /\ cipherWallet # Nobody

Sealed(op) == encrypt /\ ~Bypassed(op)

\* The error of a request that is not sent, or "none".
Refusal(op) ==
    CASE Sealed(op) /\ (cipherWallet = Nobody \/ serverKey \in {"none", "empty"}) ->
            "INVALID_STATE"
      [] Sealed(op) /\ cipherWallet # Nobody /\ serverKey = "malformed" -> "CRYPTO"
      [] OTHER -> IF RequiresAuth(op) /\ auth = NoToken THEN "AUTH" ELSE "none"

Send(op) ==
    wire' = [op |-> op, sealed |-> Sealed(op), wanted |-> wanted]

\* The validator answers for the wallet the token was issued to.
Readable(op) == Sealed(op) => cipherWallet = headerToken

Request(op) ==
    /\ call = Nobody
    /\ IF Refusal(op) # "none"
       THEN result' = Refusal(op) /\ wire' = Nobody
       ELSE /\ Send(op)
            /\ result' \in {"NETWORK", IF Readable(op) THEN "SUCCESS"
                                       ELSE "UNREADABLE"}
    /\ UNCHANGED <<inForce, session, kept, call, pointer, fresh, wanted,
                   before, login>>

-----------------------------------------------------------------------------
(* Other calls of the application. *)

Answer(err) == result' = err /\ wire' = Nobody

SetSecret(u) ==
    /\ call = Nobody
    /\ inForce' = u
    /\ login' = IF u = inForce THEN login ELSE Nobody
    /\ Answer("SUCCESS")
    /\ UNCHANGED <<session, kept, call, pointer, fresh, wanted, before>>

SetEncryption(on) ==
    /\ call = Nobody
    /\ encrypt' = on /\ wanted' = on
    /\ Answer("SUCCESS")
    /\ UNCHANGED <<inForce, auth, headerToken, headerPubkey, serverKey,
                   cipherWallet, kept, call, pointer, fresh, before, login>>

KeepToken ==
    /\ call = Nobody /\ auth # NoToken
    /\ kept' = auth.token
    /\ Answer("SUCCESS")
    /\ UNCHANGED <<inForce, session, call, pointer, fresh, wanted, before, login>>

\* A token without a pubkey leaves the header of the one before.
SetAuthToken(t) ==
    /\ auth' = t
    /\ headerToken' = t.token
    /\ headerPubkey' = IF t.pubkey = Nobody THEN headerPubkey ELSE t.pubkey

\* A token made anew from the one that was kept.
ReuseToken(pubkey) ==
    /\ call = Nobody /\ kept # Nobody
    /\ SetAuthToken([token |-> kept, pubkey |-> pubkey])
    /\ login' = Nobody
    /\ Answer("SUCCESS")
    /\ UNCHANGED <<inForce, encrypt, serverKey, cipherWallet, kept, call,
                   pointer, fresh, wanted, before>>

\* set_auth_token(NULL) and clear_auth: the switch and the context stay.
ClearAuth ==
    /\ call = Nobody
    /\ auth' = NoToken /\ headerToken' = Nobody /\ headerPubkey' = Nobody
    /\ login' = Nobody
    /\ Answer("SUCCESS")
    /\ UNCHANGED <<inForce, encrypt, serverKey, cipherWallet, kept, call,
                   pointer, fresh, wanted, before>>

PointerKey(u) == [owner |-> u, token |-> "USER", position |-> pointer[u]]

\* With a wallet the application derives at a pointer it asked for.  The old
\* context is dropped first; a wallet that cannot be derived again leaves the
\* new key without a wallet.
SetCipherContext(k, u, complete) ==
    /\ call = Nobody /\ pointer[u] # 0
    /\ serverKey' = k
    /\ cipherWallet' = IF complete THEN PointerKey(u) ELSE Nobody
    /\ login' = Nobody
    /\ Answer(IF complete THEN "SUCCESS" ELSE "INVALID_ARGS")
    /\ UNCHANGED <<inForce, auth, headerToken, headerPubkey, encrypt, kept,
                   call, pointer, fresh, wanted, before>>

-----------------------------------------------------------------------------
(* Logging in. *)

Return(err) == call' = Nobody /\ result' = err /\ before' = Nobody

\* Mutant of HasBundle: a client without a secret asks all the same.
AssumesBundle(user) == TRUE

HasBundle(user) == user # Nobody

\* knishio_client_authenticate stores the secret and stops when it cannot;
\* knishio_client_request_profile_auth_token stores it and goes on.  The bundle
\* asked about is that of the secret in force.
Login(u, enc, by, stored) ==
    /\ call = Nobody
    /\ fresh + 3 <= MaxFresh
    /\ inForce' = IF stored THEN u ELSE inForce
    /\ login' = IF inForce' = inForce THEN login ELSE Nobody
    /\ wire' = Nobody
    /\ IF by = "authenticate" /\ ~stored
       THEN Return("STORAGE")
       ELSE IF ~HasBundle(inForce')
       THEN Return("INVALID_STATE")
       ELSE /\ call' = [user |-> u, encrypt |-> enc, by |-> by, step |-> "query",
                        signer |-> Nobody]
            /\ before' = session
            /\ UNCHANGED result
    /\ UNCHANGED <<session, kept, pointer, fresh, wanted>>

Exchange(step, op) ==
    /\ call # Nobody /\ call.step = step
    /\ Refusal(op) = "none"
    /\ Send(op)

\* A request is refused, lost, or its answer is.
QueryFails ==
    /\ call # Nobody /\ call.step = "query"
    /\ IF Refusal("QueryContinuId") # "none"
       THEN Return(Refusal("QueryContinuId")) /\ wire' = Nobody
       ELSE /\ Send("QueryContinuId")
            /\ \E err \in {"NETWORK", "INVALID_RESPONSE"} : Return(err)
    /\ UNCHANGED <<inForce, session, kept, pointer, fresh, wanted, login>>

\* The pointer is that of the bundle in force; it signs when the address at it
\* is one that the secret of the login derives.
QueryAnswered ==
    /\ Exchange("query", "QueryContinuId")
    /\ call' = IF pointer[inForce] # 0 /\ inForce = call.user
               THEN [call EXCEPT !.step = "pointer", !.signer = PointerKey(inForce)]
               ELSE [call EXCEPT !.step = "auth"]
    /\ UNCHANGED <<inForce, session, kept, result, pointer, fresh, wanted,
                   before, login>>

\* A login that is not signed from the pointer draws the signer's position.
Signer ==
    IF call.step = "pointer" THEN call.signer
    ELSE [owner |-> call.user, token |-> "AUTH", position |-> fresh + 1]

\* The remainder's position is drawn after it.  Positions only a rejected
\* molecule has are forgotten with it.
Drawn == IF call.step = "pointer" THEN fresh + 1 ELSE fresh + 2

\* A pointer that was moved in the meantime is refused; of AUTH positions none
\* is ever the same.
Acceptable ==
    call.step = "pointer" => call.signer = PointerKey(call.user)

Moved == pointer' = [pointer EXCEPT ![call.user] = Drawn] /\ fresh' = Drawn

Proposes == call # Nobody /\ call.step \in {"pointer", "auth"}

\* No answer arrives, whether the validator accepted or not: the login ends.
ProposeFails ==
    /\ Proposes
    /\ IF Refusal("Authorize") # "none"
       THEN Return(Refusal("Authorize")) /\ wire' = Nobody
            /\ UNCHANGED <<pointer, fresh>>
       ELSE /\ Return("NETWORK") /\ Send("Authorize")
            /\ (Acceptable /\ Moved) \/ UNCHANGED <<pointer, fresh>>
    /\ UNCHANGED <<inForce, session, kept, wanted, login>>

\* Mutant of FallBack: asks for the pointer again.
FallBackToPointer == call' = [call EXCEPT !.step = "query", !.signer = Nobody]

\* The pointer's login falls back to an AUTH wallet; that one's is final.
FallBack == call' = [call EXCEPT !.step = "auth", !.signer = Nobody]

\* Mutant of ProposeRejected: a rejection ends the session there was.
RejectedClears ==
    /\ Proposes /\ Exchange(call.step, "Authorize")
    /\ IF call.step = "pointer"
       THEN FallBack /\ UNCHANGED <<result, before, auth, headerToken, headerPubkey>>
       ELSE /\ Return("REJECTED")
            /\ auth' = NoToken /\ headerToken' = Nobody /\ headerPubkey' = Nobody
    /\ UNCHANGED <<inForce, encrypt, serverKey, cipherWallet, kept, pointer,
                   fresh, wanted, login>>

\* The answer says that the molecule was refused, or its HTTP status is an error
\* of something between, whatever the validator did.
ProposeRejected ==
    /\ Proposes /\ Exchange(call.step, "Authorize")
    /\ IF call.step = "pointer" THEN FallBack /\ UNCHANGED <<result, before>>
       ELSE Return("REJECTED")
    /\ (Acceptable /\ Moved) \/ UNCHANGED <<pointer, fresh>>
    /\ UNCHANGED <<inForce, session, kept, wanted, login>>

\* Mutant of BindContext: keeps a context there is.
BindFirstContext(offered, k) ==
    IF offered = "none" \/ cipherWallet # Nobody
    THEN UNCHANGED <<serverKey, cipherWallet>>
    ELSE serverKey' = offered /\ cipherWallet' = k

\* The key and the signer become the context, when a key is advertised.
BindContext(offered, k) ==
    IF offered = "none" THEN UNCHANGED <<serverKey, cipherWallet>>
    ELSE serverKey' = offered /\ cipherWallet' = k

ProposeAccepted(offered) ==
    /\ Proposes /\ Exchange(call.step, "Authorize")
    /\ Acceptable /\ Moved
    /\ SetAuthToken([token |-> Signer, pubkey |-> Signer])
    /\ BindContext(offered, Signer)
    /\ encrypt' = call.encrypt /\ wanted' = call.encrypt
    /\ login' = [key |-> Signer, by |-> call.by, offered |-> offered]
    /\ Return("SUCCESS")
    /\ UNCHANGED <<inForce, kept>>

\* An answer that accepts and holds no token: for the pointer's login a
\* rejection, though the pointer moved; the AUTH login binds what there is.
AcceptedWithoutToken(offered) ==
    /\ Proposes /\ Exchange(call.step, "Authorize")
    /\ Acceptable /\ Moved
    /\ IF call.step = "pointer"
       THEN FallBack /\ UNCHANGED <<session, result, wanted, before, login>>
       ELSE /\ BindContext(offered, Signer)
            /\ encrypt' = call.encrypt /\ wanted' = call.encrypt
            /\ login' = Nobody
            /\ Return("REJECTED")
            /\ UNCHANGED <<auth, headerToken, headerPubkey>>
    /\ UNCHANGED <<inForce, kept>>

\* Another device of the user signs, and moves the pointer.
OtherDevice(u) ==
    /\ fresh + 4 <= MaxFresh
    /\ fresh' = fresh + 1
    /\ pointer' = [pointer EXCEPT ![u] = fresh + 1]
    /\ wire' = Nobody
    /\ UNCHANGED <<inForce, session, kept, call, result, wanted, before, login>>

LoginSteps ==
    \/ QueryFails \/ QueryAnswered \/ ProposeFails \/ ProposeRejected
    \/ \E offered \in ServerKeys :
        ProposeAccepted(offered) \/ AcceptedWithoutToken(offered)

Next ==
    \/ LoginSteps
    \/ \E u \in Users : SetSecret(u) \/ OtherDevice(u)
    \/ \E u \in Users, enc \in BOOLEAN, stored \in BOOLEAN,
            by \in {"authenticate", "request_profile_auth_token"} :
        Login(u, enc, by, stored)
    \/ \E op \in Ops \ {"Authorize"} : Request(op)
    \/ \E on \in BOOLEAN : SetEncryption(on)
    \/ \E k \in ServerKeys \ {"none"}, u \in Users, complete \in BOOLEAN :
        SetCipherContext(k, u, complete)
    \/ ReuseToken(Nobody) \/ ReuseToken(kept)
    \/ KeepToken \/ ClearAuth

\* A call that has begun runs on: each exchange is answered or times out.
Spec == Init /\ [][Next]_vars /\ WF_vars(LoginSteps)

-----------------------------------------------------------------------------
(* Properties. *)

\* Types; a login in progress is by a client with a secret.
TypeOK ==
    /\ inForce \in Users \cup {Nobody}
    /\ auth \in [token : Keys \cup {Nobody}, pubkey : Keys \cup {Nobody}]
    /\ {headerToken, headerPubkey, cipherWallet, kept} \subseteq Keys \cup {Nobody}
    /\ {encrypt, wanted} \subseteq BOOLEAN
    /\ serverKey \in ServerKeys
    /\ call \in Calls \cup {Nobody}
    /\ pointer \in [Users -> 0..MaxFresh]
    /\ fresh \in 0..MaxFresh
    /\ call # Nobody => inForce # Nobody

\* A caller who asked for encryption, by the switch or by a login that was
\* accepted, gets it or an error: nothing but the bootstrap leaves in the
\* clear, whatever became of the context in between
\* (knishio_client_execute_graphql, "never send this in the clear").
NothingInTheClear ==
    wire # Nobody /\ wire.wanted => wire.sealed \/ wire.op \in {"QueryContinuId", "Authorize"}

\* A login never fails in the client itself for want of what a login brings:
\* the bootstrap passes whatever session is in place ("must still go out in
\* plaintext or the auth bootstrap would deadlock").  Only a client without any
\* secret is refused.
LoginReachesValidator ==
    [][call # Nobody /\ call' = Nobody =>
        result' \notin {"INVALID_STATE", "CRYPTO", "AUTH"}]_vars

\* After knishio_client_authenticate succeeded, and until the application
\* changes part of it, the session is one person's: what the client signs, the
\* headers and the reply's key are of the wallet that logged in, a token and a
\* switch the application toggles since included; and if the validator
\* advertised a key, no request is refused and every reply can be opened.  A
\* direct request_profile_auth_token ignores that storing the secret may fail,
\* and promises no more than the session.
SessionWorks ==
    login # Nobody =>
        /\ {auth.token, auth.pubkey, headerToken, headerPubkey} = {login.key}
        /\ login.by = "authenticate" => inForce = login.key.owner
        /\ login.offered = "good" =>
            \A op \in Ops : Refusal(op) = "none" /\ Readable(op)

\* A login that fails leaves the session that was there: token, headers, switch
\* and context are those the login found, though it may have sent two
\* molecules by then (knishio_bind_profile_auth, "Bind an accepted
\* authorization").  The exception is an answer that
\* accepts and brings no token, which authenticate reports as a rejection.
FailedLoginKeepsSession ==
    [][/\ call # Nobody /\ call' = Nobody /\ result' # "SUCCESS"
       /\ ~\E offered \in ServerKeys : AcceptedWithoutToken(offered)
       => session' = before]_vars

\* Every login returns: it falls back once, and does not go round in a race
\* with other devices ("A rejected pointer-signed proposal falls back to that
\* AUTH login ONCE").
LoginEnds == call # Nobody ~> call = Nobody

=============================================================================
