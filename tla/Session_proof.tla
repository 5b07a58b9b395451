--------------------------- MODULE Session_proof ---------------------------
(***************************************************************************)
(* What a session keeps, for any number of users and positions: nothing in *)
(* the clear, one person's wallet in all its parts, and a failed login     *)
(* that changes none of them.                                              *)
(***************************************************************************)
EXTENDS Session, TLAPS

Logins ==
    [key : Keys, by : {"authenticate", "request_profile_auth_token"},
     offered : ServerKeys]

\* The switch is what was asked for; what was sent under it was sealed.
SwitchInv ==
    /\ wanted = encrypt
    /\ NothingInTheClear

\* A login in progress works on the session it found, has positions left to
\* draw, and signs from the pointer with a key of its user.
CallInv ==
    call # Nobody =>
        /\ before = session
        /\ fresh + 2 <= MaxFresh
        /\ call.step # "auth" => fresh + 3 <= MaxFresh
        /\ call.step = "pointer" =>
            call.signer \in Keys /\ call.signer.owner = call.user
        /\ call.by = "authenticate" => inForce = call.user

\* The login in force is in every part of the session.
LoginInv ==
    /\ login \in Logins \cup {Nobody}
    /\ login # Nobody =>
        /\ auth = [token |-> login.key, pubkey |-> login.key]
        /\ headerToken = login.key /\ headerPubkey = login.key
        /\ login.offered = "good" => serverKey = "good" /\ cipherWallet = login.key
        /\ login.by = "authenticate" => inForce = login.key.owner

SInv == TypeOK /\ SwitchInv /\ CallInv /\ LoginInv

-----------------------------------------------------------------------------

\* The bootstrap passes whatever the session is (knishio_client_execute_graphql
\* decides the bypass before it demands the keys).
LEMMA BootstrapPasses ==
    /\ Refusal("QueryContinuId") = "none" /\ Refusal("Authorize") = "none"
    /\ ~Sealed("QueryContinuId") /\ ~Sealed("Authorize")
BY DEF Refusal, Sealed, Bypassed, RequiresAuth

\* The key an accepted login binds.
LEMMA SignerIsUsers ==
    ASSUME SInv, Proposes
    PROVE  /\ Signer \in Keys /\ Signer.owner = call.user
           /\ Drawn \in Positions
BY MaxFreshAssumption, NobodyAssumption
   DEF SInv, TypeOK, CallInv, Proposes, Signer, Drawn, Keys, Positions, Calls

\* Moving the pointer to a drawn position.
LEMMA MovedIsTyped ==
    ASSUME pointer \in [Users -> 0..MaxFresh], Drawn \in Positions, Moved
    PROVE  pointer' \in [Users -> 0..MaxFresh] /\ fresh' \in 0..MaxFresh
<1>1. Drawn \in 0..MaxFresh
  BY MaxFreshAssumption DEF Positions
<1>2. /\ pointer' = [pointer EXCEPT ![call.user] = Drawn]
      /\ fresh' = Drawn
  BY DEF Moved
<1> QED
  BY <1>1, <1>2

LEMMA InitSInv == Init => SInv
<1> SUFFICES ASSUME Init PROVE SInv
  OBVIOUS
<1>1. TypeOK
  <2>1. pointer \in [Users -> 0..MaxFresh] /\ fresh \in 0..MaxFresh
    BY MaxFreshAssumption DEF Init
  <2>2. auth \in [token : Keys \cup {Nobody}, pubkey : Keys \cup {Nobody}]
    BY DEF Init, NoToken
  <2> QED
    BY <2>1, <2>2 DEF Init, TypeOK, ServerKeys
<1>2. SwitchInv
  BY DEF Init, SwitchInv, NothingInTheClear
<1>3. CallInv /\ LoginInv
  BY DEF Init, CallInv, LoginInv
<1> QED
  BY <1>1, <1>2, <1>3 DEF SInv

-----------------------------------------------------------------------------

\* A pointer that is set names a wallet of its user.
LEMMA PointerKeyIsAKey ==
    ASSUME TypeOK, NEW u \in Users, pointer[u] # 0
    PROVE  PointerKey(u) \in Keys /\ PointerKey(u).owner = u
BY MaxFreshAssumption DEF PointerKey, Keys, Positions, TypeOK

\* The calls that are not of a login: requests and the application's setters.
LEMMA ApplicationKeepsSInv ==
    ASSUME SInv,
           \/ \E u \in Users : SetSecret(u)
           \/ \E op \in Ops : Request(op)
           \/ \E on \in BOOLEAN : SetEncryption(on)
           \/ \E k \in ServerKeys, u \in Users, complete \in BOOLEAN :
                SetCipherContext(k, u, complete)
           \/ ReuseToken(Nobody) \/ ReuseToken(kept)
           \/ KeepToken \/ ClearAuth
    PROVE  SInv'
<1> USE DEF SInv
<1>1. CASE \E u \in Users : SetSecret(u)
  BY <1>1 DEF SetSecret, Answer, session, TypeOK, SwitchInv, NothingInTheClear,
              CallInv, LoginInv
<1>2. ASSUME NEW op \in Ops, Request(op) PROVE SInv'
  BY <1>2 DEF Request, Send, Sealed, Bypassed, session, TypeOK, SwitchInv,
              NothingInTheClear, CallInv, LoginInv
<1>3. ASSUME NEW on \in BOOLEAN, SetEncryption(on) PROVE SInv'
  BY <1>3 DEF SetEncryption, Answer, TypeOK, SwitchInv, NothingInTheClear,
              CallInv, LoginInv
<1>4. ASSUME NEW k \in ServerKeys, NEW u \in Users, NEW complete \in BOOLEAN,
             SetCipherContext(k, u, complete)
      PROVE  SInv'
  <2>1. cipherWallet' \in Keys \cup {Nobody}
    BY <1>4, PointerKeyIsAKey DEF SetCipherContext, TypeOK
  <2> QED
    BY <1>4, <2>1 DEF SetCipherContext, Answer, TypeOK, SwitchInv,
                      NothingInTheClear, CallInv, LoginInv
<1>5. ASSUME NEW pubkey \in {Nobody, kept}, ReuseToken(pubkey) PROVE SInv'
  BY <1>5 DEF ReuseToken, SetAuthToken, Answer, TypeOK, SwitchInv, NothingInTheClear,
              CallInv, LoginInv
<1>6. CASE KeepToken
  BY <1>6 DEF KeepToken, Answer, session, TypeOK, SwitchInv, NothingInTheClear,
              CallInv, LoginInv
<1>7. CASE ClearAuth
  BY <1>7 DEF ClearAuth, NoToken, Answer, TypeOK, SwitchInv, NothingInTheClear,
              CallInv, LoginInv
<1> QED
  BY <1>1, <1>2, <1>3, <1>4, <1>5, <1>6, <1>7

-----------------------------------------------------------------------------
(* The login. *)

LEMMA LoginKeepsSInv ==
    ASSUME SInv, NEW u \in Users, NEW enc \in BOOLEAN, NEW stored \in BOOLEAN,
           NEW by \in {"authenticate", "request_profile_auth_token"},
           Login(u, enc, by, stored)
    PROVE  SInv'
<1> USE DEF SInv
<1> DEFINE begun == [user |-> u, encrypt |-> enc, by |-> by, step |-> "query",
                     signer |-> Nobody]
<1>1. begun \in Calls
  BY DEF Calls
<1>2. /\ UNCHANGED <<session, kept, pointer, fresh, wanted>>
      /\ fresh + 3 <= MaxFresh
      /\ wire' = Nobody
      /\ inForce' \in Users \cup {Nobody}
      /\ call' \in {Nobody, begun}
      /\ call' # Nobody =>
            /\ before' = session /\ inForce' # Nobody
            /\ by = "authenticate" => inForce' = u
      /\ login' \in {login, Nobody}
      /\ login' # Nobody => inForce' = inForce
  BY DEF Login, Return, HasBundle, TypeOK, LoginInv
<1>3. TypeOK'
  BY <1>1, <1>2 DEF TypeOK, session
<1>4. SwitchInv' /\ CallInv' /\ LoginInv'
  BY <1>2, MaxFreshAssumption
     DEF TypeOK, SwitchInv, NothingInTheClear, CallInv, LoginInv, session
<1> QED
  BY <1>3, <1>4

\* What a sent bootstrap request leaves in the history.
LEMMA BootstrapIsNotSealed ==
    ASSUME NEW op \in {"QueryContinuId", "Authorize"}, Send(op)
    PROVE  NothingInTheClear'
BY DEF Send, NothingInTheClear

\* A login that ends without having been accepted.
LEMMA FailureKeepsSInv ==
    ASSUME SInv, QueryFails \/ ProposeFails
    PROVE  SInv'
<1> USE DEF SInv
<1>1. /\ UNCHANGED <<inForce, session, kept, wanted, login>>
      /\ call' = Nobody
      /\ NothingInTheClear'
  BY BootstrapPasses, BootstrapIsNotSealed DEF QueryFails, ProposeFails, Return
<1>2. pointer' \in [Users -> 0..MaxFresh] /\ fresh' \in 0..MaxFresh
  <2>1. CASE QueryFails
    BY <2>1 DEF QueryFails, TypeOK
  <2>2. CASE ProposeFails
    <3>1. Proposes /\ (Moved \/ UNCHANGED <<pointer, fresh>>)
      BY <2>2 DEF ProposeFails
    <3>2. Drawn \in Positions
      BY <3>1, SignerIsUsers
    <3> QED
      BY <3>1, <3>2, MovedIsTyped DEF TypeOK
  <2> QED
    BY <2>1, <2>2
<1> QED
  BY <1>1, <1>2 DEF TypeOK, SwitchInv, NothingInTheClear, CallInv, LoginInv, session

LEMMA QueryAnsweredKeepsSInv ==
    ASSUME SInv, QueryAnswered
    PROVE  SInv'
<1> USE DEF SInv
<1>1. /\ call \in Calls /\ call.step = "query" /\ inForce \in Users
      /\ UNCHANGED <<inForce, session, kept, pointer, fresh, wanted, before,
                     login>>
      /\ NothingInTheClear'
  BY BootstrapIsNotSealed DEF QueryAnswered, Exchange, TypeOK
<1>2. CASE pointer[inForce] # 0 /\ inForce = call.user
  <2>1. call' = [call EXCEPT !.step = "pointer", !.signer = PointerKey(inForce)]
    BY <1>2 DEF QueryAnswered
  <2>2. PointerKey(inForce) \in Keys /\ PointerKey(inForce).owner = inForce
    BY <1>1, <1>2, PointerKeyIsAKey
  <2>3. call' \in Calls
    BY <1>1, <2>1, <2>2 DEF Calls
  <2> QED
    BY <1>1, <1>2, <2>1, <2>2, <2>3, NobodyAssumption
       DEF TypeOK, SwitchInv, NothingInTheClear, CallInv, LoginInv, session, Calls
<1>3. CASE ~(pointer[inForce] # 0 /\ inForce = call.user)
  <2>1. call' = [call EXCEPT !.step = "auth"]
    BY <1>3 DEF QueryAnswered
  <2>2. call' \in Calls
    BY <1>1, <2>1 DEF Calls
  <2> QED
    BY <1>1, <2>1, <2>2, NobodyAssumption
       DEF TypeOK, SwitchInv, NothingInTheClear, CallInv, LoginInv, session, Calls
<1> QED
  BY <1>2, <1>3

\* Falling back, from the pointer to the AUTH wallet.
LEMMA FallBackIsACall ==
    ASSUME call \in Calls, FallBack
    PROVE  /\ call' \in Calls
           /\ call'.step = "auth" /\ call'.by = call.by /\ call'.user = call.user
BY DEF FallBack, Calls

LEMMA RejectedKeepsSInv ==
    ASSUME SInv, ProposeRejected
    PROVE  SInv'
<1> USE DEF SInv
<1>1. /\ call \in Calls /\ call # Nobody
      /\ UNCHANGED <<inForce, session, kept, wanted, login>>
      /\ NothingInTheClear'
  BY BootstrapIsNotSealed DEF ProposeRejected, Proposes, Exchange, TypeOK
<1>2. \/ call.step = "pointer" /\ FallBack /\ before' = before
      \/ call' = Nobody
  BY DEF ProposeRejected, Return
<1>3. Proposes /\ (Moved \/ UNCHANGED <<pointer, fresh>>)
  BY DEF ProposeRejected
<1>4. pointer' \in [Users -> 0..MaxFresh] /\ fresh' \in 0..MaxFresh
  <2>1. Drawn \in Positions
    BY <1>3, SignerIsUsers
  <2> QED
    BY <1>3, <2>1, MovedIsTyped DEF TypeOK
\* The fall-back has its two positions, though the pointer took one.
<1>5. ASSUME call.step = "pointer" PROVE fresh' + 2 <= MaxFresh
  BY <1>1, <1>3, <1>5, MaxFreshAssumption DEF TypeOK, CallInv, Moved, Drawn
<1>6. call' = Nobody \/ (call' \in Calls /\ CallInv')
  <2>1. CASE call' = Nobody
    BY <2>1
  <2>2. CASE call.step = "pointer" /\ FallBack /\ before' = before
    BY <1>1, <1>5, <2>2, FallBackIsACall DEF CallInv, session
  <2> QED
    BY <1>2, <2>1, <2>2
<1> QED
  BY <1>1, <1>4, <1>6, NobodyAssumption
     DEF TypeOK, SwitchInv, NothingInTheClear, CallInv, LoginInv, session

LEMMA AcceptedKeepsSInv ==
    ASSUME SInv, NEW offered \in ServerKeys, ProposeAccepted(offered)
    PROVE  SInv'
<1> USE DEF SInv
<1>1. /\ call \in Calls
      /\ Signer \in Keys /\ Signer.owner = call.user /\ Drawn \in Positions
  BY SignerIsUsers DEF ProposeAccepted, Proposes, TypeOK
<1>2. /\ auth' = [token |-> Signer, pubkey |-> Signer]
      /\ headerToken' = Signer /\ headerPubkey' = Signer
      /\ Signer # Nobody
  BY <1>1, NobodyAssumption DEF ProposeAccepted, SetAuthToken
<1>3. /\ login' = [key |-> Signer, by |-> call.by, offered |-> offered]
      /\ login' \in Logins
      /\ encrypt' = call.encrypt /\ wanted' = call.encrypt
      /\ call' = Nobody /\ UNCHANGED <<inForce, kept>>
      /\ NothingInTheClear'
  BY <1>1, BootstrapIsNotSealed DEF ProposeAccepted, Exchange, Return, Logins, Calls
<1>4. /\ serverKey' \in ServerKeys /\ cipherWallet' \in Keys \cup {Nobody}
      /\ offered = "good" => serverKey' = "good" /\ cipherWallet' = Signer
  BY <1>1 DEF ProposeAccepted, BindContext, TypeOK
<1>5. pointer' \in [Users -> 0..MaxFresh] /\ fresh' \in 0..MaxFresh
  BY <1>1, MovedIsTyped DEF ProposeAccepted, TypeOK
<1>6. call.by = "authenticate" => inForce = call.user
  BY DEF CallInv, ProposeAccepted, Proposes
<1> QED
  BY <1>1, <1>2, <1>3, <1>4, <1>5, <1>6
     DEF TypeOK, SwitchInv, CallInv, LoginInv, Calls

LEMMA WithoutTokenKeepsSInv ==
    ASSUME SInv, NEW offered \in ServerKeys, AcceptedWithoutToken(offered)
    PROVE  SInv'
<1> USE DEF SInv
<1>1. /\ call \in Calls /\ call # Nobody
      /\ Signer \in Keys /\ Drawn \in Positions
      /\ Moved
      /\ NothingInTheClear'
      /\ UNCHANGED <<inForce, kept>>
  BY SignerIsUsers, BootstrapIsNotSealed
     DEF AcceptedWithoutToken, Proposes, Exchange, TypeOK
<1>2. pointer' \in [Users -> 0..MaxFresh] /\ fresh' \in 0..MaxFresh
  BY <1>1, MovedIsTyped DEF TypeOK
<1>3. CASE call.step = "pointer"
  <2>1. FallBack /\ UNCHANGED <<session, wanted, before, login>>
    BY <1>3 DEF AcceptedWithoutToken
  <2>2. fresh' + 2 <= MaxFresh
    BY <1>1, <1>3, MaxFreshAssumption DEF Moved, Drawn, CallInv, TypeOK
  <2> QED
    BY <1>1, <1>2, <2>1, <2>2, FallBackIsACall, NobodyAssumption
       DEF TypeOK, SwitchInv, NothingInTheClear, CallInv, LoginInv, session
<1>4. CASE call.step # "pointer"
  <2>1. /\ BindContext(offered, Signer)
        /\ encrypt' = call.encrypt /\ wanted' = call.encrypt
        /\ login' = Nobody /\ call' = Nobody
        /\ UNCHANGED <<auth, headerToken, headerPubkey>>
    BY <1>4 DEF AcceptedWithoutToken, Return
  <2>2. serverKey' \in ServerKeys /\ cipherWallet' \in Keys \cup {Nobody}
    BY <1>1, <2>1 DEF BindContext, TypeOK
  <2> QED
    BY <1>1, <1>2, <2>1, <2>2 DEF TypeOK, SwitchInv, CallInv, LoginInv, Calls
<1> QED
  BY <1>3, <1>4

LEMMA OtherDeviceKeepsSInv ==
    ASSUME SInv, NEW u \in Users, OtherDevice(u)
    PROVE  SInv'
BY MaxFreshAssumption
   DEF SInv, OtherDevice, TypeOK, SwitchInv, NothingInTheClear, CallInv, LoginInv,
       session

LEMMA StepSInv == SInv /\ [Next]_vars => SInv'
<1> SUFFICES ASSUME SInv, [Next]_vars PROVE SInv'
  OBVIOUS
<1>1. CASE UNCHANGED vars
  BY <1>1 DEF vars, session, histories, SInv, TypeOK, SwitchInv,
              NothingInTheClear, CallInv, LoginInv
<1>2. CASE LoginSteps
  BY <1>2, FailureKeepsSInv, QueryAnsweredKeepsSInv, RejectedKeepsSInv,
     AcceptedKeepsSInv, WithoutTokenKeepsSInv DEF LoginSteps
<1>3. CASE \E u \in Users : OtherDevice(u)
  BY <1>3, OtherDeviceKeepsSInv
<1>4. CASE \E u \in Users, enc \in BOOLEAN, stored \in BOOLEAN,
              by \in {"authenticate", "request_profile_auth_token"} :
            Login(u, enc, by, stored)
  BY <1>4, LoginKeepsSInv
<1>5. CASE ~LoginSteps
  BY <1>5, <1>1, <1>3, <1>4, ApplicationKeepsSInv DEF Next
<1> QED
  BY <1>2, <1>5

-----------------------------------------------------------------------------
(* Theorems. *)

THEOREM SpecSInv == Spec => []SInv
BY InitSInv, StepSInv, PTL DEF Spec

\* Types, and a login in progress is by a client with a secret.
THEOREM SessionIsAlwaysTyped == Spec => []TypeOK
<1>1. SInv => TypeOK
  BY DEF SInv
<1> QED
  BY <1>1, SpecSInv, PTL

\* With encryption asked for, only the bootstrap ever leaves unsealed: on any
\* number of logins, restored tokens and contexts.
THEOREM NothingEverInTheClear == Spec => []NothingInTheClear
<1>1. SInv => NothingInTheClear
  BY DEF SInv, SwitchInv
<1> QED
  BY <1>1, SpecSInv, PTL

\* An authenticated session signs, sends and decrypts as one wallet.
THEOREM SessionAlwaysWorks == Spec => []SessionWorks
<1>1. SInv => SessionWorks
  <2> SUFFICES ASSUME SInv, login # Nobody
               PROVE  /\ {auth.token, auth.pubkey, headerToken, headerPubkey} = {login.key}
                      /\ login.by = "authenticate" => inForce = login.key.owner
                      /\ login.offered = "good" =>
                            \A op \in Ops : Refusal(op) = "none" /\ Readable(op)
    BY DEF SessionWorks
  <2>1. /\ login.key \in Keys
        /\ auth = [token |-> login.key, pubkey |-> login.key]
        /\ headerToken = login.key /\ headerPubkey = login.key
        /\ login.by = "authenticate" => inForce = login.key.owner
    BY DEF SInv, LoginInv, Logins
  <2>2. auth # NoToken /\ login.key # Nobody
    BY <2>1, NobodyAssumption DEF NoToken
  <2>3. ASSUME login.offered = "good", NEW op \in Ops
        PROVE  Refusal(op) = "none" /\ Readable(op)
    <3>1. serverKey = "good" /\ cipherWallet = login.key
      BY <2>3 DEF SInv, LoginInv
    <3> QED
      BY <2>1, <2>2, <3>1 DEF Refusal, Readable
  <2> QED
    BY <2>1, <2>3
<1> QED
  BY <1>1, SpecSInv, PTL

\* A login that fails, after however many exchanges, leaves the session alone.
THEOREM FailedLoginAlwaysKeepsSession == Spec => FailedLoginKeepsSession
<1>1. SInv /\ [Next]_vars =>
        [/\ call # Nobody /\ call' = Nobody /\ result' # "SUCCESS"
         /\ ~\E offered \in ServerKeys : AcceptedWithoutToken(offered)
         => session' = before]_vars
  <2> SUFFICES ASSUME SInv, [Next]_vars, call # Nobody, call' = Nobody,
                      result' # "SUCCESS",
                      ~\E offered \in ServerKeys : AcceptedWithoutToken(offered)
               PROVE  session' = before \/ UNCHANGED vars
    OBVIOUS
  <2>1. before = session
    BY DEF SInv, CallInv
  <2>2. ~\E offered \in ServerKeys : ProposeAccepted(offered)
    BY DEF ProposeAccepted, Return
  <2>3. LoginSteps \/ (\E u \in Users : OtherDevice(u)) \/ UNCHANGED vars
    BY DEF Next, SetSecret, Login, Request, SetEncryption, SetCipherContext,
           ReuseToken, KeepToken, ClearAuth
  <2>4. UNCHANGED session \/ UNCHANGED vars
    BY <2>2, <2>3 DEF LoginSteps, QueryFails, QueryAnswered, ProposeFails,
                      ProposeRejected, OtherDevice
  <2> QED
    BY <2>1, <2>4
<1> QED
  BY <1>1, SpecSInv, PTL DEF Spec, FailedLoginKeepsSession

\* Whatever session and switch it finds, a login that ends was answered, or not, by the
\* validator (knishio_client_execute_graphql passes the bootstrap).
THEOREM LoginAlwaysReachesValidator == Spec => LoginReachesValidator
<1>1. SInv /\ [Next]_vars =>
        [call # Nobody /\ call' = Nobody => result' \notin {"INVALID_STATE", "CRYPTO", "AUTH"}]_vars
  <2> SUFFICES ASSUME SInv, Next, call # Nobody, call' = Nobody
               PROVE  result' \notin {"INVALID_STATE", "CRYPTO", "AUTH"}
    BY DEF vars
  <2>1. CASE QueryFails
    BY <2>1, BootstrapPasses DEF QueryFails, Return
  <2>2. CASE ProposeFails
    BY <2>2, BootstrapPasses DEF ProposeFails, Return
  <2>3. ASSUME call \in Calls, call' = [call EXCEPT !.step = "auth", !.signer = Nobody]
        PROVE  FALSE
    <3>1. [call EXCEPT !.step = "auth", !.signer = Nobody] \in Calls
      BY <2>3 DEF Calls
    <3> QED
      BY <2>3, <3>1, NobodyAssumption
  <2>4. call \in Calls
    BY DEF SInv, TypeOK
  <2>5. CASE ProposeRejected
    BY <2>3, <2>4, <2>5 DEF ProposeRejected, FallBack, Return
  <2>6. CASE \E offered \in ServerKeys : ProposeAccepted(offered) \/ AcceptedWithoutToken(offered)
    BY <2>3, <2>4, <2>6 DEF ProposeAccepted, AcceptedWithoutToken, FallBack, Return
  <2>7. ~QueryAnswered
    <3> SUFFICES ASSUME QueryAnswered PROVE FALSE
      OBVIOUS
    <3>1. [call EXCEPT !.step = "auth"] \in Calls
      BY <2>4 DEF Calls
    <3>2. CASE call' = [call EXCEPT !.step = "auth"]
      BY <3>1, <3>2, NobodyAssumption
    <3>3. CASE pointer[inForce] # 0 /\ inForce = call.user
               /\ call' = [call EXCEPT !.step = "pointer", !.signer = PointerKey(inForce)]
      <4>1. PointerKey(inForce) \in Keys
        BY <2>4, <3>3, MaxFreshAssumption DEF SInv, TypeOK, PointerKey, Keys, Positions, Calls
      <4>2. [call EXCEPT !.step = "pointer", !.signer = PointerKey(inForce)] \in Calls
        BY <2>4, <4>1 DEF Calls
      <4> QED
        BY <3>3, <4>2, NobodyAssumption
    <3> QED
      BY <3>2, <3>3 DEF QueryAnswered
  <2> QED
    BY <2>1, <2>2, <2>5, <2>6, <2>7
       DEF Next, LoginSteps, SetSecret, OtherDevice, Login, Request, SetEncryption,
           SetCipherContext, ReuseToken, KeepToken, ClearAuth
<1> QED
  BY <1>1, SpecSInv, PTL DEF Spec, LoginReachesValidator

=============================================================================
