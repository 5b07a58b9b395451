------------------------------ MODULE AuthToken ------------------------------
(***************************************************************************)
(* Login tokens (auth_token.c): what get_snapshot writes of a token and    *)
(* its wallet, what restore makes of a snapshot, of this build or of an    *)
(* earlier one, and when a token counts as expired. A wallet here is what  *)
(* its keys come from; the secret is the same throughout.                  *)
(***************************************************************************)
EXTENDS Calls, Integers, Sequences, SequencesExt

CONSTANTS
    Clock,      \* times in the instance, in milliseconds
    Bits        \* the integer with the bits of a floating-point number

KeyParams == {768, 1024}
WalletTokens == {"AUTH", "USER"}

\* The wallet a session is bound to. All of knishio_wallet_create have BASE64.
BoundWallets == [token : WalletTokens, ots : {1, 2}, param : KeyParams]

\* knishio_auth_token_t. The key in pubkey is of either length, or of none known.
Tokens == [expires_at : {0, 1, 2}, encrypt : BOOLEAN,
           pubkey : KeyParams \cup {0}, wallet : BoundWallets]

-----------------------------------------------------------------------------
(* Snapshots: the JSON text, by its fields. *)

\* knishio_auth_token_get_snapshot, of a token with a wallet.
Snapshot(t) ==
    [expires_at |-> t.expires_at, encrypt |-> t.encrypt, pubkey |-> t.pubkey,
     token |-> t.wallet.token, characters |-> "BASE64",
     param |-> t.wallet.param, ots |-> t.wallet.ots]

\* A build writes the fields it knows; what an earlier one lacks says what its
\* sessions had: OTS version 1, an AUTH wallet, and a parameter set that shows in the
\* key it wrote, or ML-KEM-768 as the first builds.
WroteThen(t, lacks) ==
    [f \in DOMAIN Snapshot(t) |-> IF f \in lacks THEN Missing ELSE Snapshot(t)[f]]

HadThen(t, lacks) ==
    /\ "ots" \in lacks => t.wallet.ots = 1
    /\ "token" \in lacks => t.wallet.token = "AUTH"
    /\ "param" \in lacks => t.pubkey = t.wallet.param
                            \/ (t.wallet.param = 768 /\ t.pubkey # 1024)

\* knishio_auth_token_create_snapshot: the same in a structure, but for the token of the
\* wallet. Nobody notices the copies there is no memory for.
SnapshotStructure(t, lost) ==
    [f \in DOMAIN Snapshot(t) \ {"token"} |->
        IF f \in lost \cap {"pubkey", "characters"} THEN Missing ELSE Snapshot(t)[f]]

\* Snapshots that no build of the client has written.
Foreign(t, field, value) == [Snapshot(t) EXCEPT ![field] = value]

-----------------------------------------------------------------------------
(* Restoring. *)

\* resolve_ots_version: 0 for an unsupported one.
ResolvedOts(s) ==
    CASE s.ots \in {Missing, 0} -> 1
      [] s.ots \in {1, 2} -> s.ots
      [] OTHER -> 0

\* The three tiers of knishio_auth_token_restore.
ResolvedParam(s) ==
    CASE s.param \in KeyParams -> s.param
      [] s.param \notin KeyParams /\ s.pubkey = 1024 -> 1024
      [] OTHER -> 768

\* expiresAt is read into the integer through a (double*): its bits are those of the
\* floating-point number. Of a number that is not zero they are an integer so large
\* that the product with 1000 overflows.
AsBits(n) == IF n = 0 THEN 0 ELSE Bits

Refused(error) == [error |-> error]

\* knishio_auth_token_restore; the wallet is created with today's default set and
\* changed where that is another. `fault` is a change of it or an allocation that
\* fails, in which case the wallet is freed.
Restored(s, default, fault) ==
    LET made == [token |-> IF s.token = Missing THEN "AUTH" ELSE s.token,
                 ots |-> ResolvedOts(s), param |-> ResolvedParam(s)]
    IN CASE ResolvedOts(s) = 0 -> Refused("INVALID_ARGS")
         [] ResolvedOts(s) # 0 /\ made.param # default /\ fault = "param" -> Refused("CRYPTO")
         [] ResolvedOts(s) # 0 /\ ~(made.param # default /\ fault = "param")
                /\ s.characters # "BASE64" -> Refused("WALLET_MISMATCH")
         [] ResolvedOts(s) # 0 /\ ~(made.param # default /\ fault = "param")
                /\ s.characters = "BASE64" /\ fault = "token" -> Refused("MEMORY")
         [] OTHER -> [error |-> "SUCCESS", expires_at |-> AsBits(s.expires_at),
                      encrypt |-> s.encrypt, pubkey |-> s.pubkey, wallet |-> made]

-----------------------------------------------------------------------------
(* Expiry. *)

\* knishio_auth_token_get_expire_interval and _is_expired: expires_at in seconds, the
\* clock in milliseconds.
ExpireInterval(expires_at, now) == expires_at * 1000 - now

\* The answers it may give: either one once the product overflows.
IsExpired(expires_at, now) ==
    IF expires_at = Bits THEN BOOLEAN
    ELSE {expires_at = 0 \/ ExpireInterval(expires_at, now) < 0}

-----------------------------------------------------------------------------
(* Authentication data. *)

\* knishio_json_builder_start_object drops what the builder has, add_string goes to the
\* one object there is, and end_object does nothing.
Streamed(steps) ==
    FoldLeft(LAMBDA fields, step : IF step = "{" THEN {} ELSE fields \cup {step}, {}, steps)

\* knishio_auth_token_get_auth_data: the members of the text, also of a token without a
\* wallet.
AuthDataText(has_wallet) ==
    Streamed(<<"{", "token", "pubkey">> \o IF has_wallet THEN <<"{", "address", "position">> ELSE <<"wallet">>)

\* knishio_auth_token_create_auth_data, with the copies there is memory for.
AuthData(has_wallet, lost) ==
    ({"token", "pubkey"} \ lost) \cup IF has_wallet THEN {"wallet"} ELSE {}

-----------------------------------------------------------------------------
(* Calls. *)

RestoreToken ==
    Quiet /\ \E t \in Tokens, default \in KeyParams, fault \in {"none", "param", "token"} :
        \/ \E lacks \in SUBSET {"ots", "token", "param"} :
            /\ HadThen(t, lacks)
            /\ Made([fn |-> "restore", of |-> t, ours |-> TRUE, fault |-> fault,
                     restored |-> Restored(WroteThen(t, lacks), default, fault)])
        \/ \E s \in {Foreign(t, "ots", 3), Foreign(t, "param", 512),
                     Foreign(t, "characters", "BASE17")} :
            Made([fn |-> "restore", of |-> t, ours |-> FALSE, fault |-> fault,
                  restored |-> Restored(s, default, fault)])

TellToken ==
    Quiet /\ \E lost \in SUBSET {"token", "pubkey", "characters"} :
        \/ \E t \in Tokens : Made([fn |-> "snapshot", of |-> t, lost |-> lost,
                                 written |-> Snapshot(t), structure |-> SnapshotStructure(t, lost)])
        \/ \E has_wallet \in BOOLEAN :
              Made([fn |-> "auth_data", has_wallet |-> has_wallet, lost |-> lost,
                    text |-> AuthDataText(has_wallet), structure |-> AuthData(has_wallet, lost)])

\* The token of a login, or one restored, is asked whether it is expired.
AskExpiry ==
    Quiet /\ \E expires_at \in {0, 1, 2, Bits}, now \in Clock :
        \E answer \in IsExpired(expires_at, now) :
            Made([fn |-> "expired", expires_at |-> expires_at, now |-> now, expired |-> answer])

AuthTokenNext == RestoreToken \/ TellToken \/ AskExpiry

-----------------------------------------------------------------------------
(* Properties. *)

\* A snapshot of this build or of an earlier one restores to the session it was taken
\* of: the same keys, at the OTS version and parameter set of that day, whatever new
\* wallets are made with; a wallet of other keys is never put in its place ("a
\* restored session keeps the set it authenticated with", auth_token.c:345).
RestoreKeepsKeys ==
    call.fn = "restore" /\ call.restored.error = "SUCCESS" /\ call.ours =>
        /\ call.restored.wallet = call.of.wallet
        /\ call.restored.encrypt = call.of.encrypt

\* No login token counts as valid without an expiry or after it, and the last
\* millisecond is not cut off ("!this.$__expiresAt || this.getExpireInterval() < 0",
\* auth_token.c:296).
ExpiryIsInclusive ==
    call.fn = "expired" /\ call.expires_at # Bits =>
        (call.expired <=> call.expires_at = 0 \/ call.now \div 1000 > call.expires_at
                       \/ (call.now \div 1000 = call.expires_at /\ call.now % 1000 > 0))

\* The two snapshots of a token differ in nothing both have but what was lost; nothing
\* tells an address and a token as one unless it says both of the same login, and the
\* token of a login without a wallet is always told with its key.
TokensAreTold ==
    /\ call.fn = "snapshot" =>
        \A f \in DOMAIN call.structure :
            call.structure[f] = call.written[f] \/ (call.structure[f] = Missing /\ f \in call.lost)
    /\ call.fn = "auth_data" =>
        /\ {"address", "token"} \subseteq call.text => "pubkey" \in call.text
        /\ ~call.has_wallet => {"token", "pubkey"} \subseteq call.text /\ "wallet" \notin call.structure

\* A saved session comes back as it was, for as long as it is valid.
SessionSurvives == RestoreKeepsKeys /\ TokensAreTold /\ ExpiryIsInclusive

=============================================================================
