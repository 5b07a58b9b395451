---------------------------- MODULE CipherWallet ----------------------------
(***************************************************************************)
(* The keys of a wallet (wallet.c) and the messages encrypted to it        *)
(* (cipher_hash.c over mlkem.c and aes_gcm.c), with the copy of it that    *)
(* knishio_client_set_cipher_context keeps. The key of one secret, token   *)
(* and position depends on the OTS version, and each key has an ML-KEM     *)
(* pair of either parameter set. ML-KEM and AES-GCM are ideal: a message   *)
(* opens with the pair it was made for, and an altered one does not open.  *)
(***************************************************************************)
EXTENDS Seals

CONSTANTS NoKey, NoWallet

VARIABLES
    default,    \* g_default_mlkem_param
    wallet,     \* a wallet of the user
    context     \* the copy in client->cipher_wallet

walletVars == <<default, wallet, context>>

Params == {768, 1024}
Versions == {1, 2}

\* knishio_wallet_t. key: the OTS version private_key was derived at; pub and priv:
\* pubkey and privkey_bytes, a key and a parameter set.
Pairs == [key : Versions, param : Params]
Wallets == [ots : Versions, key : Versions \cup {NoKey}, address : Versions \cup {NoKey},
            param : Params, pub : Pairs \cup {NoKey}, priv : Pairs \cup {NoKey}]

ASSUME WalletAssumption == NoKey \notin Versions \cup Pairs /\ NoWallet \notin Wallets

WalletInit ==
    /\ default = 1024
    /\ wallet = NoWallet /\ context = NoWallet

Other(p) == IF p = 768 THEN 1024 ELSE 768

-----------------------------------------------------------------------------
(* Wallets. Each call says in `fault` where it runs out of memory, if it does. *)

\* knishio_wallet_initialize_mlkem: the pair of the configured parameter set.
InitializeMlkem(w, fault) ==
    LET pair == [key |-> w.key, param |-> w.param] IN
    CASE w.key = NoKey \/ fault = "pair" -> w
      [] w.key # NoKey /\ fault = "private" -> [w EXCEPT !.pub = pair, !.priv = NoKey]
      [] OTHER -> [w EXCEPT !.pub = pair, !.priv = pair]

\* knishio_wallet_create_with_ots_version: NoWallet for FALSE. Without a key, a
\* wallet comes about all the same.
Created(ver, fault) ==
    LET bare == [ots |-> ver, key |-> NoKey, address |-> NoKey, param |-> default,
                 pub |-> NoKey, priv |-> NoKey] IN
    CASE ver \notin Versions \/ fault = "address" -> NoWallet
      [] ver \in Versions /\ fault = "key" -> bare
      [] OTHER -> InitializeMlkem([bare EXCEPT !.key = ver, !.address = ver], fault)

\* knishio_wallet_set_mlkem_param: the parameter is set before the pair is there.
WithParam(w, p, fault) == InitializeMlkem([w EXCEPT !.param = p], fault)

MlkemFaults == {"none", "pair", "private"}

SetDefaultParam(p) ==
    /\ default' = p
    /\ UNCHANGED <<wallet, context>>

CreateOwn(ver, fault) ==
    /\ wallet = NoWallet
    /\ wallet' = Created(ver, fault)
    /\ UNCHANGED <<default, context>>

\* knishio_wallet_set_ots_version refuses for a keyed wallet.
SetOtsVersion(ver) ==
    /\ wallet # NoWallet
    /\ wallet' = IF ver \in Versions /\ (wallet.key = NoKey \/ ver = wallet.ots)
                 THEN [wallet EXCEPT !.ots = ver] ELSE wallet
    /\ UNCHANGED <<default, context>>

SetParam(p, fault) ==
    /\ wallet # NoWallet
    /\ wallet' = WithParam(wallet, p, fault)
    /\ UNCHANGED <<default, context>>

FreeOwn ==
    /\ wallet # NoWallet
    /\ wallet' = NoWallet
    /\ UNCHANGED <<default, context>>

\* Mutant of SetCipherContext: the copy has the parameter set of the day.
SetCipherContextAsIs(fault, paramFault) ==
    /\ wallet # NoWallet
    /\ LET made == Created(wallet.ots, fault) IN
       context' = IF made = NoWallet \/ made.pub = NoKey \/ made.priv = NoKey
                  THEN NoWallet ELSE made
    /\ UNCHANGED <<default, wallet>>

\* knishio_client_set_cipher_context: whether the parameter set could be changed is
\* not asked.
SetCipherContext(fault, paramFault) ==
    /\ wallet # NoWallet
    /\ LET made == Created(wallet.ots, fault)
           set  == IF made = NoWallet \/ made.param = wallet.param THEN made
                   ELSE WithParam(made, wallet.param, paramFault) IN
       context' = IF set = NoWallet \/ set.pub = NoKey \/ set.priv = NoKey
                  THEN NoWallet ELSE set
    /\ UNCHANGED <<default, wallet>>

-----------------------------------------------------------------------------
(* Messages. *)

\* What knishio_cipher_hash_encrypt makes for a pair, the user's (with either key) or
\* somebody else's (key 0), as it arrives: the length is of that parameter set's
\* ciphertext, or of neither; the part AES-GCM made may be altered or cut short.
Messages == [pair : [key : Versions \cup {0}, param : Params],
             length : Params \cup {0},
             aes : {"whole", "altered", "short"}]

\* knishio_mlkem_decapsulate, then knishio_aes_gcm_decrypt.
Opens(priv, m) == priv.param = m.length /\ priv = m.pair /\ m.aes = "whole"

\* Mutant of DecryptEnvelope: it goes by the wallet's configuration.
DecryptEnvelopeConfigured(w, m) == w.priv # NoKey /\ Opens(w.priv, m)

\* knishio_cipher_hash_decrypt_envelope: the ciphertext's length picks the pair; one
\* of the sibling set is derived for the occasion.
DecryptEnvelope(w, m) ==
    \/ m.length = w.param /\ w.priv # NoKey /\ Opens(w.priv, m)
    \/ /\ m.length = Other(w.param) /\ w.key # NoKey
       /\ Opens([key |-> w.key, param |-> Other(w.param)], m)

\* The map has an entry for this wallet, by its own share or its sibling's.
HasEntry(w, m) ==
    \/ m.pair = w.pub
    \/ w.key # NoKey /\ m.pair = [key |-> w.key, param |-> Other(w.param)]

\* knishio_cipher_hash_decrypt: whether w reads m.
CipherHashDecrypt(w, m) == w.pub # NoKey /\ HasEntry(w, m) /\ DecryptEnvelope(w, m)

WalletNext ==
    \/ \E p \in Params : SetDefaultParam(p)
    \/ \E ver \in Versions \cup {3}, fault \in MlkemFaults \cup {"key", "address"} :
        CreateOwn(ver, fault)
    \/ \E ver \in Versions \cup {3} : SetOtsVersion(ver)
    \/ \E p \in Params, fault \in MlkemFaults : SetParam(p, fault)
    \/ FreeOwn
    \/ \E fault \in MlkemFaults \cup {"key", "address"}, paramFault \in MlkemFaults :
        SetCipherContext(fault, paramFault)

WalletSpec == WalletInit /\ [][WalletNext]_walletVars

-----------------------------------------------------------------------------
(* Properties. *)

WalletTypeOK ==
    /\ default \in Params
    /\ wallet \in Wallets \cup {NoWallet}
    /\ context \in Wallets \cup {NoWallet}

Held == {wallet, context} \ {NoWallet}

\* "OTS key version (1 or 2), set at construction" (wallet.h:102): address and keys
\* are those of the wallet's version, through every call and failure, and the two
\* halves of its pair are of one key generation ("the copy's ML-KEM keypair is
\* byte-identical", client.c:415).
KeysOfOneWallet ==
    \A w \in Held :
        /\ w.key # NoKey => w.key = w.ots /\ w.address = w.key
        /\ w.priv # NoKey => w.priv = w.pub
        /\ w.pub # NoKey => w.pub.key = w.key

\* "Inbound is dual-identity (either parameter set, derived on demand)"
\* (cipher_hash.c:10): a wallet whose pair is of the parameter set it is configured
\* at reads what was encrypted to either of its identities, however it is configured
\* since, and nothing else.
ReadsBothIdentities ==
    \A w \in Held, m \in Messages :
        LET toIt == m.pair.key = w.key /\ m.length = m.pair.param /\ m.aes = "whole" IN
        /\ CipherHashDecrypt(w, m) => toIt
        /\ toIt /\ w.priv # NoKey /\ w.priv.param = w.param => CipherHashDecrypt(w, m)

\* The context a login leaves reads what is sent to the wallet that logged in: it is
\* of the same key, and of the same parameter set unless the change of it failed.
\* (It is then of neither: such a context reads its own pair only.)
ContextIsOfWallet ==
    [][ context' # context /\ context' # NoWallet =>
            /\ context'.param = wallet.param
            /\ context'.pub.key = wallet.ots ]_walletVars

\* A wallet's keys are of one version and pair, and read what is meant for it.
KeysAreOfTheWallet == WalletTypeOK /\ KeysOfOneWallet /\ ReadsBothIdentities

\* And what is sealed to a wallet's keys opens with them, whole, and with nothing else.
KeysOpenTheirOwn == KeysAreOfTheWallet /\ SealsHold

=============================================================================
