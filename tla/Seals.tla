-------------------------------- MODULE Seals --------------------------------
(***************************************************************************)
(* Messages sealed to an ML-KEM key (mlkem.c) or with a key at hand        *)
(* (aes_gcm.c), as the bytes that travel: the layout of a sealed message,  *)
(* what each reader cuts where, and what a step that fails leaves behind.  *)
(* OpenSSL and mlkem-native are external and ideal: a tag is of one key,   *)
(* IV and ciphertext; encapsulation is undone by its own private key, and  *)
(* anything else decapsulates to a secret nobody has. A byte is a record   *)
(* that says what it came from.                                            *)
(***************************************************************************)
EXTENDS Calls, Naturals, Sequences, SequencesExt

CONSTANTS
    IvSize, TagSize,    \* 12 and 16
    KemSize(_),         \* the ciphertext of a parameter set: 1088, 1568
    Plaintexts          \* of the instance

ASSUME SealAssumption ==
    {IvSize, TagSize} \subseteq Nat \ {0} /\ \A p \in {768, 1024} : KemSize(p) \in Nat \ {0}

KemParams == {768, 1024}

Failed(error) == [error |-> error, out |-> Missing]
Done(out) == [error |-> "SUCCESS", out |-> out]

-----------------------------------------------------------------------------
(* AES-256-GCM. *)

IvBytes(iv) == [i \in 1..IvSize |-> [kind |-> "iv", of |-> iv, at |-> i]]
Encrypted(text, key, iv) ==
    [i \in DOMAIN text |-> [kind |-> "text", of |-> [byte |-> text[i], key |-> key, iv |-> iv], at |-> i]]
TagBytes(body, key, iv) ==
    [i \in 1..TagSize |-> [kind |-> "tag", of |-> [body |-> body, key |-> key, iv |-> iv], at |-> i]]

\* knishio_aes_gcm_encrypt_iv; any of the cipher's steps may fail.
AesEncryptIv(text, key, iv, fault) ==
    LET body == Encrypted(text, key, iv) IN
    CASE fault = "memory" -> Failed("MEMORY")
      [] fault = "cipher" -> Failed("CRYPTO")
      [] OTHER            -> Done(body \o TagBytes(body, key, iv))

\* knishio_aes_gcm_encrypt: the IV is drawn, and goes in front.
AesEncrypt(text, key, iv, fault) ==
    LET sealed == AesEncryptIv(text, key, IvBytes(iv), fault) IN
    CASE fault = "random"                               -> Failed("CRYPTO")
      [] fault # "random" /\ sealed.error # "SUCCESS"   -> sealed
      [] OTHER                                          -> Done(IvBytes(iv) \o sealed.out)

\* knishio_aes_gcm_decrypt_iv: what stands before the last TagSize bytes, if they are its tag.
AesDecryptIv(bytes, key, iv, fault) ==
    LET n    == Len(bytes) - TagSize
        body == SubSeq(bytes, 1, n)
    IN CASE Len(bytes) < TagSize -> Failed("INVALID_ARGS")
         [] Len(bytes) >= TagSize /\ fault = "memory" -> Failed("MEMORY")
         [] Len(bytes) >= TagSize /\ fault # "memory" /\ fault # "cipher"
              /\ SubSeq(bytes, n + 1, Len(bytes)) = TagBytes(body, key, iv) ->
                Done([i \in DOMAIN body |-> body[i].of.byte])
         [] OTHER -> Failed("CRYPTO")

\* knishio_aes_gcm_decrypt
AesDecrypt(bytes, key, fault) ==
    IF Len(bytes) < IvSize + TagSize THEN Failed("INVALID_ARGS")
    ELSE AesDecryptIv(SubSeq(bytes, IvSize + 1, Len(bytes)), key, SubSeq(bytes, 1, IvSize), fault)

-----------------------------------------------------------------------------
(* ML-KEM. A key is whose it is and of which parameter set; a public or    *)
(* private key of another length is of neither.                            *)

KemBytes(key, coins) ==
    [i \in 1..KemSize(key.param) |-> [kind |-> "kem", of |-> [key |-> key, coins |-> coins], at |-> i]]

Shared(key, coins) == [key |-> key, from |-> coins]

\* knishio_mlkem_encapsulate
Encapsulate(key, coins, fault) ==
    CASE fault = "coins" -> Failed("CRYPTO")
      [] fault # "coins" /\ key.param \notin KemParams -> Failed("INVALID_ARGS")
      [] fault = "kem" /\ key.param \in KemParams -> Failed("CRYPTO")
      [] OTHER -> Done([kem |-> KemBytes(key, coins), secret |-> Shared(key, coins)])

\* knishio_mlkem_decapsulate: a ciphertext of the key's length always gives a secret.
Decapsulate(key, kem, fault) ==
    LET made == {coins \in {b.of.coins : b \in {kem[i] : i \in {j \in DOMAIN kem : kem[j].kind = "kem"}}} :
                    kem = KemBytes(key, coins)}
    IN CASE key.param \notin KemParams -> Failed("INVALID_ARGS")
         [] key.param \in KemParams /\ (Len(kem) # KemSize(key.param)) -> Failed("INVALID_ARGS")
         [] key.param \in KemParams /\ Len(kem) = KemSize(key.param) /\ fault = "kem" -> Failed("CRYPTO")
         [] OTHER -> Done(IF made # {} THEN Shared(key, CHOOSE coins \in made : TRUE)
                          ELSE [key |-> key, rejected |-> kem])

\* knishio_mlkem_encrypt
MlkemEncrypt(key, text, coins, iv, fault) ==
    LET shared == Encapsulate(key, coins, fault)
        sealed == AesEncrypt(text, shared.out.secret, iv, fault)
    IN CASE shared.error # "SUCCESS" -> Failed(shared.error)
         [] shared.error = "SUCCESS" /\ sealed.error # "SUCCESS" -> Failed(sealed.error)
         [] shared.error = "SUCCESS" /\ sealed.error = "SUCCESS" /\ fault = "join" -> Failed("MEMORY")
         [] OTHER -> Done(shared.out.kem \o sealed.out)

\* What a key cuts off as its ciphertext: any but one of 1024 the lesser length.
KemLength(key) == KemSize(IF key.param = 1024 THEN 1024 ELSE 768)

\* knishio_mlkem_decrypt
MlkemDecrypt(key, bytes, fault) ==
    LET n      == KemLength(key)
        shared == Decapsulate(key, SubSeq(bytes, 1, n), fault)
    IN CASE Len(bytes) < n -> Failed("INVALID_ARGS")
         [] Len(bytes) >= n /\ shared.error # "SUCCESS" -> Failed(shared.error)
         [] OTHER -> AesDecrypt(SubSeq(bytes, n + 1, Len(bytes)), shared.out, fault)

-----------------------------------------------------------------------------
(* Calls. *)

Keys == [owner : {"alice", "bob"}, param : KemParams \cup {0}]
SealFaults == {"none", "coins", "kem", "random", "memory", "cipher", "join"}

\* What the way of a message may make of it, with another one on the same way.
Damages(bytes, other) ==
    LET fronts == {SubSeq(bytes, 1, i) : i \in DOMAIN bytes}
        ends   == {SubSeq(other, i, Len(other)) : i \in DOMAIN other}
    IN {bytes, <<>>, bytes \o <<Last(bytes)>>} \cup {RemoveAt(bytes, i) : i \in DOMAIN bytes}
         \cup fronts \cup UNION {{front \o end : end \in ends} : front \in fronts}

SealMessage ==
    Quiet /\ \E key \in Keys, text \in Plaintexts, fault \in SealFaults :
        Made([fn |-> "seal", text |-> text, fault |-> fault, key |-> key,
              sealed |-> MlkemEncrypt(key, text, "coins1", "iv1", fault)])

OpenMessage ==
    Quiet /\ \E key, reader, to \in Keys, text, second \in Plaintexts, fault \in {"none", "kem", "memory", "cipher"} :
        /\ key.owner = "alice" /\ {key.param, to.param} \subseteq KemParams /\ second # text
        /\ LET sealed == MlkemEncrypt(key, text, "coins1", "iv1", "none").out
               other  == MlkemEncrypt(to, second, "coins2", "iv2", "none").out
           IN \E bytes \in IF fault = "none" THEN Damages(sealed, other) ELSE {sealed} :
                Made([fn |-> "open", fault |-> fault, key |-> reader, bytes |-> bytes,
                      sent |-> {[to |-> key, bytes |-> sealed, text |-> text],
                                [to |-> to, bytes |-> other, text |-> second]},
                      opened |-> MlkemDecrypt(reader, bytes, fault)])

SealsNext == SealMessage \/ OpenMessage

SealSpec == call = NoCall /\ [][SealsNext \/ Return]_call

\* A buffer is not NULL.
ASSUME BufferAssumption ==
    /\ Plaintexts \subseteq Seq(UNION {ToSet(text) : text \in Plaintexts})
    /\ Missing \notin Plaintexts
    /\ \A key \in Keys, text \in Plaintexts : key.param \in KemParams =>
            Missing # MlkemEncrypt(key, text, "coins1", "iv1", "none").out

-----------------------------------------------------------------------------
(* Properties. *)

\* A message opens if it arrives whole, at the key it was sealed to, as what was sealed;
\* cut short, changed, put together from two, or read with another key or parameter set
\* it does not. A call that fails, at whatever step, hands out nothing, and a key of
\* neither length seals and opens nothing.
SealsHold ==
    /\ call.fn = "seal" =>
        /\ call.sealed.error = "SUCCESS" <=> call.sealed.out # Missing
        /\ call.sealed.error = "SUCCESS" <=> call.fault = "none" /\ call.key.param \in KemParams
        /\ call.sealed.out # Missing => MlkemDecrypt(call.key, call.sealed.out, "none") = Done(call.text)
    /\ call.fn = "open" =>
        LET own == {m \in call.sent : m.to = call.key /\ m.bytes = call.bytes} IN
        /\ call.opened.error = "SUCCESS" <=> call.opened.out # Missing
        /\ call.opened.error = "SUCCESS" <=> own # {} /\ call.fault = "none"
        /\ \A m \in own : call.fault = "none" => call.opened.out = m.text

=============================================================================
