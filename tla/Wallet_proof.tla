----------------------------- MODULE Wallet_proof -----------------------------
(***************************************************************************)
(* The keys of a wallet, what is sealed to them and what is signed with    *)
(* them: for any contents of the messages and any sizes of their parts, a  *)
(* wallet's keys are of one version and pair, a message opens whole, with  *)
(* its own key, or not, and a signature is of the hash it was made for.    *)
(***************************************************************************)
EXTENDS CipherWallet, OneTime, FoldTheorems, SequenceTheorems, TLAPS

-----------------------------------------------------------------------------
(* The keys. *)

\* What each call leaves of a wallet's keys.
KeysAgree(w) ==
    /\ w.key # NoKey => w.key = w.ots /\ w.address = w.key
    /\ w.priv # NoKey => w.priv = w.pub
    /\ w.pub # NoKey => w.pub.key = w.key

Sound(w) == w \in Wallets /\ KeysAgree(w)

WalletInv ==
    /\ default \in Params
    /\ wallet = NoWallet \/ Sound(wallet)
    /\ context = NoWallet \/ Sound(context)

LEMMA InitializeIs ==
    ASSUME NEW w, Sound(w), NEW fault
    PROVE  LET done == InitializeMlkem(w, fault) IN
           /\ Sound(done)
           /\ done.ots = w.ots /\ done.key = w.key /\ done.param = w.param
<1> DEFINE done == InitializeMlkem(w, fault)
           pair == [key |-> w.key, param |-> w.param]
<1>1. w \in Wallets /\ KeysAgree(w)
  BY DEF Sound
<1>2. CASE w.key = NoKey \/ fault = "pair"
  <2>1. done = w
    BY <1>2, Zenon DEF InitializeMlkem
  <2> HIDE DEF done
  <2> QED BY <2>1 DEF done
<1>3. CASE w.key # NoKey /\ fault = "private"
  <2>1. done = [w EXCEPT !.pub = pair, !.priv = NoKey]
    BY <1>3, Zenon DEF InitializeMlkem
  <2>2. pair \in Pairs
    BY <1>1, <1>3 DEF Wallets, Pairs
  <2>3. pair.key = w.key
    OBVIOUS
  <2> HIDE DEF done, pair
  <2>4. /\ done.ots = w.ots /\ done.key = w.key /\ done.param = w.param
        /\ done.address = w.address /\ done.pub = pair /\ done.priv = NoKey
        /\ done \in Wallets
    BY <1>1, <2>1, <2>2 DEF Wallets
  <2> QED BY <1>1, <2>3, <2>4 DEF Sound, KeysAgree, done
<1>4. CASE w.key # NoKey /\ fault # "pair" /\ fault # "private"
  <2>1. done = [w EXCEPT !.pub = pair, !.priv = pair]
    BY <1>4, Zenon DEF InitializeMlkem
  <2>2. pair \in Pairs
    BY <1>1, <1>4 DEF Wallets, Pairs
  <2>3. pair.key = w.key
    OBVIOUS
  <2> HIDE DEF done, pair
  <2>4. /\ done.ots = w.ots /\ done.key = w.key /\ done.param = w.param
        /\ done.address = w.address /\ done.pub = pair /\ done.priv = pair
        /\ done \in Wallets
    BY <1>1, <2>1, <2>2 DEF Wallets
  <2> QED BY <1>1, <2>3, <2>4 DEF Sound, KeysAgree, done
<1> QED
  BY <1>2, <1>3, <1>4

LEMMA CreatedIs ==
    ASSUME default \in Params, NEW ver, NEW fault
    PROVE  LET made == Created(ver, fault) IN
           \/ made = NoWallet
           \/ /\ Sound(made) /\ made.ots = ver /\ made.param = default
              /\ made.key \in {ver, NoKey}
<1> DEFINE made == Created(ver, fault)
           bare == [ots |-> ver, key |-> NoKey, address |-> NoKey, param |-> default,
                    pub |-> NoKey, priv |-> NoKey]
           keyed == [bare EXCEPT !.key = ver, !.address = ver]
<1>1. CASE ver \notin Versions \/ fault = "address"
  BY <1>1, Zenon DEF Created
<1>2. CASE ver \in Versions /\ fault = "key"
  <2>1. made = bare
    BY <1>2, Zenon DEF Created
  <2>2. Sound(bare) /\ bare.ots = ver /\ bare.param = default /\ bare.key = NoKey
    BY <1>2 DEF Sound, KeysAgree, Wallets
  <2> HIDE DEF made, bare
  <2> QED BY <2>1, <2>2 DEF made
<1>3. CASE ver \in Versions /\ fault # "address" /\ fault # "key"
  <2>1. made = InitializeMlkem(keyed, fault)
    BY <1>3, Zenon DEF Created
  <2>2. Sound(keyed) /\ keyed.ots = ver /\ keyed.param = default /\ keyed.key = ver
    BY <1>3 DEF Sound, KeysAgree, Wallets
  <2> HIDE DEF made, bare, keyed
  <2>3. Sound(made) /\ made.ots = ver /\ made.param = default /\ made.key = ver
    BY <2>1, <2>2, InitializeIs
  <2> QED BY <2>3 DEF made
<1> QED
  BY <1>1, <1>2, <1>3

LEMMA WithParamIs ==
    ASSUME NEW w, Sound(w), NEW p \in Params, NEW fault
    PROVE  LET done == WithParam(w, p, fault) IN
           /\ Sound(done) /\ done.ots = w.ots /\ done.key = w.key /\ done.param = p
<1> DEFINE set == [w EXCEPT !.param = p]
<1>1. Sound(set) /\ set.ots = w.ots /\ set.key = w.key /\ set.param = p
  BY DEF Sound, KeysAgree, Wallets
<1>2. WithParam(w, p, fault) = InitializeMlkem(set, fault)
  BY DEF WithParam
<1> HIDE DEF set
<1> QED
  BY <1>1, <1>2, InitializeIs

\* The cipher context a call leaves is a sound wallet of the version and the parameter
\* set of the wallet it copies.
LEMMA ContextIs ==
    ASSUME WalletInv, NEW fault, NEW paramFault, SetCipherContext(fault, paramFault)
    PROVE  \/ context' = NoWallet
           \/ Sound(context') /\ context'.param = wallet.param /\ context'.pub.key = wallet.ots
<1> DEFINE made == Created(wallet.ots, fault)
           set == IF made = NoWallet \/ made.param = wallet.param THEN made
                  ELSE WithParam(made, wallet.param, paramFault)
<1>1. wallet # NoWallet /\ Sound(wallet) /\ wallet.param \in Params /\ default \in Params
  BY DEF SetCipherContext, WalletInv, Sound, Wallets
<1>2. context' = IF set = NoWallet \/ set.pub = NoKey \/ set.priv = NoKey THEN NoWallet ELSE set
  BY DEF SetCipherContext
<1>3. \/ made = NoWallet
      \/ /\ Sound(made) /\ made.ots = wallet.ots /\ made.param = default
         /\ made.key \in {wallet.ots, NoKey}
  BY <1>1, CreatedIs
<1> HIDE DEF made
<1>4. \A w : Sound(w) /\ w.pub # NoKey => w.pub.key = w.key /\ w.key # NoKey
  BY WalletAssumption DEF Sound, KeysAgree, Wallets, Pairs
<1>5. CASE made = NoWallet
  BY <1>2, <1>5
<1>6. CASE made # NoWallet /\ made.param = wallet.param
  BY <1>2, <1>3, <1>4, <1>6
<1>7. CASE made # NoWallet /\ made.param # wallet.param
  <2>1. /\ set = WithParam(made, wallet.param, paramFault)
        /\ Sound(set) /\ set.key = made.key /\ set.param = wallet.param
    BY <1>1, <1>3, <1>7, WithParamIs
  <2> HIDE DEF set
  <2> QED BY <1>2, <1>3, <1>4, <1>7, <2>1
<1> QED
  BY <1>5, <1>6, <1>7

LEMMA WalletStepInv == WalletInv /\ [WalletNext]_walletVars => WalletInv'
<1> SUFFICES ASSUME WalletInv, [WalletNext]_walletVars PROVE WalletInv'
  OBVIOUS
<1> USE DEF WalletInv
<1>1. ASSUME NEW p \in Params, SetDefaultParam(p) PROVE WalletInv'
  BY <1>1 DEF SetDefaultParam, Sound, KeysAgree
<1>2. ASSUME NEW ver \in Versions \cup {3}, NEW fault, CreateOwn(ver, fault) PROVE WalletInv'
  <2>1. wallet' = NoWallet \/ Sound(wallet')
    BY <1>2, CreatedIs DEF CreateOwn
  <2> QED BY <1>2, <2>1 DEF CreateOwn
<1>3. ASSUME NEW ver \in Versions \cup {3}, SetOtsVersion(ver) PROVE WalletInv'
  <2>1. CASE ver \in Versions /\ (wallet.key = NoKey \/ ver = wallet.ots)
    <3>1. wallet' = [wallet EXCEPT !.ots = ver] /\ Sound(wallet)
      BY <1>3, <2>1 DEF SetOtsVersion
    <3>2. /\ wallet' \in Wallets /\ wallet'.ots = ver /\ wallet'.key = wallet.key
          /\ wallet'.address = wallet.address /\ wallet'.pub = wallet.pub /\ wallet'.priv = wallet.priv
      BY <2>1, <3>1 DEF Sound, Wallets
    <3>3. Sound(wallet')
      BY <2>1, <3>1, <3>2 DEF Sound, KeysAgree
    <3> QED BY <1>3, <3>3 DEF SetOtsVersion
  <2>2. CASE ~(ver \in Versions /\ (wallet.key = NoKey \/ ver = wallet.ots))
    BY <1>3, <2>2 DEF SetOtsVersion
  <2> QED BY <2>1, <2>2
<1>4. ASSUME NEW p \in Params, NEW fault, SetParam(p, fault) PROVE WalletInv'
  <2>1. Sound(wallet')
    BY <1>4, WithParamIs DEF SetParam
  <2> QED BY <1>4, <2>1 DEF SetParam
<1>5. CASE FreeOwn
  BY <1>5 DEF FreeOwn
<1>6. ASSUME NEW fault, NEW paramFault, SetCipherContext(fault, paramFault) PROVE WalletInv'
  <2>1. context' = NoWallet \/ Sound(context')
    BY <1>6, ContextIs
  <2> QED BY <1>6, <2>1 DEF SetCipherContext
<1>7. CASE UNCHANGED walletVars
  BY <1>7 DEF walletVars
<1> QED
  BY <1>1, <1>2, <1>3, <1>4, <1>5, <1>6, <1>7 DEF WalletNext

\* What a sound wallet reads.
LEMMA SoundReads ==
    ASSUME NEW w, Sound(w), NEW m \in Messages
    PROVE  LET toIt == m.pair.key = w.key /\ m.length = m.pair.param /\ m.aes = "whole" IN
           /\ CipherHashDecrypt(w, m) => toIt
           /\ toIt /\ w.priv # NoKey /\ w.priv.param = w.param => CipherHashDecrypt(w, m)
<1> DEFINE toIt == m.pair.key = w.key /\ m.length = m.pair.param /\ m.aes = "whole"
<1>1. /\ w.key \in Versions \cup {NoKey} /\ w.param \in Params
      /\ w.pub \in Pairs \cup {NoKey} /\ w.priv \in Pairs \cup {NoKey} /\ KeysAgree(w)
  BY DEF Sound, Wallets
<1>2. /\ m.pair = [key |-> m.pair.key, param |-> m.pair.param]
      /\ m.pair.param \in Params
  BY DEF Messages
<1>3. ASSUME CipherHashDecrypt(w, m) PROVE toIt
  <2>1. CASE w.priv # NoKey /\ Opens(w.priv, m)
    BY <1>1, <2>1 DEF Opens, KeysAgree
  <2>2. CASE w.key # NoKey /\ Opens([key |-> w.key, param |-> Other(w.param)], m)
    <3> DEFINE pair == [key |-> w.key, param |-> Other(w.param)]
    <3>1. pair.key = w.key
      OBVIOUS
    <3>2. Opens(pair, m)
      BY <2>2
    <3> HIDE DEF pair
    <3> QED BY <3>1, <3>2 DEF Opens
  <2> QED BY <1>3, <2>1, <2>2 DEF CipherHashDecrypt, DecryptEnvelope
<1>4. ASSUME toIt, w.priv # NoKey, w.priv.param = w.param PROVE CipherHashDecrypt(w, m)
  <2>1. w.priv = w.pub /\ w.pub # NoKey /\ w.pub.key = w.key /\ w.key # NoKey /\ w.priv \in Pairs
    BY <1>1, <1>4, WalletAssumption DEF KeysAgree, Pairs
  <2>2. w.priv = [key |-> w.key, param |-> w.param]
    BY <1>4, <2>1 DEF Pairs
  <2>3. CASE m.pair.param = w.param
    <3>1. m.pair = w.priv
      BY <1>2, <1>4, <2>2, <2>3
    <3> QED BY <1>4, <2>1, <2>3, <3>1 DEF CipherHashDecrypt, HasEntry, DecryptEnvelope, Opens
  <2>4. CASE m.pair.param # w.param
    <3> DEFINE pair == [key |-> w.key, param |-> Other(w.param)]
    <3>1. m.pair.param = Other(w.param)
      BY <1>1, <1>2, <2>4 DEF Params, Other
    <3>2. m.pair = pair /\ pair.param = m.length
      BY <1>2, <1>4, <3>1
    <3>3. Opens(pair, m)
      <4> HIDE DEF pair
      <4> QED BY <1>4, <3>2 DEF Opens
    <3> QED BY <1>4, <2>1, <3>1, <3>2, <3>3 DEF CipherHashDecrypt, HasEntry, DecryptEnvelope
  <2> QED BY <2>3, <2>4
<1> QED
  BY <1>3, <1>4

LEMMA WalletInvIsKeys == WalletInv => KeysAreOfTheWallet
<1> SUFFICES ASSUME WalletInv PROVE KeysAreOfTheWallet
  OBVIOUS
<1>1. \A w \in Held : Sound(w)
  BY DEF WalletInv, Held
<1>2. WalletTypeOK
  BY DEF WalletInv, WalletTypeOK, Sound
<1>3. KeysOfOneWallet
  BY <1>1 DEF KeysOfOneWallet, Sound, KeysAgree
<1>4. ReadsBothIdentities
  BY <1>1, SoundReads DEF ReadsBothIdentities
<1> QED
  BY <1>2, <1>3, <1>4 DEF KeysAreOfTheWallet

LEMMA ContextStep ==
    WalletInv /\ [WalletNext]_walletVars =>
        [ context' # context /\ context' # NoWallet =>
            /\ context'.param = wallet.param
            /\ context'.pub.key = wallet.ots ]_walletVars
<1> SUFFICES ASSUME WalletInv, [WalletNext]_walletVars, context' # context, context' # NoWallet
             PROVE  context'.param = wallet.param /\ context'.pub.key = wallet.ots
  OBVIOUS
<1>1. PICK fault, paramFault : SetCipherContext(fault, paramFault)
  BY DEF WalletNext, walletVars, SetDefaultParam, CreateOwn, SetOtsVersion, SetParam, FreeOwn
<1> QED
  BY <1>1, ContextIs

\* A wallet's keys are of one version and one key generation and read both its identities,
\* after any sequence of calls and failures of knishio_wallet_* and set_cipher_context.
THEOREM KeysAreAlwaysOfTheWallet == WalletSpec => []KeysAreOfTheWallet
<1>1. WalletInit => WalletInv
  BY DEF WalletInit, WalletInv, Params
<1>2. WalletInv /\ [WalletNext]_walletVars => WalletInv'
  BY WalletStepInv
<1>3. WalletInv => KeysAreOfTheWallet
  BY WalletInvIsKeys
<1> QED
  BY <1>1, <1>2, <1>3, PTL DEF WalletSpec

\* A cipher context is only ever made of the wallet: its version and its parameter set.
THEOREM ContextIsAlwaysOfWallet == WalletSpec => ContextIsOfWallet
<1>1. WalletInit => WalletInv
  BY DEF WalletInit, WalletInv, Params
<1>2. WalletInv /\ [WalletNext]_walletVars => WalletInv'
  BY WalletStepInv
<1>3. WalletInv /\ [WalletNext]_walletVars =>
        [ context' # context /\ context' # NoWallet =>
            /\ context'.param = wallet.param
            /\ context'.pub.key = wallet.ots ]_walletVars
  BY ContextStep
<1> QED
  BY <1>1, <1>2, <1>3, PTL DEF WalletSpec, ContextIsOfWallet

-----------------------------------------------------------------------------
(* Sequences put together and cut. *)

LEMMA TakenApart ==
    ASSUME NEW E, NEW s \in Seq(E), NEW t \in Seq(E)
    PROVE  /\ SubSeq(s \o t, 1, Len(s)) = s
           /\ SubSeq(s \o t, Len(s) + 1, Len(s \o t)) = t
<1> DEFINE j == s \o t
           front == SubSeq(j, 1, Len(s))
           back == SubSeq(j, Len(s) + 1, Len(j))
<1>1. /\ j \in Seq(E) /\ Len(j) = Len(s) + Len(t) /\ Len(s) \in Nat /\ Len(t) \in Nat
      /\ \A i \in 1 .. Len(s) + Len(t) : j[i] = IF i <= Len(s) THEN s[i] ELSE t[i - Len(s)]
  BY ConcatProperties
<1> HIDE DEF j
<1>2. \A i \in 1 .. Len(j) : j[i] \in E
  BY <1>1
<1>3. /\ front \in Seq(E) /\ Len(front) = Len(s) /\ \A i \in 1 .. Len(s) : front[i] = j[i]
  <2>1. \A i \in 1 .. Len(s) : j[i] \in E
    BY <1>1, <1>2
  <2>2. /\ front \in Seq(E) /\ Len(front) = IF 1 <= Len(s) THEN Len(s) - 1 + 1 ELSE 0
        /\ \A i \in 1 .. Len(s) - 1 + 1 : front[i] = j[1 + i - 1]
    BY <1>1, <2>1, SubSeqProperties
  <2> HIDE DEF front
  <2>3. Len(front) = Len(s)
    BY <1>1, <2>2
  <2>4. ASSUME NEW i \in 1 .. Len(s) PROVE front[i] = j[i]
    <3>1. i \in 1 .. Len(s) - 1 + 1 /\ 1 + i - 1 = i
      BY <1>1
    <3> QED BY <2>2, <3>1
  <2> QED BY <2>2, <2>3, <2>4
<1>4. /\ back \in Seq(E) /\ Len(back) = Len(t) /\ \A i \in 1 .. Len(t) : back[i] = j[Len(s) + i]
  <2> DEFINE m == Len(s) + 1
             n == Len(j)
  <2>1. m \in Int /\ n \in Int /\ \A i \in m .. n : j[i] \in E
    BY <1>1, <1>2
  <2>2. back = SubSeq(j, m, n)
    OBVIOUS
  <2>3. n - m + 1 = Len(t) /\ (m <= n <=> Len(t) # 0)
    BY <1>1
  <2> HIDE DEF m, n, back
  <2>4. /\ back \in Seq(E) /\ Len(back) = IF m <= n THEN n - m + 1 ELSE 0
        /\ \A i \in 1 .. n - m + 1 : back[i] = j[m + i - 1]
    BY <2>1, <2>2, SubSeqProperties
  <2>5. Len(back) = Len(t)
    BY <1>1, <2>3, <2>4
  <2>6. \A i \in 1 .. Len(t) : back[i] = j[m + i - 1]
    BY <2>3, <2>4
  <2>7. \A i \in 1 .. Len(t) : m + i - 1 = Len(s) + i
    BY <1>1 DEF m
  <2> QED BY <2>4, <2>5, <2>6, <2>7
<1>5. front = s
  <2>1. \A i \in 1 .. Len(s) : front[i] = s[i]
    BY <1>1, <1>3
  <2> HIDE DEF front
  <2> QED BY <1>3, <2>1
<1>6. back = t
  <2>1. \A i \in 1 .. Len(t) : back[i] = t[i]
    <3> TAKE i \in 1 .. Len(t)
    <3>1. Len(s) + i \in 1 .. Len(s) + Len(t) /\ ~(Len(s) + i <= Len(s)) /\ Len(s) + i - Len(s) = i
      BY <1>1
    <3> QED BY <1>1, <1>4, <3>1
  <2> HIDE DEF back
  <2> QED BY <1>4, <2>1
<1> QED
  BY <1>5, <1>6 DEF front, back, j

LEMMA PutTogether ==
    ASSUME NEW E, NEW b \in Seq(E), NEW n \in 0 .. Len(b)
    PROVE  /\ SubSeq(b, 1, n) \in Seq(E) /\ SubSeq(b, n + 1, Len(b)) \in Seq(E)
           /\ Len(SubSeq(b, 1, n)) = n /\ Len(SubSeq(b, n + 1, Len(b))) = Len(b) - n
           /\ b = SubSeq(b, 1, n) \o SubSeq(b, n + 1, Len(b))
<1>1. Len(b) \in Nat /\ n \in Int /\ n + 1 \in Int /\ \A i \in 1 .. Len(b) : b[i] \in E
  OBVIOUS
<1>2. SubSeq(b, 1, n) \o SubSeq(b, n + 1, Len(b)) = SubSeq(b, 1, Len(b)) /\ SubSeq(b, 1, Len(b)) = b
  <2>1. 1 \in 1 .. Len(b) + 1 /\ n \in 1 - 1 .. Len(b) /\ Len(b) \in n .. Len(b)
    BY <1>1
  <2> QED BY <2>1, ConcatAdjacentSubSeq, SubSeqFull
<1>3. SubSeq(b, 1, n) \in Seq(E) /\ Len(SubSeq(b, 1, n)) = n
  <2>1. \A i \in 1 .. n : b[i] \in E
    BY <1>1
  <2>2. /\ SubSeq(b, 1, n) \in Seq(E) /\ Len(SubSeq(b, 1, n)) = IF 1 <= n THEN n - 1 + 1 ELSE 0
    BY <1>1, <2>1, SubSeqProperties
  <2> QED BY <1>1, <2>2
<1>4. SubSeq(b, n + 1, Len(b)) \in Seq(E) /\ Len(SubSeq(b, n + 1, Len(b))) = Len(b) - n
  <2> DEFINE m == n + 1
  <2>1. m \in Int /\ \A i \in m .. Len(b) : b[i] \in E
    BY <1>1
  <2> HIDE DEF m
  <2>2. /\ SubSeq(b, m, Len(b)) \in Seq(E)
        /\ Len(SubSeq(b, m, Len(b))) = IF m <= Len(b) THEN Len(b) - m + 1 ELSE 0
    BY <1>1, <2>1, SubSeqProperties
  <2>3. Len(b) - m + 1 = Len(b) - n /\ (~(m <= Len(b)) => Len(b) - n = 0)
    BY <1>1 DEF m
  <2> QED BY <2>2, <2>3 DEF m
<1> QED
  BY <1>2, <1>3, <1>4

\* A sequence is one of what it holds, and of more.
LEMMA HoldsItsOwn ==
    ASSUME NEW n \in Nat, NEW f, f = [i \in 1 .. n |-> f[i]]
    PROVE  f \in Seq(ToSet(f)) /\ Len(f) = n /\ DOMAIN f = 1 .. n
<1>1. DOMAIN f = 1 .. n
  OBVIOUS
<1>2. \A i \in 1 .. n : f[i] \in ToSet(f)
  BY <1>1 DEF ToSet
<1> QED
  BY <1>1, <1>2

LEMMA WiderSeq ==
    ASSUME NEW A, NEW E, A \subseteq E, NEW s \in Seq(A)
    PROVE  s \in Seq(E)
  OBVIOUS

-----------------------------------------------------------------------------
(* What is sealed. *)

LEMMA OutcomesDiffer ==
    /\ \A e : Failed(e).error = e /\ Failed(e).out = Missing
    /\ \A out : Done(out).error = "SUCCESS" /\ Done(out).out = out
    /\ "MEMORY" # "SUCCESS" /\ "CRYPTO" # "SUCCESS" /\ "INVALID_ARGS" # "SUCCESS"
  BY DEF Failed, Done

\* A message as it travels.
Body(text, secret, iv) == Encrypted(text, secret, IvBytes(iv))
Tagged(body, secret, ivBytes) == body \o TagBytes(body, secret, ivBytes)
Sealed(key, text, coins, iv) ==
    KemBytes(key, coins)
      \o (IvBytes(iv) \o Tagged(Body(text, Shared(key, coins), iv), Shared(key, coins), IvBytes(iv)))

LEMMA SealedIs ==
    ASSUME NEW key, key.param \in KemParams, NEW text, NEW coins, NEW iv
    PROVE  MlkemEncrypt(key, text, coins, iv, "none") = Done(Sealed(key, text, coins, iv))
<1> DEFINE secret == Shared(key, coins)
           tagged == Tagged(Body(text, secret, iv), secret, IvBytes(iv))
<1>1. AesEncryptIv(text, secret, IvBytes(iv), "none") = Done(tagged)
  <2>1. "none" # "memory" /\ "none" # "cipher"
    OBVIOUS
  <2> QED BY <2>1, Zenon DEF AesEncryptIv, Tagged, Body
<1>2. AesEncrypt(text, secret, iv, "none") = Done(IvBytes(iv) \o tagged)
  <2>1. "none" # "random" /\ ~(Done(tagged).error # "SUCCESS") /\ Done(tagged).out = tagged
    BY OutcomesDiffer
  <2> QED BY <1>1, <2>1, Zenon DEF AesEncrypt
<1>3. Encapsulate(key, coins, "none") = Done([kem |-> KemBytes(key, coins), secret |-> secret])
  <2>1. "none" # "coins" /\ "none" # "kem"
    OBVIOUS
  <2> QED BY <2>1, Zenon DEF Encapsulate
<1> DEFINE made == [kem |-> KemBytes(key, coins), secret |-> secret]
<1>4. made.kem = KemBytes(key, coins) /\ made.secret = secret
  OBVIOUS
<1> HIDE DEF made, secret, tagged
<1>5. /\ Done(made).error = "SUCCESS" /\ Done(made).out = made
      /\ Done(IvBytes(iv) \o tagged).error = "SUCCESS"
      /\ Done(IvBytes(iv) \o tagged).out = IvBytes(iv) \o tagged
      /\ "none" # "join"
  BY OutcomesDiffer
<1>6. Encapsulate(key, coins, "none") = Done(made)
  BY <1>3 DEF made
<1>7. MlkemEncrypt(key, text, coins, iv, "none")
        = Done(KemBytes(key, coins) \o (IvBytes(iv) \o tagged))
  BY <1>2, <1>4, <1>5, <1>6, Zenon DEF MlkemEncrypt
<1> QED
  BY <1>7 DEF Sealed, tagged, secret

\* A step that fails hands out nothing.
LEMMA SealingFails ==
    ASSUME NEW key, NEW text, NEW coins, NEW iv, NEW fault \in SealFaults,
           fault # "none" \/ key.param \notin KemParams
    PROVE  LET done == MlkemEncrypt(key, text, coins, iv, fault) IN
           done.error # "SUCCESS" /\ done.out = Missing
<1> DEFINE shared == Encapsulate(key, coins, fault)
           sealed == AesEncrypt(text, shared.out.secret, iv, fault)
           done == MlkemEncrypt(key, text, coins, iv, fault)
<1>1. CASE shared.error # "SUCCESS"
  <2>1. done = Failed(shared.error)
    BY <1>1, Zenon DEF MlkemEncrypt
  <2> HIDE DEF done, shared
  <2> QED BY <1>1, <2>1, OutcomesDiffer DEF done
<1>2. CASE shared.error = "SUCCESS" /\ sealed.error # "SUCCESS"
  <2>1. done = Failed(sealed.error)
    BY <1>2, Zenon DEF MlkemEncrypt
  <2> HIDE DEF done, sealed
  <2> QED BY <1>2, <2>1, OutcomesDiffer DEF done
<1>3. CASE shared.error = "SUCCESS" /\ sealed.error = "SUCCESS"
  <2>1. fault # "coins" /\ key.param \in KemParams /\ fault # "kem"
    <3>1. CASE fault = "coins"
      <4>1. shared = Failed("CRYPTO")
        BY <3>1, Zenon DEF Encapsulate
      <4> HIDE DEF shared
      <4> QED BY <1>3, <4>1, OutcomesDiffer
    <3>2. CASE fault # "coins" /\ key.param \notin KemParams
      <4>1. shared = Failed("INVALID_ARGS")
        BY <3>2, Zenon DEF Encapsulate
      <4> HIDE DEF shared
      <4> QED BY <1>3, <4>1, OutcomesDiffer
    <3>3. CASE fault = "kem" /\ key.param \in KemParams
      <4>1. fault # "coins"
        BY <3>3
      <4>2. shared = Failed("CRYPTO")
        BY <3>3, <4>1, Zenon DEF Encapsulate
      <4> HIDE DEF shared
      <4> QED BY <1>3, <4>2, OutcomesDiffer
    <3> QED BY <3>1, <3>2, <3>3
  <2> DEFINE secret == shared.out.secret
             cut == AesEncryptIv(text, secret, IvBytes(iv), fault)
  <2>2. fault # "random"
    <3>1. ASSUME fault = "random" PROVE sealed = Failed("CRYPTO")
      BY <3>1, Zenon DEF AesEncrypt
    <3> HIDE DEF sealed
    <3> QED BY <1>3, <3>1, OutcomesDiffer
  <2>3. cut.error = "SUCCESS"
    <3>1. ASSUME cut.error # "SUCCESS" PROVE sealed = cut
      BY <2>2, <3>1, Zenon DEF AesEncrypt
    <3> HIDE DEF sealed, cut
    <3> QED BY <1>3, <3>1
  <2>4. fault # "memory" /\ fault # "cipher"
    <3>1. CASE fault = "memory"
      <4>1. cut = Failed("MEMORY")
        BY <3>1, Zenon DEF AesEncryptIv
      <4> HIDE DEF cut
      <4> QED BY <2>3, <4>1, OutcomesDiffer
    <3>2. CASE fault = "cipher"
      <4>1. fault # "memory"
        BY <3>2
      <4>2. cut = Failed("CRYPTO")
        BY <3>2, <4>1, Zenon DEF AesEncryptIv
      <4> HIDE DEF cut
      <4> QED BY <2>3, <4>2, OutcomesDiffer
    <3> QED BY <3>1, <3>2
  <2>5. fault = "join"
    BY <2>1, <2>2, <2>4 DEF SealFaults
  <2>6. done = Failed("MEMORY")
    BY <1>3, <2>5, Zenon DEF MlkemEncrypt
  <2> HIDE DEF done
  <2> QED BY <2>6, OutcomesDiffer DEF done
<1> QED
  BY <1>1, <1>2, <1>3

-----------------------------------------------------------------------------
(* What opens. *)

Plain(body) == [i \in DOMAIN body |-> body[i].of.byte]

\* What opened was cut where it was put together.
LEMMA OpenedIsTagged ==
    ASSUME NEW E, NEW b \in Seq(E), NEW key, NEW ivBytes, NEW fault,
           AesDecryptIv(b, key, ivBytes, fault).error = "SUCCESS"
    PROVE  \E body \in Seq(E) :
               /\ b = Tagged(body, key, ivBytes) /\ fault # "memory" /\ fault # "cipher"
               /\ AesDecryptIv(b, key, ivBytes, fault).out = Plain(body)
<1> DEFINE n == Len(b) - TagSize
           body == SubSeq(b, 1, n)
           tag == SubSeq(b, n + 1, Len(b))
           done == AesDecryptIv(b, key, ivBytes, fault)
<1>1. CASE Len(b) < TagSize
  <2>0. ~(Len(b) >= TagSize)
    BY <1>1, SealAssumption
  <2>1. done = Failed("INVALID_ARGS")
    BY <1>1, <2>0, Zenon DEF AesDecryptIv
  <2> HIDE DEF done
  <2> QED BY <2>1, OutcomesDiffer DEF done
<1>2. CASE ~(Len(b) < TagSize)
  <2>1. Len(b) >= TagSize /\ TagSize \in Nat /\ Len(b) \in Nat
    BY <1>2, SealAssumption
  <2>2. CASE fault = "memory"
    <3>1. done = Failed("MEMORY")
      BY <1>2, <2>1, <2>2, Zenon DEF AesDecryptIv
    <3> HIDE DEF done
    <3> QED BY <3>1, OutcomesDiffer DEF done
  <2>3. CASE fault # "memory" /\ fault # "cipher" /\ tag = TagBytes(body, key, ivBytes)
    <3>1. done = Done(Plain(body))
      BY <1>2, <2>1, <2>3, Zenon DEF AesDecryptIv, Plain
    <3>2. n \in 0 .. Len(b)
      BY <2>1
    <3>3. body \in Seq(E) /\ b = body \o tag
      <4> HIDE DEF n
      <4> QED BY <3>2, PutTogether
    <3>4. b = Tagged(body, key, ivBytes)
      BY <2>3, <3>3, Zenon DEF Tagged
    <3> HIDE DEF done, body
    <3> QED BY <2>3, <3>1, <3>3, <3>4, OutcomesDiffer DEF done
  <2>4. CASE fault # "memory" /\ ~(fault # "memory" /\ fault # "cipher"
                                   /\ tag = TagBytes(body, key, ivBytes))
    <3>1. done = Failed("CRYPTO")
      BY <1>2, <2>1, <2>4, Zenon DEF AesDecryptIv
    <3> HIDE DEF done
    <3> QED BY <3>1, OutcomesDiffer DEF done
  <2> QED BY <2>2, <2>3, <2>4
<1> QED
  BY <1>1, <1>2

\* And what was put together opens.
LEMMA TaggedOpens ==
    ASSUME NEW E, NEW body \in Seq(E), NEW key, NEW ivBytes, NEW fault,
           fault # "memory", fault # "cipher"
    PROVE  AesDecryptIv(Tagged(body, key, ivBytes), key, ivBytes, fault) = Done(Plain(body))
<1> DEFINE tag == TagBytes(body, key, ivBytes)
           b == body \o tag
           n == Len(b) - TagSize
           F == E \cup ToSet(tag)
<1>1. TagSize \in Nat
  BY SealAssumption
<1>2. tag \in Seq(ToSet(tag)) /\ Len(tag) = TagSize
  <2>1. tag = [i \in 1 .. TagSize |-> tag[i]]
    BY DEF TagBytes
  <2> HIDE DEF tag
  <2> QED BY <1>1, <2>1, HoldsItsOwn
<1> HIDE DEF tag
<1>3. tag \in Seq(F) /\ body \in Seq(F)
  BY <1>2, WiderSeq
<1> HIDE DEF F
<1>4. Len(b) = Len(body) + TagSize /\ Len(body) \in Nat
  <2>1. Len(b) = Len(body) + Len(tag)
    BY <1>3, ConcatProperties
  <2>2. Len(body) \in Nat
    BY <1>3
  <2> QED BY <1>2, <2>1, <2>2
<1>5. n = Len(body) /\ ~(Len(b) < TagSize) /\ Len(b) >= TagSize
  BY <1>1, <1>4
<1>6. SubSeq(b, 1, n) = body /\ SubSeq(b, n + 1, Len(b)) = tag
  BY <1>3, <1>5, TakenApart
<1>7. AesDecryptIv(b, key, ivBytes, fault) = Done(Plain(SubSeq(b, 1, n)))
  BY <1>5, <1>6, Zenon DEF AesDecryptIv, Plain, tag
<1> QED
  BY <1>6, <1>7 DEF Tagged, b, tag

PutWith(b, key, out, E) ==
    \E ivBytes \in Seq(E), body \in Seq(E) : b = ivBytes \o Tagged(body, key, ivBytes) /\ out = Plain(body)

LEMMA OpenedHasIv ==
    ASSUME NEW E, NEW b \in Seq(E), NEW key, NEW fault,
           AesDecrypt(b, key, fault).error = "SUCCESS"
    PROVE  /\ fault # "memory" /\ fault # "cipher"
           /\ PutWith(b, key, AesDecrypt(b, key, fault).out, E)
<1> DEFINE done == AesDecrypt(b, key, fault)
           ivBytes == SubSeq(b, 1, IvSize)
           rest == SubSeq(b, IvSize + 1, Len(b))
<1>1. CASE Len(b) < IvSize + TagSize
  <2>1. done = Failed("INVALID_ARGS")
    BY <1>1, Zenon DEF AesDecrypt
  <2> HIDE DEF done
  <2> QED BY <2>1, OutcomesDiffer DEF done
<1>2. CASE ~(Len(b) < IvSize + TagSize)
  <2>1. done = AesDecryptIv(rest, key, ivBytes, fault)
    BY <1>2, Zenon DEF AesDecrypt
  <2>2. IvSize \in 0 .. Len(b)
    BY <1>2, SealAssumption
  <2>3. ivBytes \in Seq(E) /\ rest \in Seq(E) /\ b = ivBytes \o rest
    BY <2>2, PutTogether
  <2> HIDE DEF done, rest, ivBytes
  <2>4. PICK body \in Seq(E) :
            /\ rest = Tagged(body, key, ivBytes) /\ fault # "memory" /\ fault # "cipher"
            /\ done.out = Plain(body)
    BY <2>1, <2>3, OpenedIsTagged DEF done
  <2> QED BY <2>3, <2>4 DEF done, PutWith
<1> QED
  BY <1>1, <1>2

LEMMA WithIvOpens ==
    ASSUME NEW E, NEW body \in Seq(E), NEW key, NEW ivBytes \in Seq(E), Len(ivBytes) = IvSize,
           NEW fault, fault # "memory", fault # "cipher"
    PROVE  AesDecrypt(ivBytes \o Tagged(body, key, ivBytes), key, fault) = Done(Plain(body))
<1> DEFINE tag == TagBytes(body, key, ivBytes)
           rest == Tagged(body, key, ivBytes)
           b == ivBytes \o rest
           F == E \cup ToSet(tag)
<1>1. TagSize \in Nat /\ IvSize \in Nat
  BY SealAssumption
<1>2. tag \in Seq(ToSet(tag)) /\ Len(tag) = TagSize
  <2>1. tag = [i \in 1 .. TagSize |-> tag[i]]
    BY DEF TagBytes
  <2> HIDE DEF tag
  <2> QED BY <1>1, <2>1, HoldsItsOwn
<1> HIDE DEF tag
<1>3. tag \in Seq(F) /\ body \in Seq(F) /\ ivBytes \in Seq(F)
  BY <1>2, WiderSeq
<1> HIDE DEF F
<1>4. rest \in Seq(F) /\ Len(rest) = Len(body) + TagSize /\ Len(body) \in Nat
  <2>1. rest = body \o tag
    BY DEF Tagged, tag
  <2> HIDE DEF rest
  <2>2. body \o tag \in Seq(F) /\ Len(body \o tag) = Len(body) + Len(tag)
    BY <1>3, ConcatProperties
  <2>3. Len(body) \in Nat
    BY <1>3
  <2> QED BY <1>2, <2>1, <2>2, <2>3
<1> HIDE DEF rest
<1>5. Len(b) = IvSize + Len(rest)
  BY <1>3, <1>4, ConcatProperties
<1>6. ~(Len(b) < IvSize + TagSize)
  BY <1>1, <1>4, <1>5
<1>7. SubSeq(b, 1, IvSize) = ivBytes /\ SubSeq(b, IvSize + 1, Len(b)) = rest
  BY <1>3, <1>4, TakenApart
<1>8. AesDecrypt(b, key, fault) = AesDecryptIv(rest, key, ivBytes, fault)
  BY <1>6, <1>7, Zenon DEF AesDecrypt
<1>9. AesDecryptIv(rest, key, ivBytes, fault) = Done(Plain(body))
  BY TaggedOpens DEF rest
<1> QED
  BY <1>8, <1>9 DEF rest

-----------------------------------------------------------------------------
(* What a key makes of a ciphertext. *)

LEMMA KemLengthIs ==
    ASSUME NEW key, key.param \in KemParams
    PROVE  KemLength(key) = KemSize(key.param) /\ KemSize(key.param) \in Nat \ {0}
<1>1. CASE key.param = 1024
  BY <1>1, SealAssumption DEF KemLength
<1>2. CASE key.param = 768
  <2>1. ~(key.param = 1024)
    BY <1>2
  <2> QED BY <1>2, <2>1, SealAssumption DEF KemLength
<1> QED
  BY <1>1, <1>2 DEF KemParams

\* Its first byte says what a ciphertext is.
LEMMA KemByte ==
    ASSUME NEW key, key.param \in KemParams, NEW coins
    PROVE  /\ KemBytes(key, coins) \in Seq(ToSet(KemBytes(key, coins)))
           /\ Len(KemBytes(key, coins)) = KemSize(key.param)
           /\ 1 \in DOMAIN KemBytes(key, coins)
           /\ \A i \in DOMAIN KemBytes(key, coins) :
                  /\ KemBytes(key, coins)[i].kind = "kem"
                  /\ KemBytes(key, coins)[i].of = [key |-> key, coins |-> coins]
<1> DEFINE n == KemSize(key.param)
           b == KemBytes(key, coins)
<1>1. n \in Nat /\ n # 0
  BY KemLengthIs
<1>2. b = [i \in 1 .. n |-> [kind |-> "kem", of |-> [key |-> key, coins |-> coins], at |-> i]]
  BY DEF KemBytes
<1> HIDE DEF n, b
<1>3. b = [i \in 1 .. n |-> b[i]]
  BY <1>2
<1>4. b \in Seq(ToSet(b)) /\ Len(b) = n /\ DOMAIN b = 1 .. n
  BY <1>1, <1>3, HoldsItsOwn
<1>5. \A i \in 1 .. n : b[i].kind = "kem" /\ b[i].of = [key |-> key, coins |-> coins]
  BY <1>2
<1>6. 1 \in 1 .. n
  BY <1>1
<1> QED
  BY <1>4, <1>5, <1>6 DEF n, b

LEMMA OneKemEach ==
    ASSUME NEW key, key.param \in KemParams, NEW c, NEW d, KemBytes(key, c) = KemBytes(key, d)
    PROVE  c = d
<1>1. KemBytes(key, c)[1].of = [key |-> key, coins |-> c] /\ KemBytes(key, d)[1].of = [key |-> key, coins |-> d]
  BY KemByte
<1>2. [key |-> key, coins |-> c] = [key |-> key, coins |-> d]
  BY <1>1
<1> QED
  BY <1>2

LEMMA OneSecretEach ==
    ASSUME NEW key, NEW c, NEW reader, NEW d, NEW kem
    PROVE  /\ Shared(key, c) = Shared(reader, d) => key = reader /\ c = d
           /\ Shared(key, c) # [key |-> reader, rejected |-> kem]
<1>1. Shared(key, c) = Shared(reader, d) => key = reader /\ c = d
  BY DEF Shared
<1>2. Shared(key, c) # [key |-> reader, rejected |-> kem]
  <2>1. DOMAIN Shared(key, c) = {"key", "from"} /\ DOMAIN [key |-> reader, rejected |-> kem] = {"key", "rejected"}
    BY DEF Shared
  <2>2. "from" \notin {"key", "rejected"}
    OBVIOUS
  <2> QED BY <2>1, <2>2, Zenon
<1> QED
  BY <1>1, <1>2

\* The coins a ciphertext may have been made with.
MadeWith(key, kem) ==
    {coins \in {b.of.coins : b \in {kem[i] : i \in {j \in DOMAIN kem : kem[j].kind = "kem"}}} :
        kem = KemBytes(key, coins)}

LEMMA DecapsulateOwn ==
    ASSUME NEW key, key.param \in KemParams, NEW coins, NEW fault, fault # "kem"
    PROVE  Decapsulate(key, KemBytes(key, coins), fault) = Done(Shared(key, coins))
<1> DEFINE kem == KemBytes(key, coins)
           made == MadeWith(key, kem)
<1>1. /\ Len(kem) = KemSize(key.param) /\ 1 \in DOMAIN kem
      /\ kem[1].kind = "kem" /\ kem[1].of = [key |-> key, coins |-> coins]
  BY KemByte
<1>2. coins \in made
  <2>1. 1 \in {j \in DOMAIN kem : kem[j].kind = "kem"}
    BY <1>1
  <2>2. kem[1] \in {kem[i] : i \in {j \in DOMAIN kem : kem[j].kind = "kem"}}
    BY <2>1
  <2>3. kem[1].of.coins = coins
    BY <1>1
  <2>4. coins \in {b.of.coins : b \in {kem[i] : i \in {j \in DOMAIN kem : kem[j].kind = "kem"}}}
    BY <2>2, <2>3
  <2> QED BY <2>4 DEF MadeWith
<1>3. \A c \in made : c = coins
  BY OneKemEach DEF MadeWith
<1> HIDE DEF made
<1>4. (CHOOSE c \in made : TRUE) = coins
  <2>1. made = {coins}
    BY <1>2, <1>3
  <2> QED BY <2>1
<1>5. made # {}
  BY <1>2
<1>6. Decapsulate(key, kem, fault)
        = Done(IF made # {} THEN Shared(key, CHOOSE c \in made : TRUE) ELSE [key |-> key, rejected |-> kem])
  <2>1. ~(Len(kem) # KemSize(key.param)) /\ ~(key.param \notin KemParams)
    BY <1>1
  <2> QED BY <2>1, Zenon DEF Decapsulate, made, MadeWith
<1>7. (IF made # {} THEN Shared(key, CHOOSE c \in made : TRUE) ELSE [key |-> key, rejected |-> kem])
        = Shared(key, coins)
  BY <1>4, <1>5, Zenon
<1> QED
  BY <1>6, <1>7, Zenon

LEMMA DecapsulateGives ==
    ASSUME NEW key, NEW kem, NEW fault, Decapsulate(key, kem, fault).error = "SUCCESS"
    PROVE  LET out == Decapsulate(key, kem, fault).out IN
           /\ key.param \in KemParams /\ Len(kem) = KemSize(key.param) /\ fault # "kem"
           /\ \/ \E c : kem = KemBytes(key, c) /\ out = Shared(key, c)
              \/ out = [key |-> key, rejected |-> kem]
<1> DEFINE done == Decapsulate(key, kem, fault)
           made == MadeWith(key, kem)
<1>1. CASE key.param \notin KemParams
  <2>1. done = Failed("INVALID_ARGS")
    BY <1>1, Zenon DEF Decapsulate
  <2> HIDE DEF done
  <2> QED BY <2>1, OutcomesDiffer DEF done
<1>2. CASE key.param \in KemParams /\ Len(kem) # KemSize(key.param)
  <2>1. done = Failed("INVALID_ARGS")
    BY <1>2, Zenon DEF Decapsulate
  <2> HIDE DEF done
  <2> QED BY <2>1, OutcomesDiffer DEF done
<1>3. CASE key.param \in KemParams /\ Len(kem) = KemSize(key.param) /\ fault = "kem"
  <2>1. done = Failed("CRYPTO")
    BY <1>3, Zenon DEF Decapsulate
  <2> HIDE DEF done
  <2> QED BY <2>1, OutcomesDiffer DEF done
<1>4. CASE key.param \in KemParams /\ Len(kem) = KemSize(key.param) /\ fault # "kem"
  <2>1. done = Done(IF made # {} THEN Shared(key, CHOOSE c \in made : TRUE)
                    ELSE [key |-> key, rejected |-> kem])
    BY <1>4, Zenon DEF Decapsulate, made, MadeWith
  <2>2. CASE made # {}
    <3>1. \A c \in made : kem = KemBytes(key, c)
      BY DEF MadeWith
    <3> HIDE DEF made
    <3>2. (CHOOSE c \in made : TRUE) \in made
      BY <2>2, Zenon
    <3>3. \E c \in made : done = Done(Shared(key, c))
      BY <2>1, <2>2, <3>2, Zenon
    <3> HIDE DEF done
    <3>4. PICK c : kem = KemBytes(key, c) /\ done = Done(Shared(key, c))
      BY <3>1, <3>3, Zenon
    <3>5. kem = KemBytes(key, c) /\ done.out = Shared(key, c)
      BY <3>4, OutcomesDiffer
    <3> QED BY <1>4, <3>5 DEF done
  <2>3. CASE made = {}
    <3>1. done = Done([key |-> key, rejected |-> kem])
      BY <2>1, <2>3, Zenon
    <3> HIDE DEF done, made
    <3> QED BY <1>4, <3>1, OutcomesDiffer DEF done
  <2> QED BY <2>2, <2>3
<1> QED
  BY <1>1, <1>2, <1>3, <1>4

-----------------------------------------------------------------------------
(* A sealed message, and what may arrive of it. *)

\* The parts of a message, as sequences of its own bytes; its tag says all of it but the ciphertext.
Parts(key, text, coins, iv) ==
    LET secret == Shared(key, coins)
        body   == Body(text, secret, iv)
    IN ToSet(KemBytes(key, coins)) \cup ToSet(IvBytes(iv)) \cup ToSet(body)
         \cup ToSet(TagBytes(body, secret, IvBytes(iv)))

LEMMA SealedParts ==
    ASSUME NEW key, key.param \in KemParams, NEW E, NEW text \in Seq(E), NEW coins, NEW iv
    PROVE  LET secret == Shared(key, coins)
               body   == Body(text, secret, iv)
               tag    == TagBytes(body, secret, IvBytes(iv))
               whole  == Sealed(key, text, coins, iv)
               S      == Seq(Parts(key, text, coins, iv))
           IN /\ KemBytes(key, coins) \in S /\ IvBytes(iv) \in S /\ body \in S /\ tag \in S
              /\ Len(IvBytes(iv)) = IvSize /\ Plain(body) = text
              /\ \A x \in Parts(key, text, coins, iv) :
                     x.kind = "tag" => x.of = [body |-> body, key |-> secret, iv |-> IvBytes(iv)]
              /\ whole \in S /\ Len(whole) \in Nat \ {0}
<1> DEFINE secret == Shared(key, coins)
           body == Body(text, secret, iv)
           kem == KemBytes(key, coins)
           ivs == IvBytes(iv)
           tag == TagBytes(body, secret, ivs)
           mark == [body |-> body, key |-> secret, iv |-> ivs]
           parts == ToSet(kem) \cup ToSet(ivs) \cup ToSet(body) \cup ToSet(tag)
           whole == Sealed(key, text, coins, iv)
<1>1. /\ kem \in Seq(ToSet(kem)) /\ Len(kem) \in Nat \ {0}
      /\ \A x \in ToSet(kem) : x.kind = "kem"
  <2>1. kem \in Seq(ToSet(kem)) /\ Len(kem) = KemSize(key.param)
    BY KemByte, Zenon
  <2>4. \A i \in DOMAIN kem : kem[i].kind = "kem" /\ kem[i].of = [key |-> key, coins |-> coins]
    BY KemByte, Zenon
  <2>3. \A i \in DOMAIN kem : kem[i].kind = "kem"
    BY <2>4, Zenon
  <2> HIDE DEF kem
  <2>2. Len(kem) \in Nat \ {0}
    BY <2>1, KemLengthIs
  <2> QED BY <2>1, <2>2, <2>3 DEF ToSet
<1>2. ivs \in Seq(ToSet(ivs)) /\ Len(ivs) = IvSize /\ \A x \in ToSet(ivs) : x.kind = "iv"
  <2>1. ivs = [i \in 1 .. IvSize |-> [kind |-> "iv", of |-> iv, at |-> i]] /\ IvSize \in Nat
    BY SealAssumption DEF IvBytes
  <2> HIDE DEF ivs
  <2>2. ivs = [i \in 1 .. IvSize |-> ivs[i]] /\ \A i \in 1 .. IvSize : ivs[i].kind = "iv"
    BY <2>1
  <2>3. ivs \in Seq(ToSet(ivs)) /\ Len(ivs) = IvSize /\ DOMAIN ivs = 1 .. IvSize
    BY <2>1, <2>2, HoldsItsOwn
  <2> QED BY <2>2, <2>3 DEF ToSet
<1>3. /\ body \in Seq(ToSet(body)) /\ (\A x \in ToSet(body) : x.kind = "text")
      /\ DOMAIN body = DOMAIN text /\ \A i \in DOMAIN text : body[i].of.byte = text[i]
  <2> DEFINE n == Len(text)
  <2>1. n \in Nat /\ DOMAIN text = 1 .. n
    OBVIOUS
  <2>2. body = [i \in DOMAIN text |->
                   [kind |-> "text", of |-> [byte |-> text[i], key |-> secret, iv |-> ivs], at |-> i]]
    BY DEF Body, Encrypted
  <2> HIDE DEF body, n, ivs, secret
  <2>3. /\ DOMAIN body = 1 .. n /\ body = [i \in 1 .. n |-> body[i]]
        /\ \A i \in 1 .. n : body[i].kind = "text" /\ body[i].of = [byte |-> text[i], key |-> secret, iv |-> ivs]
    BY <2>1, <2>2
  <2>4. ASSUME NEW i \in 1 .. n PROVE body[i].of.byte = text[i]
    <3>1. body[i].of = [byte |-> text[i], key |-> secret, iv |-> ivs]
      BY <2>3
    <3> HIDE DEF body
    <3> QED BY <3>1
  <2>5. body \in Seq(ToSet(body))
    BY <2>1, <2>3, HoldsItsOwn
  <2> QED BY <2>1, <2>3, <2>4, <2>5 DEF ToSet
<1>4. tag \in Seq(ToSet(tag)) /\ \A x \in ToSet(tag) : x.of = mark
  <2>1. tag = [i \in 1 .. TagSize |-> [kind |-> "tag", of |-> mark, at |-> i]] /\ TagSize \in Nat
    BY SealAssumption DEF TagBytes
  <2> HIDE DEF tag, mark
  <2>2. tag = [i \in 1 .. TagSize |-> tag[i]] /\ \A i \in 1 .. TagSize : tag[i].of = mark
    BY <2>1
  <2>3. tag \in Seq(ToSet(tag)) /\ DOMAIN tag = 1 .. TagSize
    BY <2>1, <2>2, HoldsItsOwn
  <2> QED BY <2>2, <2>3 DEF ToSet
<1>5. Plain(body) = text
  <2>1. Plain(body) = [i \in DOMAIN text |-> body[i].of.byte]
    BY <1>3 DEF Plain
  <2>2. text = [i \in DOMAIN text |-> text[i]]
    OBVIOUS
  <2> HIDE DEF body
  <2> QED BY <1>3, <2>1, <2>2
<1>6. whole = kem \o (ivs \o (body \o tag))
  BY DEF Sealed, Tagged
<1> HIDE DEF kem, ivs, body, tag, mark, secret, whole
<1>7. \A x \in parts : x.kind = "tag" => x.of = mark
  BY <1>1, <1>2, <1>3, <1>4
<1>8. kem \in Seq(parts) /\ ivs \in Seq(parts) /\ body \in Seq(parts) /\ tag \in Seq(parts)
  BY <1>1, <1>2, <1>3, <1>4, WiderSeq
<1> HIDE DEF parts
<1>9. whole \in Seq(parts) /\ Len(whole) \in Nat \ {0}
  <2>1. body \o tag \in Seq(parts)
    BY <1>8, ConcatProperties
  <2>2. ivs \o (body \o tag) \in Seq(parts)
    BY <1>8, <2>1, ConcatProperties
  <2> DEFINE rest == ivs \o (body \o tag)
  <2> HIDE DEF rest
  <2>3. kem \o rest \in Seq(parts) /\ Len(kem \o rest) = Len(kem) + Len(rest) /\ Len(rest) \in Nat
    BY <1>8, <2>2, ConcatProperties DEF rest
  <2>4. Len(kem) + Len(rest) \in Nat \ {0}
    BY <1>1, <2>3
  <2> QED BY <1>6, <2>3, <2>4 DEF rest
<1> QED
  <2>1. parts = Parts(key, text, coins, iv)
    BY DEF kem, ivs, body, tag, secret, parts, Parts
  <2> QED BY <1>2, <1>5, <1>7, <1>8, <1>9, <2>1 DEF kem, ivs, body, tag, mark, secret, whole

LEMMA OpensWhole ==
    ASSUME NEW key, key.param \in KemParams, NEW E, NEW text \in Seq(E), NEW coins, NEW iv, NEW fault,
           fault # "kem", fault # "memory", fault # "cipher"
    PROVE  MlkemDecrypt(key, Sealed(key, text, coins, iv), fault) = Done(text)
<1> DEFINE secret == Shared(key, coins)
           body == Body(text, secret, iv)
           kem == KemBytes(key, coins)
           ivs == IvBytes(iv)
           tag == TagBytes(body, secret, ivs)
           parts == Parts(key, text, coins, iv)
           whole == Sealed(key, text, coins, iv)
           rest == ivs \o Tagged(body, secret, ivs)
           n == KemLength(key)
<1>1. /\ kem \in Seq(parts) /\ ivs \in Seq(parts) /\ body \in Seq(parts) /\ tag \in Seq(parts)
      /\ Len(ivs) = IvSize /\ Plain(body) = text /\ whole \in Seq(parts)
  <2>1. /\ kem \in Seq(parts) /\ ivs \in Seq(parts) /\ body \in Seq(parts) /\ tag \in Seq(parts)
        /\ Len(ivs) = IvSize /\ Plain(body) = text
        /\ \A x \in parts : x.kind = "tag" => x.of = [body |-> body, key |-> secret, iv |-> ivs]
        /\ whole \in Seq(parts) /\ Len(whole) \in Nat \ {0}
    BY SealedParts, Zenon
  <2> QED BY <2>1, Zenon
<1>2. n = Len(kem) /\ n \in Nat
  <2>1. Len(kem) = KemSize(key.param)
    BY KemByte, Zenon
  <2>2. n = KemSize(key.param) /\ KemSize(key.param) \in Nat
    BY KemLengthIs
  <2> QED BY <2>1, <2>2
<1>3. whole = kem \o rest /\ rest = ivs \o (body \o tag)
  BY DEF Sealed, Tagged
<1>4. Decapsulate(key, kem, fault) = Done(secret)
  BY DecapsulateOwn
<1>5. AesDecrypt(rest, secret, fault) = Done(Plain(body))
  BY <1>1, WithIvOpens DEF rest
<1> HIDE DEF kem, ivs, body, tag, parts, secret, whole, rest, n
<1>6. rest \in Seq(parts)
  <2>1. body \o tag \in Seq(parts)
    BY <1>1, ConcatProperties
  <2> QED BY <1>1, <1>3, <2>1, ConcatProperties
<1>7. Len(whole) = Len(kem) + Len(rest) /\ Len(rest) \in Nat
  <2>1. Len(kem \o rest) = Len(kem) + Len(rest)
    BY <1>1, <1>6, ConcatProperties
  <2>2. Len(rest) \in Nat
    BY <1>6
  <2> QED BY <1>3, <2>1, <2>2
<1>8. SubSeq(whole, 1, n) = kem /\ SubSeq(whole, n + 1, Len(whole)) = rest /\ ~(Len(whole) < n)
  <2>1. SubSeq(kem \o rest, 1, Len(kem)) = kem /\ SubSeq(kem \o rest, Len(kem) + 1, Len(kem \o rest)) = rest
    BY <1>1, <1>6, TakenApart
  <2>2. ~(Len(whole) < n)
    BY <1>2, <1>7
  <2> QED BY <1>2, <1>3, <2>1, <2>2
<1>9. Done(secret).error = "SUCCESS" /\ Done(secret).out = secret
  BY OutcomesDiffer
<1>10. MlkemDecrypt(key, whole, fault) = AesDecrypt(rest, secret, fault)
  <2>1. ~(Decapsulate(key, kem, fault).error # "SUCCESS")
    BY <1>4, <1>9
  <2>2. Decapsulate(key, kem, fault).out = secret
    BY <1>4, <1>9
  <2> QED BY <1>8, <2>1, <2>2, Zenon DEF MlkemDecrypt, n
<1> QED
  BY <1>1, <1>5, <1>10 DEF whole

LEMMA FailsOr ==
    ASSUME NEW key, NEW E, NEW b \in Seq(E), NEW fault, MlkemDecrypt(key, b, fault).error = "SUCCESS"
    PROVE  LET n      == KemLength(key)
               shared == Decapsulate(key, SubSeq(b, 1, n), fault)
           IN /\ ~(Len(b) < n) /\ shared.error = "SUCCESS"
              /\ MlkemDecrypt(key, b, fault) = AesDecrypt(SubSeq(b, n + 1, Len(b)), shared.out, fault)
<1> DEFINE n == KemLength(key)
           shared == Decapsulate(key, SubSeq(b, 1, n), fault)
           done == MlkemDecrypt(key, b, fault)
<1>0. (Len(b) >= n) = ~(Len(b) < n)
  <2>1. n \in Nat
    BY SealAssumption DEF KemLength
  <2> HIDE DEF n
  <2> QED BY <2>1
<1>1. CASE Len(b) < n
  <2>1. done = Failed("INVALID_ARGS")
    BY <1>0, <1>1, Zenon DEF MlkemDecrypt
  <2> HIDE DEF done
  <2> QED BY <2>1, OutcomesDiffer DEF done
<1>2. CASE Len(b) >= n /\ shared.error # "SUCCESS"
  <2>1. done = Failed(shared.error)
    BY <1>0, <1>2, Zenon DEF MlkemDecrypt
  <2> HIDE DEF done, shared
  <2> QED BY <1>2, <2>1, OutcomesDiffer DEF done
<1>3. CASE ~(Len(b) < n) /\ shared.error = "SUCCESS"
  <2>1. done = AesDecrypt(SubSeq(b, n + 1, Len(b)), shared.out, fault)
    BY <1>3, Zenon DEF MlkemDecrypt
  <2> QED BY <1>3, <2>1, Zenon
<1> QED
  BY <1>0, <1>1, <1>2, <1>3, Zenon

\* Whatever two messages it is put together of, what a key opens is one of them, whole,
\* and sealed to that key: the tag says the text, the secret and the IV, and the secret
\* says the key and the ciphertext.
LEMMA OpensOwn ==
    ASSUME NEW reader, NEW fault, NEW E,
           NEW k1, k1.param \in KemParams, NEW t1 \in Seq(E), NEW c1, NEW v1,
           NEW k2, k2.param \in KemParams, NEW t2 \in Seq(E), NEW c2, NEW v2,
           NEW b \in Seq(Parts(k1, t1, c1, v1) \cup Parts(k2, t2, c2, v2)),
           MlkemDecrypt(reader, b, fault).error = "SUCCESS"
    PROVE  LET out == MlkemDecrypt(reader, b, fault).out IN
           /\ fault # "kem" /\ fault # "memory" /\ fault # "cipher"
           /\ \/ reader = k1 /\ b = Sealed(k1, t1, c1, v1) /\ out = t1
              \/ reader = k2 /\ b = Sealed(k2, t2, c2, v2) /\ out = t2
<1> DEFINE B == Parts(k1, t1, c1, v1) \cup Parts(k2, t2, c2, v2)
           n == KemLength(reader)
           kem == SubSeq(b, 1, n)
           rest == SubSeq(b, n + 1, Len(b))
           shared == Decapsulate(reader, kem, fault)
           secret == shared.out
           done == MlkemDecrypt(reader, b, fault)
<1>1. ~(Len(b) < n) /\ shared.error = "SUCCESS" /\ done = AesDecrypt(rest, secret, fault)
  BY FailsOr, Zenon
<1>2. n \in 0 .. Len(b)
  <2>1. n \in Nat /\ Len(b) \in Nat
    BY SealAssumption DEF KemLength
  <2> HIDE DEF n
  <2> QED BY <1>1, <2>1
<1>3. rest \in Seq(B) /\ b = kem \o rest
  BY <1>2, PutTogether
<1>4. /\ fault # "kem"
      /\ \/ \E c : kem = KemBytes(reader, c) /\ secret = Shared(reader, c)
         \/ secret = [key |-> reader, rejected |-> kem]
  BY <1>1, DecapsulateGives, Zenon
<1> HIDE DEF n, kem, rest, shared, secret, done
<1>5. AesDecrypt(rest, secret, fault).error = "SUCCESS"
  BY <1>1 DEF done
<1>6. fault # "memory" /\ fault # "cipher" /\ PutWith(rest, secret, done.out, B)
  <2> HIDE DEF B
  <2> QED BY <1>1, <1>3, <1>5, OpenedHasIv
<1>7. PICK ivBytes \in Seq(B), body \in Seq(B) :
          rest = ivBytes \o Tagged(body, secret, ivBytes) /\ done.out = Plain(body)
  BY <1>6 DEF PutWith
<1> DEFINE tag == TagBytes(body, secret, ivBytes)
           mark == [body |-> body, key |-> secret, iv |-> ivBytes]
<1>8. tag[1].kind = "tag" /\ tag[1].of = mark /\ tag \in Seq(ToSet(tag)) /\ 1 \in 1 .. Len(tag)
  <2>1. tag = [i \in 1 .. TagSize |-> [kind |-> "tag", of |-> mark, at |-> i]] /\ TagSize \in Nat /\ TagSize # 0
    BY SealAssumption DEF TagBytes
  <2> HIDE DEF tag, mark
  <2>2. tag = [i \in 1 .. TagSize |-> tag[i]] /\ 1 \in 1 .. TagSize
    BY <2>1
  <2>3. tag \in Seq(ToSet(tag)) /\ Len(tag) = TagSize
    BY <2>1, <2>2, HoldsItsOwn
  <2>4. tag[1].kind = "tag" /\ tag[1].of = mark
    BY <2>1, <2>2
  <2> QED BY <2>2, <2>3, <2>4
<1> HIDE DEF tag, mark, B
\* The tag is cut from b, so its first byte is one of the two messages'.
<1>9. tag[1] \in B
  <2>1. b = kem \o (ivBytes \o (body \o tag))
    BY <1>3, <1>7 DEF Tagged, tag
  <2> DEFINE F == B \cup ToSet(tag) \cup ToSet(kem)
             u == body \o tag
             w == ivBytes \o u
  <2>2. tag \in Seq(F) /\ body \in Seq(F) /\ ivBytes \in Seq(F) /\ kem \in Seq(F)
    <3>1. kem \in Seq(B)
      BY <1>2, PutTogether DEF B, kem
    <3> QED BY <1>8, <3>1, WiderSeq
  <2> HIDE DEF F
  <2>3. /\ u \in Seq(F) /\ Len(u) = Len(body) + Len(tag)
        /\ \A i \in 1 .. Len(body) + Len(tag) : u[i] = IF i <= Len(body) THEN body[i] ELSE tag[i - Len(body)]
    BY <2>2, ConcatProperties
  <2> HIDE DEF u
  <2>4. /\ w \in Seq(F) /\ Len(w) = Len(ivBytes) + Len(u)
        /\ \A i \in 1 .. Len(ivBytes) + Len(u) : w[i] = IF i <= Len(ivBytes) THEN ivBytes[i] ELSE u[i - Len(ivBytes)]
    <3>1. ivBytes \in Seq(F) /\ u \in Seq(F)
      BY <2>2, <2>3
    <3> QED BY <3>1, ConcatProperties
  <2> HIDE DEF w
  <2>5. /\ Len(kem \o w) = Len(kem) + Len(w)
        /\ \A i \in 1 .. Len(kem) + Len(w) : (kem \o w)[i] = IF i <= Len(kem) THEN kem[i] ELSE w[i - Len(kem)]
    <3>1. kem \in Seq(F) /\ w \in Seq(F)
      BY <2>2, <2>4
    <3> QED BY <3>1, ConcatProperties
  <2>6. b = kem \o w
    BY <2>1 DEF w, u
  <2> DEFINE p == Len(body)
             q == Len(ivBytes)
             r == Len(kem)
             z == Len(tag)
  <2>7. p \in Nat /\ q \in Nat /\ r \in Nat /\ z \in Nat /\ 1 <= z
    BY <1>8, <2>2
  <2>8. u[p + 1] = tag[1]
    <3>1. p + 1 \in 1 .. p + z /\ ~(p + 1 <= p) /\ p + 1 - p = 1
      BY <2>7
    <3> QED BY <2>3, <3>1
  <2>9. w[q + (p + 1)] = tag[1]
    <3>1. q + (p + 1) \in 1 .. q + Len(u) /\ ~(q + (p + 1) <= q) /\ q + (p + 1) - q = p + 1
      BY <2>3, <2>7
    <3> QED BY <2>4, <2>8, <3>1
  <2>10. r + (q + (p + 1)) \in 1 .. Len(b) /\ b[r + (q + (p + 1))] = tag[1]
    <3>1. /\ r + (q + (p + 1)) \in 1 .. r + Len(w) /\ ~(r + (q + (p + 1)) <= r)
          /\ r + (q + (p + 1)) - r = q + (p + 1)
      BY <2>3, <2>4, <2>7
    <3> QED BY <2>5, <2>6, <2>9, <3>1
  <2>11. \A i \in 1 .. Len(b) : b[i] \in B
    BY DEF B
  <2> QED BY <2>10, <2>11
<1>10. ASSUME NEW k, k.param \in KemParams, NEW t \in Seq(E), NEW c, NEW v, tag[1] \in Parts(k, t, c, v)
      PROVE  reader = k /\ b = Sealed(k, t, c, v) /\ done.out = t
  <2> DEFINE own == Body(t, Shared(k, c), v)
  <2>1. mark = [body |-> own, key |-> Shared(k, c), iv |-> IvBytes(v)] /\ Plain(own) = t
    <3> DEFINE S == Seq(Parts(k, t, c, v))
               ownTag == TagBytes(own, Shared(k, c), IvBytes(v))
    <3>1. /\ KemBytes(k, c) \in S /\ IvBytes(v) \in S /\ own \in S /\ ownTag \in S
          /\ Len(IvBytes(v)) = IvSize /\ Plain(own) = t
          /\ \A x \in Parts(k, t, c, v) :
                 x.kind = "tag" => x.of = [body |-> own, key |-> Shared(k, c), iv |-> IvBytes(v)]
          /\ Sealed(k, t, c, v) \in S /\ Len(Sealed(k, t, c, v)) \in Nat \ {0}
      BY <1>10, SealedParts, Zenon
    <3>2. tag[1].of = [body |-> own, key |-> Shared(k, c), iv |-> IvBytes(v)]
      BY <1>8, <1>10, <3>1, Zenon
    <3> QED BY <1>8, <3>1, <3>2, Zenon
  <2> HIDE DEF own
  <2>2. body = own /\ secret = Shared(k, c) /\ ivBytes = IvBytes(v)
    BY <2>1 DEF mark
  <2>3. PICK d : kem = KemBytes(reader, d) /\ secret = Shared(reader, d)
    <3>1. secret # [key |-> reader, rejected |-> kem]
      BY <2>2, OneSecretEach
    <3> QED BY <1>4, <3>1, Zenon
  <2>4. reader = k /\ d = c
    <3>1. Shared(k, c) = Shared(reader, d)
      BY <2>2, <2>3, Zenon
    <3> QED BY <3>1, OneSecretEach
  <2>5. b = KemBytes(k, c) \o (IvBytes(v) \o Tagged(own, Shared(k, c), IvBytes(v)))
    BY <1>3, <1>7, <2>2, <2>3, <2>4, Zenon
  <2>6. done.out = t
    BY <1>7, <2>1, <2>2
  <2> QED BY <2>4, <2>5, <2>6, Zenon DEF Sealed, own
<1>11. tag[1] \in Parts(k1, t1, c1, v1) \/ tag[1] \in Parts(k2, t2, c2, v2)
  BY <1>9 DEF B
<1> QED
  BY <1>4, <1>6, <1>10, <1>11, Zenon DEF done

\* Whatever the way makes of a message, it makes no byte.
LEMMA DamagesAreOf ==
    ASSUME NEW F, NEW s \in Seq(F), Len(s) # 0, NEW o \in Seq(F), NEW d \in Damages(s, o)
    PROVE  d \in Seq(F)
<1>1. Len(s) \in Nat /\ DOMAIN s = 1 .. Len(s) /\ Len(o) \in Nat /\ DOMAIN o = 1 .. Len(o)
  OBVIOUS
<1>2. \A i \in 1 .. Len(s) : s[i] \in F
  OBVIOUS
<1>3. \A i \in 1 .. Len(o) : o[i] \in F
  OBVIOUS
<1>4. ASSUME NEW m \in Int, NEW n \in Int, m >= 1, n <= Len(s) PROVE SubSeq(s, m, n) \in Seq(F)
  <2>1. \A i \in m .. n : s[i] \in F
    BY <1>1, <1>2, <1>4
  <2> QED BY <2>1, SubSeqProperties
<1>5. ASSUME NEW j \in DOMAIN o PROVE SubSeq(o, j, Len(o)) \in Seq(F)
  <2>1. j \in Int /\ Len(o) \in Int /\ \A i \in j .. Len(o) : o[i] \in F
    BY <1>1, <1>3
  <2> QED BY <2>1, SubSeqProperties
<1> DEFINE fronts == {SubSeq(s, 1, i) : i \in DOMAIN s}
           ends == {SubSeq(o, i, Len(o)) : i \in DOMAIN o}
           less == {RemoveAt(s, i) : i \in DOMAIN s}
<1>6. fronts \subseteq Seq(F)
  <2>1. ASSUME NEW i \in DOMAIN s PROVE SubSeq(s, 1, i) \in Seq(F)
    <3>1. i \in Int /\ i <= Len(s) /\ 1 \in Int /\ 1 >= 1
      BY <1>1
    <3> QED BY <3>1, <1>4
  <2> QED BY <2>1
<1>7. ends \subseteq Seq(F)
  BY <1>5
<1>8. s \o <<Last(s)>> \in Seq(F)
  <2>1. Len(s) \in 1 .. Len(s)
    BY <1>1
  <2>2. Last(s) \in F
    BY <1>2, <2>1 DEF Last
  <2>3. <<Last(s)>> \in Seq(F)
    BY <2>2
  <2> QED BY <2>3, ConcatProperties
<1>9. less \subseteq Seq(F)
  <2>1. ASSUME NEW i \in DOMAIN s PROVE RemoveAt(s, i) \in Seq(F)
    <3>1. SubSeq(s, 1, i - 1) \in Seq(F)
      <4>1. i - 1 \in Int /\ i - 1 <= Len(s) /\ 1 \in Int /\ 1 >= 1
        BY <1>1
      <4> QED BY <4>1, <1>4
    <3>2. SubSeq(s, i + 1, Len(s)) \in Seq(F)
      <4>1. i + 1 \in Int /\ i + 1 >= 1 /\ Len(s) \in Int /\ Len(s) <= Len(s)
        BY <1>1
      <4> QED BY <4>1, <1>4
    <3>3. SubSeq(s, 1, i - 1) \o SubSeq(s, i + 1, Len(s)) \in Seq(F)
      BY <3>1, <3>2, ConcatProperties
    <3> QED BY <3>3, Zenon DEF RemoveAt
  <2> QED BY <2>1
<1>10. \/ d \in {s, <<>>, s \o <<Last(s)>>} \/ d \in less \/ d \in fronts
       \/ \E front \in fronts, end \in ends : d = front \o end
  BY Zenon DEF Damages
<1> HIDE DEF fronts, ends, less
<1>11. ASSUME NEW front \in fronts, NEW end \in ends PROVE front \o end \in Seq(F)
  BY <1>6, <1>7, ConcatProperties
<1>12. <<>> \in Seq(F)
  OBVIOUS
<1> QED
  BY <1>6, <1>8, <1>9, <1>10, <1>11, <1>12, Zenon

-----------------------------------------------------------------------------
(* The calls. *)

Texts == UNION {ToSet(text) : text \in Plaintexts}

LEMMA SealsSound ==
    ASSUME SealMessage
    PROVE  SealsHold'
<1>1. PICK key \in Keys, text \in Plaintexts, fault \in SealFaults :
          call' = [fn |-> "seal", text |-> text, fault |-> fault, key |-> key,
                   sealed |-> MlkemEncrypt(key, text, "coins1", "iv1", fault)]
  BY Zenon DEF SealMessage, Made
<1> DEFINE sealed == MlkemEncrypt(key, text, "coins1", "iv1", fault)
<1>2. /\ call'.fn = "seal" /\ call'.text = text /\ call'.fault = fault /\ call'.key = key
      /\ call'.sealed = sealed
  <2> HIDE DEF sealed
  <2> QED BY <1>1 DEF sealed
<1>3. CASE fault = "none" /\ key.param \in KemParams
  <2> DEFINE whole == Sealed(key, text, "coins1", "iv1")
  <2>1. sealed = Done(whole)
    BY <1>3, SealedIs
  <2>2. Missing # sealed.out
    BY <1>3, BufferAssumption
  <2>3. text \in Seq(Texts)
    BY BufferAssumption DEF Texts
  <2>4. MlkemDecrypt(key, whole, "none") = Done(text)
    <3>1. "none" # "kem" /\ "none" # "memory" /\ "none" # "cipher"
      OBVIOUS
    <3> QED BY <1>3, <2>3, <3>1, OpensWhole
  <2> HIDE DEF sealed, whole
  <2>5. sealed.error = "SUCCESS" /\ sealed.out = whole
    BY <2>1, OutcomesDiffer
  <2>6. call'.fn # "open"
    BY <1>2
  <2> QED BY <1>2, <1>3, <2>2, <2>4, <2>5, <2>6, Zenon DEF SealsHold
<1>4. CASE fault # "none" \/ key.param \notin KemParams
  <2>1. sealed.error # "SUCCESS" /\ sealed.out = Missing
    BY <1>4, SealingFails
  <2> HIDE DEF sealed
  <2>2. call'.fn # "open"
    BY <1>2
  <2> QED BY <1>2, <1>4, <2>1, <2>2, Zenon DEF SealsHold
<1> QED
  BY <1>3, <1>4

\* A call either succeeds or hands out nothing.
LEMMA NothingOfAFailure ==
    ASSUME NEW E, NEW b \in Seq(E), NEW key, NEW fault
    PROVE  /\ \A iv : LET done == AesDecryptIv(b, key, iv, fault) IN done.error # "SUCCESS" => done.out = Missing
           /\ LET done == AesDecrypt(b, key, fault) IN done.error # "SUCCESS" => done.out = Missing
           /\ LET done == MlkemDecrypt(key, b, fault) IN done.error # "SUCCESS" => done.out = Missing
<1>1. ASSUME NEW c \in Seq(E), NEW secret, NEW iv
      PROVE LET done == AesDecryptIv(c, secret, iv, fault) IN done.error # "SUCCESS" => done.out = Missing
  <2> DEFINE n == Len(c) - TagSize
             body == SubSeq(c, 1, n)
             tag == SubSeq(c, n + 1, Len(c))
             done == AesDecryptIv(c, secret, iv, fault)
  <2>0. (Len(c) >= TagSize) = ~(Len(c) < TagSize)
    BY SealAssumption
  <2>1. CASE Len(c) < TagSize
    <3>1. done = Failed("INVALID_ARGS")
      BY <2>0, <2>1, Zenon DEF AesDecryptIv
    <3> HIDE DEF done
    <3> QED BY <3>1, OutcomesDiffer DEF done
  <2>2. CASE Len(c) >= TagSize /\ fault = "memory"
    <3>1. done = Failed("MEMORY")
      BY <2>0, <2>2, Zenon DEF AesDecryptIv
    <3> HIDE DEF done
    <3> QED BY <3>1, OutcomesDiffer DEF done
  <2>3. CASE Len(c) >= TagSize /\ fault # "memory" /\ fault # "cipher" /\ tag = TagBytes(body, secret, iv)
    <3>1. done = Done(Plain(body))
      BY <2>0, <2>3, Zenon DEF AesDecryptIv, Plain
    <3> HIDE DEF done
    <3> QED BY <3>1, OutcomesDiffer DEF done
  <2>4. CASE Len(c) >= TagSize /\ fault # "memory" /\ ~(fault # "cipher" /\ tag = TagBytes(body, secret, iv))
    <3>1. done = Failed("CRYPTO")
      BY <2>0, <2>4, Zenon DEF AesDecryptIv
    <3> HIDE DEF done
    <3> QED BY <3>1, OutcomesDiffer DEF done
  <2> QED BY <2>0, <2>1, <2>2, <2>3, <2>4, Zenon
<1>2. ASSUME NEW c \in Seq(E), NEW secret
      PROVE LET done == AesDecrypt(c, secret, fault) IN done.error # "SUCCESS" => done.out = Missing
  <2> DEFINE done == AesDecrypt(c, secret, fault)
             rest == SubSeq(c, IvSize + 1, Len(c))
  <2>1. CASE Len(c) < IvSize + TagSize
    <3>1. done = Failed("INVALID_ARGS")
      BY <2>1, Zenon DEF AesDecrypt
    <3> HIDE DEF done
    <3> QED BY <3>1, OutcomesDiffer DEF done
  <2>2. CASE ~(Len(c) < IvSize + TagSize)
    <3>1. done = AesDecryptIv(rest, secret, SubSeq(c, 1, IvSize), fault)
      BY <2>2, Zenon DEF AesDecrypt
    <3>2. IvSize \in 0 .. Len(c)
      BY <2>2, SealAssumption
    <3>3. rest \in Seq(E)
      BY <3>2, PutTogether
    <3> HIDE DEF done, rest
    <3> QED BY <1>1, <3>1, <3>3, Zenon DEF done
  <2> QED BY <2>1, <2>2
<1> DEFINE n == KemLength(key)
           shared == Decapsulate(key, SubSeq(b, 1, n), fault)
           done == MlkemDecrypt(key, b, fault)
<1>3. n \in Nat
  BY SealAssumption DEF KemLength
<1>4. (Len(b) >= n) = ~(Len(b) < n)
  <2> HIDE DEF n
  <2> QED BY <1>3
<1>5. done.error # "SUCCESS" => done.out = Missing
  <2>1. CASE Len(b) < n
    <3>1. done = Failed("INVALID_ARGS")
      BY <1>4, <2>1, Zenon DEF MlkemDecrypt
    <3> HIDE DEF done
    <3> QED BY <3>1, OutcomesDiffer
  <2>2. CASE Len(b) >= n /\ shared.error # "SUCCESS"
    <3>1. done = Failed(shared.error)
      BY <1>4, <2>2, Zenon DEF MlkemDecrypt
    <3> HIDE DEF done, shared
    <3> QED BY <2>2, <3>1, OutcomesDiffer
  <2>3. CASE ~(Len(b) < n) /\ ~(shared.error # "SUCCESS")
    <3> DEFINE rest == SubSeq(b, n + 1, Len(b))
    <3>1. done = AesDecrypt(rest, shared.out, fault)
      BY <2>3, Zenon DEF MlkemDecrypt
    <3>2. rest \in Seq(E)
      <4> HIDE DEF n
      <4>1. n \in 0 .. Len(b)
        BY <1>3, <2>3
      <4> QED BY <4>1, PutTogether
    <3> HIDE DEF done, rest, shared
    <3> QED BY <1>2, <3>1, <3>2, Zenon
  <2> QED BY <1>4, <2>1, <2>2, <2>3, Zenon
<1> QED
  BY <1>1, <1>2, <1>5, Zenon

LEMMA OpensSound ==
    ASSUME OpenMessage
    PROVE  SealsHold'
<1>1. PICK key, reader, to \in Keys, text, second \in Plaintexts, fault \in {"none", "kem", "memory", "cipher"} :
          /\ key.owner = "alice" /\ {key.param, to.param} \subseteq KemParams /\ second # text
          /\ LET sealed == MlkemEncrypt(key, text, "coins1", "iv1", "none").out
                 other  == MlkemEncrypt(to, second, "coins2", "iv2", "none").out
             IN \E bytes \in IF fault = "none" THEN Damages(sealed, other) ELSE {sealed} :
                  call' = [fn |-> "open", fault |-> fault, key |-> reader, bytes |-> bytes,
                           sent |-> {[to |-> key, bytes |-> sealed, text |-> text],
                                     [to |-> to, bytes |-> other, text |-> second]},
                           opened |-> MlkemDecrypt(reader, bytes, fault)]
  BY Zenon DEF OpenMessage, Made
<1> DEFINE sealed == Sealed(key, text, "coins1", "iv1")
           other == Sealed(to, second, "coins2", "iv2")
           first == [to |-> key, bytes |-> sealed, text |-> text]
           later == [to |-> to, bytes |-> other, text |-> second]
           P1 == Parts(key, text, "coins1", "iv1")
           P2 == Parts(to, second, "coins2", "iv2")
<1>2. key.param \in KemParams /\ to.param \in KemParams
  BY <1>1, Zenon
<1>3. /\ MlkemEncrypt(key, text, "coins1", "iv1", "none").out = sealed
      /\ MlkemEncrypt(to, second, "coins2", "iv2", "none").out = other
  <2>1. /\ MlkemEncrypt(key, text, "coins1", "iv1", "none") = Done(sealed)
        /\ MlkemEncrypt(to, second, "coins2", "iv2", "none") = Done(other)
    BY <1>2, SealedIs
  <2> HIDE DEF sealed, other
  <2> QED BY <2>1, OutcomesDiffer
<1>4. text \in Seq(Texts) /\ second \in Seq(Texts)
  BY BufferAssumption DEF Texts
<1>5. sealed \in Seq(P1) /\ Len(sealed) # 0 /\ other \in Seq(P2)
  <2>1. sealed \in Seq(P1) /\ Len(sealed) \in Nat \ {0}
    BY <1>2, <1>4, SealedParts, Zenon
  <2>2. other \in Seq(P2)
    BY <1>2, <1>4, SealedParts, Zenon
  <2> HIDE DEF sealed, other
  <2> QED BY <2>1, <2>2
<1> HIDE DEF sealed, other
<1>6. PICK bytes \in IF fault = "none" THEN Damages(sealed, other) ELSE {sealed} :
          call' = [fn |-> "open", fault |-> fault, key |-> reader, bytes |-> bytes,
                   sent |-> {first, later}, opened |-> MlkemDecrypt(reader, bytes, fault)]
  BY <1>1, <1>3, Zenon
<1> DEFINE opened == MlkemDecrypt(reader, bytes, fault)
<1>7. /\ call'.fn = "open" /\ call'.fault = fault /\ call'.key = reader /\ call'.bytes = bytes
      /\ call'.sent = {first, later} /\ call'.opened = opened
  <2> HIDE DEF opened, first, later
  <2> QED BY <1>6 DEF opened
<1>8. bytes \in Seq(P1 \cup P2)
  <2>1. sealed \in Seq(P1 \cup P2) /\ other \in Seq(P1 \cup P2)
    <3> DEFINE A == P1
               B == P2
    <3> HIDE DEF A, B
    <3>1. sealed \in Seq(A) /\ other \in Seq(B)
      BY <1>5 DEF A, B
    <3>2. sealed \in Seq(A \cup B) /\ other \in Seq(A \cup B)
      BY <3>1
    <3> QED BY <3>2 DEF A, B
  <2>2. bytes \in Damages(sealed, other) \/ bytes = sealed
    BY <1>6, Zenon
  <2> DEFINE B == P1 \cup P2
  <2> HIDE DEF B
  <2>3. sealed \in Seq(B) /\ other \in Seq(B)
    BY <2>1 DEF B
  <2>4. bytes \in Seq(B)
    BY <1>5, <2>2, <2>3, DamagesAreOf
  <2> QED BY <2>4 DEF B
<1> DEFINE own == {m \in {first, later} : m.to = reader /\ m.bytes = bytes}
<1>9. /\ first.to = key /\ first.bytes = sealed /\ first.text = text
      /\ later.to = to /\ later.bytes = other /\ later.text = second
  OBVIOUS
<1>10. ASSUME opened.error = "SUCCESS"
       PROVE  fault = "none" /\ own # {} /\ opened.out # Missing
  <2>1. /\ fault # "kem" /\ fault # "memory" /\ fault # "cipher"
        /\ \/ reader = key /\ bytes = sealed /\ opened.out = text
           \/ reader = to /\ bytes = other /\ opened.out = second
    <3>1. opened.error = "SUCCESS"
      BY <1>10
    <3> QED BY <1>2, <1>4, <1>8, <3>1, OpensOwn DEF sealed, other
  <2>2. fault = "none"
    BY <2>1, Zenon
  <2> HIDE DEF opened, first, later
  <2>3. own # {}
    BY <1>9, <2>1
  <2>4. opened.out # Missing
    BY <2>1, BufferAssumption
  <2> QED BY <2>2, <2>3, <2>4
<1>11. ASSUME fault = "none", NEW m \in own
       PROVE  opened.error = "SUCCESS" /\ opened.out = m.text
  <2>0. fault # "kem" /\ fault # "memory" /\ fault # "cipher"
    BY <1>11
  <2>1. CASE m = first
    <3>1. reader = key /\ bytes = sealed /\ m.text = text
      BY <1>9, <1>11, <2>1, Zenon
    <3>2. opened = Done(text)
      BY <1>2, <1>4, <2>0, <3>1, OpensWhole DEF sealed
    <3> HIDE DEF opened, first, later
    <3> QED BY <3>1, <3>2, OutcomesDiffer
  <2>2. CASE m = later
    <3>1. reader = to /\ bytes = other /\ m.text = second
      BY <1>9, <1>11, <2>2, Zenon
    <3>2. opened = Done(second)
      BY <1>2, <1>4, <2>0, <3>1, OpensWhole DEF other
    <3> HIDE DEF opened, first, later
    <3> QED BY <3>1, <3>2, OutcomesDiffer
  <2> QED BY <1>11, <2>1, <2>2, Zenon
<1>12. opened.error # "SUCCESS" => opened.out = Missing
  BY <1>8, NothingOfAFailure, Zenon
<1>13. own = {m \in call'.sent : m.to = call'.key /\ m.bytes = call'.bytes}
  BY <1>7, Zenon
<1> HIDE DEF opened, own, first, later
<1>14. call'.fn # "seal"
  BY <1>7
<1>15. /\ opened.error = "SUCCESS" <=> opened.out # Missing
       /\ opened.error = "SUCCESS" <=> own # {} /\ fault = "none"
       /\ \A m \in own : fault = "none" => opened.out = m.text
  <2>1. ASSUME own # {}, fault = "none" PROVE opened.error = "SUCCESS"
    <3>1. PICK m : m \in own
      BY <2>1, Zenon
    <3> QED BY <1>11, <2>1, <3>1, Zenon
  <2> QED BY <1>10, <1>11, <1>12, <2>1, Zenon
<1> QED
  BY <1>7, <1>13, <1>14, <1>15, Zenon DEF SealsHold

\* A message opens if it arrives whole, at the key it was sealed to, as what was sealed,
\* and nothing else ever opens; a call that fails hands out nothing
\* (knishio_mlkem_encrypt, knishio_mlkem_decrypt and the two of aes_gcm.c they use).
THEOREM SealsAlwaysHold == SealSpec => []SealsHold
<1>1. call = NoCall => SealsHold
  BY DEF NoCall, SealsHold
<1>2. SealsHold /\ [SealsNext \/ Return]_call => SealsHold'
  <2> SUFFICES ASSUME SealsHold, [SealsNext \/ Return]_call
               PROVE  SealsHold'
    OBVIOUS
  <2>1. CASE SealMessage
    BY <2>1, SealsSound
  <2>2. CASE OpenMessage
    BY <2>2, OpensSound
  <2>3. CASE Return
    <3>1. call'.fn = "none"
      BY <2>3 DEF Return, NoCall
    <3> QED BY <3>1 DEF SealsHold
  <2>4. CASE UNCHANGED call
    BY <2>4 DEF SealsHold
  <2> QED
    BY <2>1, <2>2, <2>3, <2>4 DEF SealsNext
<1> QED
  BY <1>1, <1>2, PTL DEF SealSpec

\* A wallet and the messages sealed to it, each through its own calls: the wallet's keys
\* are of one version and pair and read both its identities, and what is sealed to a key
\* opens with it, whole, and with nothing else.
THEOREM KeysAlwaysOpenTheirOwn == WalletSpec /\ SealSpec => []KeysOpenTheirOwn
<1>1. WalletSpec => []KeysAreOfTheWallet
  BY KeysAreAlwaysOfTheWallet
<1>2. SealSpec => []SealsHold
  BY SealsAlwaysHold
<1> QED
  BY <1>1, <1>2, PTL DEF KeysOpenTheirOwn

-----------------------------------------------------------------------------
(* The sum of digits. *)

LEMMA TotalRuns ==
    ASSUME NEW digits \in Seq(Int)
    PROVE  \E path : /\ path[0] = 0 /\ Total(digits) = path[Len(digits)]
                     /\ \A k \in 0 .. Len(digits) : path[k] \in Int
                     /\ \A k \in 0 .. Len(digits)-1 : path[k + 1] = path[k] + digits[k + 1]
<1> DEFINE seq == digits
           n == Len(digits)
           V == Int
           op(v, x) == v + x
           step == [p \in V \X (1 .. n) |-> op(p[1], seq[p[2]])]
           Iter(g) == g = [s \in SUBSET (1 .. n) |->
                            IF s = {} THEN 0 ELSE op(g[s \ {Max(s)}], seq[Max(s)])]
<1>1. n \in Nat /\ DOMAIN seq = 1 .. n
  OBVIOUS
<1>2. \A v \in V, i \in 1 .. n : op(v, seq[i]) \in V
  OBVIOUS
<1>3. 0 \in V
  OBVIOUS
<1> HIDE DEF n, V, seq
<1>4. step \in [V \X (1 .. n) -> V]
  <2> HIDE DEF op
  <2> QED BY <1>1, <1>2
<1>5. PICK h : Iterates(h, step, 0, 1 .. n) /\ \A s \in SUBSET (1 .. n) : h[s] \in V
  <2> HIDE DEF step
  <2> QED BY <1>1, <1>3, <1>4, FoldExists
<1>6. Iter(h)
  <2> HIDE DEF op
  <2>1. ASSUME NEW s \in SUBSET (1 .. n), s # {}
        PROVE  h[s] = op(h[s \ {Max(s)}], seq[Max(s)])
    <3>1. Max(s) \in 1 .. n /\ h[s \ {Max(s)}] \in V
      BY <1>1, <1>5, <2>1, MaxIsIn
    <3>2. h[s] = step[<<h[s \ {Max(s)}], Max(s)>>]
      BY <1>5, <2>1 DEF Iterates
    <3> QED BY <3>1, <3>2
  <2>2. h[{}] = 0 /\ h = [s \in SUBSET (1 .. n) |-> h[s]]
    BY <1>5 DEF Iterates
  <2> QED BY <2>1, <2>2
<1> DEFINE g == CHOOSE g : Iter(g)
<1>7. Iter(g)
  <2> HIDE DEF Iter
  <2> QED BY <1>6
<1>8. Total(digits) = g[1 .. n]
  <2>1. Total(digits) = g[DOMAIN seq]
    BY <1>1, Zenon DEF Total, FoldLeft, MapThenFoldSet, seq
  <2> QED BY <1>1, <2>1
<1> HIDE DEF g, op
<1> DEFINE path == [k \in 0 .. n |-> g[1 .. k]]
<1>9. path[0] = 0
  BY <1>1, <1>7
<1>10. path[n] = g[1 .. n]
  BY <1>1
<1>11. ASSUME NEW k \in 0 .. n-1 PROVE path[k + 1] = op(path[k], seq[k + 1])
  <2>1. k \in 0 .. n /\ k + 1 \in 0 .. n /\ k + 1 \in Nat /\ k + 1 # 0
    BY <1>1
  <2>2. 1 .. k+1 \in SUBSET (1 .. n) /\ 1 .. k+1 # {} /\ (1 .. k+1) \ {k + 1} = 1 .. k
    BY <1>1, FirstPlaces
  <2>3. Max(1 .. k+1) = k + 1
    BY <2>1, MaxOfFirst
  <2>4. g[1 .. k+1] = op(g[(1 .. k+1) \ {Max(1 .. k+1)}], seq[Max(1 .. k+1)])
    BY <1>7, <2>2
  <2> QED BY <2>1, <2>2, <2>3, <2>4
<1> HIDE DEF path
<1>12. \A k \in 0 .. n : path[k] \in V
  <2> DEFINE T == {k \in 0 .. n : path[k] \in V}
  <2>1. 0 \in T
    BY <1>1, <1>3, <1>9
  <2>2. ASSUME NEW k \in 0 .. n-1, k \in T PROVE k + 1 \in T
    <3>1. k + 1 \in 1 .. n /\ k + 1 \in 0 .. n
      BY <1>1
    <3> QED BY <1>2, <1>11, <2>2, <3>1
  <2>3. \A k \in 0 .. n : k \in T
    <3> HIDE DEF T
    <3> QED BY <1>1, <2>1, <2>2, CountUp
  <2> QED BY <2>3
<1>13. \A k \in 0 .. n-1 : path[k + 1] = path[k] + digits[k + 1]
  BY <1>11 DEF op, seq
<1> QED
  BY <1>8, <1>9, <1>10, <1>12, <1>13, Zenon DEF n, V

\* A digit that changes changes the sum as much.
LEMMA TotalChanged ==
    ASSUME NEW digits \in Seq(Int), NEW i \in 1 .. Len(digits), NEW e \in Int
    PROVE  Total([digits EXCEPT ![i] = @ + e]) = Total(digits) + e
<1> DEFINE n == Len(digits)
           other == [digits EXCEPT ![i] = @ + e]
<1>1. /\ n \in Nat /\ other \in Seq(Int) /\ Len(other) = n /\ i \in 1 .. n
      /\ \A j \in 1 .. n : other[j] = IF j = i THEN digits[j] + e ELSE digits[j]
      /\ \A j \in 1 .. n : digits[j] \in Int
  OBVIOUS
<1> HIDE DEF n, other
<1>2. PICK p : /\ p[0] = 0 /\ Total(digits) = p[n] /\ \A k \in 0 .. n : p[k] \in Int
               /\ \A k \in 0 .. n-1 : p[k + 1] = p[k] + digits[k + 1]
  BY TotalRuns DEF n
<1>3. PICK q : /\ q[0] = 0 /\ Total(other) = q[n] /\ \A k \in 0 .. n : q[k] \in Int
               /\ \A k \in 0 .. n-1 : q[k + 1] = q[k] + other[k + 1]
  BY <1>1, TotalRuns
<1> DEFINE T == {k \in 0 .. n : q[k] = p[k] + (IF k < i THEN 0 ELSE e)}
<1>4. 0 \in T
  BY <1>1, <1>2, <1>3
<1>5. ASSUME NEW k \in 0 .. n-1, k \in T PROVE k + 1 \in T
  <2>1. k + 1 \in 1 .. n /\ k + 1 \in 0 .. n /\ k \in 0 .. n
    BY <1>1
  <2>2. p[k + 1] = p[k] + digits[k + 1] /\ q[k + 1] = q[k] + other[k + 1]
    BY <1>2, <1>3
  <2>3. other[k + 1] = IF k + 1 = i THEN digits[k + 1] + e ELSE digits[k + 1]
    BY <1>1, <2>1
  <2>4. q[k] = p[k] + (IF k < i THEN 0 ELSE e) /\ p[k] \in Int /\ q[k] \in Int /\ digits[k + 1] \in Int
    BY <1>1, <1>2, <1>3, <1>5, <2>1
  <2>5. CASE k + 1 = i
    <3>1. k < i /\ ~(k + 1 < i)
      BY <2>5
    <3> QED BY <2>1, <2>2, <2>3, <2>4, <2>5, <3>1
  <2>6. CASE k + 1 < i
    <3>1. k < i /\ k + 1 # i
      BY <2>6
    <3> QED BY <2>1, <2>2, <2>3, <2>4, <2>6, <3>1
  <2>7. CASE i < k + 1
    <3>1. ~(k < i) /\ ~(k + 1 < i) /\ k + 1 # i
      BY <1>1, <2>7
    <3> QED BY <2>1, <2>2, <2>3, <2>4, <3>1
  <2>8. k + 1 = i \/ k + 1 < i \/ i < k + 1
    BY <1>1
  <2> QED BY <2>5, <2>6, <2>7, <2>8
<1>6. n \in T
  <2>1. n \in Nat /\ n \in 0 .. n
    BY <1>1
  <2> HIDE DEF T
  <2>2. \A k \in 0 .. n : k \in T
    BY <1>4, <1>5, <2>1, CountUp
  <2> QED BY <2>1, <2>2
<1> QED
  BY <1>1, <1>2, <1>3, <1>6 DEF other

\* What is nowhere more is less in all, or the same.
LEMMA TotalLess ==
    ASSUME NEW n \in Nat, NEW d \in [1 .. n -> Int], NEW e \in [1 .. n -> Int], \A i \in 1 .. n : d[i] <= e[i]
    PROVE  Total(d) <= Total(e) /\ (Total(d) = Total(e) => d = e)
<1>1. d \in Seq(Int) /\ e \in Seq(Int) /\ Len(d) = n /\ Len(e) = n /\ \A i \in 1 .. n : d[i] \in Int /\ e[i] \in Int
  OBVIOUS
<1>2. PICK p : /\ p[0] = 0 /\ Total(d) = p[n] /\ \A k \in 0 .. n : p[k] \in Int
               /\ \A k \in 0 .. n-1 : p[k + 1] = p[k] + d[k + 1]
  BY <1>1, TotalRuns
<1>3. PICK q : /\ q[0] = 0 /\ Total(e) = q[n] /\ \A k \in 0 .. n : q[k] \in Int
               /\ \A k \in 0 .. n-1 : q[k + 1] = q[k] + e[k + 1]
  BY <1>1, TotalRuns
<1> DEFINE T == {k \in 0 .. n : p[k] <= q[k] /\ (p[k] = q[k] => \A j \in 1 .. k : d[j] = e[j])}
<1>4. 0 \in T
  BY <1>2, <1>3
<1>5. ASSUME NEW k \in 0 .. n-1, k \in T PROVE k + 1 \in T
  <2>1. k + 1 \in 1 .. n /\ k + 1 \in 0 .. n /\ k \in 0 .. n
    OBVIOUS
  <2>2. p[k + 1] = p[k] + d[k + 1] /\ q[k + 1] = q[k] + e[k + 1]
    BY <1>2, <1>3
  <2>3. /\ p[k] <= q[k] /\ p[k] \in Int /\ q[k] \in Int
        /\ d[k + 1] \in Int /\ e[k + 1] \in Int /\ d[k + 1] <= e[k + 1]
    BY <1>1, <1>2, <1>3, <1>5, <2>1
  <2>4. p[k + 1] <= q[k + 1] /\ (p[k + 1] = q[k + 1] => p[k] = q[k] /\ d[k + 1] = e[k + 1])
    BY <2>2, <2>3
  <2>5. ASSUME p[k + 1] = q[k + 1], NEW j \in 1 .. k + 1 PROVE d[j] = e[j]
    <3>1. j \in 1 .. k \/ j = k + 1
      OBVIOUS
    <3> QED BY <1>5, <2>4, <2>5, <3>1
  <2> QED BY <2>1, <2>4, <2>5
<1>6. n \in T
  <2> HIDE DEF T
  <2>1. \A k \in 0 .. n : k \in T
    BY <1>4, <1>5, CountUp
  <2> QED BY <2>1
<1> QED
  BY <1>2, <1>3, <1>6

\* A sum of nothing but ones or more is not zero.
LEMMA TotalOfOnes ==
    ASSUME NEW n \in Nat, n # 0, NEW d \in [1 .. n -> Int]
    PROVE  /\ (\A i \in 1 .. n : d[i] >= 1) => Total(d) > 0
           /\ (\A i \in 1 .. n : d[i] <= -1) => Total(d) < 0
<1>1. d \in Seq(Int) /\ Len(d) = n /\ \A i \in 1 .. n : d[i] \in Int
  OBVIOUS
<1>2. PICK p : /\ p[0] = 0 /\ Total(d) = p[n] /\ \A k \in 0 .. n : p[k] \in Int
               /\ \A k \in 0 .. n-1 : p[k + 1] = p[k] + d[k + 1]
  BY <1>1, TotalRuns
<1>3. ASSUME \A i \in 1 .. n : d[i] >= 1 PROVE Total(d) > 0
  <2> DEFINE T == {k \in 0 .. n : p[k] >= k}
  <2>1. 0 \in T
    BY <1>2
  <2>2. ASSUME NEW k \in 0 .. n-1, k \in T PROVE k + 1 \in T
    BY <1>1, <1>2, <1>3, <2>2
  <2>3. n \in T
    <3> HIDE DEF T
    <3>1. \A k \in 0 .. n : k \in T
      BY <2>1, <2>2, CountUp
    <3> QED BY <3>1
  <2> QED BY <1>2, <2>3
<1>4. ASSUME \A i \in 1 .. n : d[i] <= -1 PROVE Total(d) < 0
  <2> DEFINE T == {k \in 0 .. n : p[k] <= -k}
  <2>1. 0 \in T
    BY <1>2
  <2>2. ASSUME NEW k \in 0 .. n-1, k \in T PROVE k + 1 \in T
    BY <1>1, <1>2, <1>4, <2>2
  <2>3. n \in T
    <3> HIDE DEF T
    <3>1. \A k \in 0 .. n : k \in T
      BY <2>1, <2>2, CountUp
    <3> QED BY <3>1
  <2> QED BY <1>2, <2>3
<1> QED
  BY <1>3, <1>4

-----------------------------------------------------------------------------
(* Balanced digits. *)

LEMMA Division ==
    ASSUME NEW a \in Nat, NEW b \in Nat, b > 0
    PROVE  /\ a \div b \in Nat
           /\ (a % b) \in 0..b-1
           /\ a = b * (a \div b) + (a % b)
BY Z3

LEMMA Quotient ==
    ASSUME NEW b \in Nat, b > 0, NEW q \in Nat, NEW r \in 0 .. b-1
    PROVE  (b * q + r) \div b = q /\ (b * q + r) % b = r
BY Z3

LEMMA SizesAre ==
    /\ Width \in Nat /\ Width > 0 /\ Top \in Nat /\ Top > 0 /\ Base = 2 * Top + 1
    /\ Base \in Nat /\ Base > 0 /\ ByteBase \in Nat /\ ByteBase > 1 /\ Octets \in Nat /\ Octets > 0
    /\ Width * Base \in Nat
<1>1. /\ Width \in Nat /\ Width > 0 /\ Top \in Nat /\ Top > 0 /\ Base = 2 * Top + 1
      /\ Base \in Nat /\ Base > 0 /\ ByteBase \in Nat /\ ByteBase > 1 /\ Octets \in Nat /\ Octets > 0
  BY DigitsAssumption DEF Base
<1> QED
  BY <1>1

\* A digit is from -Top to Top.
Digits == [1 .. Width -> -Top .. Top]

LEMMA NudgedIs ==
    ASSUME NEW d \in Digits, NEW i \in 1 .. Width
    PROVE  LET e == Nudged(d, i) IN
           /\ e \in Digits /\ Total(d) \in Int
           /\ Total(d) = 0 => e = d
           /\ Total(d) < 0 => IF d[i] < Top THEN e = [d EXCEPT ![i] = @ + 1] /\ Total(e) = Total(d) + 1
                                            ELSE e = d
           /\ Total(d) > 0 => IF d[i] > -Top THEN e = [d EXCEPT ![i] = @ + (-1)] /\ Total(e) = Total(d) - 1
                                             ELSE e = d
<1> DEFINE e == Nudged(d, i)
           more == [d EXCEPT ![i] = @ + 1]
           less == [d EXCEPT ![i] = @ + (-1)]
<1>1. /\ Top \in Nat /\ Width \in Nat /\ d \in Seq(Int) /\ Len(d) = Width /\ d[i] \in -Top .. Top
      /\ \A j \in 1 .. Width : d[j] \in -Top .. Top
  BY SizesAre DEF Digits
<1>2. Total(d) \in Int
  <2>1. Len(d) \in 0 .. Len(d)
    BY <1>1
  <2> QED BY <1>1, <2>1, TotalRuns
<1>3. Total(more) = Total(d) + 1 /\ Total(less) = Total(d) + (-1)
  <2>1. d \in Seq(Int) /\ i \in 1 .. Len(d) /\ 1 \in Int /\ -1 \in Int
    BY <1>1
  <2>2. Total([d EXCEPT ![i] = @ + 1]) = Total(d) + 1
    BY <2>1, TotalChanged, Zenon
  <2>3. Total([d EXCEPT ![i] = @ + (-1)]) = Total(d) + (-1)
    BY <2>1, TotalChanged, Zenon
  <2> QED BY <2>2, <2>3, Zenon
<1>4. (d[i] < Top => more \in Digits) /\ (d[i] > -Top => less \in Digits)
  BY <1>1 DEF Digits
<1>5. d[i] - 1 = d[i] + (-1)
  BY <1>1
<1>6. CASE Total(d) < 0
  <2>1. ~(Total(d) > 0) /\ Total(d) # 0
    BY <1>2, <1>6
  <2>2. CASE d[i] < Top
    <3>1. e = more
      BY <1>6, <2>1, <2>2, Zenon DEF Nudged
    <3> HIDE DEF e, more, less
    <3> QED BY <1>2, <1>3, <1>4, <1>6, <2>1, <2>2, <3>1 DEF e, more, less
  <2>3. CASE ~(d[i] < Top)
    <3>1. e = d
      BY <1>6, <2>1, <2>3, Zenon DEF Nudged
    <3> HIDE DEF e
    <3> QED BY <1>2, <1>6, <2>1, <2>3, <3>1 DEF e
  <2> QED BY <2>2, <2>3
<1>7. CASE Total(d) > 0
  <2>1. ~(Total(d) < 0) /\ Total(d) # 0
    BY <1>2, <1>7
  <2>2. CASE d[i] > -Top
    <3>1. e = less
      BY <1>5, <1>7, <2>1, <2>2, Zenon DEF Nudged
    <3> HIDE DEF e, more, less
    <3>2. Total(d) + (-1) = Total(d) - 1
      BY <1>2
    <3> QED BY <1>2, <1>3, <1>4, <1>7, <2>1, <2>2, <3>1, <3>2 DEF e, more, less
  <2>3. CASE ~(d[i] > -Top)
    <3>1. e = d
      BY <1>7, <2>1, <2>3, Zenon DEF Nudged
    <3> HIDE DEF e
    <3> QED BY <1>2, <1>7, <2>1, <2>3, <3>1 DEF e
  <2> QED BY <2>2, <2>3
<1>8. CASE Total(d) = 0
  <2>1. ~(Total(d) < 0) /\ ~(Total(d) > 0)
    BY <1>2, <1>8
  <2>2. e = d
    BY <2>1, Zenon DEF Nudged
  <2> HIDE DEF e
  <2> QED BY <1>2, <1>8, <2>1, <2>2 DEF e
<1> QED
  BY <1>2, <1>6, <1>7, <1>8

LEMMA NormalizedRuns ==
    ASSUME NEW digits \in Digits
    PROVE  \E path : /\ path[0] = digits /\ Normalized(digits) = path[Width * Base]
                     /\ \A k \in 0 .. Width * Base : path[k] \in Digits
                     /\ \A k \in 0 .. Width * Base-1 : path[k + 1] = Nudged(path[k], (k % Width) + 1)
<1> DEFINE seq == [i \in 1 .. Width * Base |-> ((i - 1) % Width) + 1]
           n == Width * Base
           V == Digits
           op(v, x) == Nudged(v, x)
           step == [p \in V \X (1 .. n) |-> op(p[1], seq[p[2]])]
           Iter(g) == g = [s \in SUBSET (1 .. n) |->
                            IF s = {} THEN digits ELSE op(g[s \ {Max(s)}], seq[Max(s)])]
<1>1. n \in Nat /\ DOMAIN seq = 1 .. n
  BY SizesAre
<1>2. \A v \in V, i \in 1 .. n : op(v, seq[i]) \in V
  <2>1. ASSUME NEW i \in 1 .. n PROVE seq[i] \in 1 .. Width
    <3>1. i - 1 \in Nat /\ Width \in Nat /\ Width > 0 /\ seq[i] = ((i - 1) % Width) + 1
      BY SizesAre
    <3>2. (i - 1) % Width \in 0 .. Width-1
      BY <3>1, Division
    <3> QED BY <3>1, <3>2
  <2> HIDE DEF seq, n
  <2> QED BY <2>1, NudgedIs
<1>3. digits \in V
  OBVIOUS
<1> HIDE DEF n, V, seq
<1>4. step \in [V \X (1 .. n) -> V]
  <2> HIDE DEF op
  <2> QED BY <1>1, <1>2
<1>5. PICK h : Iterates(h, step, digits, 1 .. n) /\ \A s \in SUBSET (1 .. n) : h[s] \in V
  <2> HIDE DEF step
  <2> QED BY <1>1, <1>3, <1>4, FoldExists
<1>6. Iter(h)
  <2> HIDE DEF op
  <2>1. ASSUME NEW s \in SUBSET (1 .. n), s # {}
        PROVE  h[s] = op(h[s \ {Max(s)}], seq[Max(s)])
    <3>1. Max(s) \in 1 .. n /\ h[s \ {Max(s)}] \in V
      BY <1>1, <1>5, <2>1, MaxIsIn
    <3>2. h[s] = step[<<h[s \ {Max(s)}], Max(s)>>]
      BY <1>5, <2>1 DEF Iterates
    <3> QED BY <3>1, <3>2
  <2>2. h[{}] = digits /\ h = [s \in SUBSET (1 .. n) |-> h[s]]
    BY <1>5 DEF Iterates
  <2> QED BY <2>1, <2>2
<1> DEFINE g == CHOOSE g : Iter(g)
<1>7. Iter(g)
  <2> HIDE DEF Iter
  <2> QED BY <1>6
<1>8. Normalized(digits) = g[1 .. n]
  <2>1. Normalized(digits) = g[DOMAIN seq]
    BY <1>1, Zenon DEF Normalized, FoldLeft, MapThenFoldSet, seq
  <2> QED BY <1>1, <2>1
<1> HIDE DEF g, op
<1> DEFINE path == [k \in 0 .. n |-> g[1 .. k]]
<1>9. path[0] = digits
  BY <1>1, <1>7
<1>10. path[n] = g[1 .. n]
  BY <1>1
<1>11. ASSUME NEW k \in 0 .. n-1 PROVE path[k + 1] = op(path[k], seq[k + 1])
  <2>1. k \in 0 .. n /\ k + 1 \in 0 .. n /\ k + 1 \in Nat /\ k + 1 # 0
    BY <1>1
  <2>2. 1 .. k+1 \in SUBSET (1 .. n) /\ 1 .. k+1 # {} /\ (1 .. k+1) \ {k + 1} = 1 .. k
    BY <1>1, FirstPlaces
  <2>3. Max(1 .. k+1) = k + 1
    BY <2>1, MaxOfFirst
  <2>4. g[1 .. k+1] = op(g[(1 .. k+1) \ {Max(1 .. k+1)}], seq[Max(1 .. k+1)])
    BY <1>7, <2>2
  <2> QED BY <2>1, <2>2, <2>3, <2>4
<1> HIDE DEF path
<1>12. \A k \in 0 .. n : path[k] \in V
  <2> DEFINE T == {k \in 0 .. n : path[k] \in V}
  <2>1. 0 \in T
    BY <1>1, <1>3, <1>9
  <2>2. ASSUME NEW k \in 0 .. n-1, k \in T PROVE k + 1 \in T
    <3>1. k + 1 \in 1 .. n /\ k + 1 \in 0 .. n
      BY <1>1
    <3> QED BY <1>2, <1>11, <2>2, <3>1
  <2>3. \A k \in 0 .. n : k \in T
    <3> HIDE DEF T
    <3> QED BY <1>1, <2>1, <2>2, CountUp
  <2> QED BY <2>3
<1>13. \A k \in 0 .. n-1 : path[k + 1] = Nudged(path[k], (k % Width) + 1)
  <2>1. ASSUME NEW k \in 0 .. n-1 PROVE seq[k + 1] = (k % Width) + 1
    <3>1. k + 1 \in 1 .. n /\ (k + 1) - 1 = k
      BY <1>1
    <3> QED BY <3>1 DEF seq, n
  <2> QED BY <1>11, <2>1 DEF op
<1> QED
  BY <1>8, <1>9, <1>10, <1>12, <1>13, Zenon DEF n, V

\* A sweep: s of them and j digits of the next.
LEMMA SweepAt ==
    ASSUME NEW s \in 0 .. Base-1, NEW j \in 0 .. Width-1
    PROVE  /\ Width * s \in Nat /\ Width * s + j \in 0 .. (Width * Base)-1
           /\ ((Width * s + j) % Width) + 1 = j + 1
           /\ Width * (s + 1) = Width * s + Width
<1>1. Width \in Nat /\ Width > 0 /\ Base \in Nat /\ s \in Nat /\ j \in Nat
  BY SizesAre
<1>2. (Width * s + j) % Width = j
  BY <1>1, Quotient
<1>3. Width * (s + 1) = Width * s + Width
  BY <1>1
<1>4. Width * s \in Nat /\ Width * (s + 1) <= Width * Base
  <2>1. ASSUME NEW a \in Nat, NEW b \in Nat, NEW c \in Nat, b <= c PROVE a * b <= a * c
    BY <2>1, Z3
  <2>2. s + 1 <= Base /\ s + 1 \in Nat
    BY <1>1
  <2> QED BY <1>1, <2>1, <2>2
<1> DEFINE a == Width * s
           n == Width * Base
<1>5. n \in Nat
  BY SizesAre
<1>6. a \in Nat /\ a + Width <= n
  BY <1>3, <1>4
<1> HIDE DEF a, n
<1>7. a + j \in 0 .. n-1
  BY <1>1, <1>5, <1>6
<1> QED
  BY <1>2, <1>3, <1>4, <1>7 DEF a, n

\* After s sweeps and j digits of the next, a sum that is still below zero has every
\* digit at the top, or as many steps further as there were sweeps.
Climbs(d, s, j) ==
    Total(d) = 0 \/ /\ Total(d) < 0
                    /\ \A i \in 1 .. Width : d[i] = Top \/ d[i] >= s - Top + (IF i <= j THEN 1 ELSE 0)

Sinks(d, s, j) ==
    Total(d) = 0 \/ /\ Total(d) > 0
                    /\ \A i \in 1 .. Width : d[i] = -Top \/ d[i] <= Top - s - (IF i <= j THEN 1 ELSE 0)

LEMMA ClimbsOn ==
    ASSUME NEW d \in Digits, NEW s \in 0 .. Base-1, NEW j \in 0 .. Width-1, Climbs(d, s, j)
    PROVE  Climbs(Nudged(d, j + 1), s, j + 1)
<1> DEFINE e == Nudged(d, j + 1)
<1>1. /\ Top \in Nat /\ Top > 0 /\ Width \in Nat /\ s \in Nat /\ j \in Nat
      /\ j + 1 \in 1 .. Width /\ \A i \in 1 .. Width : d[i] \in -Top .. Top
  BY SizesAre DEF Digits
<1>2. /\ e \in Digits /\ Total(d) \in Int
      /\ Total(d) = 0 => e = d
      /\ Total(d) < 0 => IF d[j + 1] < Top THEN e = [d EXCEPT ![j + 1] = @ + 1] /\ Total(e) = Total(d) + 1
                                           ELSE e = d
  BY <1>1, NudgedIs, Zenon
<1> HIDE DEF e
<1>3. CASE Total(d) = 0
  BY <1>2, <1>3 DEF Climbs, e
<1>4. CASE Total(d) < 0
  <2>1. \A i \in 1 .. Width : d[i] = Top \/ d[i] >= s - Top + (IF i <= j THEN 1 ELSE 0)
    BY <1>2, <1>4 DEF Climbs
  <2>2. CASE d[j + 1] < Top
    <3>1. e = [d EXCEPT ![j + 1] = @ + 1] /\ Total(e) = Total(d) + 1
      BY <1>2, <1>4, <2>2
    <3>2. Total(e) = 0 \/ Total(e) < 0
      BY <1>2, <1>4, <3>1
    <3>3. ASSUME NEW i \in 1 .. Width
          PROVE  e[i] = Top \/ e[i] >= s - Top + (IF i <= j + 1 THEN 1 ELSE 0)
      <4>1. CASE i = j + 1
        <5>1. e[i] = d[i] + 1
          BY <3>1, <4>1 DEF Digits
        <5>2. d[i] >= s - Top
          BY <1>1, <2>1, <2>2, <4>1
        <5> QED BY <1>1, <4>1, <5>1, <5>2
      <4>2. CASE i # j + 1
        <5>1. e[i] = d[i]
          BY <3>1, <4>2 DEF Digits
        <5> QED BY <1>1, <2>1, <4>2, <5>1
      <4> QED BY <4>1, <4>2
    <3> QED BY <3>2, <3>3 DEF Climbs, e
  <2>3. CASE ~(d[j + 1] < Top)
    <3>1. e = d /\ d[j + 1] = Top
      BY <1>1, <1>2, <1>4, <2>3
    <3>2. ASSUME NEW i \in 1 .. Width
          PROVE  e[i] = Top \/ e[i] >= s - Top + (IF i <= j + 1 THEN 1 ELSE 0)
      BY <1>1, <2>1, <3>1
    <3> QED BY <1>4, <3>1, <3>2 DEF Climbs, e
  <2> QED BY <2>2, <2>3
<1> QED
  BY <1>3, <1>4 DEF Climbs

LEMMA SinksOn ==
    ASSUME NEW d \in Digits, NEW s \in 0 .. Base-1, NEW j \in 0 .. Width-1, Sinks(d, s, j)
    PROVE  Sinks(Nudged(d, j + 1), s, j + 1)
<1> DEFINE e == Nudged(d, j + 1)
<1>1. /\ Top \in Nat /\ Top > 0 /\ Width \in Nat /\ s \in Nat /\ j \in Nat
      /\ j + 1 \in 1 .. Width /\ \A i \in 1 .. Width : d[i] \in -Top .. Top
  BY SizesAre DEF Digits
<1>2. /\ e \in Digits /\ Total(d) \in Int
      /\ Total(d) = 0 => e = d
      /\ Total(d) > 0 => IF d[j + 1] > -Top THEN e = [d EXCEPT ![j + 1] = @ + (-1)] /\ Total(e) = Total(d) - 1
                                            ELSE e = d
  BY <1>1, NudgedIs, Zenon
<1> HIDE DEF e
<1>3. CASE Total(d) = 0
  BY <1>2, <1>3 DEF Sinks, e
<1>4. CASE Total(d) > 0
  <2>1. \A i \in 1 .. Width : d[i] = -Top \/ d[i] <= Top - s - (IF i <= j THEN 1 ELSE 0)
    BY <1>2, <1>4 DEF Sinks
  <2>2. CASE d[j + 1] > -Top
    <3>1. e = [d EXCEPT ![j + 1] = @ + (-1)] /\ Total(e) = Total(d) - 1
      BY <1>2, <1>4, <2>2
    <3>2. Total(e) = 0 \/ Total(e) > 0
      BY <1>2, <1>4, <3>1
    <3>3. ASSUME NEW i \in 1 .. Width
          PROVE  e[i] = -Top \/ e[i] <= Top - s - (IF i <= j + 1 THEN 1 ELSE 0)
      <4>1. CASE i = j + 1
        <5>1. e[i] = d[i] + (-1)
          BY <3>1, <4>1 DEF Digits
        <5>2. d[i] <= Top - s
          BY <1>1, <2>1, <2>2, <4>1
        <5> QED BY <1>1, <4>1, <5>1, <5>2
      <4>2. CASE i # j + 1
        <5>1. e[i] = d[i]
          BY <3>1, <4>2 DEF Digits
        <5> QED BY <1>1, <2>1, <4>2, <5>1
      <4> QED BY <4>1, <4>2
    <3> QED BY <3>2, <3>3 DEF Sinks, e
  <2>3. CASE ~(d[j + 1] > -Top)
    <3>1. e = d /\ d[j + 1] = -Top
      BY <1>1, <1>2, <1>4, <2>3
    <3>2. ASSUME NEW i \in 1 .. Width
          PROVE  e[i] = -Top \/ e[i] <= Top - s - (IF i <= j + 1 THEN 1 ELSE 0)
      BY <1>1, <2>1, <3>1
    <3> QED BY <1>4, <3>1, <3>2 DEF Sinks, e
  <2> QED BY <2>2, <2>3
<1> QED
  BY <1>3, <1>4 DEF Sinks

\* What holds before the sweeps and is kept by each digit of each, holds after them.
LEMMA SweepsThrough ==
    ASSUME NEW T, <<0, 0>> \in T,
           \A s \in 0 .. Base-1, j \in 0 .. Width-1 : <<s, j>> \in T => <<s, j + 1>> \in T,
           \A s \in 0 .. Base-1 : <<s, Width>> \in T => <<s + 1, 0>> \in T
    PROVE  <<Base, 0>> \in T
<1>1. Base \in Nat /\ Width \in Nat
  BY SizesAre
<1> DEFINE S == {s \in 0 .. Base : <<s, 0>> \in T}
<1>2. 0 \in S
  BY <1>1
<1>3. ASSUME NEW s \in 0 .. Base-1, s \in S PROVE s + 1 \in S
  <2> DEFINE J == {j \in 0 .. Width : <<s, j>> \in T}
  <2>1. 0 \in J
    BY <1>1, <1>3
  <2>2. ASSUME NEW j \in 0 .. Width-1, j \in J PROVE j + 1 \in J
    BY <1>1, <2>2
  <2>3. \A j \in 0 .. Width : j \in J
    <3> HIDE DEF J
    <3> QED BY <1>1, <2>1, <2>2, CountUp
  <2>4. Width \in J
    BY <1>1, <2>3
  <2> QED BY <1>1, <2>4
<1>4. \A s \in 0 .. Base : s \in S
  <2> HIDE DEF S
  <2> QED BY <1>1, <1>2, <1>3, CountUp
<1>5. Base \in S
  BY <1>1, <1>4
<1> QED
  BY <1>5

\* The digits of every hash balance.
LEMMA NormalizedIs ==
    ASSUME NEW digits \in Digits
    PROVE  Normalized(digits) \in Digits /\ Total(Normalized(digits)) = 0
<1> DEFINE n == Width * Base
<1>1. /\ Width \in Nat /\ Width > 0 /\ Top \in Nat /\ Top > 0 /\ Base \in Nat /\ Base > 0
      /\ Base = 2 * Top + 1 /\ n \in Nat
  BY SizesAre
<1>2. PICK path : /\ path[0] = digits /\ Normalized(digits) = path[n]
                  /\ \A k \in 0 .. n : path[k] \in Digits
                  /\ \A k \in 0 .. n-1 : path[k + 1] = Nudged(path[k], (k % Width) + 1)
  BY NormalizedRuns
<1>3. ASSUME NEW s \in 0 .. Base-1, NEW j \in 0 .. Width-1
      PROVE  /\ path[Width * s + j] \in Digits
             /\ path[Width * s + (j + 1)] = Nudged(path[Width * s + j], j + 1)
             /\ Width * (s + 1) + 0 = Width * s + Width
  <2>1. /\ Width * s \in Nat /\ Width * s + j \in 0 .. n-1
        /\ ((Width * s + j) % Width) + 1 = j + 1
        /\ Width * (s + 1) = Width * s + Width
    BY SweepAt
  <2> DEFINE a == Width * s
             b == Width * (s + 1)
  <2>2. (a + j) + 1 = a + (j + 1) /\ a + j \in 0 .. n /\ a \in Nat /\ b + 0 = a + Width
    <3> HIDE DEF a, b, n
    <3>1. a \in Nat /\ b = a + Width /\ a + j \in 0 .. n-1
      BY <2>1 DEF a, b
    <3> QED BY <1>1, <3>1
  <2>3. path[a + j] \in Digits /\ path[(a + j) + 1] = Nudged(path[a + j], ((a + j) % Width) + 1)
    <3> HIDE DEF a, n
    <3> QED BY <1>2, <2>1, <2>2 DEF a
  <2> QED BY <2>1, <2>2, <2>3
<1>4. Width * 0 + 0 = 0 /\ Width * Base + 0 = n
  BY <1>1
<1>5. n \in 0 .. n /\ path[n] \in Digits
  <2> HIDE DEF n
  <2>1. n \in 0 .. n
    BY <1>1
  <2> QED BY <1>2, <2>1
<1>6. digits \in Digits /\ Total(digits) \in Int /\ (\A i \in 1 .. Width : digits[i] \in -Top .. Top)
  <2>1. 1 \in 1 .. Width
    BY <1>1
  <2> QED BY <2>1, NudgedIs DEF Digits
<1> HIDE DEF n
<1>7. CASE Total(digits) <= 0
  <2> DEFINE T == {x \in (0 .. Base) \X (0 .. Width) : Climbs(path[Width * x[1] + x[2]], x[1], x[2])}
  <2>1. <<0, 0>> \in T
    <3>1. Climbs(digits, 0, 0)
      BY <1>1, <1>6, <1>7 DEF Climbs
    <3> QED BY <1>1, <1>2, <1>4, <3>1
  <2>2. ASSUME NEW s \in 0 .. Base-1, NEW j \in 0 .. Width-1, <<s, j>> \in T
        PROVE  <<s, j + 1>> \in T
    <3>1. Climbs(path[Width * s + j], s, j)
      BY <2>2
    <3>2. Climbs(Nudged(path[Width * s + j], j + 1), s, j + 1)
      BY <1>3, <3>1, ClimbsOn
    <3>3. <<s, j + 1>> \in (0 .. Base) \X (0 .. Width)
      BY <1>1
    <3> QED BY <1>3, <3>2, <3>3
  <2>3. ASSUME NEW s \in 0 .. Base-1, <<s, Width>> \in T PROVE <<s + 1, 0>> \in T
    <3>1. Climbs(path[Width * s + Width], s, Width)
      BY <2>3
    <3>2. Climbs(path[Width * s + Width], s + 1, 0)
      BY <1>1, <3>1 DEF Climbs
    <3>3. <<s + 1, 0>> \in (0 .. Base) \X (0 .. Width) /\ 0 \in 0 .. Width-1
      BY <1>1
    <3>4. Width * (s + 1) + 0 = Width * s + Width
      BY <1>3, <3>3
    <3> QED BY <3>2, <3>3, <3>4
  <2>4. Climbs(path[n], Base, 0)
    <3>1. <<Base, 0>> \in T
      <4> HIDE DEF T
      <4> QED BY <2>1, <2>2, <2>3, SweepsThrough
    <3> QED BY <1>4, <3>1
  <2>5. Total(path[n]) < 0 => FALSE
    <3> SUFFICES ASSUME Total(path[n]) < 0 PROVE FALSE
      OBVIOUS
    <3>1. \A i \in 1 .. Width : path[n][i] \in -Top .. Top
      BY <1>5 DEF Digits
    <3>2. \A i \in 1 .. Width : path[n][i] >= 1
      BY <1>1, <2>4, <3>1 DEF Climbs
    <3>3. path[n] \in [1 .. Width -> Int] /\ Width # 0 /\ Total(path[n]) \in Int
      <4>1. 1 \in 1 .. Width /\ Width # 0
        BY <1>1
      <4> HIDE DEF T
      <4>2. path[n] \in [1 .. Width -> Int]
        BY <1>5 DEF Digits
      <4>3. Total(path[n]) \in Int
        BY <1>5, <4>1, NudgedIs, Zenon
      <4> QED BY <4>1, <4>2, <4>3
    <3>4. Total(path[n]) > 0
      BY <1>1, <3>2, <3>3, TotalOfOnes
    <3> QED BY <3>3, <3>4
  <2> QED BY <1>2, <1>5, <2>4, <2>5 DEF Climbs
<1>8. CASE Total(digits) > 0
  <2> DEFINE T == {x \in (0 .. Base) \X (0 .. Width) : Sinks(path[Width * x[1] + x[2]], x[1], x[2])}
  <2>1. <<0, 0>> \in T
    <3>1. Sinks(digits, 0, 0)
      BY <1>1, <1>6, <1>8 DEF Sinks
    <3> QED BY <1>1, <1>2, <1>4, <3>1
  <2>2. ASSUME NEW s \in 0 .. Base-1, NEW j \in 0 .. Width-1, <<s, j>> \in T
        PROVE  <<s, j + 1>> \in T
    <3>1. Sinks(path[Width * s + j], s, j)
      BY <2>2
    <3>2. Sinks(Nudged(path[Width * s + j], j + 1), s, j + 1)
      BY <1>3, <3>1, SinksOn
    <3>3. <<s, j + 1>> \in (0 .. Base) \X (0 .. Width)
      BY <1>1
    <3> QED BY <1>3, <3>2, <3>3
  <2>3. ASSUME NEW s \in 0 .. Base-1, <<s, Width>> \in T PROVE <<s + 1, 0>> \in T
    <3>1. Sinks(path[Width * s + Width], s, Width)
      BY <2>3
    <3>2. Sinks(path[Width * s + Width], s + 1, 0)
      BY <1>1, <3>1 DEF Sinks
    <3>3. <<s + 1, 0>> \in (0 .. Base) \X (0 .. Width) /\ 0 \in 0 .. Width-1
      BY <1>1
    <3>4. Width * (s + 1) + 0 = Width * s + Width
      BY <1>3, <3>3
    <3> QED BY <3>2, <3>3, <3>4
  <2>4. Sinks(path[n], Base, 0)
    <3>1. <<Base, 0>> \in T
      <4> HIDE DEF T
      <4> QED BY <2>1, <2>2, <2>3, SweepsThrough
    <3> QED BY <1>4, <3>1
  <2>5. Total(path[n]) > 0 => FALSE
    <3> SUFFICES ASSUME Total(path[n]) > 0 PROVE FALSE
      OBVIOUS
    <3>1. \A i \in 1 .. Width : path[n][i] \in -Top .. Top
      BY <1>5 DEF Digits
    <3>2. \A i \in 1 .. Width : path[n][i] <= -1
      BY <1>1, <2>4, <3>1 DEF Sinks
    <3>3. path[n] \in [1 .. Width -> Int] /\ Width # 0 /\ Total(path[n]) \in Int
      <4>1. 1 \in 1 .. Width /\ Width # 0
        BY <1>1
      <4> HIDE DEF T
      <4>2. path[n] \in [1 .. Width -> Int]
        BY <1>5 DEF Digits
      <4>3. Total(path[n]) \in Int
        BY <1>5, <4>1, NudgedIs, Zenon
      <4> QED BY <4>1, <4>2, <4>3
    <3>4. Total(path[n]) < 0
      BY <1>1, <3>2, <3>3, TotalOfOnes
    <3> QED BY <3>3, <3>4
  <2> QED BY <1>2, <1>5, <2>4, <2>5 DEF Sinks
<1> QED
  BY <1>6, <1>7, <1>8

-----------------------------------------------------------------------------
(* Signatures. *)

LEMMA SignedDigits ==
    ASSUME NEW hash, Signable(hash), hash \in Strings
    PROVE  Normalized(Enumerated(hash)) \in Digits /\ Total(Normalized(Enumerated(hash))) = 0
<1>1. Enumerated(hash) \in Digits
  <2>1. Top \in Nat /\ Width \in Nat /\ Base = 2 * Top + 1
    BY SizesAre
  <2>2. ASSUME NEW i \in 1 .. Width PROVE hash[i] - Top \in -Top .. Top
    <3>1. hash[i] \in 0 .. Base-1
      BY <2>2 DEF Signable
    <3> QED BY <2>1, <3>1
  <2> QED BY <2>2 DEF Enumerated, Digits
<1> QED
  BY <1>1, NormalizedIs

LEMMA ChainsMeet ==
    ASSUME NEW digits \in Digits, NEW chains \in Versions17
    PROVE  /\ CheckChains(SignChains(digits, chains), digits) = AddressOf(chains)
           /\ chains = Width => \A i \in 1 .. Width : SignChains(digits, chains)[i] = Top - digits[i]
<1>1. Top \in Nat /\ Top > 0 /\ Width \in Nat /\ Width > 0
  BY SizesAre
<1>2. chains \in Nat /\ chains <= Width
  <2>1. (Width + 1) \div 2 \in Nat /\ (Width + 1) \div 2 <= Width
    BY <1>1, Z3
  <2> QED BY <1>1, <2>1 DEF Versions17
<1>3. \A i \in 1 .. chains : digits[i] \in -Top .. Top
  BY <1>1, <1>2 DEF Digits
<1> DEFINE signature == SignChains(digits, chains)
           checked == CheckChains(signature, digits)
<1>4. DOMAIN signature = 1 .. chains /\ \A i \in 1 .. chains : signature[i] = Top - digits[i]
  <2>1. ASSUME NEW i \in 1 .. chains PROVE Advanced(0, Top - digits[i]) = Top - digits[i]
    BY <1>1, <1>3 DEF Advanced
  <2> QED BY <2>1 DEF SignChains
<1> HIDE DEF signature
<1>5. ASSUME NEW i \in 1 .. chains
      PROVE  Advanced(signature[i], Top + digits[i]) = Advanced(0, 2 * Top)
  <2>1. signature[i] = Top - digits[i] /\ digits[i] \in -Top .. Top
    BY <1>3, <1>4
  <2> QED BY <1>1, <2>1 DEF Advanced
<1>6. checked = AddressOf(chains)
  BY <1>4, <1>5 DEF CheckChains, AddressOf
<1> QED
  BY <1>4, <1>6 DEF signature

\* Of two balanced lines of digits, each has a digit that is above the other's.
LEMMA BalancedDiffer ==
    ASSUME NEW d \in Digits, NEW e \in Digits, Total(d) = 0, Total(e) = 0, d # e
    PROVE  \E i \in 1 .. Width : d[i] < e[i]
<1> SUFFICES ASSUME \A i \in 1 .. Width : ~(d[i] < e[i]) PROVE FALSE
  OBVIOUS
<1>1. Width \in Nat /\ Top \in Nat
  BY SizesAre
<1>2. d \in [1 .. Width -> Int] /\ e \in [1 .. Width -> Int]
  BY <1>1 DEF Digits
<1>3. \A i \in 1 .. Width : e[i] <= d[i]
  BY <1>2
<1>4. e = d
  BY <1>1, <1>2, <1>3, TotalLess
<1> QED
  BY <1>4

\* What SignHash makes of a hash.
SignCall(hash, chains) ==
    IF Signable(hash)
    THEN [fn |-> "sign", digits |-> Normalized(Enumerated(hash)), chains |-> chains,
          signature |-> SignChains(Normalized(Enumerated(hash)), chains),
          checked |-> CheckChains(SignChains(Normalized(Enumerated(hash)), chains),
                                  Normalized(Enumerated(hash)))]
    ELSE [fn |-> "sign", refused |-> Len(hash)]

LEMMA SignHolds ==
    ASSUME NEW hash \in Strings, NEW chains \in Versions17, call = SignCall(hash, chains)
    PROVE  SignatureIsOfTheHash
<1>1. call.fn = "sign"
  BY DEF SignCall
<1>2. Base17IsExact
  BY <1>1 DEF Base17IsExact
<1>3. CASE ~Signable(hash)
  <2>1. ~("signature" \in DOMAIN call)
    BY <1>3 DEF SignCall
  <2> QED BY <1>2, <2>1 DEF SignatureIsOfTheHash, SignatureReachesAddress, SignatureIsOfItsDigits, IsSignature
<1>4. CASE Signable(hash)
  <2> DEFINE digits == Normalized(Enumerated(hash))
  <2>1. digits \in Digits /\ Total(digits) = 0
    BY <1>4, SignedDigits
  <2>2. /\ call.digits = digits /\ call.chains = chains
        /\ call.signature = SignChains(digits, chains)
        /\ call.checked = CheckChains(SignChains(digits, chains), digits)
    BY <1>4 DEF SignCall
  <2> HIDE DEF digits
  <2>3. SignatureReachesAddress
    BY <2>1, <2>2, ChainsMeet DEF SignatureReachesAddress
  <2>4. SignatureIsOfItsDigits
    <3> SUFFICES ASSUME chains = Width, NEW other \in AllDigits, other # digits
                 PROVE  \E i \in 1 .. Width : Top - other[i] < call.signature[i]
      BY <2>2 DEF SignatureIsOfItsDigits
    <3>1. PICK h \in [1 .. Width -> 0 .. Base-1] : other = Normalized(Enumerated(h))
      BY DEF AllDigits
    <3>2. Signable(h) /\ h \in Strings
      <4>1. Width \in Nat /\ Base \in Nat
        BY SizesAre
      <4>2. Len(h) = Width /\ \A i \in 1 .. Width : h[i] \in 0 .. Base-1
        BY <4>1
      <4>3. h \in [1 .. Width -> 0 .. Base]
        BY <4>1, <4>2
      <4> QED BY <4>2, <4>3 DEF Signable, Strings
    <3>3. other \in Digits /\ Total(other) = 0
      BY <3>1, <3>2, SignedDigits
    <3>4. PICK i \in 1 .. Width : digits[i] < other[i]
      BY <2>1, <3>3, BalancedDiffer
    <3>5. call.signature[i] = Top - digits[i]
      BY <2>1, <2>2, ChainsMeet
    <3>6. Top \in Nat /\ digits[i] \in Int /\ other[i] \in Int
      BY <2>1, <3>3, SizesAre DEF Digits
    <3> QED BY <3>4, <3>5, <3>6
  <2> QED BY <1>2, <2>3, <2>4 DEF SignatureIsOfTheHash
<1> QED
  BY <1>3, <1>4

-----------------------------------------------------------------------------
(* Values. *)

\* The number that digits go on with.
ValueFrom(start, base, digits) == FoldLeft(LAMBDA v, d : v * base + d, start, digits)

LEMMA TimesIsNat == ASSUME NEW a \in Nat, NEW b \in Nat PROVE a * b \in Nat
BY Z3

LEMMA ValueRuns ==
    ASSUME NEW start \in Nat, NEW base \in Nat, NEW digits \in Seq(Nat)
    PROVE  \E path : /\ path[0] = start /\ ValueFrom(start, base, digits) = path[Len(digits)]
                     /\ \A k \in 0 .. Len(digits) : path[k] \in Nat
                     /\ \A k \in 0 .. Len(digits)-1 : path[k + 1] = path[k] * base + digits[k + 1]
<1> DEFINE seq == digits
           n == Len(digits)
           V == Nat
           op(v, x) == v * base + x
           step == [p \in V \X (1 .. n) |-> op(p[1], seq[p[2]])]
           Iter(g) == g = [s \in SUBSET (1 .. n) |->
                            IF s = {} THEN start ELSE op(g[s \ {Max(s)}], seq[Max(s)])]
<1>1. n \in Nat /\ DOMAIN seq = 1 .. n
  OBVIOUS
<1>2. \A v \in V, i \in 1 .. n : op(v, seq[i]) \in V
  <2>1. ASSUME NEW v \in V, NEW i \in 1 .. n PROVE op(v, seq[i]) \in V
    <3>1. v * base \in Nat
      BY TimesIsNat
    <3>2. seq[i] \in Nat
      OBVIOUS
    <3> DEFINE a == v * base
    <3>3. a + seq[i] \in Nat
      <4> HIDE DEF a, seq
      <4> QED BY <3>1, <3>2 DEF a
    <3> QED BY <3>3
  <2> QED BY <2>1
<1>3. start \in V
  OBVIOUS
<1> HIDE DEF n, V, seq
<1>4. step \in [V \X (1 .. n) -> V]
  <2> HIDE DEF op
  <2> QED BY <1>1, <1>2
<1>5. PICK h : Iterates(h, step, start, 1 .. n) /\ \A s \in SUBSET (1 .. n) : h[s] \in V
  <2> HIDE DEF step
  <2> QED BY <1>1, <1>3, <1>4, FoldExists
<1>6. Iter(h)
  <2> HIDE DEF op
  <2>1. ASSUME NEW s \in SUBSET (1 .. n), s # {}
        PROVE  h[s] = op(h[s \ {Max(s)}], seq[Max(s)])
    <3>1. Max(s) \in 1 .. n /\ h[s \ {Max(s)}] \in V
      BY <1>1, <1>5, <2>1, MaxIsIn
    <3>2. h[s] = step[<<h[s \ {Max(s)}], Max(s)>>]
      BY <1>5, <2>1 DEF Iterates
    <3> QED BY <3>1, <3>2
  <2>2. h[{}] = start /\ h = [s \in SUBSET (1 .. n) |-> h[s]]
    BY <1>5 DEF Iterates
  <2> QED BY <2>1, <2>2
<1> DEFINE g == CHOOSE g : Iter(g)
<1>7. Iter(g)
  <2> HIDE DEF Iter
  <2> QED BY <1>6
<1>8. ValueFrom(start, base, digits) = g[1 .. n]
  <2>1. ValueFrom(start, base, digits) = g[DOMAIN seq]
    BY <1>1, Zenon DEF ValueFrom, FoldLeft, MapThenFoldSet, seq
  <2> QED BY <1>1, <2>1
<1> HIDE DEF g, op
<1> DEFINE path == [k \in 0 .. n |-> g[1 .. k]]
<1>9. path[0] = start
  BY <1>1, <1>7
<1>10. path[n] = g[1 .. n]
  BY <1>1
<1>11. ASSUME NEW k \in 0 .. n-1 PROVE path[k + 1] = op(path[k], seq[k + 1])
  <2>1. k \in 0 .. n /\ k + 1 \in 0 .. n /\ k + 1 \in Nat /\ k + 1 # 0
    BY <1>1
  <2>2. 1 .. k+1 \in SUBSET (1 .. n) /\ 1 .. k+1 # {} /\ (1 .. k+1) \ {k + 1} = 1 .. k
    BY <1>1, FirstPlaces
  <2>3. Max(1 .. k+1) = k + 1
    BY <2>1, MaxOfFirst
  <2>4. g[1 .. k+1] = op(g[(1 .. k+1) \ {Max(1 .. k+1)}], seq[Max(1 .. k+1)])
    BY <1>7, <2>2
  <2> QED BY <2>1, <2>2, <2>3, <2>4
<1> HIDE DEF path
<1>12. \A k \in 0 .. n : path[k] \in V
  <2> DEFINE T == {k \in 0 .. n : path[k] \in V}
  <2>1. 0 \in T
    BY <1>1, <1>3, <1>9
  <2>2. ASSUME NEW k \in 0 .. n-1, k \in T PROVE k + 1 \in T
    <3>1. k + 1 \in 1 .. n /\ k + 1 \in 0 .. n
      BY <1>1
    <3> QED BY <1>2, <1>11, <2>2, <3>1
  <2>3. \A k \in 0 .. n : k \in T
    <3> HIDE DEF T
    <3> QED BY <1>1, <2>1, <2>2, CountUp
  <2> QED BY <2>3
<1>13. \A k \in 0 .. n-1 : path[k + 1] = path[k] * base + digits[k + 1]
  BY <1>11 DEF op, seq
<1> QED
  BY <1>8, <1>9, <1>10, <1>12, <1>13, Zenon DEF n, V

LEMMA TimesMonotone ==
    ASSUME NEW a \in Nat, NEW b \in Nat, NEW c \in Nat, a <= c
    PROVE  a * b <= c * b
BY Z3

LEMMA TimesAbove ==
    ASSUME NEW a \in Nat, NEW b \in Nat, NEW c \in Nat, a < c
    PROVE  a * b + b <= c * b
<1>1. (a + 1) * b <= c * b
  BY TimesMonotone
<1>2. (a + 1) * b = a * b + b
  BY Z3
<1> QED
  BY <1>1, <1>2, TimesIsNat

LEMMA ValueIsFrom ==
    ASSUME NEW base, NEW digits
    PROVE  ValueIn(base, digits) = ValueFrom(0, base, digits)
BY Zenon DEF ValueIn, ValueFrom

\* The values on the way through the digits.
ValuePath(path, start, base, digits) ==
    /\ path[0] = start /\ ValueFrom(start, base, digits) = path[Len(digits)]
    /\ \A k \in 0 .. Len(digits) : path[k] \in Nat
    /\ \A k \in 0 .. Len(digits)-1 : path[k + 1] = path[k] * base + digits[k + 1]

LEMMA ValueHasPath ==
    ASSUME NEW start \in Nat, NEW base \in Nat, NEW digits \in Seq(Nat)
    PROVE  \E path : ValuePath(path, start, base, digits)
BY ValueRuns, Zenon DEF ValuePath

LEMMA ValueIsNat ==
    ASSUME NEW start \in Nat, NEW base \in Nat, NEW digits \in Seq(Nat)
    PROVE  ValueFrom(start, base, digits) \in Nat
<1>1. Len(digits) \in 0 .. Len(digits)
  OBVIOUS
<1>2. PICK path : ValuePath(path, start, base, digits)
  BY ValueHasPath
<1> QED
  BY <1>1, <1>2 DEF ValuePath

LEMMA ValueAppend ==
    ASSUME NEW start \in Nat, NEW base \in Nat, NEW digits \in Seq(Nat), NEW x \in Nat
    PROVE  ValueFrom(start, base, Append(digits, x)) = ValueFrom(start, base, digits) * base + x
<1> DEFINE n == Len(digits)
           more == Append(digits, x)
<1>1. /\ n \in Nat /\ more \in Seq(Nat) /\ Len(more) = n + 1 /\ more[n + 1] = x
      /\ \A k \in 1 .. n : more[k] = digits[k]
  OBVIOUS
<1> HIDE DEF n, more
<1>p. PICK p : ValuePath(p, start, base, digits)
  BY ValueHasPath
<1>2. /\ p[0] = start /\ ValueFrom(start, base, digits) = p[n] /\ \A k \in 0 .. n : p[k] \in Nat
      /\ \A k \in 0 .. n-1 : p[k + 1] = p[k] * base + digits[k + 1]
  BY <1>1, <1>p DEF ValuePath, n
<1>q. PICK q : ValuePath(q, start, base, more)
  BY <1>1, ValueHasPath
<1>3. /\ q[0] = start /\ ValueFrom(start, base, more) = q[n + 1]
      /\ \A k \in 0 .. (n + 1)-1 : q[k + 1] = q[k] * base + more[k + 1]
  BY <1>1, <1>q DEF ValuePath
<1> DEFINE T == {k \in 0 .. n : q[k] = p[k]}
<1>4. 0 \in T
  BY <1>1, <1>2, <1>3
<1>5. ASSUME NEW k \in 0 .. n-1, k \in T PROVE k + 1 \in T
  <2>1. k + 1 \in 1 .. n /\ k + 1 \in 0 .. n /\ k \in 0 .. (n + 1)-1
    BY <1>1
  <2>2. q[k + 1] = q[k] * base + more[k + 1] /\ p[k + 1] = p[k] * base + digits[k + 1]
    BY <1>2, <1>3, <2>1
  <2> QED BY <1>1, <1>5, <2>1, <2>2
<1>6. q[n] = p[n]
  <2>1. n \in 0 .. n
    BY <1>1
  <2> HIDE DEF T
  <2>2. \A k \in 0 .. n : k \in T
    BY <1>1, <1>4, <1>5, CountUp
  <2> QED BY <2>1, <2>2 DEF T
<1>7. n \in 0 .. (n + 1)-1
  BY <1>1
<1>8. q[n + 1] = q[n] * base + more[n + 1]
  BY <1>3, <1>7
<1> QED
  BY <1>1, <1>2, <1>3, <1>6, <1>8 DEF more

LEMMA ValueFront ==
    ASSUME NEW start \in Nat, NEW base \in Nat, NEW digits \in Seq(Nat), NEW x \in Nat
    PROVE  ValueFrom(start, base, <<x>> \o digits) = ValueFrom(start * base + x, base, digits)
<1> DEFINE n == Len(digits)
           more == <<x>> \o digits
           next == start * base + x
<1>1. /\ n \in Nat /\ more \in Seq(Nat) /\ Len(more) = n + 1 /\ more[1] = x
      /\ \A k \in 1 .. n : more[k + 1] = digits[k]
  OBVIOUS
<1>2. next \in Nat
  <2>1. start * base \in Nat
    BY TimesIsNat
  <2> DEFINE a == start * base
  <2> HIDE DEF a
  <2>2. a + x \in Nat
    BY <2>1 DEF a
  <2> QED BY <2>2 DEF a
<1> HIDE DEF n, more, next
<1>p. PICK p : ValuePath(p, next, base, digits)
  BY <1>2, ValueHasPath
<1>3. /\ p[0] = next /\ ValueFrom(next, base, digits) = p[n]
      /\ \A k \in 0 .. n-1 : p[k + 1] = p[k] * base + digits[k + 1]
  BY <1>1, <1>p DEF ValuePath, n
<1>q. PICK q : ValuePath(q, start, base, more)
  BY <1>1, ValueHasPath
<1>4. /\ q[0] = start /\ ValueFrom(start, base, more) = q[n + 1]
      /\ \A k \in 0 .. (n + 1)-1 : q[k + 1] = q[k] * base + more[k + 1]
  BY <1>1, <1>q DEF ValuePath
<1> DEFINE T == {k \in 0 .. n : q[k + 1] = p[k]}
<1>5. 0 \in T
  <2>1. 0 \in 0 .. (n + 1)-1 /\ 0 \in 0 .. n /\ 0 + 1 = 1
    BY <1>1
  <2>2. q[0 + 1] = q[0] * base + more[0 + 1]
    BY <1>4, <2>1
  <2> QED BY <1>1, <1>3, <1>4, <2>1, <2>2 DEF next
<1>6. ASSUME NEW k \in 0 .. n-1, k \in T PROVE k + 1 \in T
  <2>1. k + 1 \in 1 .. n /\ k + 1 \in 0 .. n /\ k + 1 \in 0 .. (n + 1)-1
    BY <1>1
  <2>2. /\ q[(k + 1) + 1] = q[k + 1] * base + more[(k + 1) + 1]
        /\ p[k + 1] = p[k] * base + digits[k + 1]
    BY <1>3, <1>4, <2>1
  <2> QED BY <1>1, <1>6, <2>1, <2>2
<1>7. q[n + 1] = p[n]
  <2>1. n \in 0 .. n
    BY <1>1
  <2> HIDE DEF T
  <2>2. \A k \in 0 .. n : k \in T
    BY <1>1, <1>5, <1>6, CountUp
  <2> QED BY <2>1, <2>2 DEF T
<1> QED
  BY <1>3, <1>4, <1>7 DEF more, next

\* Zeros before a number.
LEMMA ValueOfZeros ==
    ASSUME NEW base \in Nat, NEW m \in Nat, NEW digits \in Seq(Nat)
    PROVE  ValueFrom(0, base, Zeros(m) \o digits) = ValueFrom(0, base, digits)
<1> DEFINE n == Len(digits)
           more == Zeros(m) \o digits
<1>1. /\ n \in Nat /\ more \in Seq(Nat) /\ Len(more) = m + n
      /\ \A k \in 1 .. m : more[k] = 0
      /\ \A k \in 1 .. n : more[m + k] = digits[k]
  <2>1. Zeros(m) \in Seq(Nat) /\ Len(Zeros(m)) = m /\ \A k \in 1 .. m : Zeros(m)[k] = 0
    BY DEF Zeros
  <2> QED BY <2>1
<1> HIDE DEF n, more
<1>p. PICK p : ValuePath(p, 0, base, digits)
  BY ValueHasPath
<1>2. /\ p[0] = 0 /\ ValueFrom(0, base, digits) = p[n]
      /\ \A k \in 0 .. n-1 : p[k + 1] = p[k] * base + digits[k + 1]
  BY <1>1, <1>p DEF ValuePath, n
<1>q. PICK q : ValuePath(q, 0, base, more)
  BY <1>1, ValueHasPath
<1>3. /\ q[0] = 0 /\ ValueFrom(0, base, more) = q[m + n]
      /\ \A k \in 0 .. (m + n)-1 : q[k + 1] = q[k] * base + more[k + 1]
  BY <1>1, <1>q DEF ValuePath
<1>4. q[m] = 0
  <2> DEFINE T == {k \in 0 .. m : q[k] = 0}
  <2>1. 0 \in T
    BY <1>3
  <2>2. ASSUME NEW k \in 0 .. m-1, k \in T PROVE k + 1 \in T
    <3>1. k + 1 \in 1 .. m /\ k + 1 \in 0 .. m /\ k \in 0 .. (m + n)-1
      BY <1>1
    <3>2. q[k + 1] = 0 * base + 0
      BY <1>1, <1>3, <2>2, <3>1
    <3>3. 0 * base + 0 = 0
      OBVIOUS
    <3> QED BY <3>1, <3>2, <3>3
  <2>3. m \in 0 .. m
    OBVIOUS
  <2> HIDE DEF T
  <2>4. \A k \in 0 .. m : k \in T
    BY <2>1, <2>2, CountUp
  <2> QED BY <2>3, <2>4 DEF T
<1> DEFINE T == {k \in 0 .. n : q[m + k] = p[k]}
<1>5. 0 \in T
  BY <1>1, <1>2, <1>4
<1>6. ASSUME NEW k \in 0 .. n-1, k \in T PROVE k + 1 \in T
  <2>1. /\ k + 1 \in 1 .. n /\ k + 1 \in 0 .. n /\ m + k \in 0 .. (m + n)-1
        /\ (m + k) + 1 = m + (k + 1)
    BY <1>1
  <2>2. /\ q[(m + k) + 1] = q[m + k] * base + more[(m + k) + 1]
        /\ p[k + 1] = p[k] * base + digits[k + 1]
    BY <1>2, <1>3, <2>1
  <2> QED BY <1>1, <1>6, <2>1, <2>2
<1>7. q[m + n] = p[n]
  <2>1. n \in 0 .. n
    BY <1>1
  <2> HIDE DEF T
  <2>2. \A k \in 0 .. n : k \in T
    BY <1>1, <1>5, <1>6, CountUp
  <2> QED BY <2>1, <2>2 DEF T
<1> QED
  BY <1>2, <1>3, <1>7 DEF more

\* Less at no place is not more, and a higher start is above it whatever follows.
LEMMA ValueMonotone ==
    ASSUME NEW n \in Nat, NEW base \in Nat, NEW low \in Nat, NEW high \in Nat, low <= high,
           NEW d \in [1 .. n -> Nat], NEW e \in [1 .. n -> Nat], \A i \in 1 .. n : d[i] <= e[i]
    PROVE  ValueFrom(low, base, d) <= ValueFrom(high, base, e)
<1>1. d \in Seq(Nat) /\ e \in Seq(Nat) /\ Len(d) = n /\ Len(e) = n
  OBVIOUS
<1>p. PICK p : ValuePath(p, low, base, d)
  BY <1>1, ValueHasPath
<1>2. /\ p[0] = low /\ ValueFrom(low, base, d) = p[n] /\ \A k \in 0 .. n : p[k] \in Nat
      /\ \A k \in 0 .. n-1 : p[k + 1] = p[k] * base + d[k + 1]
  BY <1>1, <1>p DEF ValuePath
<1>q. PICK q : ValuePath(q, high, base, e)
  BY <1>1, ValueHasPath
<1>3. /\ q[0] = high /\ ValueFrom(high, base, e) = q[n] /\ \A k \in 0 .. n : q[k] \in Nat
      /\ \A k \in 0 .. n-1 : q[k + 1] = q[k] * base + e[k + 1]
  BY <1>1, <1>q DEF ValuePath
<1> DEFINE T == {k \in 0 .. n : p[k] <= q[k]}
<1>4. 0 \in T
  BY <1>2, <1>3
<1>5. ASSUME NEW k \in 0 .. n-1, k \in T PROVE k + 1 \in T
  <2>1. k + 1 \in 1 .. n /\ k + 1 \in 0 .. n /\ k \in 0 .. n
    OBVIOUS
  <2>2. q[k + 1] = q[k] * base + e[k + 1] /\ p[k + 1] = p[k] * base + d[k + 1]
    BY <1>2, <1>3
  <2>3. p[k] \in Nat /\ q[k] \in Nat /\ p[k] <= q[k] /\ d[k + 1] \in Nat /\ e[k + 1] \in Nat /\ d[k + 1] <= e[k + 1]
    BY <1>2, <1>3, <1>5, <2>1
  <2> DEFINE a == p[k] * base
             c == q[k] * base
  <2>4. a \in Nat /\ c \in Nat /\ a <= c
    BY <2>3, TimesIsNat, TimesMonotone
  <2>5. p[k + 1] = a + d[k + 1] /\ q[k + 1] = c + e[k + 1]
    BY <2>2
  <2> HIDE DEF a, c
  <2>6. p[k + 1] <= q[k + 1]
    BY <2>3, <2>4, <2>5
  <2> QED BY <2>1, <2>6
<1>6. n \in T
  <2>1. n \in 0 .. n
    OBVIOUS
  <2> HIDE DEF T
  <2>2. \A k \in 0 .. n : k \in T
    BY <1>4, <1>5, CountUp
  <2> QED BY <2>1, <2>2
<1> QED
  BY <1>2, <1>3, <1>6

LEMMA ValueAbove ==
    ASSUME NEW n \in Nat, NEW base \in Nat, NEW low \in Nat, NEW high \in Nat, low < high,
           NEW d \in [1 .. n -> 0 .. base-1], NEW e \in [1 .. n -> 0 .. base-1]
    PROVE  ValueFrom(low, base, d) < ValueFrom(high, base, e)
<1>1. d \in Seq(Nat) /\ e \in Seq(Nat) /\ Len(d) = n /\ Len(e) = n
  OBVIOUS
<1>p. PICK p : ValuePath(p, low, base, d)
  BY <1>1, ValueHasPath
<1>2. /\ p[0] = low /\ ValueFrom(low, base, d) = p[n] /\ \A k \in 0 .. n : p[k] \in Nat
      /\ \A k \in 0 .. n-1 : p[k + 1] = p[k] * base + d[k + 1]
  BY <1>1, <1>p DEF ValuePath
<1>q. PICK q : ValuePath(q, high, base, e)
  BY <1>1, ValueHasPath
<1>3. /\ q[0] = high /\ ValueFrom(high, base, e) = q[n] /\ \A k \in 0 .. n : q[k] \in Nat
      /\ \A k \in 0 .. n-1 : q[k + 1] = q[k] * base + e[k + 1]
  BY <1>1, <1>q DEF ValuePath
<1> DEFINE T == {k \in 0 .. n : p[k] < q[k]}
<1>4. 0 \in T
  BY <1>2, <1>3
<1>5. ASSUME NEW k \in 0 .. n-1, k \in T PROVE k + 1 \in T
  <2>1. k + 1 \in 1 .. n /\ k + 1 \in 0 .. n /\ k \in 0 .. n
    OBVIOUS
  <2>2. q[k + 1] = q[k] * base + e[k + 1] /\ p[k + 1] = p[k] * base + d[k + 1]
    BY <1>2, <1>3
  <2>3. p[k] \in Nat /\ q[k] \in Nat /\ p[k] < q[k] /\ d[k + 1] \in 0 .. base-1 /\ e[k + 1] \in 0 .. base-1
    BY <1>2, <1>3, <1>5, <2>1
  <2> DEFINE a == p[k] * base
             c == q[k] * base
  <2>4. a \in Nat /\ c \in Nat /\ a + base <= c
    BY <2>3, TimesIsNat, TimesAbove
  <2>5. p[k + 1] = a + d[k + 1] /\ q[k + 1] = c + e[k + 1]
    BY <2>2
  <2> HIDE DEF a, c
  <2>6. p[k + 1] < q[k + 1]
    BY <2>3, <2>4, <2>5
  <2> QED BY <2>1, <2>6
<1>6. n \in T
  <2>1. n \in 0 .. n
    OBVIOUS
  <2> HIDE DEF T
  <2>2. \A k \in 0 .. n : k \in T
    BY <1>4, <1>5, CountUp
  <2> QED BY <2>1, <2>2
<1> QED
  BY <1>2, <1>3, <1>6

-----------------------------------------------------------------------------
(* Division. *)

LEMMA DigitFits ==
    ASSUME NEW b \in Nat, b > 0, NEW c \in Nat, c > 0, NEW r \in 0 .. b-1, NEW x \in 0 .. c-1
    PROVE  /\ (r * c + x) \div b \in 0 .. c-1
           /\ (r * c + x) % b \in 0 .. b-1
           /\ r * c + x = b * ((r * c + x) \div b) + ((r * c + x) % b)
<1> DEFINE t == r * c + x
           q == t \div b
<1>1. r * c \in Nat /\ r * c + c <= b * c
  BY TimesIsNat, TimesAbove
<1>2. t \in Nat /\ t < b * c
  <2> DEFINE a == r * c
             d == b * c
  <2>1. a \in Nat /\ a + c <= d /\ d \in Nat
    BY <1>1, TimesIsNat
  <2> HIDE DEF a, d
  <2>2. a + x \in Nat /\ a + x < d
    BY <2>1
  <2> QED BY <2>2 DEF a, d
<1> HIDE DEF t
<1>3. q \in Nat /\ (t % b) \in 0 .. b-1 /\ t = b * q + (t % b)
  BY <1>2, Division
<1> HIDE DEF q
<1>4. ~(c <= q)
  <2> SUFFICES ASSUME c <= q PROVE FALSE
    OBVIOUS
  <2>1. c * b <= q * b
    BY <1>3, TimesMonotone
  <2>2. c * b = b * c /\ q * b = b * q
    BY <1>3, Z3
  <2> DEFINE d == b * c
             e == b * q
             m == t % b
  <2>3. d <= e /\ t < d /\ t = e + m /\ m \in Nat /\ t \in Nat /\ e \in Nat /\ d \in Nat
    BY <1>2, <1>3, <2>1, <2>2, TimesIsNat
  <2> HIDE DEF d, e, m
  <2> QED BY <2>3
<1>5. q \in 0 .. c-1
  BY <1>3, <1>4
<1> QED
  BY <1>3, <1>5 DEF t, q

Bytes == 0 .. ByteBase-1

LEMMA DividedRuns ==
    ASSUME NEW base \in Nat, base > 0, NEW num \in Seq(Bytes)
    PROVE  \E path : /\ path[0] = [num |-> <<>>, rest |-> 0] /\ DividedBy(num, base) = path[Len(num)]
                     /\ \A k \in 0 .. Len(num) : path[k] \in [num : Seq(Bytes), rest : 0 .. base-1]
                     /\ \A k \in 0 .. Len(num)-1 : path[k + 1] = [num  |-> Append(path[k].num, (path[k].rest * ByteBase + num[k + 1]) \div base),
                           rest |-> (path[k].rest * ByteBase + num[k + 1]) % base]
<1> DEFINE seq == num
           n == Len(num)
           V == [num : Seq(Bytes), rest : 0 .. base-1]
           op(v, x) == LET temp == v.rest * ByteBase + x IN
                        [num |-> Append(v.num, temp \div base), rest |-> temp % base]
           step == [p \in V \X (1 .. n) |-> op(p[1], seq[p[2]])]
           Iter(g) == g = [s \in SUBSET (1 .. n) |->
                            IF s = {} THEN [num |-> <<>>, rest |-> 0] ELSE op(g[s \ {Max(s)}], seq[Max(s)])]
<1>1. n \in Nat /\ DOMAIN seq = 1 .. n
  OBVIOUS
<1>2. \A v \in V, i \in 1 .. n : op(v, seq[i]) \in V
  <2>1. ASSUME NEW v \in V, NEW i \in 1 .. n PROVE op(v, seq[i]) \in V
    <3>1. v.rest \in 0 .. base-1 /\ v.num \in Seq(Bytes) /\ seq[i] \in 0 .. ByteBase-1
      <4> HIDE DEF op
      <4>1. v.rest \in 0 .. base-1 /\ v.num \in Seq(Bytes)
        OBVIOUS
      <4>2. seq[i] \in Bytes
        OBVIOUS
      <4> QED BY <4>1, <4>2 DEF Bytes
    <3>2. ByteBase \in Nat /\ ByteBase > 0
      BY SizesAre
    <3>3. /\ (v.rest * ByteBase + seq[i]) \div base \in Bytes
          /\ (v.rest * ByteBase + seq[i]) % base \in 0 .. base-1
      BY <3>1, <3>2, DigitFits, Zenon DEF Bytes
    <3> DEFINE t == v.rest * ByteBase + seq[i]
    <3> HIDE DEF t, seq
    <3>4. [num |-> Append(v.num, t \div base), rest |-> t % base] \in V
      <4>1. t \div base \in Bytes /\ t % base \in 0 .. base-1
        BY <3>3 DEF t
      <4> DEFINE q == t \div base
                 m == t % base
      <4> HIDE DEF q, m
      <4>2. Append(v.num, q) \in Seq(Bytes) /\ m \in 0 .. base-1
        BY <3>1, <4>1 DEF q, m
      <4> HIDE DEF Bytes
      <4>3. [num |-> Append(v.num, q), rest |-> m] \in V
        BY <4>2
      <4> QED BY <4>3 DEF q, m
    <3> QED BY <3>4 DEF t
  <2> QED BY <2>1
<1>3. [num |-> <<>>, rest |-> 0] \in V
  OBVIOUS
<1> HIDE DEF n, V, seq
<1>4. step \in [V \X (1 .. n) -> V]
  <2> HIDE DEF op
  <2> QED BY <1>1, <1>2
<1>5. PICK h : Iterates(h, step, [num |-> <<>>, rest |-> 0], 1 .. n) /\ \A s \in SUBSET (1 .. n) : h[s] \in V
  <2> HIDE DEF step
  <2> QED BY <1>1, <1>3, <1>4, FoldExists
<1>6. Iter(h)
  <2> HIDE DEF op
  <2>1. ASSUME NEW s \in SUBSET (1 .. n), s # {}
        PROVE  h[s] = op(h[s \ {Max(s)}], seq[Max(s)])
    <3>1. Max(s) \in 1 .. n /\ h[s \ {Max(s)}] \in V
      BY <1>1, <1>5, <2>1, MaxIsIn
    <3>2. h[s] = step[<<h[s \ {Max(s)}], Max(s)>>]
      BY <1>5, <2>1 DEF Iterates
    <3> QED BY <3>1, <3>2
  <2>2. h[{}] = [num |-> <<>>, rest |-> 0] /\ h = [s \in SUBSET (1 .. n) |-> h[s]]
    BY <1>5 DEF Iterates
  <2> QED BY <2>1, <2>2
<1> DEFINE g == CHOOSE g : Iter(g)
<1>7. Iter(g)
  <2> HIDE DEF Iter
  <2> QED BY <1>6
<1>8. DividedBy(num, base) = g[1 .. n]
  <2>1. DividedBy(num, base) = g[DOMAIN seq]
    BY <1>1, Zenon DEF DividedBy, FoldLeft, MapThenFoldSet, seq
  <2> QED BY <1>1, <2>1
<1> HIDE DEF g, op
<1> DEFINE path == [k \in 0 .. n |-> g[1 .. k]]
<1>9. path[0] = [num |-> <<>>, rest |-> 0]
  BY <1>1, <1>7
<1>10. path[n] = g[1 .. n]
  BY <1>1
<1>11. ASSUME NEW k \in 0 .. n-1 PROVE path[k + 1] = op(path[k], seq[k + 1])
  <2>1. k \in 0 .. n /\ k + 1 \in 0 .. n /\ k + 1 \in Nat /\ k + 1 # 0
    BY <1>1
  <2>2. 1 .. k+1 \in SUBSET (1 .. n) /\ 1 .. k+1 # {} /\ (1 .. k+1) \ {k + 1} = 1 .. k
    BY <1>1, FirstPlaces
  <2>3. Max(1 .. k+1) = k + 1
    BY <2>1, MaxOfFirst
  <2>4. g[1 .. k+1] = op(g[(1 .. k+1) \ {Max(1 .. k+1)}], seq[Max(1 .. k+1)])
    BY <1>7, <2>2
  <2> QED BY <2>1, <2>2, <2>3, <2>4
<1> HIDE DEF path
<1>12. \A k \in 0 .. n : path[k] \in V
  <2> DEFINE T == {k \in 0 .. n : path[k] \in V}
  <2>1. 0 \in T
    BY <1>1, <1>3, <1>9
  <2>2. ASSUME NEW k \in 0 .. n-1, k \in T PROVE k + 1 \in T
    <3>1. k + 1 \in 1 .. n /\ k + 1 \in 0 .. n
      BY <1>1
    <3> QED BY <1>2, <1>11, <2>2, <3>1
  <2>3. \A k \in 0 .. n : k \in T
    <3> HIDE DEF T
    <3> QED BY <1>1, <2>1, <2>2, CountUp
  <2> QED BY <2>3
<1>13. \A k \in 0 .. n-1 : path[k + 1] = [num  |-> Append(path[k].num, (path[k].rest * ByteBase + num[k + 1]) \div base),
                           rest |-> (path[k].rest * ByteBase + num[k + 1]) % base]
  BY <1>11 DEF op, seq
<1> QED
  BY <1>8, <1>9, <1>10, <1>12, <1>13, Zenon DEF n, V

DividedPath(path, num, base) ==
    /\ path[0] = [num |-> <<>>, rest |-> 0] /\ DividedBy(num, base) = path[Len(num)]
    /\ \A k \in 0 .. Len(num) : path[k] \in [num : Seq(Bytes), rest : 0 .. base-1]
    /\ \A k \in 0 .. Len(num)-1 :
           path[k + 1] = [num  |-> Append(path[k].num, (path[k].rest * ByteBase + num[k + 1]) \div base),
                          rest |-> (path[k].rest * ByteBase + num[k + 1]) % base]

LEMMA DividedHasPath ==
    ASSUME NEW base \in Nat, base > 0, NEW num \in Seq(Bytes)
    PROVE  \E path : DividedPath(path, num, base)
<1>1. PICK path : /\ path[0] = [num |-> <<>>, rest |-> 0] /\ DividedBy(num, base) = path[Len(num)]
                  /\ \A k \in 0 .. Len(num) : path[k] \in [num : Seq(Bytes), rest : 0 .. base-1]
                  /\ \A k \in 0 .. Len(num)-1 :
                        path[k + 1] = [num  |-> Append(path[k].num, (path[k].rest * ByteBase + num[k + 1]) \div base),
                                       rest |-> (path[k].rest * ByteBase + num[k + 1]) % base]
  BY DividedRuns, Zenon
<1> QED
  BY <1>1, Zenon DEF DividedPath

LEMMA Rearranged ==
    ASSUME NEW u \in Nat, NEW b \in Nat, NEW r \in Nat, NEW c \in Nat, NEW x \in Nat,
           NEW q \in Nat, NEW m \in Nat, r * c + x = b * q + m
    PROVE  (u * b + r) * c + x = (u * c + q) * b + m
BY Z3

\* A division is exact.
LEMMA DividedIs ==
    ASSUME NEW base \in Nat, base > 0, NEW num \in Seq(Bytes)
    PROVE  /\ DividedBy(num, base).num \in Seq(Bytes) /\ Len(DividedBy(num, base).num) = Len(num)
           /\ DividedBy(num, base).rest \in 0 .. base-1
           /\ ValueFrom(0, ByteBase, num) =
                  ValueFrom(0, ByteBase, DividedBy(num, base).num) * base + DividedBy(num, base).rest
<1> DEFINE n == Len(num)
           Up(digits) == ValueFrom(0, ByteBase, digits)
<1>1. n \in Nat /\ num \in Seq(Nat) /\ ByteBase \in Nat /\ ByteBase > 0 /\ Bytes \subseteq Nat
      /\ Seq(Bytes) \subseteq Seq(Nat) /\ (\A k \in 1 .. n : num[k] \in Bytes)
  <2>1. Bytes \subseteq Nat /\ ByteBase \in Nat /\ ByteBase > 0
    BY SizesAre DEF Bytes
  <2>2. ASSUME NEW s \in Seq(Bytes) PROVE s \in Seq(Nat)
    <3> HIDE DEF Up, n
    <3> QED BY <2>1, <2>2, WiderSeq
  <2>3. \A k \in 1 .. n : num[k] \in Bytes
    OBVIOUS
  <2> QED BY <2>1, <2>2, <2>3
<1>p. PICK p : DividedPath(p, num, base)
  BY DividedHasPath
<1>2. /\ p[0] = [num |-> <<>>, rest |-> 0] /\ DividedBy(num, base) = p[n]
      /\ \A k \in 0 .. n : p[k] \in [num : Seq(Bytes), rest : 0 .. base-1]
      /\ \A k \in 0 .. n-1 :
            p[k + 1] = [num  |-> Append(p[k].num, (p[k].rest * ByteBase + num[k + 1]) \div base),
                        rest |-> (p[k].rest * ByteBase + num[k + 1]) % base]
  BY <1>p, Zenon DEF DividedPath
<1>v. PICK v : ValuePath(v, 0, ByteBase, num)
  BY <1>1, ValueHasPath
<1>3. /\ v[0] = 0 /\ Up(num) = v[n]
      /\ \A k \in 0 .. n-1 : v[k + 1] = v[k] * ByteBase + num[k + 1]
  BY <1>1, <1>v, Zenon DEF ValuePath
<1> HIDE DEF n
<1> DEFINE T == {k \in 0 .. n : Len(p[k].num) = k /\ v[k] = Up(p[k].num) * base + p[k].rest}
<1>4. 0 \in T
  <2>1. Len(<<>>) = 0 /\ <<>> \in Seq(Nat) /\ 0 \in 0 .. Len(<<>>)
    OBVIOUS
  <2>2. PICK q : ValuePath(q, 0, ByteBase, <<>>)
    BY <1>1, <2>1, ValueHasPath
  <2>3. Up(<<>>) = 0
    BY <2>1, <2>2 DEF ValuePath
  <2> HIDE DEF Up
  <2>4. p[0].num = <<>> /\ p[0].rest = 0
    BY <1>2
  <2>5. Up(<<>>) * base + 0 = 0
    BY <2>3
  <2> QED BY <1>1, <1>3, <2>1, <2>4, <2>5
<1>5. ASSUME NEW k \in 0 .. n-1, k \in T PROVE k + 1 \in T
  <2> DEFINE had == p[k].num
             r == p[k].rest
             x == num[k + 1]
             t == r * ByteBase + x
             q == t \div base
             m == t % base
             u == Up(had)
  <2>1. k + 1 \in 1 .. n /\ k + 1 \in 0 .. n /\ k \in 0 .. n
    BY <1>1
  <2>2. had \in Seq(Bytes) /\ had \in Seq(Nat) /\ r \in 0 .. base-1 /\ r \in Nat /\ x \in 0 .. ByteBase-1 /\ x \in Nat
    <3>1. p[k] \in [num : Seq(Bytes), rest : 0 .. base-1] /\ x \in Bytes
      BY <1>1, <1>2, <2>1
    <3> QED BY <1>1, <3>1 DEF Bytes
  <2>3. q \in 0 .. ByteBase-1 /\ m \in 0 .. base-1 /\ t = base * q + m
    <3> HIDE DEF r, x
    <3> QED BY <1>1, <2>2, DigitFits
  <2>4. p[k + 1] = [num |-> Append(had, q), rest |-> m]
    BY <1>2, Zenon
  <2>5. Len(had) = k /\ v[k] = u * base + r
    BY <1>5
  <2>6. v[k + 1] = v[k] * ByteBase + x
    BY <1>3
  <2> HIDE DEF had, r, x, q, m, u, Up
  <2>7. q \in Nat /\ m \in Nat /\ u \in Nat
    <3>1. q \in Nat /\ m \in Nat
      BY <1>1, <2>3
    <3>2. 0 \in Nat
      OBVIOUS
    <3>3. u \in Nat
      BY <1>1, <2>2, <3>2, ValueIsNat, Zenon DEF u, Up
    <3> QED BY <3>1, <3>3
  <2>8. Up(Append(had, q)) = u * ByteBase + q
    BY <1>1, <2>2, <2>7, ValueAppend DEF u, Up
  <2>9. (u * base + r) * ByteBase + x = (u * ByteBase + q) * base + m
    BY <1>1, <2>2, <2>3, <2>7, Rearranged
  <2>10. p[k + 1].num = Append(had, q) /\ p[k + 1].rest = m
    BY <2>4
  <2>11. v[k + 1] = Up(p[k + 1].num) * base + p[k + 1].rest
    BY <2>5, <2>6, <2>8, <2>9, <2>10, Zenon
  <2>12. Len(p[k + 1].num) = k + 1
    BY <2>2, <2>5, <2>10
  <2> QED BY <2>1, <2>11, <2>12, Zenon
<1>6. n \in T
  <2>1. n \in 0 .. n
    BY <1>1
  <2> HIDE DEF T
  <2>2. \A k \in 0 .. n : k \in T
    BY <1>1, <1>4, <1>5, CountUp
  <2> QED BY <2>1, <2>2
<1>7. p[n] \in [num : Seq(Bytes), rest : 0 .. base-1]
  BY <1>1, <1>2
<1> HIDE DEF Up
<1>8. Len(p[n].num) = n /\ v[n] = Up(p[n].num) * base + p[n].rest
  BY <1>6
<1>9. p[n].num \in Seq(Bytes) /\ p[n].rest \in 0 .. base-1
  BY <1>7
<1> QED
  BY <1>2, <1>3, <1>8, <1>9, Zenon DEF n, Up

-----------------------------------------------------------------------------
(* The text of a hash. *)

Numbers == [1 .. Octets -> Bytes]

\* One division more, and all of them.
DivideOn(s, i) ==
    IF s.num = Zeros(Octets) THEN s
    ELSE [num    |-> DividedBy(s.num, Base).num,
          digits |-> <<DividedBy(s.num, Base).rest>> \o s.digits]

Divisions(bytes) == FoldLeft(DivideOn, [num |-> bytes, digits |-> <<>>], Zeros(Width))

LEMMA Base17Is ==
    ASSUME NEW bytes
    PROVE  Base17(bytes) = Zeros(Width - Len(Divisions(bytes).digits)) \o Divisions(bytes).digits
BY Zenon DEF Base17, Divisions, DivideOn

States == [num : Numbers, digits : Seq(0 .. Base-1)]

LEMMA NumbersAre ==
    ASSUME NEW num \in Numbers
    PROVE  num \in Seq(Bytes) /\ num \in Seq(Nat) /\ Len(num) = Octets
<1>1. Octets \in Nat /\ Bytes \subseteq Nat
  BY SizesAre DEF Bytes
<1>2. num \in Seq(Bytes) /\ Len(num) = Octets
  BY <1>1 DEF Numbers
<1> QED
  BY <1>1, <1>2, WiderSeq

LEMMA DivideOnIs ==
    ASSUME NEW s \in States, NEW i
    PROVE  /\ DivideOn(s, i) \in States
           /\ s.num = Zeros(Octets) => DivideOn(s, i) = s
           /\ s.num # Zeros(Octets) =>
                /\ DivideOn(s, i).num = DividedBy(s.num, Base).num
                /\ DivideOn(s, i).digits = <<DividedBy(s.num, Base).rest>> \o s.digits
<1>1. s.num \in Numbers /\ s.digits \in Seq(0 .. Base-1)
  BY DEF States
<1>2. CASE s.num = Zeros(Octets)
  <2>1. DivideOn(s, i) = s
    BY <1>2, Zenon DEF DivideOn
  <2> QED BY <1>2, <2>1
<1>3. CASE s.num # Zeros(Octets)
  <2> DEFINE q == DividedBy(s.num, Base)
             more == <<q.rest>> \o s.digits
  <2>1. DivideOn(s, i) = [num |-> q.num, digits |-> more]
    BY <1>3, Zenon DEF DivideOn
  <2>2. s.num \in Seq(Bytes) /\ Len(s.num) = Octets /\ Octets \in Nat /\ Base \in Nat /\ Base > 0
    BY <1>1, NumbersAre, SizesAre
  <2>3. q.num \in Seq(Bytes) /\ Len(q.num) = Octets /\ q.rest \in 0 .. Base-1
    BY <2>2, DividedIs, Zenon
  <2> HIDE DEF q
  <2>4. q.num \in Numbers
    BY <2>2, <2>3 DEF Numbers
  <2>5. more \in Seq(0 .. Base-1)
    BY <1>1, <2>3
  <2> HIDE DEF more
  <2>6. DivideOn(s, i) \in States /\ DivideOn(s, i).num = q.num /\ DivideOn(s, i).digits = more
    BY <2>1, <2>4, <2>5 DEF States
  <2> QED BY <1>3, <2>6 DEF q, more
<1> QED
  BY <1>2, <1>3

LEMMA DivisionsRun ==
    ASSUME NEW bytes \in Numbers
    PROVE  \E path : /\ path[0] = [num |-> bytes, digits |-> <<>>] /\ Divisions(bytes) = path[Width]
                     /\ \A k \in 0 .. Width : path[k] \in States
                     /\ \A k \in 0 .. Width-1 : path[k + 1] = DivideOn(path[k], 0)
<1> DEFINE seq == Zeros(Width)
           n == Width
           V == States
           op(v, x) == DivideOn(v, x)
           step == [p \in V \X (1 .. n) |-> op(p[1], seq[p[2]])]
           Iter(g) == g = [s \in SUBSET (1 .. n) |->
                            IF s = {} THEN [num |-> bytes, digits |-> <<>>] ELSE op(g[s \ {Max(s)}], seq[Max(s)])]
<1>1. n \in Nat /\ DOMAIN seq = 1 .. n
  BY SizesAre DEF Zeros
<1>2. \A v \in V, i \in 1 .. n : op(v, seq[i]) \in V
  BY DivideOnIs
<1>3. [num |-> bytes, digits |-> <<>>] \in V
  BY DEF States
<1> HIDE DEF n, V, seq
<1>4. step \in [V \X (1 .. n) -> V]
  <2> HIDE DEF op
  <2> QED BY <1>1, <1>2
<1>5. PICK h : Iterates(h, step, [num |-> bytes, digits |-> <<>>], 1 .. n) /\ \A s \in SUBSET (1 .. n) : h[s] \in V
  <2> HIDE DEF step
  <2> QED BY <1>1, <1>3, <1>4, FoldExists
<1>6. Iter(h)
  <2> HIDE DEF op
  <2>1. ASSUME NEW s \in SUBSET (1 .. n), s # {}
        PROVE  h[s] = op(h[s \ {Max(s)}], seq[Max(s)])
    <3>1. Max(s) \in 1 .. n /\ h[s \ {Max(s)}] \in V
      BY <1>1, <1>5, <2>1, MaxIsIn
    <3>2. h[s] = step[<<h[s \ {Max(s)}], Max(s)>>]
      BY <1>5, <2>1 DEF Iterates
    <3> QED BY <3>1, <3>2
  <2>2. h[{}] = [num |-> bytes, digits |-> <<>>] /\ h = [s \in SUBSET (1 .. n) |-> h[s]]
    BY <1>5 DEF Iterates
  <2> QED BY <2>1, <2>2
<1> DEFINE g == CHOOSE g : Iter(g)
<1>7. Iter(g)
  <2> HIDE DEF Iter
  <2> QED BY <1>6
<1>8. Divisions(bytes) = g[1 .. n]
  <2>1. Divisions(bytes) = g[DOMAIN seq]
    BY <1>1, Zenon DEF Divisions, FoldLeft, MapThenFoldSet, seq
  <2> QED BY <1>1, <2>1
<1> HIDE DEF g, op
<1> DEFINE path == [k \in 0 .. n |-> g[1 .. k]]
<1>9. path[0] = [num |-> bytes, digits |-> <<>>]
  BY <1>1, <1>7
<1>10. path[n] = g[1 .. n]
  BY <1>1
<1>11. ASSUME NEW k \in 0 .. n-1 PROVE path[k + 1] = op(path[k], seq[k + 1])
  <2>1. k \in 0 .. n /\ k + 1 \in 0 .. n /\ k + 1 \in Nat /\ k + 1 # 0
    BY <1>1
  <2>2. 1 .. k+1 \in SUBSET (1 .. n) /\ 1 .. k+1 # {} /\ (1 .. k+1) \ {k + 1} = 1 .. k
    BY <1>1, FirstPlaces
  <2>3. Max(1 .. k+1) = k + 1
    BY <2>1, MaxOfFirst
  <2>4. g[1 .. k+1] = op(g[(1 .. k+1) \ {Max(1 .. k+1)}], seq[Max(1 .. k+1)])
    BY <1>7, <2>2
  <2> QED BY <2>1, <2>2, <2>3, <2>4
<1> HIDE DEF path
<1>12. \A k \in 0 .. n : path[k] \in V
  <2> DEFINE T == {k \in 0 .. n : path[k] \in V}
  <2>1. 0 \in T
    BY <1>1, <1>3, <1>9
  <2>2. ASSUME NEW k \in 0 .. n-1, k \in T PROVE k + 1 \in T
    <3>1. k + 1 \in 1 .. n /\ k + 1 \in 0 .. n
      BY <1>1
    <3> QED BY <1>2, <1>11, <2>2, <3>1
  <2>3. \A k \in 0 .. n : k \in T
    <3> HIDE DEF T
    <3> QED BY <1>1, <2>1, <2>2, CountUp
  <2> QED BY <2>3
<1>13. \A k \in 0 .. n-1 : path[k + 1] = DivideOn(path[k], 0)
  <2>1. ASSUME NEW k \in 0 .. n-1 PROVE op(path[k], seq[k + 1]) = DivideOn(path[k], 0)
    BY Zenon DEF op, DivideOn
  <2> QED BY <1>11, <2>1
<1> QED
  BY <1>8, <1>9, <1>10, <1>12, <1>13, Zenon DEF n, V

\* After k divisions: what is left to divide goes on with the digits there are, and they
\* are k, or nothing is left.
DividedOn(s, k, bytes) ==
    /\ Len(s.digits) <= k /\ (Len(s.digits) < k => s.num = Zeros(Octets))
    /\ ValueFrom(ValueFrom(0, ByteBase, s.num), Base, s.digits) = ValueFrom(0, ByteBase, bytes)

LEMMA DividesOn ==
    ASSUME NEW s \in States, NEW k \in Nat, NEW bytes, DividedOn(s, k, bytes)
    PROVE  DividedOn(DivideOn(s, 0), k + 1, bytes)
<1>1. s.num \in Numbers /\ s.digits \in Seq(0 .. Base-1) /\ Base \in Nat /\ Base > 0 /\ ByteBase \in Nat
  BY SizesAre DEF States
<1>2. Len(s.digits) \in Nat
  BY <1>1
<1>3. CASE s.num = Zeros(Octets)
  <2>1. DivideOn(s, 0) = s
    BY <1>3, DivideOnIs
  <2>2. Len(s.digits) <= k + 1
    BY <1>2 DEF DividedOn
  <2> QED BY <1>3, <2>1, <2>2 DEF DividedOn
<1>4. CASE s.num # Zeros(Octets)
  <2> DEFINE q == DividedBy(s.num, Base)
             e == DivideOn(s, 0)
             v == ValueFrom(0, ByteBase, q.num)
  <2>1. e.num = q.num /\ e.digits = <<q.rest>> \o s.digits
    BY <1>4, DivideOnIs
  <2>2. s.num \in Seq(Bytes)
    BY <1>1, NumbersAre
  <2>3. /\ q.num \in Seq(Bytes) /\ q.rest \in 0 .. Base-1
        /\ ValueFrom(0, ByteBase, s.num) = v * Base + q.rest
    BY <1>1, <2>2, DividedIs, Zenon
  <2>4. Len(s.digits) = k
    BY <1>2, <1>4 DEF DividedOn
  <2> HIDE DEF q, e
  <2>5. q.rest \in Nat /\ s.digits \in Seq(Nat) /\ q.num \in Seq(Nat) /\ 0 \in Nat
    <3>1. 0 .. Base-1 \subseteq Nat /\ Bytes \subseteq Nat
      BY <1>1 DEF Bytes
    <3> QED BY <1>1, <2>3, <3>1, WiderSeq
  <2>6. Len(e.digits) = k + 1
    <3>1. Len(<<q.rest>> \o s.digits) = Len(s.digits) + 1
      BY <1>1
    <3> QED BY <2>1, <2>4, <3>1
  <2>7. v \in Nat
    BY <1>1, <2>5, ValueIsNat, Zenon
  <2> HIDE DEF v
  <2>8. ValueFrom(v, Base, <<q.rest>> \o s.digits) = ValueFrom(v * Base + q.rest, Base, s.digits)
    <3> DEFINE rest == q.rest
               digits == s.digits
    <3>1. rest \in Nat /\ digits \in Seq(Nat) /\ Base \in Nat
      BY <1>1, <2>5
    <3> HIDE DEF rest, digits
    <3>2. ValueFrom(v, Base, <<rest>> \o digits) = ValueFrom(v * Base + rest, Base, digits)
      BY <2>7, <3>1, ValueFront
    <3> QED BY <3>2 DEF rest, digits
  <2>9. ValueFrom(ValueFrom(0, ByteBase, s.num), Base, s.digits) = ValueFrom(0, ByteBase, bytes)
    BY DEF DividedOn
  <2>10. ValueFrom(ValueFrom(0, ByteBase, e.num), Base, e.digits) = ValueFrom(0, ByteBase, bytes)
    BY <2>1, <2>3, <2>8, <2>9, Zenon DEF v
  <2>11. Len(e.digits) <= k + 1 /\ ~(Len(e.digits) < k + 1)
    BY <2>6
  <2> QED BY <2>10, <2>11, Zenon DEF DividedOn, e
<1> QED
  BY <1>3, <1>4

LEMMA DivisionsAre ==
    ASSUME NEW bytes \in Numbers
    PROVE  Divisions(bytes) \in States /\ DividedOn(Divisions(bytes), Width, bytes)
<1>1. Width \in Nat /\ Base \in Nat /\ ByteBase \in Nat
  BY SizesAre
<1>2. PICK path : /\ path[0] = [num |-> bytes, digits |-> <<>>] /\ Divisions(bytes) = path[Width]
                  /\ \A k \in 0 .. Width : path[k] \in States
                  /\ \A k \in 0 .. Width-1 : path[k + 1] = DivideOn(path[k], 0)
  BY DivisionsRun
<1> DEFINE T == {k \in 0 .. Width : DividedOn(path[k], k, bytes)}
<1>3. 0 \in T
  <2>1. path[0].num = bytes /\ path[0].digits = <<>>
    BY <1>2
  <2>2. Len(<<>>) = 0 /\ <<>> \in Seq(Nat) /\ 0 \in Nat /\ bytes \in Seq(Nat)
    BY NumbersAre
  <2> DEFINE v == ValueFrom(0, ByteBase, bytes)
  <2>3. v \in Nat
    BY <1>1, <2>2, ValueIsNat, Zenon
  <2> HIDE DEF v
  <2>4. ValueFrom(v, Base, <<>>) = v
    <3>1. PICK p : ValuePath(p, v, Base, <<>>)
      BY <1>1, <2>2, <2>3, ValueHasPath
    <3> QED BY <2>2, <3>1, Zenon DEF ValuePath
  <2>5. Len(path[0].digits) <= 0 /\ ~(Len(path[0].digits) < 0)
    BY <2>1, <2>2
  <2>6. DividedOn(path[0], 0, bytes)
    BY <2>1, <2>4, <2>5, Zenon DEF DividedOn, v
  <2> QED BY <1>1, <2>6
<1>4. ASSUME NEW k \in 0 .. Width-1, k \in T PROVE k + 1 \in T
  <2>1. k \in Nat /\ k + 1 \in 0 .. Width /\ k \in 0 .. Width
    BY <1>1
  <2>2. path[k] \in States /\ DividedOn(path[k], k, bytes) /\ path[k + 1] = DivideOn(path[k], 0)
    BY <1>2, <1>4, <2>1
  <2>3. DividedOn(path[k + 1], k + 1, bytes)
    BY <2>1, <2>2, DividesOn
  <2> QED BY <2>1, <2>3
<1>5. Width \in T
  <2>1. Width \in 0 .. Width
    BY <1>1
  <2> HIDE DEF T
  <2>2. \A k \in 0 .. Width : k \in T
    BY <1>1, <1>3, <1>4, CountUp
  <2> QED BY <2>1, <2>2
<1> QED
  BY <1>2, <1>5

\* Nothing is left to divide after Width divisions: a hash whose digits went on would be
\* greater than the greatest of Width digits.
LEMMA NothingIsLeft ==
    ASSUME NEW bytes \in Numbers
    PROVE  ValueFrom(0, ByteBase, Divisions(bytes).num) = 0
<1> DEFINE s == Divisions(bytes)
           v == ValueFrom(0, ByteBase, s.num)
           topBytes == [i \in 1 .. Octets |-> ByteBase-1]
           topDigits == [i \in 1 .. Width |-> Base-1]
<1>1. /\ Width \in Nat /\ Base \in Nat /\ Base > 0 /\ ByteBase \in Nat /\ ByteBase > 1 /\ Octets \in Nat
      /\ Octets > 0 /\ 0 \in Nat
  BY SizesAre
<1>2. s \in States /\ DividedOn(s, Width, bytes)
  BY DivisionsAre
<1>3. s.num \in Numbers /\ s.digits \in Seq(0 .. Base-1) /\ Len(s.digits) \in Nat
  BY <1>2 DEF States
<1> HIDE DEF s
<1>4. s.num \in Seq(Nat) /\ bytes \in Seq(Nat)
  BY <1>3, NumbersAre
<1>5. v \in Nat
  BY <1>1, <1>4, ValueIsNat, Zenon
<1>6. ASSUME s.num = Zeros(Octets) PROVE v = 0
  <2>1. <<>> \in Seq(Nat) /\ Zeros(Octets) \o <<>> = Zeros(Octets) /\ Len(<<>>) = 0
    BY <1>1 DEF Zeros
  <2>2. ValueFrom(0, ByteBase, Zeros(Octets) \o <<>>) = ValueFrom(0, ByteBase, <<>>)
    BY <1>1, <2>1, ValueOfZeros, Zenon
  <2>3. ValueFrom(0, ByteBase, <<>>) = 0
    <3>1. PICK p : ValuePath(p, 0, ByteBase, <<>>)
      BY <1>1, <2>1, ValueHasPath
    <3> QED BY <2>1, <3>1, Zenon DEF ValuePath
  <2>4. v = 0
    BY <1>6, <2>1, <2>2, <2>3, Zenon
  <2> QED BY <2>4
<1>7. ASSUME s.num # Zeros(Octets) PROVE v = 0
  <2>1. Len(s.digits) = Width
    BY <1>1, <1>2, <1>3, <1>7 DEF DividedOn
  <2>2. s.digits \in [1 .. Width -> 0 .. Base-1]
    <3> HIDE DEF topBytes, topDigits, v
    <3> DEFINE digits == s.digits
               D == 0 .. Base-1
    <3>1. digits \in Seq(D) /\ Len(digits) = Width
      BY <1>3, <2>1
    <3> HIDE DEF digits, D
    <3>2. digits \in [1 .. Len(digits) -> D]
      BY <3>1
    <3> QED BY <3>1, <3>2 DEF digits, D
  <2>3. topDigits \in [1 .. Width -> 0 .. Base-1]
    BY <1>1
  <2>4. ValueFrom(0, ByteBase, bytes) <= ValueFrom(0, ByteBase, topBytes)
    <3>1. bytes \in [1 .. Octets -> Nat] /\ \A i \in 1 .. Octets : bytes[i] \in 0 .. ByteBase-1
      BY <1>1 DEF Numbers, Bytes
    <3>2. topBytes \in [1 .. Octets -> Nat]
      BY <1>1
    <3>3. \A i \in 1 .. Octets : bytes[i] <= topBytes[i]
      BY <1>1, <3>1
    <3> HIDE DEF topBytes, topDigits, v
    <3>4. 0 <= 0
      OBVIOUS
    <3> QED BY <1>1, <3>1, <3>2, <3>3, <3>4, ValueMonotone, Zenon
  <2>5. ValueFrom(0, ByteBase, topBytes) <= ValueFrom(0, Base, topDigits)
    BY FitsAssumption, ValueIsFrom, Zenon
  <2> HIDE DEF topDigits, topBytes
  <2>6. ASSUME 0 < v PROVE ValueFrom(0, Base, topDigits) < ValueFrom(v, Base, s.digits)
    BY <1>1, <1>5, <2>2, <2>3, <2>6, ValueAbove
  <2>7. ValueFrom(v, Base, s.digits) = ValueFrom(0, ByteBase, bytes)
    BY <1>2, Zenon DEF DividedOn
  <2> DEFINE a == ValueFrom(0, ByteBase, bytes)
             b == ValueFrom(0, ByteBase, topBytes)
             c == ValueFrom(0, Base, topDigits)
  <2>8. a \in Nat /\ b \in Nat /\ c \in Nat
    <3>1. topBytes \in Seq(Nat) /\ topDigits \in Seq(Nat)
      BY <1>1 DEF topBytes, topDigits
    <3> QED BY <1>1, <1>4, <3>1, ValueIsNat
  <2>9. a <= b /\ b <= c /\ (0 < v => c < a)
    BY <2>4, <2>5, <2>6, <2>7, Zenon
  <2> HIDE DEF a, b, c, v
  <2>10. v = 0
    BY <1>5, <2>8, <2>9
  <2> QED BY <2>10
<1>8. v = 0
  <2> HIDE DEF v
  <2> QED BY <1>6, <1>7
<1> QED
  BY <1>8, Zenon DEF s

LEMMA Base17Exact ==
    ASSUME NEW bytes \in Numbers
    PROVE  Len(Base17(bytes)) = Width /\ ValueIn(Base, Base17(bytes)) = ValueIn(ByteBase, bytes)
<1> DEFINE s == Divisions(bytes)
           digits == s.digits
           m == Width - Len(digits)
<1>1. Width \in Nat /\ Base \in Nat /\ Base > 0 /\ ByteBase \in Nat
  BY SizesAre
<1>2. s \in States /\ DividedOn(s, Width, bytes) /\ ValueFrom(0, ByteBase, s.num) = 0
  BY DivisionsAre, NothingIsLeft
<1>3. Base17(bytes) = Zeros(m) \o digits
  BY Base17Is, Zenon
<1>4. digits \in Seq(0 .. Base-1) /\ Len(digits) \in Nat /\ Len(digits) <= Width
  BY <1>2 DEF States, DividedOn
<1> HIDE DEF s
<1>5. digits \in Seq(Nat) /\ m \in Nat
  <2>1. 0 .. Base-1 \subseteq Nat
    BY <1>1
  <2> QED BY <1>1, <1>4, <2>1, WiderSeq
<1>6. ValueFrom(0, Base, digits) = ValueFrom(0, ByteBase, bytes)
  BY <1>2, Zenon DEF DividedOn
<1> HIDE DEF digits
<1>7. Len(Zeros(m) \o digits) = Width
  <2>1. Zeros(m) \in Seq(Nat) /\ Len(Zeros(m)) = m
    <3> HIDE DEF m
    <3> QED BY <1>5 DEF Zeros
  <2> QED BY <1>1, <1>5, <2>1
<1> HIDE DEF m
<1>8. ValueFrom(0, Base, Zeros(m) \o digits) = ValueFrom(0, Base, digits)
  BY <1>1, <1>5, ValueOfZeros
<1>9. Len(Base17(bytes)) = Width /\ ValueFrom(0, Base, Base17(bytes)) = ValueFrom(0, ByteBase, bytes)
  BY <1>3, <1>6, <1>7, <1>8
<1> QED
  BY <1>9, ValueIsFrom, Zenon

-----------------------------------------------------------------------------
(* The calls. *)

OneTimeInv ==
    \/ call = NoCall
    \/ \E hash \in Strings, chains \in Versions17 : call = SignCall(hash, chains)
    \/ \E bytes \in Numbers : call = [fn |-> "base17", bytes |-> bytes, digits |-> Base17(bytes)]

LEMMA OneTimeStepInv == OneTimeInv /\ [OneTimeNext \/ Return]_call => OneTimeInv'
<1> SUFFICES ASSUME OneTimeInv, [OneTimeNext \/ Return]_call PROVE OneTimeInv'
  OBVIOUS
<1>1. CASE SignHash
  <2>1. PICK hash \in Strings, chains \in Versions17 : call' = SignCall(hash, chains)
    BY <1>1, Zenon DEF SignHash, SignCall, Made
  <2> QED BY <2>1 DEF OneTimeInv
<1>2. CASE ConvertHash
  <2>1. PICK bytes \in Numbers : call' = [fn |-> "base17", bytes |-> bytes, digits |-> Base17(bytes)]
    BY <1>2, Zenon DEF ConvertHash, Made, Numbers, Bytes
  <2> QED BY <2>1 DEF OneTimeInv
<1>3. CASE Return
  BY <1>3 DEF Return, OneTimeInv
<1>4. CASE UNCHANGED call
  BY <1>4 DEF OneTimeInv
<1> QED
  BY <1>1, <1>2, <1>3, <1>4 DEF OneTimeNext

LEMMA OneTimeSound == OneTimeInv => SignatureIsOfTheHash
<1>1. CASE call = NoCall
  BY <1>1 DEF NoCall, SignatureIsOfTheHash, Base17IsExact, SignatureReachesAddress,
              SignatureIsOfItsDigits, IsSignature
<1>2. ASSUME NEW hash \in Strings, NEW chains \in Versions17, call = SignCall(hash, chains)
      PROVE  SignatureIsOfTheHash
  BY <1>2, SignHolds
<1>3. ASSUME NEW bytes \in Numbers, call = [fn |-> "base17", bytes |-> bytes, digits |-> Base17(bytes)]
      PROVE  SignatureIsOfTheHash
  <2>1. call.fn = "base17" /\ call.bytes = bytes /\ call.digits = Base17(bytes)
    BY <1>3
  <2>2. call.fn # "sign"
    BY <2>1
  <2>3. Base17IsExact
    BY <2>1, Base17Exact DEF Base17IsExact
  <2> QED BY <2>2, <2>3 DEF SignatureIsOfTheHash, SignatureReachesAddress, SignatureIsOfItsDigits, IsSignature
<1> QED
  BY <1>1, <1>2, <1>3 DEF OneTimeInv

\* For any width, base and hash: its text is its value, written whole; its digits balance;
\* a signature over them leads to the address, and is one over no other digits.
THEOREM SignatureIsAlwaysOfTheHash == OneTimeSpec => []SignatureIsOfTheHash
<1>1. call = NoCall => OneTimeInv
  BY DEF OneTimeInv
<1> QED
  BY <1>1, OneTimeStepInv, OneTimeSound, PTL DEF OneTimeSpec

=============================================================================
