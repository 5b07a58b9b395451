--------------------------- MODULE Molecule_proof ---------------------------
(***************************************************************************)
(* What holds of the molecule for every value of the constants: any atom   *)
(* limit, any wallets, any amounts, any number of calls.                   *)
(***************************************************************************)
EXTENDS Molecule, FoldTheorems, TLAPS, FiniteSetTheorems

\* s is a sequence of atoms.
AtomSeq(s) ==
    /\ Len(s) \in Nat
    /\ DOMAIN s = 1 .. Len(s)
    /\ s = [i \in 1 .. Len(s) |-> s[i]]
    /\ \A i \in DOMAIN s : IsAtom(s[i])

LEMMA TypedIsAtomSeq ==
    ASSUME NEW s \in Seq(AtomType)
    PROVE  AtomSeq(s)
<1>1. \A a \in AtomType : IsAtom(a)
  BY DEF AtomType, IsAtom
<1>2. Len(s) \in Nat /\ DOMAIN s = 1 .. Len(s) /\ s = [i \in 1 .. Len(s) |-> s[i]]
      /\ \A i \in DOMAIN s : s[i] \in AtomType
  OBVIOUS
<1> QED
  BY <1>1, <1>2 DEF AtomSeq

-----------------------------------------------------------------------------
(* Places. *)

\* The k-th of the first K places is place k.
LEMMA NthOfFirst ==
    ASSUME NEW K \in Nat, NEW k \in 1 .. K
    PROVE  Nth(1 .. K, k) = k
<1>1. ASSUME NEW i \in 1 .. K PROVE Cardinality({j \in 1 .. K : j <= i}) = i
  <2>1. {j \in 1 .. K : j <= i} = 1 .. i
    OBVIOUS
  <2>2. Cardinality(1 .. i) = i
    BY FS_Interval
  <2> QED
    BY <2>1, <2>2
<1> QED
  BY <1>1 DEF Nth

\* Two places have two ranks.
LEMMA Ranks ==
    ASSUME NEW I \in SUBSET Nat, IsFiniteSet(I)
    PROVE  /\ \A i \in I : Cardinality({j \in I : j <= i}) \in 1 .. Cardinality(I)
           /\ \A i, h \in I :
                Cardinality({j \in I : j <= i}) = Cardinality({j \in I : j <= h}) => i = h
<1> DEFINE upTo(i) == {j \in I : j <= i}
           C == Cardinality(I)
<1>1. C \in Nat
  BY FS_CardinalityType
<1>2. ASSUME NEW i \in I
      PROVE  /\ IsFiniteSet(upTo(i)) /\ upTo(i) \subseteq I /\ i \in upTo(i)
             /\ Cardinality(upTo(i)) \in 1 .. C
  <2>1. upTo(i) \subseteq I /\ i \in upTo(i)
    OBVIOUS
  <2>2. IsFiniteSet(upTo(i)) /\ Cardinality(upTo(i)) <= C
    BY <2>1, FS_Subset
  <2>3. Cardinality(upTo(i)) \in Nat /\ Cardinality(upTo(i)) # 0
    BY <2>1, <2>2, FS_EmptySet, FS_CardinalityType
  <2> HIDE DEF upTo, C
  <2> QED
    BY <1>1, <2>1, <2>2, <2>3
<1>3. ASSUME NEW i \in I, NEW h \in I, i < h PROVE Cardinality(upTo(i)) # Cardinality(upTo(h))
  <2>0. i \in Nat /\ h \in Nat /\ \A j \in I : j \in Nat
    OBVIOUS
  <2>1. upTo(i) \subseteq upTo(h) /\ h \in upTo(h) /\ h \notin upTo(i)
    <3>1. (\A j \in I : j <= i => j <= h) /\ h <= h /\ ~(h <= i)
      BY <1>3, <2>0
    <3> QED
      BY <3>1, Zenon
  <2> HIDE DEF upTo
  <2> QED
    BY <1>2, <2>1, FS_Subset
<1>4. ASSUME NEW i \in I, NEW h \in I, Cardinality(upTo(i)) = Cardinality(upTo(h)) PROVE i = h
  <2>1. i < h \/ h < i \/ i = h
    OBVIOUS
  <2> HIDE DEF upTo
  <2> QED
    BY <1>3, <1>4, <2>1
<1> QED
  BY <1>2, <1>4

\* Each of the first Cardinality(I) numbers is the rank of a place in I.
LEMMA NthIsIn ==
    ASSUME NEW I \in SUBSET Nat, IsFiniteSet(I), NEW k \in 1 .. Cardinality(I)
    PROVE  /\ Nth(I, k) \in I
           /\ Cardinality({j \in I : j <= Nth(I, k)}) = k
<1> DEFINE upTo(i) == {j \in I : j <= i}
           rank == [i \in I |-> Cardinality(upTo(i))]
           C == Cardinality(I)
<1>1. C \in Nat
  BY FS_CardinalityType
<1>2. rank \in Injection(I, 1 .. C)
  <2>1. rank \in [I -> 1 .. C] /\ \A i, h \in I : rank[i] = rank[h] => i = h
    BY Ranks
  <2> HIDE DEF rank, C
  <2> QED
    BY <2>1 DEF Injection, IsInjective
<1>3. IsFiniteSet(1 .. C) /\ Cardinality(1 .. C) = C
  BY <1>1, FS_Interval
<1>4. rank \in Surjection(I, 1 .. C)
  <2> HIDE DEF rank
  <2> QED
    BY <1>2, <1>3, FS_Injection DEF C
<1>5. \E i \in I : rank[i] = k
  <2> HIDE DEF rank
  <2> QED
    BY <1>4 DEF Surjection, C
<1>6. \E i \in I : Cardinality(upTo(i)) = k
  BY <1>5
<1> QED
  BY <1>6 DEF Nth

\* Each place in I is the k-th for some k.
LEMMA EachIsNth ==
    ASSUME NEW I \in SUBSET Nat, IsFiniteSet(I), NEW i \in I
    PROVE  \E k \in 1 .. Cardinality(I) : Nth(I, k) = i
<1> DEFINE upTo(h) == {j \in I : j <= h}
           k == Cardinality(upTo(i))
<1>1. k \in 1 .. Cardinality(I)
  BY Ranks
<1>2. Nth(I, k) \in I /\ Cardinality(upTo(Nth(I, k))) = k
  <2> HIDE DEF k
  <2> QED
    BY <1>1, NthIsIn
<1>3. \A h \in I : Cardinality(upTo(h)) = Cardinality(upTo(i)) => h = i
  BY Ranks
<1> HIDE DEF upTo
<1>4. Nth(I, k) = i
  BY <1>2, <1>3
<1> QED
  BY <1>1, <1>4

\* The first place in I is the least.
LEMMA FirstIsLeast ==
    ASSUME NEW I \in SUBSET Nat, IsFiniteSet(I), I # {}
    PROVE  /\ 1 \in 1 .. Cardinality(I)
           /\ Nth(I, 1) \in I
           /\ \A j \in I : Nth(I, 1) <= j
<1>1. 1 \in 1 .. Cardinality(I)
  <2>1. Cardinality(I) \in Nat
    BY FS_CardinalityType
  <2>2. Cardinality(I) # 0
    BY FS_EmptySet
  <2> QED
    BY <2>1, <2>2
<1> DEFINE p == Nth(I, 1)
           U == {j \in I : j <= p}
<1>2. p \in I /\ Cardinality(U) = 1
  BY <1>1, NthIsIn
<1>3. p \in U
  <2>1. p \in Nat
    BY <1>2
  <2> HIDE DEF p
  <2> QED
    BY <1>2, <2>1
<1>4. IsFiniteSet(U)
  BY FS_Subset
<1>5. U = {p}
  <2> HIDE DEF U, p
  <2> QED
    BY <1>2, <1>3, <1>4, FS_Singleton
<1>6. ASSUME NEW j \in I PROVE p <= j
  <2>1. j \notin U \/ j = p
    BY <1>5
  <2> HIDE DEF p
  <2> QED
    BY <1>2, <2>1 DEF U
<1> QED
  BY <1>1, <1>2, <1>6

-----------------------------------------------------------------------------
(* What the builders create. *)

\* An atom as knishio_atom_create and the setters leave it has no fragment.
IsNew(a)  == a \in AtomType /\ a.frag = NoFrag
NewSeq(s) == s \in Seq(AtomType) /\ \A i \in DOMAIN s : IsNew(s[i])

LEMMA PairIsTyped ==
    ASSUME NEW x \in Texts, NEW y \in Texts
    PROVE  <<x, y>> \in Texts \X Texts
  OBVIOUS

LEMMA NewAtomIsNew ==
    ASSUME NEW iso \in Isotopes, NEW addr \in AddressType, NEW token \in Texts,
           NEW value \in Int \cup {NotANumber}, NEW batch \in Texts \cup {NoBatch}
    PROVE  IsNew(NewAtom(iso, addr, token, value, batch))
<1>1. "" \in Texts
  BY LiteralsAssumption, Zenon
<1>2. {} \in SUBSET (Texts \X Texts)
  BY Zenon
<1>3. <<>> \in Seq(Texts) /\ -1 \in Int
  OBVIOUS
<1> QED
  BY <1>1, <1>2, <1>3 DEF IsNew, NewAtom, AtomType

LEMMA DecoratedIsNew ==
    ASSUME NEW a, IsNew(a)
    PROVE  /\ \A x \in Texts : IsNew(ToBundle(a, x))
           /\ \A x \in Seq(Texts) : IsNew(WithUnits(a, x))
           /\ \A x \in SUBSET (Texts \X Texts) : IsNew(WithMeta(a, x))
           /\ IsNew([a EXCEPT !.batch = NoBatch])
  BY DEF IsNew, AtomType, ToBundle, WithUnits, WithMeta

LEMMA TupleIsNewSeq ==
    ASSUME NEW a, IsNew(a), NEW b, IsNew(b), NEW c, IsNew(c), NEW d, IsNew(d)
    PROVE  NewSeq(<<a>>) /\ NewSeq(<<a, b>>) /\ NewSeq(<<a, b, c>>) /\ NewSeq(<<a, b, c, d>>)
  BY DEF NewSeq, IsNew

LEMMA RefusedIsNewSeq == ASSUME NEW err PROVE NewSeq(Refused(err).atoms)
  BY DEF NewSeq, Refused

LEMMA WalletIsTyped ==
    ASSUME NEW w \in WalletType
    PROVE  /\ w.addr \in AddressType /\ w.addr.pos \in Texts /\ w.token \in Texts
           /\ w.bundle \in Texts /\ w.balance \in Int /\ w.batch \in Texts \cup {NoBatch}
           /\ w.units \in Seq(Texts)
  BY DEF WalletType, AddressType

LEMMA AmountsAreTyped ==
    ASSUME NEW w \in WalletType, NEW n \in Int
    PROVE  /\ IntBalance(w) \in Int /\ Minus(IntBalance(w)) \in Int \cup {NotANumber}
           /\ Remainder(w, n) \in Int
<1>1. \A x \in Int : CastInt(x) \in Int /\ Minus(x) \in Int \cup {NotANumber} /\ WrapInt(x) \in Int
  BY IntMaxAssumption DEF CastInt, Minus, WrapInt
<1>2. IntBalance(w) \in Int
  BY <1>1, WalletIsTyped DEF IntBalance
<1>3. IntBalance(w) - n \in Int
  BY <1>2
<1> QED
  BY <1>1, <1>2, <1>3 DEF Remainder

LEMMA WalletAtomsAreNew ==
    ASSUME NEW iso \in Isotopes, NEW w \in WalletType, NEW v \in Int \cup {NotANumber}
    PROVE  /\ IsNew(WalletAtom(iso, w, v))
           /\ IsNew(Debit(iso, w))
           /\ IsNew(Credit(iso, w, v))
<1>1. \A x \in Int \cup {NotANumber} : IsNew(WalletAtom(iso, w, x))
  BY NewAtomIsNew, WalletIsTyped DEF WalletAtom
<1>2. IsNew(Debit(iso, w))
  <2>1. Minus(IntBalance(w)) \in Int \cup {NotANumber}
    BY AmountsAreTyped, 0 \in Int
  <2> QED
    BY <1>1, <2>1, DecoratedIsNew, WalletIsTyped DEF Debit
<1>3. IsNew(Credit(iso, w, v))
  <2>1. IsNew(ToBundle(WalletAtom(iso, w, v), w.bundle))
    BY <1>1, DecoratedIsNew, WalletIsTyped
  <2> QED
    BY <2>1, DecoratedIsNew, WalletIsTyped DEF Credit
<1> QED
  BY <1>1, <1>2, <1>3

LEMMA WalletMetaIsTyped ==
    ASSUME NEW w \in WalletType
    PROVE  WalletMeta(w) \in SUBSET (Texts \X Texts)
<1>1. /\ <<"walletTokenSlug", w.token>> \in Texts \X Texts
      /\ <<"walletBundleHash", w.bundle>> \in Texts \X Texts
      /\ <<"walletPosition", w.addr.pos>> \in Texts \X Texts
  BY LiteralsAssumption, WalletIsTyped, PairIsTyped
<1> QED
  BY <1>1, Zenon DEF WalletMeta

\* The token units a fusion moves.
LEMMA ThoseAreTyped ==
    ASSUME NEW units \in Seq(Texts), NEW set
    PROVE  Those(units, set) \in Seq(Texts)
<1> DEFINE I == {i \in DOMAIN units : units[i] \in set}
           C == Cardinality(I)
<1>1. I \in SUBSET (1 .. Len(units)) /\ Len(units) \in Nat
  OBVIOUS
<1>2. IsFiniteSet(I) /\ C \in Nat
  <2> HIDE DEF I
  <2>1. IsFiniteSet(1 .. Len(units))
    BY <1>1, FS_Interval
  <2> QED
    BY <1>1, <2>1, FS_Subset, FS_CardinalityType
<1>3. ASSUME NEW k \in 1 .. C PROVE units[Nth(I, k)] \in Texts
  <2>1. Nth(I, k) \in I
    <3>1. I \in SUBSET Nat
      BY <1>1
    <3> HIDE DEF I
    <3> QED
      BY <1>2, <1>3, <3>1, NthIsIn
  <2> QED
    BY <1>1, <2>1
<1> HIDE DEF I, C
<1>4. At(units, I) = [k \in 1 .. C |-> units[Nth(I, k)]]
  BY DEF At, C
<1>5. At(units, I) \in Seq(Texts)
  BY <1>2, <1>3, <1>4
<1> QED
  BY <1>5 DEF Those, I

LEMMA ThenContinuIdIsNew ==
    ASSUME NEW first, IsNew(first), NEW src \in WalletType, NEW rem \in WalletType \cup {NoWallet}
    PROVE  NewSeq(ThenContinuId(first, src, rem).atoms)
<1>1. CASE rem = NoWallet
  BY <1>1, TupleIsNewSeq DEF ThenContinuId
<1>2. CASE rem \in WalletType
  <2>1. 0 \in Int \cup {NotANumber} /\ "I" \in Isotopes
    BY DEF Isotopes
  <2>2. IsNew(NewAtom("I", rem.addr, rem.token, 0, NoBatch))
    BY <1>2, <2>1, NewAtomIsNew, WalletIsTyped
  <2>3. <<"previousPosition", src.addr.pos>> \in Texts \X Texts
    BY LiteralsAssumption, WalletIsTyped, PairIsTyped
  <2>4. IsNew(ContinuIdAtom(src, rem))
    <3>1. {<<"previousPosition", src.addr.pos>>} \in SUBSET (Texts \X Texts)
      BY <2>3, Zenon
    <3>2. IsNew(ToBundle(NewAtom("I", rem.addr, rem.token, 0, NoBatch), rem.bundle))
      BY <1>2, <2>2, DecoratedIsNew, WalletIsTyped
    <3> QED
      BY <3>1, <3>2, DecoratedIsNew DEF ContinuIdAtom
  <2>5. rem # NoWallet
    BY <1>2, AbsentAssumption
  <2> QED
    BY <2>4, <2>5, TupleIsNewSeq DEF ThenContinuId, Built
<1> QED
  BY <1>1, <1>2

\* Every builder creates atoms, whatever it is called with.
LEMMA UserBuildersCreateNew ==
    ASSUME NEW src \in WalletType \cup {NoWallet}, NEW rem \in WalletType \cup {NoWallet},
           NEW w \in WalletType, NEW n \in Int
    PROVE  /\ \A m \in SUBSET (Texts \X Texts) : NewSeq(InitMeta(src, rem, m).atoms)
           /\ NewSeq(InitAuthorization(src, rem, "false").atoms)
           /\ NewSeq(InitTokenCreation(src, rem, w, n).atoms)
           /\ NewSeq(InitWalletCreation(src, rem, w, {}).atoms)
           /\ NewSeq(InitShadowWalletClaim(src, rem, w).atoms)
           /\ \A us \in Seq(Texts) : NewSeq(InitReplenish(src, rem, w, n, us).atoms)
<1>1. /\ w.batch \in Texts \cup {NoBatch} /\ WalletMeta(w) \in SUBSET (Texts \X Texts)
      /\ 0 \in Int /\ NoBatch \in Texts \cup {NoBatch}
      /\ {"M", "U", "C"} \subseteq Isotopes
  BY WalletIsTyped, WalletMetaIsTyped DEF Isotopes
<1>2. ASSUME src # NoWallet, NEW iso \in {"M", "U", "C"}, NEW v \in Int,
             NEW batch \in Texts \cup {NoBatch}, NEW m \in SUBSET (Texts \X Texts)
      PROVE  /\ src \in WalletType
             /\ IsNew(WithMeta(NewAtom(iso, src.addr, src.token, v, batch), m))
  <2>1. src \in WalletType /\ iso \in Isotopes /\ v \in Int \cup {NotANumber}
    BY <1>1, <1>2
  <2>2. IsNew(NewAtom(iso, src.addr, src.token, v, batch))
    BY <2>1, NewAtomIsNew, WalletIsTyped
  <2> QED
    BY <2>1, <2>2, DecoratedIsNew
<1>3. ASSUME NEW m \in SUBSET (Texts \X Texts) PROVE NewSeq(InitMeta(src, rem, m).atoms)
  BY <1>1, <1>2, ThenContinuIdIsNew, RefusedIsNewSeq DEF InitMeta
<1>4. NewSeq(InitAuthorization(src, rem, "false").atoms)
  <2>1. <<"encrypt", "false">> \in Texts \X Texts
    BY LiteralsAssumption, PairIsTyped
  <2>2. {<<"encrypt", "false">>} \in SUBSET (Texts \X Texts)
    BY <2>1, Zenon
  <2> QED
    BY <1>1, <1>2, <2>2, ThenContinuIdIsNew, RefusedIsNewSeq DEF InitAuthorization
<1>5. NewSeq(InitTokenCreation(src, rem, w, n).atoms)
  BY <1>1, <1>2, ThenContinuIdIsNew, RefusedIsNewSeq DEF InitTokenCreation
<1>6. ASSUME NEW lead \in SUBSET (Texts \X Texts)
      PROVE  NewSeq(InitWalletCreation(src, rem, w, lead).atoms)
  <2>1. lead \cup WalletMeta(w) \in SUBSET (Texts \X Texts)
    BY <1>1, Zenon
  <2> QED
    BY <1>1, <1>2, <2>1, ThenContinuIdIsNew, RefusedIsNewSeq DEF InitWalletCreation
<1>7. NewSeq(InitWalletCreation(src, rem, w, {}).atoms)
  <2>1. {} \in SUBSET (Texts \X Texts)
    BY Zenon
  <2> QED
    BY <1>6, <2>1
<1>8. NewSeq(InitShadowWalletClaim(src, rem, w).atoms)
  <2>1. <<"shadowWalletClaim", "1">> \in Texts \X Texts
    BY LiteralsAssumption, PairIsTyped
  <2>2. {<<"shadowWalletClaim", "1">>} \in SUBSET (Texts \X Texts)
    BY <2>1, Zenon
  <2> QED
    BY <1>6, <2>2 DEF InitShadowWalletClaim
<1>9. ASSUME NEW us \in Seq(Texts) PROVE NewSeq(InitReplenish(src, rem, w, n, us).atoms)
  <2> DEFINE value == IF us = <<>> THEN n ELSE Len(us)
             meta  == {<<"action", "add">>} \cup WalletMeta(w)
             atom  == WithUnits(WithMeta(NewAtom("C", src.addr, src.token, value, w.batch),
                                         meta), us)
  <2>1. value \in Int
    OBVIOUS
  <2>2. meta \in SUBSET (Texts \X Texts)
    <3>1. <<"action", "add">> \in Texts \X Texts
      BY LiteralsAssumption, PairIsTyped
    <3> QED
      BY <1>1, <3>1, Zenon
  <2> HIDE DEF value, meta
  <2>3. src # NoWallet => src \in WalletType /\ IsNew(atom)
    BY <1>1, <1>2, <2>1, <2>2, DecoratedIsNew
  <2> HIDE DEF atom
  <2>4. src # NoWallet => NewSeq(ThenContinuId(atom, src, rem).atoms)
    BY <2>3, ThenContinuIdIsNew
  <2>5. src # NoWallet => \/ InitReplenish(src, rem, w, n, us) = ThenContinuId(atom, src, rem)
                          \/ \E err : InitReplenish(src, rem, w, n, us) = Refused(err)
    BY Zenon DEF InitReplenish, atom, value, meta
  <2>6. src = NoWallet => InitReplenish(src, rem, w, n, us) = Refused("INVALID_STATE")
    BY DEF InitReplenish
  <2> QED
    BY <2>4, <2>5, <2>6, RefusedIsNewSeq
<1> QED
  BY <1>3, <1>4, <1>5, <1>7, <1>8, <1>9

LEMMA ValueBuildersCreateNew ==
    ASSUME NEW src \in WalletType \cup {NoWallet}, NEW rem \in WalletType \cup {NoWallet},
           NEW w \in WalletType, NEW n \in Int, NEW ids \in Seq(Texts), NEW id \in Texts
    PROVE  /\ NewSeq(InitValue(src, rem, w, n).atoms)
           /\ NewSeq(InitDepositBuffer(src, rem, w, n).atoms)
           /\ NewSeq(InitWithdrawBuffer(src, rem, w, n).atoms)
           /\ NewSeq(InitBurn(src, rem, n).atoms)
           /\ NewSeq(InitFuseToken(src, rem, w, ids, id).atoms)
<1>0. CASE src = NoWallet
  BY <1>0, RefusedIsNewSeq
  DEF InitValue, InitDepositBuffer, InitWithdrawBuffer, InitBurn, InitFuseToken, BufferRefusal
<1>1. CASE rem = NoWallet /\ src # NoWallet
  <2>1. "V" \in Isotopes /\ n \in Int \cup {NotANumber}
    BY DEF Isotopes
  <2>2. NewSeq(InitValue(src, rem, w, n).atoms)
    BY <1>1, <2>1, WalletAtomsAreNew, TupleIsNewSeq, RefusedIsNewSeq DEF InitValue, Built
  <2> QED
    BY <1>1, <2>2, RefusedIsNewSeq
    DEF InitDepositBuffer, InitWithdrawBuffer, InitBurn, InitFuseToken, BufferRefusal
<1>2. ASSUME src \in WalletType, rem \in WalletType
      PROVE  /\ NewSeq(InitValue(src, rem, w, n).atoms)
             /\ NewSeq(InitDepositBuffer(src, rem, w, n).atoms)
             /\ NewSeq(InitWithdrawBuffer(src, rem, w, n).atoms)
             /\ NewSeq(InitBurn(src, rem, n).atoms)
             /\ NewSeq(InitFuseToken(src, rem, w, ids, id).atoms)
  <2> DEFINE debit == Minus(IntBalance(src))
  <2>1. /\ {"V", "B", "F"} \subseteq Isotopes /\ n \in Int \cup {NotANumber}
        /\ debit \in Int \cup {NotANumber} /\ NoBatch \in Texts \cup {NoBatch}
        /\ \A k \in Int : Remainder(src, k) \in Int \cup {NotANumber}
    BY <1>2, AmountsAreTyped DEF Isotopes
  <2>2. \A iso \in {"V", "B", "F"}, x \in WalletType, v \in Int \cup {NotANumber} :
            /\ IsNew(WalletAtom(iso, x, v)) /\ IsNew(Debit(iso, x)) /\ IsNew(Credit(iso, x, v))
    BY <2>1, WalletAtomsAreNew
  <2>3. \A x \in WalletType : \A a : IsNew(a) => IsNew(ToBundle(a, x.bundle))
    BY DecoratedIsNew, WalletIsTyped
  <2>4. \A a : IsNew(a) => IsNew([a EXCEPT !.batch = NoBatch]) /\ IsNew(ToBundle(a, ZeroBundle))
    BY DecoratedIsNew, LiteralsAssumption DEF ZeroBundle
  <2>5. \A x \in WalletType, iso \in {"V", "B", "F"}, v \in Int \cup {NotANumber},
          batch \in Texts \cup {NoBatch} : IsNew(NewAtom(iso, x.addr, src.token, v, batch))
    BY <1>2, <2>1, NewAtomIsNew, WalletIsTyped
  <2>6. \A v \in Int \cup {NotANumber}, batch \in Texts \cup {NoBatch} :
            IsNew(NewAtom("V", NoAddress, src.token, v, batch))
    <3>1. NoAddress \in AddressType
      BY LiteralsAssumption DEF NoAddress, AddressType
    <3> QED
      BY <1>2, <2>1, <3>1, NewAtomIsNew, WalletIsTyped
  <2> HIDE DEF debit
  <2>7. NewSeq(InitValue(src, rem, w, n).atoms)
    <3>1. IsNew(Debit("V", src)) /\ IsNew(Credit("V", w, n))
          /\ IsNew(Credit("V", rem, Remainder(src, n)))
      BY <1>2, <2>1, <2>2
    <3> QED
      BY <3>1, TupleIsNewSeq, RefusedIsNewSeq DEF InitValue, Built
  <2>8. NewSeq(InitDepositBuffer(src, rem, w, n).atoms)
    <3>1. /\ IsNew(WalletAtom("V", src, debit)) /\ IsNew(ToBundle(WalletAtom("B", w, n), src.bundle))
          /\ IsNew(ToBundle(WalletAtom("V", rem, Remainder(src, n)), src.bundle))
      BY <1>2, <2>1, <2>2, <2>3
    <3> QED
      BY <3>1, TupleIsNewSeq, RefusedIsNewSeq DEF InitDepositBuffer, Built, debit
  <2>9. NewSeq(InitWithdrawBuffer(src, rem, w, n).atoms)
    <3>1. /\ IsNew(ToBundle(Debit("B", src), src.bundle))
          /\ IsNew(ToBundle(NewAtom("V", w.addr, src.token, n, w.batch), w.bundle))
          /\ IsNew(ToBundle(WalletAtom("B", rem, Remainder(src, n)), rem.bundle))
      BY <1>2, <2>1, <2>2, <2>3, <2>5, WalletIsTyped
    <3> QED
      BY <3>1, TupleIsNewSeq, RefusedIsNewSeq DEF InitWithdrawBuffer, Built
  <2>10. NewSeq(InitBurn(src, rem, n).atoms)
    <3>1. /\ IsNew([Debit("V", src) EXCEPT !.batch = NoBatch])
          /\ IsNew(ToBundle(NewAtom("V", NoAddress, src.token, n, NoBatch), ZeroBundle))
          /\ IsNew([Credit("V", rem, Remainder(src, n)) EXCEPT !.batch = NoBatch])
      BY <1>2, <2>1, <2>2, <2>4, <2>6
    <3> QED
      BY <3>1, TupleIsNewSeq, RefusedIsNewSeq DEF InitBurn, Built
  <2>11. NewSeq(InitFuseToken(src, rem, w, ids, id).atoms)
    <3> DEFINE sent == Those(src.units, ToSet(ids))
               kept == Those(src.units, ToSet(src.units) \ ToSet(ids))
               burnt == FreshBatch(src, "burnBatch")
               fused == FreshBatch(src, "fusionBatch")
               rest == Remainder(src, Len(ids))
               a1 == WithUnits(WalletAtom("V", src, debit), sent)
               a2 == WithUnits(ToBundle(NewAtom("V", NoAddress, src.token, Len(ids) - 1, burnt),
                                        ZeroBundle), Front(ids))
               a3 == WithUnits(ToBundle(NewAtom("F", w.addr, src.token, 1, fused), w.bundle), <<id>>)
               a4 == WithUnits(ToBundle(NewAtom("V", rem.addr, src.token, rest, src.batch),
                                        rem.bundle), kept)
    <3>1. sent \in Seq(Texts) /\ kept \in Seq(Texts) /\ <<id>> \in Seq(Texts)
      BY <1>2, WalletIsTyped, ThoseAreTyped
    <3>2. Len(ids) \in Nat /\ (Len(ids) >= 2 => Front(ids) \in Seq(Texts))
      BY DEF Front
    <3>3. burnt \in Texts \cup {NoBatch} /\ fused \in Texts \cup {NoBatch}
      BY LiteralsAssumption DEF FreshBatch
    <3>4. rest \in Int \cup {NotANumber} /\ Len(ids) - 1 \in Int \cup {NotANumber}
          /\ 1 \in Int \cup {NotANumber}
      BY <2>1, <3>2
    <3> HIDE DEF sent, kept, burnt, fused, rest
    <3>5. IsNew(a1)
      BY <1>2, <2>1, <2>2, <3>1, DecoratedIsNew
    <3>6. Len(ids) >= 2 => IsNew(a2)
      BY <2>4, <2>6, <3>2, <3>3, <3>4, DecoratedIsNew
    <3>7. IsNew(a3)
      BY <2>3, <2>5, <3>1, <3>3, <3>4, DecoratedIsNew
    <3>8. IsNew(a4)
      BY <1>2, <2>3, <2>5, <3>1, <3>4, DecoratedIsNew, WalletIsTyped
    <3>9. \/ FusionRefused(src, ids, id) /\ InitFuseToken(src, rem, w, ids, id) = Refused("TRANSFER_BALANCE")
          \/ \E err : InitFuseToken(src, rem, w, ids, id) = Refused(err)
          \/ /\ ~FusionRefused(src, ids, id)
             /\ InitFuseToken(src, rem, w, ids, id) = Built(<<a1, a2, a3, a4>>)
      BY Zenon DEF InitFuseToken, debit, sent, kept, burnt, fused, rest
    <3>10. ~FusionRefused(src, ids, id) => Len(ids) >= 2
      <4>1. ~FusionRefused(src, ids, id) => ~(Len(ids) < 2)
        BY Zenon DEF FusionRefused
      <4> QED
        BY <3>2, <4>1
    <3> HIDE DEF a1, a2, a3, a4
    <3>11. ~FusionRefused(src, ids, id) => NewSeq(<<a1, a2, a3, a4>>)
      BY <3>5, <3>6, <3>7, <3>8, <3>10, TupleIsNewSeq
    <3>12. Built(<<a1, a2, a3, a4>>).atoms = <<a1, a2, a3, a4>>
      BY DEF Built
    <3> QED
      BY <3>9, <3>11, <3>12, RefusedIsNewSeq, Zenon
  <2> QED
    BY <2>7, <2>8, <2>9, <2>10, <2>11
<1> QED
  BY <1>0, <1>1, <1>2

\* The recipients before the first that is NULL.
Paid(rs) ==
    LET nulls == {i \in DOMAIN rs : rs[i] = NoWallet}
    IN  IF nulls = {} THEN Len(rs) ELSE Min(nulls) - 1

LEMMA PaidAreWallets ==
    ASSUME NEW v, NEW w
    PROVE  /\ Paid(<<v, w>>) \in 0 .. 2
           /\ \A i \in 2 .. Paid(<<v, w>>) + 1 : <<v, w>>[i - 1] # NoWallet
<1> DEFINE rs    == <<v, w>>
           nulls == {i \in DOMAIN rs : rs[i] = NoWallet}
           paid  == IF nulls = {} THEN Len(rs) ELSE Min(nulls) - 1
<1>1. nulls \subseteq {1, 2} /\ Len(rs) = 2 /\ DOMAIN rs = {1, 2}
  OBVIOUS
<1>2. ASSUME nulls # {} PROVE Min(nulls) \in nulls /\ \A y \in nulls : Min(nulls) <= y
  <2>1. \E x \in nulls : \A y \in nulls : x <= y
    BY <1>1, <1>2
  <2> QED
    BY <1>1, <2>1 DEF Min
<1>3. paid \in 0 .. 2
  BY <1>1, <1>2
<1>4. ASSUME NEW i \in 2 .. paid + 1 PROVE rs[i - 1] # NoWallet
  <2>1. i - 1 \in {1, 2} /\ i - 1 <= paid
    BY <1>3
  <2>2. i - 1 \notin nulls
    <3>1. CASE nulls = {}
      BY <3>1
    <3>2. CASE nulls # {}
      <4> DEFINE first == Min(nulls)
      <4>1. paid = first - 1 /\ first \in nulls /\ first \in {1, 2}
            /\ \A y \in nulls : first <= y
        BY <1>1, <1>2, <3>2
      <4> HIDE DEF first, paid, nulls
      <4>2. i - 1 < first
        BY <2>1, <4>1
      <4> QED
        BY <2>1, <4>1, <4>2
    <3> QED
      BY <3>1, <3>2
  <2> QED
    BY <1>1, <2>1, <2>2
<1>5. paid = Paid(rs)
  BY Zenon DEF Paid
<1> HIDE DEF paid
<1> QED
  BY <1>3, <1>4, <1>5

\* knishio_molecule_init_values with two recipients, either of them NULL.
LEMMA InitValuesCreatesNew ==
    ASSUME NEW src \in WalletType \cup {NoWallet}, NEW rem \in WalletType \cup {NoWallet},
           NEW v \in WalletType \cup {NoWallet}, NEW w \in WalletType \cup {NoWallet},
           NEW m \in Int, NEW n \in Int
    PROVE  NewSeq(InitValues(src, rem, <<v, w>>, <<m, n>>).atoms)
<1> DEFINE rs    == <<v, w>>
           ns    == <<m, n>>
           total == Total(ns)
           paid  == Paid(rs)
           atom(i) == IF i = 1 THEN Debit("V", src)
                      ELSE IF i <= paid + 1
                      THEN Credit("V", rs[i - 1], ns[i - 1])
                      ELSE Credit("V", rem, Remainder(src, total))
<1>1. /\ paid \in 0 .. 2
      /\ \A i \in 2 .. paid + 1 : rs[i - 1] # NoWallet
  BY PaidAreWallets
<1>2. total \in Int
  <2>1. IsFiniteSet(DOMAIN ns) /\ \A i \in DOMAIN ns : ns[i] \in Int
    <3>1. DOMAIN ns = 1 .. 2
      OBVIOUS
    <3>2. \A i \in 1 .. 2 : ns[i] \in Int
      OBVIOUS
    <3>3. IsFiniteSet(1 .. 2)
      <4>1. 1 \in Int /\ 2 \in Int
        OBVIOUS
      <4> QED
        BY <4>1, FS_Interval
    <3> HIDE DEF ns
    <3> QED
      BY <3>1, <3>2, <3>3
  <2> HIDE DEF ns
  <2>2. SumFunctionOnSet(ns, DOMAIN ns) \in Int
    BY <2>1, SumInt
  <2>3. \A x \in Int : WrapInt(x) \in Int
    BY IntMaxAssumption DEF WrapInt
  <2> QED
    BY <2>2, <2>3 DEF Total
<1> HIDE DEF total, paid
<1>3. ASSUME src \in WalletType, rem \in WalletType, NEW i \in 1 .. paid + 2 PROVE IsNew(atom(i))
  <2>1. "V" \in Isotopes /\ Remainder(src, total) \in Int \cup {NotANumber}
    BY <1>2, <1>3, AmountsAreTyped DEF Isotopes
  <2>2. IsNew(Debit("V", src)) /\ IsNew(Credit("V", rem, Remainder(src, total)))
    <3>1. 0 \in Int \cup {NotANumber}
      OBVIOUS
    <3> QED
      BY <1>3, <2>1, <3>1, WalletAtomsAreNew
  <2>3. CASE i # 1 /\ i <= paid + 1
    <3>1. i \in 2 .. paid + 1 /\ i - 1 \in {1, 2}
      BY <1>1, <2>3
    <3>2. rs[i - 1] \in WalletType \cup {NoWallet} /\ ns[i - 1] \in Int \cup {NotANumber}
      BY <3>1
    <3>3. rs[i - 1] \in WalletType
      BY <1>1, <3>1, <3>2
    <3> HIDE DEF rs, ns
    <3> QED
      BY <2>1, <2>3, <3>2, <3>3, WalletAtomsAreNew
  <2> QED
    BY <2>2, <2>3
<1> HIDE DEF atom, rs, ns
<1>4. ASSUME src \in WalletType, rem \in WalletType
      PROVE  /\ NewSeq([i \in 1 .. paid + 1 |-> atom(i)])
             /\ NewSeq([i \in 1 .. paid + 2 |-> atom(i)])
  <2>1. paid + 1 \in Nat /\ paid + 2 \in Nat /\ paid + 1 <= paid + 2
    BY <1>1
  <2>2. \A i \in 1 .. paid + 2 : IsNew(atom(i))
    BY <1>3, <1>4
  <2>3. \A i \in 1 .. paid + 1 : i \in 1 .. paid + 2
    BY <2>1
  <2> QED
    BY <2>1, <2>2, <2>3 DEF NewSeq, IsNew
<1>5. \/ \E err : InitValues(src, rem, rs, ns) = Refused(err)
      \/ /\ NoWallet \notin {src, rem}
         /\ \/ InitValues(src, rem, rs, ns).atoms = [i \in 1 .. paid + 1 |-> atom(i)]
            \/ InitValues(src, rem, rs, ns).atoms = [i \in 1 .. paid + 2 |-> atom(i)]
  BY Zenon DEF InitValues, Built, Paid, paid, atom, total
<1> QED
  BY <1>4, <1>5, RefusedIsNewSeq DEF rs, ns

-----------------------------------------------------------------------------
(* The fragments that are present. *)

Present(s) == {i \in DOMAIN s : s[i].frag # NoFrag}

LEMMA FragmentsAreThose ==
    ASSUME NEW s, AtomSeq(s)
    PROVE  /\ Present(s) \in SUBSET (1 .. Len(s)) /\ IsFiniteSet(Present(s))
           /\ Cardinality(Present(s)) \in Nat
           /\ Fragments(s) = [k \in 1 .. Cardinality(Present(s)) |-> s[Nth(Present(s), k)].frag]
           /\ Len(Fragments(s)) = Cardinality(Present(s))
<1>1. Present(s) \subseteq 1 .. Len(s)
  BY DEF Present, AtomSeq
<1>2. IsFiniteSet(Present(s)) /\ Cardinality(Present(s)) \in Nat
  <2>1. IsFiniteSet(1 .. Len(s))
    BY FS_Interval DEF AtomSeq
  <2> QED
    BY <1>1, <2>1, FS_Subset, FS_CardinalityType
<1> DEFINE C == Cardinality(Present(s))
<1>3. Fragments(s) = [k \in 1 .. C |-> s[Nth(Present(s), k)].frag]
  <2>1. At(s, Present(s)) = [k \in 1 .. C |-> s[Nth(Present(s), k)]]
    BY DEF At
  <2>2. Fragments(s) = [i \in DOMAIN At(s, Present(s)) |-> At(s, Present(s))[i].frag]
    BY Zenon DEF Fragments, Present
  <2> HIDE DEF C
  <2> QED
    BY <2>1, <2>2
<1> HIDE DEF C
<1>4. Len(Fragments(s)) = C
  BY <1>2, <1>3 DEF C
<1> QED
  BY <1>1, <1>2, <1>3, <1>4 DEF C

-----------------------------------------------------------------------------
(* How a signature is cut. *)

Chunk(n, len) == (len + n - 1) \div n

Piece(key, msg, enc, n, i) ==
    LET len == SigLen[key.ver][enc]
        c   == Chunk(n, len)
    IN  [key |-> key, msg |-> msg, enc |-> enc, from |-> (i - 1) * c + 1,
         to |-> IF i * c <= len THEN i * c ELSE len]

\* The pieces are as short as they can be and still hold the signature.
LEMMA ChunkHolds ==
    ASSUME NEW n \in Nat \ {0}, NEW len \in Nat, len > 1
    PROVE  /\ Chunk(n, len) \in Nat \ {0}
           /\ n * Chunk(n, len) >= len
           /\ n * (Chunk(n, len) - 1) < len
<1> DEFINE c == Chunk(n, len)
<1>1. c \in Int /\ n * c <= len + n - 1 /\ len + n - 1 < n * c + n
  BY DEF Chunk
<1> HIDE DEF c
<1>2. n * (c - 1) = n * c - n
  BY <1>1
<1>3. c > 0
  <2>1. n * c > 0
    BY <1>1
  <2> QED
    BY <1>1, <2>1
<1> QED
  BY <1>1, <1>2, <1>3 DEF c

LEMMA Product ==
    ASSUME NEW a \in Nat, NEW b \in Nat, NEW x \in Nat, a <= b
    PROVE  a * x <= b * x /\ x * a <= x * b
<1>1. a * x + (b - a) * x = b * x
  OBVIOUS
<1>2. (b - a) * x \in Nat
  OBVIOUS
<1>3. a * x \in Nat /\ b * x \in Nat /\ x * a = a * x /\ x * b = b * x
  OBVIOUS
<1> QED
  BY <1>1, <1>2, <1>3

\* More atoms, shorter pieces.
LEMMA ChunkShrinks ==
    ASSUME NEW m \in Nat \ {0}, NEW n \in Nat, m <= n, NEW len \in Nat, len > 1
    PROVE  Chunk(n, len) <= Chunk(m, len)
<1> DEFINE c == Chunk(m, len)
           d == Chunk(n, len)
<1>1. c \in Nat \ {0} /\ m * c >= len
  BY ChunkHolds
<1>2. d \in Nat \ {0} /\ n * (d - 1) < len
  BY ChunkHolds
<1> HIDE DEF c, d
<1>3. n * c >= len
  BY <1>1, Product
<1>4. CASE c < d
  <2>1. c <= d - 1 /\ d - 1 \in Nat
    BY <1>1, <1>2, <1>4
  <2>2. n * c <= n * (d - 1)
    BY <1>1, <2>1, Product
  <2>3. n * c \in Nat /\ n * (d - 1) \in Nat
    BY <1>1, <2>1
  <2> QED
    BY <1>2, <1>3, <2>2, <2>3
<1> QED
  BY <1>1, <1>2, <1>4 DEF c, d

\* One piece holds the whole signature only if there is one atom.
LEMMA ChunkIsPart ==
    ASSUME NEW n \in Nat, n > 1, NEW len \in Nat, len > 1
    PROVE  Chunk(n, len) < len
<1> DEFINE c == Chunk(n, len)
<1>1. c \in Nat \ {0} /\ n * (c - 1) < len
  BY ChunkHolds
<1> HIDE DEF c
<1>2. 2 * (c - 1) <= n * (c - 1)
  BY <1>1, Product
<1>3. n * (c - 1) \in Nat
  BY <1>1
<1> QED
  BY <1>1, <1>2, <1>3 DEF c

-----------------------------------------------------------------------------
(* The calls, by what they do to the array. *)

Placed(s) == \A i \in DOMAIN s : s[i].index = i - 1

\* IndexIsPlace alone is inductive only for an array of atoms; SignedIsCurrent
\* needs it, because sign numbers the fragments after sorting by index.
IInv == TypeOK /\ IndexIsPlace /\ SignedIsCurrent

\* Premise: the atoms a caller makes itself bring no fragment of a signature
\* (knishio_atom_set_ots_fragment could give them one).
LooseAtomsAreUnsigned == \A a \in LooseAtoms : a.frag = NoFrag

\* What TypeOK comes to, given what the constants are.
LEMMA TypedState ==
    ASSUME TypeOK
    PROVE  /\ source \in WalletType \cup {NoWallet} /\ remainder \in WalletType \cup {NoWallet}
           /\ source = NoWallet \/ source.ver \in 1 .. 2
           /\ secret \in Texts
           /\ AtomSeq(atoms)
           /\ \A i \in DOMAIN atoms : atoms[i] \in AtomType
           /\ Len(atoms) \in Nat /\ DOMAIN atoms = 1 .. Len(atoms)
           /\ atoms # <<>> => Len(atoms) # 0
<1>1. source \in WalletType \cup {NoWallet} /\ remainder \in WalletType \cup {NoWallet}
  BY WalletsAssumption DEF TypeOK
<1>2. source = NoWallet \/ source.ver \in 1 .. 2
  BY <1>1 DEF WalletType
<1>3. secret \in Texts
  BY InputsAssumption, LiteralsAssumption, Zenon DEF TypeOK, NoSecret
<1>4. AtomSeq(atoms)
  BY TypedIsAtomSeq DEF TypeOK
<1>5. /\ \A i \in DOMAIN atoms : atoms[i] \in AtomType
      /\ Len(atoms) \in Nat /\ DOMAIN atoms = 1 .. Len(atoms) /\ (atoms # <<>> => Len(atoms) # 0)
  BY DEF TypeOK
<1> QED
  BY <1>1, <1>2, <1>3, <1>4, <1>5

LEMMA InputsAreTyped ==
    /\ \A w \in Recipients : w \in WalletType \cup {NoWallet}
    /\ \A n \in Amounts : n \in Int
    /\ \A m \in Metas : m \in SUBSET (Texts \X Texts)
    /\ \A us \in UnitLists : us \in Seq(Texts)
    /\ \A id \in NewIds : id \in Texts
    /\ \A a \in LooseAtoms : a \in AtomType
    /\ \A p \in LateMetas : p \in Texts \X Texts
    /\ "false" \in Texts
    /\ {} \in SUBSET (Texts \X Texts)
<1>1. \A w \in Recipients : w \in WalletType \cup {NoWallet}
  BY WalletsAssumption, Zenon
<1>2. "false" \in Texts
  BY LiteralsAssumption, Zenon
<1>3. {} \in SUBSET (Texts \X Texts)
  BY Zenon
<1> QED
  BY <1>1, <1>2, <1>3, InputsAssumption, Zenon

LEMMA SomeInputs ==
    /\ \E w \in WalletType : TRUE
    /\ 0 \in Int /\ <<>> \in Seq(Texts) /\ "" \in Texts
<1>1. "" \in Texts
  BY LiteralsAssumption, Zenon
<1>2. /\ 0 \in Int /\ 0 \in Nat /\ 1 \in 1 .. 2 /\ <<>> \in Seq(Texts)
      /\ NoBatch \in Texts \cup {NoBatch}
  OBVIOUS
<1>3. [addr |-> NoAddress, token |-> "", bundle |-> "", ver |-> 1, balance |-> 0,
       batch |-> NoBatch, units |-> <<>>] \in WalletType
  BY <1>1, <1>2 DEF WalletType, AddressType, NoAddress
<1> QED
  BY <1>1, <1>2, <1>3

LEMMA OneIsSeq == ASSUME NEW S, NEW a \in S PROVE <<a>> \in Seq(S)
  OBVIOUS

\* Every call that builds adds typed atoms; new ones, but for the caller's own.
Adds == \E new \in Seq(AtomType) :
            AddAtoms(new) /\ (LooseAtomsAreUnsigned => NewSeq(new))

LEMMA StepKinds ==
    ASSUME TypeOK, Next
    PROVE  Adds \/ CallAtomAddMeta \/ CallGenerateHash \/ CallSign \/ CallFromJson
<1>1. ASSUME NEW op, NEW built, NEW rules, NewSeq(built.atoms), Build(op, built, rules)
      PROVE  Adds
  BY <1>1 DEF Build, Adds, NewSeq
<1> USE InputsAreTyped, SomeInputs
<1>2. CASE \/ CallInitMeta \/ CallInitAuthorization
           \/ CallInitTokenCreation \/ CallInitWalletCreation
           \/ CallInitShadowWalletClaim \/ CallInitReplenish
  <2>1. CASE CallInitMeta
    BY <1>1, <2>1, TypedState, UserBuildersCreateNew DEF CallInitMeta
  <2>2. CASE CallInitAuthorization
    BY <1>1, <2>2, TypedState, UserBuildersCreateNew DEF CallInitAuthorization
  <2>3. CASE CallInitTokenCreation
    BY <1>1, <2>3, TypedState, UserBuildersCreateNew DEF CallInitTokenCreation
  <2>4. CASE CallInitWalletCreation
    BY <1>1, <2>4, TypedState, UserBuildersCreateNew DEF CallInitWalletCreation
  <2>5. CASE CallInitShadowWalletClaim
    BY <1>1, <2>5, TypedState, UserBuildersCreateNew DEF CallInitShadowWalletClaim
  <2>6. CASE CallInitReplenish
    BY <1>1, <2>6, TypedState, UserBuildersCreateNew DEF CallInitReplenish
  <2> QED
    BY <1>2, <2>1, <2>2, <2>3, <2>4, <2>5, <2>6
<1>3. CASE \/ CallInitValue \/ CallInitDepositBuffer \/ CallInitWithdrawBuffer
           \/ CallInitBurn \/ CallInitFuseToken
  <2>1. CASE CallInitValue
    BY <1>1, <2>1, TypedState, ValueBuildersCreateNew DEF CallInitValue
  <2>2. CASE CallInitDepositBuffer
    BY <1>1, <2>2, TypedState, ValueBuildersCreateNew DEF CallInitDepositBuffer
  <2>3. CASE CallInitWithdrawBuffer
    BY <1>1, <2>3, TypedState, ValueBuildersCreateNew DEF CallInitWithdrawBuffer
  <2>4. CASE CallInitBurn
    BY <1>1, <2>4, TypedState, ValueBuildersCreateNew DEF CallInitBurn
  <2>5. CASE CallInitFuseToken
    BY <1>1, <2>5, TypedState, ValueBuildersCreateNew DEF CallInitFuseToken
  <2> QED
    BY <1>3, <2>1, <2>2, <2>3, <2>4, <2>5
<1>4. CASE CallInitValues
  BY <1>1, <1>4, TypedState, InitValuesCreatesNew DEF CallInitValues
<1>5. CASE CallAddAtom
  <2>1. ASSUME NEW a \in LooseAtoms
        PROVE  <<a>> \in Seq(AtomType) /\ (LooseAtomsAreUnsigned => NewSeq(<<a>>))
    <3>1. a \in AtomType
      OBVIOUS
    <3>2. a.frag = NoFrag => IsNew(a)
      BY <3>1 DEF IsNew
    <3>3. IsNew(a) => NewSeq(<<a>>)
      BY TupleIsNewSeq
    <3>4. <<a>> \in Seq(AtomType)
      BY <3>1, OneIsSeq
    <3>5. LooseAtomsAreUnsigned => a.frag = NoFrag
      BY Zenon DEF LooseAtomsAreUnsigned
    <3> QED
      BY <3>2, <3>3, <3>4, <3>5, Zenon
  <2>2. PICK a \in LooseAtoms : AddAtoms(<<a>>)
    BY <1>5 DEF CallAddAtom, Build
  <2> QED
    BY <2>1, <2>2 DEF Adds
<1> QED
  BY <1>2, <1>3, <1>4, <1>5 DEF Next
\* An array numbered by place is in index order.
LEMMA PlacedIsSorted ==
    ASSUME NEW s, AtomSeq(s), \A i \in DOMAIN s : s[i].index = i - 1
    PROVE  SortByIndex(s) = s
<1>1. InIndexOrder(s)
  BY DEF InIndexOrder, AtomSeq
<1> QED
  BY <1>1, Zenon DEF SortByIndex

\* Spreading a signature over the atoms changes nothing that is hashed.
LEMMA DistributeKeepsHash ==
    ASSUME NEW s, AtomSeq(s), \A i \in DOMAIN s : s[i].index = i - 1,
           NEW key, NEW h, NEW enc
    PROVE  LET d == Distribute(s, key, h, enc)
           IN  /\ AtomSeq(d)
               /\ Len(d) = Len(s)
               /\ \A i \in DOMAIN d : d[i].index = i - 1
               /\ MolecularHash(d) = MolecularHash(s)
<1> DEFINE d == Distribute(s, key, h, enc)
<1>1. /\ DOMAIN d = 1 .. Len(s)
      /\ Len(d) = Len(s)
      /\ d = [i \in 1 .. Len(s) |-> d[i]]
      /\ \A i \in 1 .. Len(s) :
            d[i] = s[i] \/ \E f : d[i] = [s[i] EXCEPT !.frag = f]
  <2> DEFINE keeps(i) == (i - 1) * ((SigLen[key.ver][enc] + Len(s) - 1)
                                      \div Len(s)) >= SigLen[key.ver][enc]
             frag(i) ==
                LET chunk == (SigLen[key.ver][enc] + Len(s) - 1) \div Len(s)
                IN  [key |-> key, msg |-> h, enc |-> enc,
                     from |-> (i - 1) * chunk + 1,
                     to   |-> IF i * chunk <= SigLen[key.ver][enc]
                              THEN i * chunk ELSE SigLen[key.ver][enc]]
  <2>1. d = [i \in DOMAIN s |-> IF keeps(i) THEN s[i]
                                ELSE [s[i] EXCEPT !.frag = frag(i)]]
    BY Zenon DEF Distribute
  <2> HIDE DEF keeps, frag, d
  <2>2. /\ DOMAIN d = 1 .. Len(s)
        /\ Len(d) = Len(s)
        /\ d = [i \in 1 .. Len(s) |-> d[i]]
    BY <2>1 DEF AtomSeq
  <2>3. ASSUME NEW i \in 1 .. Len(s)
        PROVE  d[i] = s[i] \/ \E f : d[i] = [s[i] EXCEPT !.frag = f]
    <3>1. d[i] = IF keeps(i) THEN s[i] ELSE [s[i] EXCEPT !.frag = frag(i)]
      BY <2>1 DEF AtomSeq
    <3> QED
      BY <3>1, Zenon
  <2> QED
    BY <2>2, <2>3
<1> HIDE DEF d
<1>2. ASSUME NEW i \in 1 .. Len(s)
      PROVE  /\ IsAtom(d[i])
             /\ d[i].index = i - 1
             /\ HashedPart(d[i]) = HashedPart(s[i])
  <2>1. IsAtom(s[i]) /\ s[i].index = i - 1
    BY DEF AtomSeq
  <2>2. CASE d[i] = s[i]
    BY <2>1, <2>2
  <2>3. ASSUME NEW f, d[i] = [s[i] EXCEPT !.frag = f]
        PROVE  /\ IsAtom(d[i])
               /\ d[i].index = i - 1
               /\ HashedPart(d[i]) = HashedPart(s[i])
    BY <2>1, <2>3 DEF IsAtom, HashedPart
  <2> QED
    BY <1>1, <2>2, <2>3
<1>3. AtomSeq(d)
  BY <1>1, <1>2 DEF AtomSeq
<1>4. MolecularHash(d) = [i \in DOMAIN d |-> HashedPart(d[i])]
  BY <1>1, <1>2, <1>3, PlacedIsSorted DEF MolecularHash
<1>5. MolecularHash(s) = [i \in DOMAIN s |-> HashedPart(s[i])]
  BY PlacedIsSorted DEF MolecularHash
<1>6. MolecularHash(d) = MolecularHash(s)
  BY <1>1, <1>2, <1>4, <1>5 DEF AtomSeq
<1> QED
  BY <1>1, <1>2, <1>3, <1>6 DEF d

\* knishio_molecule_add_atom in turn: what was there stays, what comes is numbered.
LEMMA AddedAtoms ==
    ASSUME NEW new \in Seq(AtomType), TypeOK, AddAtoms(new)
    PROVE  /\ UNCHANGED <<source, remainder, secret, touched>>
           /\ \/ atoms' = atoms /\ hash' = hash /\ (isSigned' => isSigned)
              \/ hash' = NoHash /\ isSigned' = FALSE
           /\ isSigned' \in BOOLEAN
           /\ Len(atoms') \in Nat /\ Len(atoms) <= Len(atoms') /\ Len(atoms') <= MaxAtoms
           /\ atoms' = [i \in 1 .. Len(atoms') |-> atoms'[i]]
           /\ \A i \in DOMAIN atoms : atoms'[i] = atoms[i]
           /\ \A i \in DOMAIN atoms' \ DOMAIN atoms :
                    \E j \in DOMAIN new : atoms'[i] = [new[j] EXCEPT !.index = i - 1]
<1> DEFINE room == Smaller(Len(new), MaxAtoms - Len(atoms))
           n    == Len(atoms)
<1>1. /\ room \in Nat /\ n \in Nat /\ DOMAIN atoms = 1 .. n /\ DOMAIN new = 1 .. Len(new)
      /\ room <= Len(new) /\ n + room <= MaxAtoms
  BY MaxAtomsAssumption DEF TypeOK, Smaller
<1>2. /\ Len(atoms') = n + room
      /\ DOMAIN atoms' = 1 .. n + room
      /\ atoms' = [i \in 1 .. n + room |-> atoms'[i]]
      /\ \A i \in 1 .. n : atoms'[i] = atoms[i]
      /\ \A i \in 1 .. n + room : i > n =>
            atoms'[i] = [new[i - n] EXCEPT !.index = n + (i - n) - 1]
  BY <1>1 DEF AddAtoms, Extended
<1>3. ASSUME NEW i \in 1 .. n + room, i > n
      PROVE  \E j \in DOMAIN new : atoms'[i] = [new[j] EXCEPT !.index = i - 1]
  <2>1. n + (i - n) - 1 = i - 1 /\ i - n \in DOMAIN new
    BY <1>1, <1>3
  <2>2. atoms'[i] = [new[i - n] EXCEPT !.index = i - 1]
    BY <1>2, <1>3, <2>1
  <2> QED
    BY <2>1, <2>2
<1>4. UNCHANGED <<source, remainder, secret, touched>> /\ isSigned' \in BOOLEAN
  BY DEF AddAtoms, fields
<1>5. \/ atoms' = atoms /\ hash' = hash /\ (isSigned' => isSigned)
      \/ hash' = NoHash /\ isSigned' = FALSE
  <2>1. CASE room = 0
    <3>1. atoms' = [i \in 1 .. n |-> atoms[i]]
      BY <1>1, <2>1 DEF AddAtoms, Extended
    <3>2. atoms' = atoms
      BY <3>1 DEF TypeOK
    <3>3. hash' = hash /\ isSigned' = (isSigned /\ room = 0)
      BY <2>1 DEF AddAtoms
    <3>4. isSigned' => isSigned
      BY <3>3, Zenon
    <3> QED
      BY <3>2, <3>3, <3>4
  <2>2. CASE room # 0
    BY <2>2 DEF AddAtoms
  <2> QED
    BY <2>1, <2>2
<1> HIDE DEF room, n
<1> QED
  BY <1>1, <1>2, <1>3, <1>4, <1>5 DEF n

\* New atoms come without a fragment.
LEMMA AddedAreTyped ==
    ASSUME NEW new \in Seq(AtomType), TypeOK, AddAtoms(new),
           NEW i \in DOMAIN atoms' \ DOMAIN atoms
    PROVE  /\ i \in Int => atoms'[i] \in AtomType /\ atoms'[i].index = i - 1
           /\ NewSeq(new) => atoms'[i].frag = NoFrag
<1>1. PICK j \in DOMAIN new : atoms'[i] = [new[j] EXCEPT !.index = i - 1]
  BY AddedAtoms
<1>2. new[j] \in AtomType
  OBVIOUS
<1>3. i \in Int => i - 1 \in Int
  OBVIOUS
<1>4. i \in Int => atoms'[i] \in AtomType /\ atoms'[i].index = i - 1
  BY <1>1, <1>2, <1>3 DEF AtomType
<1>5. NewSeq(new) => atoms'[i].frag = NoFrag
  BY <1>1, <1>2 DEF AtomType, NewSeq, IsNew
<1> QED
  BY <1>4, <1>5

\* knishio_atom_add_meta: only what is said of the atom's meta changes.
LEMMA GivenMeta ==
    ASSUME TypeOK, CallAtomAddMeta
    PROVE  /\ UNCHANGED <<source, remainder, secret, hash, isSigned, calls>> /\ touched'
           /\ DOMAIN atoms' = DOMAIN atoms /\ Len(atoms') = Len(atoms)
           /\ atoms' = [i \in 1 .. Len(atoms) |-> atoms'[i]]
           /\ \A i \in DOMAIN atoms :
                \/ atoms'[i] = atoms[i]
                \/ \E pair \in LateMetas :
                        atoms'[i] = [atoms[i] EXCEPT !.meta = atoms[i].meta \cup {pair}]
<1>1. PICK i \in DOMAIN atoms, pair \in LateMetas :
        atoms' = [atoms EXCEPT ![i].meta = @ \cup {pair}]
  BY DEF CallAtomAddMeta
<1> DEFINE given == [atoms[i] EXCEPT !.meta = atoms[i].meta \cup {pair}]
<1>2. atoms' = [atoms EXCEPT ![i] = given]
  BY <1>1
<1>3. UNCHANGED <<source, remainder, secret, hash, isSigned, calls>> /\ touched'
  BY DEF CallAtomAddMeta, fields
<1> HIDE DEF given
<1>4. DOMAIN atoms' = DOMAIN atoms /\ Len(atoms') = Len(atoms)
      /\ atoms' = [j \in 1 .. Len(atoms) |-> atoms'[j]]
      /\ \A j \in DOMAIN atoms : atoms'[j] = IF j = i THEN given ELSE atoms[j]
  <2>1. Len(atoms) \in Nat /\ DOMAIN atoms = 1 .. Len(atoms)
    BY TypedState
  <2> DEFINE n == Len(atoms)
             to(j) == IF j = i THEN given ELSE atoms[j]
  <2>2. atoms' = [j \in 1 .. n |-> to(j)]
    BY <1>2, <2>1
  <2>3. n \in Nat
    BY <2>1
  <2> HIDE DEF to, n
  <2>4. DOMAIN atoms' = 1 .. n /\ Len(atoms') = n /\ \A j \in 1 .. n : atoms'[j] = to(j)
    BY <2>2, <2>3
  <2>5. atoms' = [j \in 1 .. n |-> atoms'[j]]
    BY <2>2, <2>4
  <2> QED
    BY <2>1, <2>4, <2>5 DEF to, n
<1>5. ASSUME NEW j \in DOMAIN atoms
      PROVE  \/ atoms'[j] = atoms[j]
             \/ \E p \in LateMetas : atoms'[j] = [atoms[j] EXCEPT !.meta = atoms[j].meta \cup {p}]
  BY <1>4, Zenon DEF given
<1> QED
  BY <1>3, <1>4, <1>5

\* knishio_molecule_sign, of a molecule numbered by place.
LEMMA SignedAtoms ==
    ASSUME IInv, CallSign
    PROVE  /\ UNCHANGED <<source, remainder, secret, calls>> /\ secret # NoSecret /\ isSigned'
           /\ ~touched' /\ hash' = MolecularHash(atoms) /\ DOMAIN hash' = DOMAIN atoms
           /\ atoms # <<>> /\ DOMAIN atoms' = DOMAIN atoms /\ Len(atoms') = Len(atoms)
           /\ atoms' = [i \in 1 .. Len(atoms) |-> atoms'[i]]
           /\ \E enc \in Encodings :
                LET key == SigningKey(atoms[1])
                    len == SigLen[key.ver][enc]
                    n   == Len(atoms)
                IN  \A i \in DOMAIN atoms :
                        IF (i - 1) * Chunk(n, len) >= len THEN atoms'[i] = atoms[i]
                        ELSE atoms'[i] = [atoms[i] EXCEPT !.frag = Piece(key, hash', enc, n, i)]
<1> DEFINE sorted == SortByIndex(atoms)
           hash2  == MolecularHash(sorted)
<1>1. PICK enc \in Encodings :
        atoms' = Distribute(sorted, SigningKey(sorted[1]), hash2, enc)
  BY DEF CallSign
<1>2. Placed(atoms)
  BY DEF IInv, IndexIsPlace, CallSign, Placed
<1>3. sorted = atoms
  BY <1>2, TypedState, PlacedIsSorted DEF IInv, Placed
<1>4. hash' = MolecularHash(atoms)
  BY <1>3 DEF CallSign
<1>5. DOMAIN hash' = DOMAIN atoms
  BY <1>3, <1>4 DEF MolecularHash
<1> DEFINE key == SigningKey(atoms[1])
           len == SigLen[key.ver][enc]
           n   == Len(atoms)
           past(i) == (i - 1) * Chunk(n, len) >= len
           signed(i) == [atoms[i] EXCEPT !.frag = Piece(key, hash', enc, n, i)]
<1>6. atoms' = [i \in DOMAIN atoms |-> IF past(i) THEN atoms[i] ELSE signed(i)]
  <2> DEFINE h == hash'
  <2>1. atoms' = Distribute(atoms, key, h, enc)
    BY <1>1, <1>3, <1>4
  <2>2. Distribute(atoms, key, h, enc)
          = [i \in DOMAIN atoms |-> IF past(i) THEN atoms[i] ELSE signed(i)]
    <3> HIDE DEF h, key
    <3> QED
      BY Zenon DEF Distribute, Chunk, Piece, h
  <2> HIDE DEF past, signed
  <2> QED
    BY <2>1, <2>2
<1> HIDE DEF past, signed
<1>7. /\ DOMAIN atoms' = DOMAIN atoms /\ Len(atoms') = Len(atoms)
      /\ atoms' = [i \in 1 .. Len(atoms) |-> atoms'[i]]
      /\ \A i \in DOMAIN atoms : IF past(i) THEN atoms'[i] = atoms[i] ELSE atoms'[i] = signed(i)
  BY <1>6, TypedState
<1>8. /\ UNCHANGED <<source, remainder, secret, calls>> /\ secret # NoSecret /\ isSigned'
      /\ ~touched' /\ atoms # <<>>
  BY DEF CallSign, fields
<1> QED
  BY <1>4, <1>5, <1>7, <1>8 DEF past, signed

-----------------------------------------------------------------------------
(* Every step keeps the types. *)

LEMMA InitIInv == Init => IInv
<1>1. ASSUME Init PROVE TypeOK
  <2>1. atoms \in Seq(AtomType) /\ Len(atoms) <= MaxAtoms
    BY <1>1, MaxAtomsAssumption DEF Init
  <2> QED
    BY <1>1, <2>1, Zenon DEF Init, TypeOK
<1>2. Init => IndexIsPlace
  BY DEF Init, IndexIsPlace
<1>3. Init => SignedIsCurrent
  BY Zenon DEF Init, SignedIsCurrent
<1> QED
  BY <1>1, <1>2, <1>3 DEF IInv

LEMMA AddTypeOK ==
    ASSUME TypeOK, NEW new \in Seq(AtomType), AddAtoms(new)
    PROVE  TypeOK'
<1>1. /\ UNCHANGED <<source, remainder, secret, touched>> /\ isSigned' \in BOOLEAN
      /\ Len(atoms') \in Nat /\ Len(atoms') <= MaxAtoms
      /\ atoms' = [i \in 1 .. Len(atoms') |-> atoms'[i]]
      /\ \A i \in DOMAIN atoms : atoms'[i] = atoms[i]
  BY AddedAtoms
<1>2. ASSUME NEW i \in 1 .. Len(atoms') PROVE atoms'[i] \in AtomType
  <2>1. DOMAIN atoms' = 1 .. Len(atoms')
    BY <1>1
  <2>2. CASE i \in DOMAIN atoms
    BY <1>1, <2>2, TypedState
  <2>3. CASE i \notin DOMAIN atoms
    BY <2>1, <2>3, AddedAreTyped
  <2> QED
    BY <2>2, <2>3
<1>3. atoms' \in Seq(AtomType)
  BY <1>1, <1>2
<1> QED
  BY <1>1, <1>3 DEF TypeOK

LEMMA MetaTypeOK ==
    ASSUME TypeOK, CallAtomAddMeta
    PROVE  TypeOK'
<1>1. ASSUME NEW i \in DOMAIN atoms PROVE atoms'[i] \in AtomType
  <2>1. atoms[i] \in AtomType
    BY TypedState
  <2>2. CASE atoms'[i] = atoms[i]
    BY <2>1, <2>2
  <2>3. ASSUME NEW pair \in LateMetas,
               atoms'[i] = [atoms[i] EXCEPT !.meta = atoms[i].meta \cup {pair}]
        PROVE  atoms'[i] \in AtomType
    <3>1. atoms[i].meta \cup {pair} \in SUBSET (Texts \X Texts)
      <4>1. pair \in Texts \X Texts /\ atoms[i].meta \in SUBSET (Texts \X Texts)
        BY <2>1, InputsAreTyped DEF AtomType
      <4> QED
        BY <4>1, Zenon
    <3> DEFINE m == atoms[i].meta \cup {pair}
    <3> HIDE DEF m
    <3>2. atoms'[i] = [atoms[i] EXCEPT !.meta = m] /\ m \in SUBSET (Texts \X Texts)
      BY <2>3, <3>1 DEF m
    <3> QED
      BY <2>1, <3>2 DEF AtomType
  <2> QED
    BY <2>2, <2>3, GivenMeta
<1>2. atoms' = [i \in 1 .. Len(atoms) |-> atoms'[i]] /\ Len(atoms') = Len(atoms)
  BY GivenMeta
<1>3. atoms' \in Seq(AtomType) /\ Len(atoms') <= MaxAtoms
  BY <1>1, <1>2, TypedState DEF TypeOK
<1> QED
  BY <1>3, GivenMeta DEF TypeOK

LEMMA HashIsTyped ==
    ASSUME TypeOK, Placed(atoms)
    PROVE  MolecularHash(atoms) \in Seq(HashedType)
<1>1. MolecularHash(atoms) = [i \in DOMAIN atoms |-> HashedPart(atoms[i])]
  BY TypedState, PlacedIsSorted DEF MolecularHash, Placed
<1>2. \A a \in AtomType : HashedPart(a) \in HashedType
  BY DEF AtomType, HashedType, HashedPart
<1> QED
  BY <1>1, <1>2, TypedState

LEMMA KeyIsTyped ==
    ASSUME TypeOK, NEW a \in AtomType, NEW enc \in Encodings
    PROVE  /\ SigningKey(a) \in AddressType
           /\ SigLen[SigningKey(a).ver][enc] \in Nat /\ SigLen[SigningKey(a).ver][enc] > 1
<1>1. a.token \in Texts /\ a.addr.pos \in Texts
  BY DEF AtomType, AddressType
<1>2. source = NoWallet \/ source.ver \in 1 .. 2
  BY TypedState
<1>3. SigningKey(a).ver \in 1 .. 2 /\ \A v \in 1 .. 2 : v \in Nat
  BY <1>2 DEF SigningKey
<1> QED
  BY <1>1, <1>2, <1>3, TypedState, SigLenAssumption DEF SigningKey, AddressType

LEMMA PieceIsTyped ==
    ASSUME NEW key \in AddressType, NEW msg \in Seq(HashedType), NEW enc \in Encodings,
           NEW n \in Nat \ {0}, NEW i \in Nat,
           SigLen[key.ver][enc] \in Nat, SigLen[key.ver][enc] > 1
    PROVE  Piece(key, msg, enc, n, i) \in FragmentType
<1> DEFINE len == SigLen[key.ver][enc]
           c   == Chunk(n, len)
           from == (i - 1) * c + 1
           to  == IF i * c <= len THEN i * c ELSE len
<1>1. c \in Nat \ {0}
  <2> HIDE DEF len
  <2> QED
    BY ChunkHolds DEF len
<1>2. from \in Int /\ to \in Int
  <2> HIDE DEF c, len
  <2> QED
    BY <1>1 DEF len
<1>3. Piece(key, msg, enc, n, i) = [key |-> key, msg |-> msg, enc |-> enc, from |-> from, to |-> to]
  BY Zenon DEF Piece
<1> HIDE DEF from, to
<1> QED
  BY <1>2, <1>3 DEF FragmentType

LEMMA SignTypeOK ==
    ASSUME IInv, CallSign
    PROVE  TypeOK'
<1> DEFINE key == SigningKey(atoms[1])
           n   == Len(atoms)
<1>1. PICK enc \in Encodings :
            LET len == SigLen[key.ver][enc] IN
            \A i \in DOMAIN atoms :
                IF (i - 1) * Chunk(n, len) >= len THEN atoms'[i] = atoms[i]
                ELSE atoms'[i] = [atoms[i] EXCEPT !.frag = Piece(key, hash', enc, n, i)]
  BY SignedAtoms
<1>2. /\ n \in Nat \ {0} /\ DOMAIN atoms = 1 .. n
      /\ \A i \in DOMAIN atoms : atoms[i] \in AtomType
  BY TypedState, SignedAtoms DEF IInv
<1>3. Placed(atoms)
  BY SignedAtoms DEF IInv, IndexIsPlace, Placed
<1>4. hash' \in Seq(HashedType)
  BY <1>3, HashIsTyped, SignedAtoms DEF IInv
<1>5. key \in AddressType /\ SigLen[key.ver][enc] \in Nat /\ SigLen[key.ver][enc] > 1
  BY <1>2, KeyIsTyped DEF IInv
<1>6. ASSUME NEW i \in DOMAIN atoms PROVE atoms'[i] \in AtomType
  <2>1. i \in Nat /\ atoms[i] \in AtomType
    BY <1>2
  <2> DEFINE p == Piece(key, hash', enc, n, i)
  <2>2. p \in FragmentType
    <3> DEFINE h == hash'
    <3> HIDE DEF key, h
    <3> QED
      BY <1>2, <1>4, <1>5, <2>1, PieceIsTyped DEF h
  <2>3. atoms'[i] = atoms[i] \/ atoms'[i] = [atoms[i] EXCEPT !.frag = p]
    BY <1>1, Zenon
  <2> HIDE DEF p
  <2> QED
    BY <2>1, <2>2, <2>3 DEF AtomType
<1>7. /\ UNCHANGED <<source, remainder, secret>> /\ isSigned' \in BOOLEAN /\ touched' \in BOOLEAN
      /\ DOMAIN atoms' = DOMAIN atoms /\ Len(atoms') = Len(atoms)
  BY SignedAtoms DEF CallSign, IInv
<1>8. atoms' = [i \in 1 .. n |-> atoms'[i]]
  BY SignedAtoms
<1> QED
  BY <1>2, <1>6, <1>7, <1>8 DEF IInv, TypeOK

LEMMA JsonTypeOK ==
    ASSUME TypeOK, CallFromJson
    PROVE  TypeOK'
<1>1. Reverse(atoms) \in Seq(AtomType) /\ Len(Reverse(atoms)) = Len(atoms)
  BY DEF TypeOK, Reverse
<1>2. atoms' \in Seq(AtomType) /\ Len(atoms') <= MaxAtoms
  BY <1>1 DEF TypeOK, CallFromJson
<1> QED
  BY <1>2 DEF TypeOK, CallFromJson

LEMMA StepTypeOK == IInv /\ [Next]_vars => TypeOK'
<1> SUFFICES ASSUME IInv, [Next]_vars PROVE TypeOK'
  OBVIOUS
<1>1. CASE UNCHANGED vars
  BY <1>1 DEF vars, IInv, TypeOK
<1>2. CASE CallGenerateHash
  BY <1>2 DEF CallGenerateHash, fields, IInv, TypeOK
<1>3. CASE Next
  BY <1>2, <1>3, StepKinds, AddTypeOK, MetaTypeOK, SignTypeOK, JsonTypeOK DEF IInv, Adds
<1> QED
  BY <1>1, <1>3

-----------------------------------------------------------------------------
(* Index and place, mark and hash. *)

LEMMA AddIndexIsPlace ==
    ASSUME IInv, NEW new \in Seq(AtomType), AddAtoms(new)
    PROVE  IndexIsPlace'
<1> SUFFICES ASSUME secret' # NoSecret, NEW i \in DOMAIN atoms' PROVE atoms'[i].index = i - 1
  BY DEF IndexIsPlace
<1>1. CASE i \in DOMAIN atoms
  BY <1>1, AddedAtoms DEF IInv, IndexIsPlace
<1>2. CASE i \notin DOMAIN atoms
  <2>1. i \in Int
    BY AddedAtoms DEF IInv
  <2> QED
    BY <1>2, <2>1, AddedAreTyped DEF IInv
<1> QED
  BY <1>1, <1>2

LEMMA AddSignedIsCurrent ==
    ASSUME IInv, NEW new \in Seq(AtomType), AddAtoms(new)
    PROVE  SignedIsCurrent'
<1>1. \/ atoms' = atoms /\ hash' = hash /\ (isSigned' => isSigned)
      \/ hash' = NoHash /\ isSigned' = FALSE
  BY AddedAtoms DEF IInv
<1>2. touched' = touched
  BY DEF AddAtoms
<1> QED
  BY <1>1, <1>2, Zenon DEF IInv, SignedIsCurrent

\* Late meta makes the mark stale, and says so.
LEMMA MetaIInv ==
    ASSUME IInv, CallAtomAddMeta
    PROVE  IndexIsPlace' /\ SignedIsCurrent'
<1>1. SignedIsCurrent'
  BY DEF CallAtomAddMeta, SignedIsCurrent
<1>2. IndexIsPlace'
  <2> SUFFICES ASSUME secret' # NoSecret, NEW i \in DOMAIN atoms' PROVE atoms'[i].index = i - 1
    BY DEF IndexIsPlace
  <2>1. i \in DOMAIN atoms /\ atoms[i].index = i - 1 /\ atoms[i] \in AtomType
    BY GivenMeta, TypedState DEF IInv, IndexIsPlace
  <2>2. \/ atoms'[i] = atoms[i]
        \/ \E m : atoms'[i] = [atoms[i] EXCEPT !.meta = m]
    BY <2>1, GivenMeta DEF IInv
  <2> QED
    BY <2>1, <2>2 DEF AtomType
<1> QED
  BY <1>1, <1>2

LEMMA SignIInv ==
    ASSUME IInv, CallSign
    PROVE  IndexIsPlace' /\ SignedIsCurrent'
<1> DEFINE sorted == SortByIndex(atoms)
           hash2  == MolecularHash(sorted)
<1>1. PICK enc \in Encodings :
        atoms' = Distribute(sorted, SigningKey(sorted[1]), hash2, enc)
  BY DEF CallSign
<1>2. \A i \in DOMAIN atoms : atoms[i].index = i - 1
  BY DEF IInv, IndexIsPlace, CallSign
<1>3. sorted = atoms
  BY <1>2, TypedState, PlacedIsSorted DEF IInv
<1>4. hash' = MolecularHash(atoms)
  BY <1>3 DEF CallSign
<1>5. /\ \A i \in DOMAIN atoms' : atoms'[i].index = i - 1
      /\ MolecularHash(atoms') = MolecularHash(atoms)
  <2> DEFINE key == SigningKey(sorted[1])
  <2>1. atoms' = Distribute(atoms, key, hash2, enc)
    BY <1>1, <1>3
  <2> HIDE DEF key, hash2
  <2> QED
    BY <1>2, <2>1, TypedState, DistributeKeepsHash DEF IInv
<1> QED
  BY <1>4, <1>5 DEF IndexIsPlace, SignedIsCurrent

LEMMA StepIInv == IInv /\ [Next]_vars => IInv'
<1> SUFFICES ASSUME IInv, [Next]_vars PROVE IInv'
  OBVIOUS
<1>1. TypeOK'
  BY StepTypeOK
<1>2. CASE UNCHANGED vars
  BY <1>1, <1>2 DEF vars, IInv, IndexIsPlace, SignedIsCurrent
<1>3. CASE CallGenerateHash
  BY <1>1, <1>3 DEF CallGenerateHash, fields, IInv, IndexIsPlace, SignedIsCurrent
<1>4. CASE CallFromJson
  BY <1>1, <1>4 DEF CallFromJson, IInv, IndexIsPlace, SignedIsCurrent
<1>5. CASE Adds
  BY <1>1, <1>5, AddIndexIsPlace, AddSignedIsCurrent DEF Adds, IInv
<1>6. CASE CallAtomAddMeta \/ CallSign
  BY <1>1, <1>6, MetaIInv, SignIInv DEF IInv
<1> QED
  BY <1>2, <1>3, <1>4, <1>5, <1>6, StepKinds DEF IInv

\* The inductive invariant holds in every state any sequence of calls leads to.
THEOREM Invariance == Spec => []IInv
  BY InitIInv, StepIInv, PTL DEF Spec
-----------------------------------------------------------------------------
(* The order of the atoms. *)

\* The first k atoms were turned round, and what was added since is unsigned.
Turned(s) ==
    \E k \in 2 .. Len(s) : \A i \in DOMAIN s :
        IF i <= k THEN s[i].index = k - i ELSE s[i].index = i - 1 /\ s[i].frag = NoFrag

\* A fragment that begins a signature is the atom's with index 0, and ends it too only
\* if it was cut for one atom.
FragmentOK(a) ==
    a.frag # NoFrag =>
        /\ a.frag.from = 1 => a.index = 0
        /\ a.index = 0 /\ a.frag.to = SigLen[a.frag.key.ver][a.frag.enc]
            => DOMAIN a.frag.msg = {1}

OrderInv ==
    /\ Placed(atoms) \/ (secret = NoSecret /\ Turned(atoms))
    /\ \A i \in DOMAIN atoms : FragmentOK(atoms[i])

LEMMA InitOrderInv == Init => OrderInv
  BY DEF Init, OrderInv, Placed

LEMMA AddOrderInv ==
    ASSUME IInv, OrderInv, NEW new \in Seq(AtomType), NewSeq(new), AddAtoms(new)
    PROVE  OrderInv'
<1>1. /\ UNCHANGED <<source, secret>>
      /\ Len(atoms') \in Nat /\ Len(atoms) <= Len(atoms') /\ Len(atoms) \in Nat
      /\ DOMAIN atoms' = 1 .. Len(atoms') /\ DOMAIN atoms = 1 .. Len(atoms)
      /\ \A i \in DOMAIN atoms : atoms'[i] = atoms[i]
      /\ \A i \in DOMAIN atoms' \ DOMAIN atoms :
                atoms'[i].index = i - 1 /\ atoms'[i].frag = NoFrag
  <2>1. /\ UNCHANGED <<source, secret>>
        /\ Len(atoms') \in Nat /\ Len(atoms) <= Len(atoms')
        /\ DOMAIN atoms' = 1 .. Len(atoms')
        /\ \A i \in DOMAIN atoms : atoms'[i] = atoms[i]
    BY AddedAtoms DEF IInv
  <2>2. Len(atoms) \in Nat /\ DOMAIN atoms = 1 .. Len(atoms)
    BY TypedState DEF IInv
  <2>3. \A i \in DOMAIN atoms' \ DOMAIN atoms :
                atoms'[i].index = i - 1 /\ atoms'[i].frag = NoFrag
    BY <2>1, AddedAreTyped DEF IInv
  <2> QED
    BY <2>1, <2>2, <2>3
<1>2. ASSUME Placed(atoms) PROVE Placed(atoms')
  BY <1>1, <1>2 DEF Placed
<1>3. ASSUME Turned(atoms) PROVE Turned(atoms')
  <2>1. PICK k \in 2 .. Len(atoms) : \A i \in DOMAIN atoms :
            IF i <= k THEN atoms[i].index = k - i
            ELSE atoms[i].index = i - 1 /\ atoms[i].frag = NoFrag
    BY <1>3 DEF Turned
  <2>2. k \in 2 .. Len(atoms')
    BY <1>1
  <2>3. ASSUME NEW i \in DOMAIN atoms'
        PROVE  IF i <= k THEN atoms'[i].index = k - i
               ELSE atoms'[i].index = i - 1 /\ atoms'[i].frag = NoFrag
    BY <1>1, <2>1
  <2> QED
    BY <2>2, <2>3 DEF Turned
<1>4. \A i \in DOMAIN atoms' : FragmentOK(atoms'[i])
  BY <1>1 DEF OrderInv, FragmentOK
<1> QED
  BY <1>1, <1>2, <1>3, <1>4 DEF OrderInv

LEMMA MetaOrderInv ==
    ASSUME IInv, OrderInv, CallAtomAddMeta
    PROVE  OrderInv'
<1>1. UNCHANGED <<source, secret>> /\ DOMAIN atoms' = DOMAIN atoms /\ Len(atoms') = Len(atoms)
  BY GivenMeta DEF IInv
<1>2. ASSUME NEW i \in DOMAIN atoms
      PROVE  atoms'[i].index = atoms[i].index /\ atoms'[i].frag = atoms[i].frag
  <2>1. atoms[i] \in AtomType
    BY TypedState DEF IInv
  <2>2. \/ atoms'[i] = atoms[i]
        \/ \E m : atoms'[i] = [atoms[i] EXCEPT !.meta = m]
    BY GivenMeta DEF IInv
  <2> QED
    BY <2>1, <2>2 DEF AtomType
<1>3. Placed(atoms) => Placed(atoms')
  BY <1>1, <1>2 DEF Placed
<1>4. Turned(atoms) => Turned(atoms')
  BY <1>1, <1>2 DEF Turned
<1>5. \A i \in DOMAIN atoms' : FragmentOK(atoms'[i])
  BY <1>1, <1>2 DEF OrderInv, FragmentOK
<1> QED
  BY <1>1, <1>3, <1>4, <1>5 DEF OrderInv

LEMMA SignOrderInv ==
    ASSUME IInv, OrderInv, CallSign
    PROVE  OrderInv'
<1> DEFINE key == SigningKey(atoms[1])
           n   == Len(atoms)
<1>1. PICK enc \in Encodings :
            LET len == SigLen[key.ver][enc] IN
            \A i \in DOMAIN atoms :
                IF (i - 1) * Chunk(n, len) >= len THEN atoms'[i] = atoms[i]
                ELSE atoms'[i] = [atoms[i] EXCEPT !.frag = Piece(key, hash', enc, n, i)]
  BY SignedAtoms
<1> DEFINE len == SigLen[key.ver][enc]
           c   == Chunk(n, len)
<1>2. /\ UNCHANGED <<source, secret>> /\ secret # NoSecret /\ DOMAIN hash' = DOMAIN atoms
      /\ atoms # <<>> /\ DOMAIN atoms' = DOMAIN atoms
  BY SignedAtoms
<1>3. /\ len \in Nat /\ len > 1 /\ n \in Nat \ {0} /\ DOMAIN atoms = 1 .. n
      /\ \A i \in DOMAIN atoms : atoms[i] \in AtomType /\ atoms[i].index = i - 1
  <2>1. n \in Nat \ {0} /\ DOMAIN atoms = 1 .. n /\ \A i \in DOMAIN atoms : atoms[i] \in AtomType
    BY <1>2, TypedState DEF IInv
  <2>2. len \in Nat /\ len > 1
    BY <2>1, KeyIsTyped DEF IInv
  <2>3. \A i \in DOMAIN atoms : atoms[i].index = i - 1
    BY <1>2 DEF OrderInv, Placed
  <2> QED
    BY <2>1, <2>2, <2>3
<1>4. c \in Nat \ {0} /\ (n > 1 => c < len)
  BY <1>3, ChunkHolds, ChunkIsPart
<1>5. ASSUME NEW i \in DOMAIN atoms, i # 1 PROVE (i - 1) * c + 1 # 1
  <2>1. i - 1 \in Nat \ {0}
    BY <1>3, <1>5
  <2> HIDE DEF c
  <2>2. (i - 1) * c # 0
    BY <1>4, <2>1
  <2> QED
    BY <1>4, <2>1, <2>2
<1>6. ASSUME NEW i \in DOMAIN atoms
      PROVE  atoms'[i].index = i - 1 /\ FragmentOK(atoms'[i])
  <2>1. atoms[i] \in AtomType /\ atoms[i].index = i - 1 /\ FragmentOK(atoms[i])
    BY <1>3 DEF OrderInv
  <2>2. CASE atoms'[i] = atoms[i]
    BY <2>1, <2>2
  <2> DEFINE p == Piece(key, hash', enc, n, i)
  <2>3. CASE atoms'[i] = [atoms[i] EXCEPT !.frag = p]
    <3>1. p.from = (i - 1) * c + 1 /\ p.to = (IF i * c <= len THEN i * c ELSE len)
          /\ p.key.ver = key.ver /\ p.enc = enc /\ p.msg = hash'
      BY Zenon DEF Piece
    <3>2. atoms'[i].index = i - 1 /\ atoms'[i].frag = p
      <4> HIDE DEF p
      <4> QED
        BY <2>1, <2>3 DEF AtomType
    <3>3. p.from = 1 => i = 1
      <4> HIDE DEF p, c
      <4> QED
        BY <1>5, <3>1
    <3>4. ASSUME i = 1, p.to = len PROVE DOMAIN hash' = {1}
      <4> HIDE DEF p, c, len
      <4>1. i * c = c
        BY <1>4, <3>4
      <4>2. ~(n > 1)
        BY <1>3, <1>4, <3>1, <3>4, <4>1
      <4>3. n = 1
        BY <1>3, <4>2
      <4> QED
        BY <1>2, <1>3, <4>3
    <3>5. SigLen[p.key.ver][p.enc] = len
      BY <3>1
    <3>6. i - 1 = 0 => i = 1
      BY <1>3
    <3>7. i = 1 => i - 1 = 0
      OBVIOUS
    <3> HIDE DEF p, len
    <3> QED
      BY <3>1, <3>2, <3>3, <3>4, <3>5, <3>6, <3>7, Zenon DEF FragmentOK
  <2> QED
    BY <1>1, <2>2, <2>3
<1>7. Placed(atoms')
  BY <1>2, <1>6 DEF Placed
<1> QED
  BY <1>2, <1>6, <1>7 DEF OrderInv

LEMMA JsonOrderInv ==
    ASSUME IInv, OrderInv, CallFromJson
    PROVE  OrderInv'
<1>1. /\ source' = NoWallet /\ secret' = NoSecret /\ Placed(atoms)
      /\ atoms' = Reverse(atoms) \/ atoms' = atoms
  BY DEF CallFromJson, OrderInv
<1>2. CASE atoms' = atoms
  BY <1>1, <1>2 DEF OrderInv
<1>3. CASE atoms' = Reverse(atoms)
  <2> DEFINE n == Len(atoms)
  <2>1. /\ n \in Nat /\ DOMAIN atoms = 1 .. n /\ Len(atoms') = n /\ DOMAIN atoms' = 1 .. n
        /\ \A i \in 1 .. n : atoms'[i] = atoms[n - i + 1]
    BY <1>3 DEF IInv, TypeOK, Reverse
  <2> HIDE DEF n
  <2>2. \A i \in 1 .. n : n - i + 1 \in DOMAIN atoms
    BY <2>1
  <2>3. \A i \in DOMAIN atoms' : FragmentOK(atoms'[i])
    BY <2>1, <2>2 DEF OrderInv
  <2>4. ASSUME NEW i \in 1 .. n PROVE atoms'[i].index = n - i
    <3> DEFINE h == n - i + 1
    <3>1. h \in DOMAIN atoms /\ atoms'[i] = atoms[h] /\ h - 1 = n - i
      BY <2>1, <2>2
    <3> HIDE DEF h
    <3>2. atoms[h].index = h - 1
      BY <1>1, <3>1 DEF Placed
    <3> QED
      BY <3>1, <3>2
  <2>5. CASE n >= 2
    <3>1. n \in 2 .. Len(atoms')
      BY <2>1, <2>5
    <3>2. \A i \in DOMAIN atoms' : i <= n /\ atoms'[i].index = n - i
      BY <2>1, <2>4
    <3>3. Turned(atoms')
      BY <3>1, <3>2, Zenon DEF Turned
    <3> QED
      BY <1>1, <2>3, <3>3 DEF OrderInv
  <2>6. CASE n < 2
    <3>1. Placed(atoms')
      BY <2>1, <2>4, <2>6 DEF Placed
    <3> QED
      BY <1>1, <2>3, <3>1 DEF OrderInv
  <2> QED
    BY <2>1, <2>5, <2>6
<1> QED
  BY <1>1, <1>2, <1>3

LEMMA StepOrderInv ==
    ASSUME LooseAtomsAreUnsigned
    PROVE  IInv /\ OrderInv /\ [Next]_vars => OrderInv'
<1> SUFFICES ASSUME IInv, OrderInv, [Next]_vars PROVE OrderInv'
  OBVIOUS
<1>1. CASE CallGenerateHash
  BY <1>1 DEF CallGenerateHash, fields, OrderInv
<1>2. CASE UNCHANGED vars
  BY <1>2 DEF vars, OrderInv
<1> QED
  BY <1>1, <1>2, StepKinds, AddOrderInv, MetaOrderInv, SignOrderInv, JsonOrderInv DEF Adds, IInv

\* What a passing molecule has been found to be.
LEMMA CheckPasses ==
    ASSUME NEW s, NEW h, Check(s, h) = "SUCCESS"
    PROVE  /\ s # <<>> /\ h # NoHash /\ h = MolecularHash(s)
           /\ OtsError(s, h) = "SUCCESS"
           /\ BatchIdOk(s) /\ ContinuIdOk(s) /\ IsotopeMOk(s) /\ IsotopeTCUIOk(s)
           /\ IsotopeVError(s) = "SUCCESS" /\ TokenOk(s)
  BY DEF Check

LEMMA SignaturePasses ==
    ASSUME NEW s, NEW h, OtsError(s, h) = "SUCCESS"
    PROVE  /\ IsWholeSignature(Fragments(s))
           /\ Fragments(s)[1].msg = h /\ Fragments(s)[1].key = s[1].addr
  BY DEF OtsError

LEMMA TurnedIsRefused ==
    ASSUME IInv, OrderInv, Turned(atoms)
    PROVE  verdict # "SUCCESS"
<1> SUFFICES ASSUME verdict = "SUCCESS" PROVE FALSE
  OBVIOUS
<1> DEFINE n  == Len(atoms)
           I  == Present(atoms)
           C  == Cardinality(I)
           fs == Fragments(atoms)
<1>1. n \in Nat /\ DOMAIN atoms = 1 .. n
  BY TypedState DEF IInv
<1>2. PICK k \in 2 .. n : \A i \in DOMAIN atoms :
            IF i <= k THEN atoms[i].index = k - i
            ELSE atoms[i].index = i - 1 /\ atoms[i].frag = NoFrag
  BY DEF Turned
<1>3. hash = MolecularHash(atoms) /\ IsWholeSignature(fs) /\ fs[1].msg = hash
  BY CheckPasses, SignaturePasses DEF verdict
<1>4. /\ I \in SUBSET (1 .. n) /\ IsFiniteSet(I) /\ C \in Nat
      /\ fs = [j \in 1 .. C |-> atoms[Nth(I, j)].frag] /\ Len(fs) = C
  BY TypedState, FragmentsAreThose DEF IInv
<1> HIDE DEF fs
<1>5. fs # <<>> /\ fs[1].from = 1 /\ fs[Len(fs)].to = SigLen[fs[1].key.ver][fs[1].enc]
  BY <1>3 DEF IsWholeSignature
<1>6. C # 0
  <2>1. [j \in 1 .. 0 |-> atoms[Nth(I, j)].frag] = <<>>
    OBVIOUS
  <2> HIDE DEF C, I
  <2> QED
    BY <1>4, <1>5, <2>1
<1> DEFINE p == Nth(I, 1)
<1>7. p \in I /\ \A j \in I : p <= j
  <2>1. I # {} /\ I \in SUBSET Nat
    BY <1>4, <1>6, FS_EmptySet
  <2> HIDE DEF I
  <2> QED
    BY <1>4, <2>1, FirstIsLeast
<1>8. fs[1] = atoms[p].frag
  <2> HIDE DEF I, C
  <2> QED
    BY <1>4, <1>6
<1>9. atoms[p].frag # NoFrag /\ p \in DOMAIN atoms /\ p \in 1 .. n
  BY <1>1, <1>4, <1>7 DEF Present
<1>10. atoms[p].index = 0 /\ FragmentOK(atoms[p])
  <2> HIDE DEF p
  <2> QED
    BY <1>5, <1>8, <1>9 DEF OrderInv, FragmentOK
<1>11. p = k
  <2> HIDE DEF p, n
  <2> QED
    BY <1>1, <1>2, <1>9, <1>10
<1>12. I = {p}
  <2>1. \A j \in I : j \in 1 .. n /\ j <= k
    BY <1>1, <1>2, <1>4 DEF Present
  <2>2. \A j \in I : j = p
    <3> HIDE DEF p, I
    <3> QED
      BY <1>2, <1>7, <1>11, <2>1
  <2> HIDE DEF p, I
  <2> QED
    BY <1>7, <2>2
<1>13. C = 1
  <2> HIDE DEF p, I
  <2> QED
    BY <1>12, FS_Singleton
<1>14. DOMAIN fs[1].msg = {1}
  <2> HIDE DEF p, C
  <2> QED
    BY <1>4, <1>5, <1>8, <1>9, <1>10, <1>13 DEF FragmentOK
<1>15. DOMAIN MolecularHash(atoms) = DOMAIN atoms
  <2>1. DOMAIN SortByIndex(atoms) = DOMAIN atoms
    BY DEF SortByIndex
  <2> QED
    BY <2>1, Zenon DEF MolecularHash
<1>16. 2 \in DOMAIN atoms
  BY <1>1, <1>2
<1> QED
  BY <1>3, <1>14, <1>15, <1>16

\* The sum over V, B and F atoms is the sum over V atoms if there are no others.
LEMMA PassingSums ==
    ASSUME NEW s, IsotopeVError(s) = "SUCCESS"
    PROVE  ValueSum(s, {"V", "B", "F"}) = 0
<1>1. CASE OfIsotope(s, {"B", "F"}) = {}
  <2>1. OfIsotope(s, {"V", "B", "F"}) = OfIsotope(s, {"V"})
    BY <1>1 DEF OfIsotope
  <2>2. ValueSum(s, {"V"}) = 0
    BY <1>1 DEF IsotopeVError
  <2> QED
    BY <2>1, <2>2 DEF ValueSum
<1>2. CASE OfIsotope(s, {"B", "F"}) # {}
  BY <1>2 DEF IsotopeVError
<1> QED
  BY <1>1, <1>2

-----------------------------------------------------------------------------
(* The whole signature. *)

Version == IF source = NoWallet THEN 1 ELSE source.ver

\* The characters a signature of the molecule's key has in encoding enc, and those an
\* atom gets of it now.
SignatureLen(enc) == SigLen[Version][enc]
Share(enc)        == Chunk(Len(atoms), SignatureLen(enc))

\* No fragment lies past the atoms a signature in its encoding reaches now: the more
\* atoms, the shorter the pieces, the further it reaches.
SpreadInv ==
    secret # NoSecret =>
        \A i \in DOMAIN atoms : atoms[i].frag # NoFrag =>
            (i - 1) * Share(atoms[i].frag.enc) < SignatureLen(atoms[i].frag.enc)

\* The atoms a signature in encoding enc reaches hold the pieces of one over msg.
Cut(enc, msg) ==
    \A i \in DOMAIN atoms :
        (i - 1) * Share(enc) < SignatureLen(enc) =>
            atoms[i].frag = Piece(SigningKey(atoms[1]), msg, enc, Len(atoms), i)

MarkInv ==
    isSigned =>
        /\ secret # NoSecret /\ atoms # <<>>
        /\ \E enc \in Encodings, msg \in Seq(HashedType) :
                Cut(enc, msg) /\ (~touched => msg = hash)

LEMMA LengthIsTyped ==
    ASSUME TypeOK, NEW enc \in Encodings
    PROVE  SignatureLen(enc) \in Nat /\ SignatureLen(enc) > 1
<1>1. Version \in 1 .. 2
  BY TypedState DEF Version
<1> QED
  BY <1>1, SigLenAssumption DEF SignatureLen

\* A key of the molecule is of its version.
LEMMA KeyOfVersion ==
    ASSUME NEW a
    PROVE  SigningKey(a).ver = Version
  BY DEF SigningKey, Version

LEMMA ShareIsPositive ==
    ASSUME TypeOK, atoms # <<>>, NEW enc \in Encodings
    PROVE  /\ Share(enc) \in Nat \ {0}
           /\ Len(atoms) * Share(enc) >= SignatureLen(enc)
<1>1. Len(atoms) \in Nat \ {0}
  BY TypedState
<1> QED
  BY <1>1, LengthIsTyped, ChunkHolds DEF Share

LEMMA FragmentEncoding ==
    ASSUME TypeOK, NEW i \in DOMAIN atoms, atoms[i].frag # NoFrag
    PROVE  atoms[i].frag \in FragmentType /\ atoms[i].frag.enc \in Encodings
<1>1. atoms[i] \in AtomType
  BY TypedState
<1> QED
  BY <1>1 DEF AtomType, FragmentType

LEMMA InitWholeInv == Init => SpreadInv /\ MarkInv
<1>1. Init => SpreadInv
  BY DEF Init, SpreadInv
<1>2. Init => MarkInv
  BY DEF Init, MarkInv
<1> QED
  BY <1>1, <1>2

LEMMA AddSpreadInv ==
    ASSUME IInv, SpreadInv, NEW new \in Seq(AtomType), NewSeq(new), AddAtoms(new)
    PROVE  SpreadInv'
<1> DEFINE last(e) == SigLen[Version'][e]
<1> SUFFICES ASSUME secret' # NoSecret, NEW i \in DOMAIN atoms', atoms'[i].frag # NoFrag
             PROVE  (i - 1) * Chunk(Len(atoms'), last(atoms'[i].frag.enc))
                        < last(atoms'[i].frag.enc)
  BY DEF SpreadInv, Share, SignatureLen
<1>1. /\ UNCHANGED <<source, remainder, secret, touched>>
      /\ Len(atoms') \in Nat /\ Len(atoms) <= Len(atoms')
      /\ \A j \in DOMAIN atoms : atoms'[j] = atoms[j]
  BY AddedAtoms DEF IInv
<1>2. i \in DOMAIN atoms
  BY AddedAreTyped DEF IInv
<1> DEFINE enc == atoms[i].frag.enc
           m   == Len(atoms)
           n   == Len(atoms')
           len == SignatureLen(enc)
           c   == Chunk(m, len)
           d   == Chunk(n, len)
<1>3. atoms'[i].frag = atoms[i].frag /\ enc \in Encodings
  BY <1>1, <1>2, FragmentEncoding DEF IInv
<1>4. last(enc) = len /\ Share(enc) = c
  <2>1. Version' = Version
    BY <1>1 DEF Version
  <2> QED
    BY <2>1 DEF SignatureLen, Share
<1>5. (i - 1) * c < len
  BY <1>1, <1>2, <1>3, <1>4 DEF SpreadInv
<1>6. m \in Nat \ {0} /\ n \in Nat \ {0} /\ m <= n /\ i - 1 \in Nat
  BY <1>1, <1>2, TypedState DEF IInv
<1>7. len \in Nat /\ len > 1
  BY <1>3, LengthIsTyped DEF IInv
<1> HIDE DEF len, m, n
<1>8. d <= c /\ c \in Nat /\ d \in Nat
  BY <1>6, <1>7, ChunkShrinks, ChunkHolds
<1> HIDE DEF c, d
<1>9. (i - 1) * d <= (i - 1) * c
  BY <1>6, <1>8, Product
<1>10. (i - 1) * d < len
  <2> DEFINE x == (i - 1) * d
             y == (i - 1) * c
  <2>1. x \in Int /\ y \in Int /\ x <= y /\ y < len
    BY <1>5, <1>6, <1>8, <1>9
  <2> HIDE DEF x, y
  <2> QED
    BY <1>7, <2>1 DEF x
<1> QED
  BY <1>3, <1>4, <1>10 DEF d, n

LEMMA MetaSpreadInv ==
    ASSUME IInv, SpreadInv, CallAtomAddMeta
    PROVE  SpreadInv'
<1>1. UNCHANGED <<source, secret>> /\ DOMAIN atoms' = DOMAIN atoms /\ Len(atoms') = Len(atoms)
  BY GivenMeta DEF IInv
<1>2. ASSUME NEW i \in DOMAIN atoms PROVE atoms'[i].frag = atoms[i].frag
  <2>1. atoms[i] \in AtomType
    BY TypedState DEF IInv
  <2>2. \/ atoms'[i] = atoms[i]
        \/ \E m : atoms'[i] = [atoms[i] EXCEPT !.meta = m]
    BY GivenMeta DEF IInv
  <2> QED
    BY <2>1, <2>2 DEF AtomType
<1> QED
  BY <1>1, <1>2 DEF SpreadInv, Share, SignatureLen, Version

\* What knishio_molecule_sign leaves, by encoding.
LEMMA SignedCut ==
    ASSUME IInv, CallSign
    PROVE  \E enc \in Encodings :
              \A i \in DOMAIN atoms :
                IF (i - 1) * Share(enc) >= SignatureLen(enc) THEN atoms'[i] = atoms[i]
                ELSE atoms'[i] = [atoms[i] EXCEPT !.frag =
                        Piece(SigningKey(atoms[1]), hash', enc, Len(atoms), i)]
<1>1. SigningKey(atoms[1]).ver = Version
  BY KeyOfVersion
<1> QED
  BY <1>1, SignedAtoms DEF Share, SignatureLen

LEMMA SignSpreadInv ==
    ASSUME IInv, SpreadInv, CallSign
    PROVE  SpreadInv'
<1>1. PICK enc \in Encodings :
            \A i \in DOMAIN atoms :
                IF (i - 1) * Share(enc) >= SignatureLen(enc) THEN atoms'[i] = atoms[i]
                ELSE atoms'[i] = [atoms[i] EXCEPT !.frag =
                        Piece(SigningKey(atoms[1]), hash', enc, Len(atoms), i)]
  BY SignedCut
<1>2. UNCHANGED <<source, secret>> /\ secret # NoSecret /\ atoms # <<>>
      /\ DOMAIN atoms' = DOMAIN atoms /\ Len(atoms') = Len(atoms)
  BY SignedAtoms
<1>3. \A x : Share(x)' = Share(x) /\ SignatureLen(x)' = SignatureLen(x)
  BY <1>2 DEF Share, SignatureLen, Version
<1>4. ASSUME NEW i \in DOMAIN atoms, atoms'[i].frag # NoFrag
      PROVE  (i - 1) * Share(atoms'[i].frag.enc) < SignatureLen(atoms'[i].frag.enc)
  <2>1. CASE atoms'[i] = atoms[i]
    BY <1>2, <1>4, <2>1 DEF SpreadInv
  <2>2. CASE ~((i - 1) * Share(enc) >= SignatureLen(enc))
    <3> DEFINE p == Piece(SigningKey(atoms[1]), hash', enc, Len(atoms), i)
    <3>1. p.enc = enc
      BY Zenon DEF Piece
    <3>2. atoms'[i] = [atoms[i] EXCEPT !.frag = p]
      BY <1>1, <2>2
    <3>3. atoms[i] \in AtomType /\ i \in Nat
      BY TypedState DEF IInv
    <3> HIDE DEF p
    <3>4. atoms'[i].frag.enc = enc
      BY <3>1, <3>2, <3>3 DEF AtomType
    <3>5. (i - 1) * Share(enc) < SignatureLen(enc)
      <4> DEFINE x == (i - 1) * Share(enc)
                 y == SignatureLen(enc)
      <4>1. y \in Nat
        BY LengthIsTyped DEF IInv
      <4>2. x \in Int
        BY <1>2, <3>3, ShareIsPositive DEF IInv
      <4> HIDE DEF x, y
      <4> QED
        BY <2>2, <4>1, <4>2 DEF x, y
    <3> QED
      BY <3>4, <3>5
  <2> QED
    BY <1>1, <2>1, <2>2
<1> QED
  BY <1>2, <1>3, <1>4 DEF SpreadInv

LEMMA StepSpreadInv ==
    ASSUME LooseAtomsAreUnsigned
    PROVE  IInv /\ SpreadInv /\ [Next]_vars => SpreadInv'
<1> SUFFICES ASSUME IInv, SpreadInv, [Next]_vars PROVE SpreadInv'
  OBVIOUS
<1>1. CASE CallGenerateHash
  BY <1>1 DEF CallGenerateHash, fields, SpreadInv, Share, SignatureLen, Version
<1>2. CASE UNCHANGED vars
  BY <1>2 DEF vars, SpreadInv, Share, SignatureLen, Version
<1>3. CASE CallFromJson
  BY <1>3 DEF CallFromJson, SpreadInv
<1> QED
  BY <1>1, <1>2, <1>3, StepKinds, AddSpreadInv, MetaSpreadInv, SignSpreadInv DEF Adds, IInv

LEMMA AddMarkInv ==
    ASSUME IInv, MarkInv, NEW new \in Seq(AtomType), AddAtoms(new)
    PROVE  MarkInv'
<1>1. CASE isSigned' = FALSE
  BY <1>1 DEF MarkInv
<1>2. CASE atoms' = atoms /\ hash' = hash /\ (isSigned' => isSigned)
  <2>1. UNCHANGED <<source, secret, touched, atoms, hash>>
    BY <1>2, AddedAtoms DEF IInv
  <2>2. \A enc, msg : Cut(enc, msg)' <=> Cut(enc, msg)
    BY <2>1 DEF Cut, SigningKey, Share, SignatureLen, Version
  <2> QED
    BY <1>2, <2>1, <2>2 DEF MarkInv
<1> QED
  BY <1>1, <1>2, AddedAtoms DEF IInv

LEMMA MetaMarkInv ==
    ASSUME IInv, MarkInv, CallAtomAddMeta
    PROVE  MarkInv'
<1> SUFFICES ASSUME isSigned PROVE MarkInv'
  BY GivenMeta DEF MarkInv, IInv
<1>1. /\ UNCHANGED <<source, secret, isSigned>> /\ touched'
      /\ DOMAIN atoms' = DOMAIN atoms /\ Len(atoms') = Len(atoms)
  BY GivenMeta DEF IInv
<1>2. ASSUME NEW i \in DOMAIN atoms
      PROVE  /\ atoms'[i].frag = atoms[i].frag
             /\ atoms'[i].token = atoms[i].token /\ atoms'[i].addr = atoms[i].addr
  <2>1. atoms[i] \in AtomType
    BY TypedState DEF IInv
  <2>2. \/ atoms'[i] = atoms[i]
        \/ \E m : atoms'[i] = [atoms[i] EXCEPT !.meta = m]
    BY GivenMeta DEF IInv
  <2> QED
    BY <2>1, <2>2 DEF AtomType
<1>3. PICK enc \in Encodings, msg \in Seq(HashedType) : Cut(enc, msg)
  BY DEF MarkInv
<1>4. secret # NoSecret /\ atoms # <<>>
  BY DEF MarkInv
<1>5. 1 \in DOMAIN atoms
  BY <1>4, TypedState DEF IInv
<1>6. SigningKey(atoms[1])' = SigningKey(atoms[1])
  BY <1>1, <1>2, <1>5 DEF SigningKey
<1>7. Share(enc)' = Share(enc) /\ SignatureLen(enc)' = SignatureLen(enc)
  BY <1>1 DEF Share, SignatureLen, Version
<1>8. Cut(enc, msg)'
  BY <1>1, <1>2, <1>3, <1>6, <1>7 DEF Cut
<1>9. atoms' # <<>>
  BY <1>1, <1>5
<1> QED
  BY <1>1, <1>4, <1>8, <1>9 DEF MarkInv

LEMMA SignMarkInv ==
    ASSUME IInv, CallSign
    PROVE  MarkInv'
<1> DEFINE key == SigningKey(atoms[1])
<1>1. PICK enc \in Encodings :
            \A i \in DOMAIN atoms :
                IF (i - 1) * Share(enc) >= SignatureLen(enc) THEN atoms'[i] = atoms[i]
                ELSE atoms'[i] = [atoms[i] EXCEPT !.frag = Piece(key, hash', enc, Len(atoms), i)]
  BY SignedCut
<1>2. UNCHANGED <<source, secret>> /\ secret # NoSecret /\ atoms # <<>>
      /\ DOMAIN atoms' = DOMAIN atoms /\ Len(atoms') = Len(atoms)
  BY SignedAtoms
<1>3. Share(enc)' = Share(enc) /\ SignatureLen(enc)' = SignatureLen(enc)
  BY <1>2 DEF Share, SignatureLen, Version
<1>4. /\ \A i \in DOMAIN atoms : i \in Nat /\ atoms[i] \in AtomType
      /\ 1 \in DOMAIN atoms
      /\ SignatureLen(enc) \in Nat /\ Share(enc) \in Nat
  BY <1>2, TypedState, LengthIsTyped, ShareIsPositive DEF IInv
<1>5. ASSUME NEW i \in DOMAIN atoms
      PROVE  /\ atoms'[i].token = atoms[i].token /\ atoms'[i].addr = atoms[i].addr
             /\ (i - 1) * Share(enc) < SignatureLen(enc)
                    => atoms'[i].frag = Piece(key, hash', enc, Len(atoms), i)
  <2> DEFINE p == Piece(key, hash', enc, Len(atoms), i)
             x == (i - 1) * Share(enc)
             y == SignatureLen(enc)
  <2>1. IF x >= y THEN atoms'[i] = atoms[i] ELSE atoms'[i] = [atoms[i] EXCEPT !.frag = p]
    BY <1>1
  <2>2. x \in Int /\ y \in Int /\ atoms[i] \in AtomType
    BY <1>4
  <2> HIDE DEF p, x, y
  <2>3. x < y => ~(x >= y)
    BY <2>2
  <2>4. x < y => atoms'[i].frag = p
    BY <2>1, <2>2, <2>3 DEF AtomType
  <2>5. atoms'[i].token = atoms[i].token /\ atoms'[i].addr = atoms[i].addr
    BY <2>1, <2>2 DEF AtomType
  <2> QED
    BY <2>4, <2>5 DEF p, x, y
<1>6. SigningKey(atoms[1])' = key
  BY <1>2, <1>4, <1>5 DEF SigningKey
<1>7. hash' \in Seq(HashedType)
  <2>1. Placed(atoms)
    BY <1>2 DEF IInv, IndexIsPlace, Placed
  <2> QED
    BY <2>1, HashIsTyped, SignedAtoms DEF IInv
<1>8. PICK h \in Seq(HashedType) : h = hash'
  BY <1>7
<1>9. Cut(enc, h)'
  BY <1>2, <1>3, <1>5, <1>6, <1>8 DEF Cut
<1>10. atoms' # <<>>
  BY <1>2, <1>4
<1> QED
  BY <1>2, <1>8, <1>9, <1>10 DEF MarkInv

LEMMA StepMarkInv == IInv /\ MarkInv /\ [Next]_vars => MarkInv'
<1> SUFFICES ASSUME IInv, MarkInv, [Next]_vars PROVE MarkInv'
  OBVIOUS
<1>1. CASE CallGenerateHash
  <2>1. UNCHANGED <<source, secret, isSigned, touched, atoms>> /\ hash' = MolecularHash(atoms)
    BY <1>1 DEF CallGenerateHash, fields
  <2>2. \A enc, msg : Cut(enc, msg)' <=> Cut(enc, msg)
    BY <2>1 DEF Cut, SigningKey, Share, SignatureLen, Version
  <2>3. isSigned /\ ~touched => hash' = hash
    BY <2>1 DEF IInv, SignedIsCurrent
  <2> QED
    BY <2>1, <2>2, <2>3 DEF MarkInv
<1>2. CASE UNCHANGED vars
  <2>1. UNCHANGED <<source, secret, isSigned, touched, atoms, hash>>
    BY <1>2 DEF vars
  <2>2. \A enc, msg : Cut(enc, msg)' <=> Cut(enc, msg)
    BY <2>1 DEF Cut, SigningKey, Share, SignatureLen, Version
  <2> QED
    BY <2>1, <2>2 DEF MarkInv
<1>3. CASE CallFromJson
  BY <1>3 DEF CallFromJson, MarkInv
<1> QED
  BY <1>1, <1>2, <1>3, StepKinds, AddMarkInv, MetaMarkInv, SignMarkInv DEF Adds, IInv

\* The atoms reached by a signature cut into n shares of c characters are the first K.
LEMMA Reached ==
    ASSUME NEW n \in Nat, NEW c \in Nat \ {0}, NEW len \in Nat, len > 1, n * c >= len
    PROVE  \E K \in 1 .. n :
              /\ K * c >= len
              /\ \A i \in 1 .. n : (i - 1) * c < len <=> i <= K
<1> DEFINE K == Chunk(c, len)
<1>1. K \in Nat \ {0} /\ c * K >= len /\ c * (K - 1) < len
  BY ChunkHolds
<1> HIDE DEF K
<1>2. K * c = c * K /\ (K - 1) * c = c * (K - 1) /\ K * c \in Nat /\ (K - 1) * c \in Nat
      /\ n * c \in Nat
  BY <1>1
<1>3. K <= n
  <2> SUFFICES ASSUME n <= K - 1 PROVE FALSE
    BY <1>1
  <2>1. n * c <= (K - 1) * c
    BY <1>1, Product
  <2> QED
    BY <1>1, <1>2, <2>1
<1>4. ASSUME NEW i \in 1 .. n PROVE (i - 1) * c < len <=> i <= K
  <2>1. i - 1 \in Nat /\ (i - 1) * c \in Nat
    BY <1>1
  <2>2. CASE i <= K
    <3>1. i - 1 <= K - 1 /\ K - 1 \in Nat
      BY <1>1, <2>1, <2>2
    <3> DEFINE j == i - 1
    <3> HIDE DEF j
    <3>2. j * c <= (K - 1) * c
      BY <2>1, <3>1, Product DEF j
    <3>3. j * c \in Nat /\ j * c < len
      BY <1>1, <1>2, <2>1, <3>2 DEF j
    <3> QED
      BY <2>2, <3>3 DEF j
  <2>3. CASE ~(i <= K)
    <3> DEFINE j == i - 1
    <3>1. K <= j /\ j \in Nat /\ j * c \in Nat
      BY <1>1, <2>1, <2>3
    <3> HIDE DEF j
    <3>2. K * c <= j * c
      BY <1>1, <3>1, Product
    <3>3. ~(j * c < len)
      BY <1>1, <1>2, <3>1, <3>2
    <3> QED
      BY <2>3, <3>3 DEF j
  <2> QED
    BY <2>2, <2>3
<1> QED
  BY <1>1, <1>2, <1>3, <1>4

\* fs are the pieces of a signature that reaches K of n atoms.
PiecesOf(fs, key, msg, enc, n, K) ==
    LET len == SigLen[key.ver][enc]
        c   == Chunk(n, len)
    IN  /\ len \in Nat /\ len > 1 /\ c \in Nat \ {0} /\ K \in Nat \ {0}
        /\ K * c >= len /\ (K - 1) * c < len
        /\ DOMAIN fs = 1 .. K /\ Len(fs) = K
        /\ \A k \in 1 .. K : fs[k] = Piece(key, msg, enc, n, k)

\* The pieces, one after the other, are the whole signature.
LEMMA PiecesAreWhole ==
    ASSUME NEW fs, NEW key, NEW msg, NEW enc, NEW n, NEW K, PiecesOf(fs, key, msg, enc, n, K)
    PROVE  IsWholeSignature(fs) /\ fs[1].msg = msg /\ fs[1].key = key
<1> DEFINE len == SigLen[key.ver][enc]
           c   == Chunk(n, len)
<1>0. /\ len \in Nat /\ len > 1 /\ c \in Nat \ {0} /\ K \in Nat \ {0}
      /\ K * c >= len /\ (K - 1) * c < len
      /\ DOMAIN fs = 1 .. K /\ Len(fs) = K
      /\ \A k \in 1 .. K : fs[k] = Piece(key, msg, enc, n, k)
  BY Zenon DEF PiecesOf
<1>1. ASSUME NEW k \in 1 .. K
      PROVE  /\ fs[k].key = key /\ fs[k].msg = msg /\ fs[k].enc = enc
             /\ fs[k].from = (k - 1) * c + 1
             /\ fs[k].to = IF k * c <= len THEN k * c ELSE len
  <2> DEFINE p == Piece(key, msg, enc, n, k)
  <2>1. /\ p.key = key /\ p.msg = msg /\ p.enc = enc
        /\ p.from = (k - 1) * c + 1
        /\ p.to = IF k * c <= len THEN k * c ELSE len
    BY Zenon DEF Piece
  <2>2. fs[k] = p
    BY <1>0
  <2> HIDE DEF len, c, p
  <2> QED
    BY <2>1, <2>2
<1> HIDE DEF len, c
<1>2. fs # <<>> /\ 1 \in 1 .. K /\ K \in 1 .. K
  BY <1>0
<1>3. fs[1].from = 1
  <2>1. fs[1].from = (1 - 1) * c + 1
    BY <1>1, <1>2
  <2> QED
    BY <1>0, <2>1
<1>4. fs[K].to = len
  <2> DEFINE x == K * c
  <2>1. fs[K].to = IF x <= len THEN x ELSE len
    BY <1>1, <1>2, Zenon
  <2>2. x \in Nat /\ x >= len
    BY <1>0
  <2> HIDE DEF x
  <2> QED
    BY <1>0, <2>1, <2>2
<1>5. ASSUME NEW i \in 1 .. K - 1 PROVE fs[i + 1].from = fs[i].to + 1
  <2>1. i \in 1 .. K /\ i + 1 \in 1 .. K /\ i + 1 - 1 = i /\ i <= K - 1 /\ i \in Nat /\ K - 1 \in Nat
    BY <1>0
  <2>2. i * c <= (K - 1) * c
    BY <1>0, <2>1, Product
  <2> DEFINE x == i * c
             y == (K - 1) * c
  <2>3. x \in Nat /\ y \in Nat /\ x <= y /\ y < len
    BY <1>0, <2>1, <2>2
  <2>4. fs[i].to = IF x <= len THEN x ELSE len
    BY <1>1, <2>1
  <2>5. fs[i + 1].from = x + 1
    BY <1>1, <2>1
  <2> HIDE DEF x, y
  <2> QED
    BY <1>0, <2>3, <2>4, <2>5
<1>6. fs[Len(fs)].to = SigLen[fs[1].key.ver][fs[1].enc]
  BY <1>0, <1>1, <1>2, <1>4 DEF len
<1>7. \A i \in DOMAIN fs : fs[i].key = fs[1].key /\ fs[i].msg = fs[1].msg /\ fs[i].enc = fs[1].enc
  BY <1>0, <1>1, <1>2
<1>8. \A i \in 1 .. Len(fs) - 1 : fs[i + 1].from = fs[i].to + 1
  BY <1>0, <1>5
<1> QED
  BY <1>1, <1>2, <1>3, <1>6, <1>7, <1>8, Zenon DEF IsWholeSignature

\* With one encoding, the fragments are the pieces of one signature by the molecule's key.
LEMMA OneEncodingIsWhole ==
    ASSUME IInv, SpreadInv, MarkInv, isSigned, ~touched, Cardinality(EncodingsUsed) = 1
    PROVE  /\ IsWholeSignature(Fragments(atoms)) /\ atoms[1].frag.msg = hash
           /\ Fragments(atoms)[1].msg = hash
           /\ Fragments(atoms)[1].key = SigningKey(atoms[1])
<1> DEFINE n  == Len(atoms)
           I  == Present(atoms)
           C  == Cardinality(I)
           fs == Fragments(atoms)
           key == SigningKey(atoms[1])
<1>1. secret # NoSecret /\ atoms # <<>>
  BY DEF MarkInv
<1>2. PICK enc \in Encodings, msg \in Seq(HashedType) : Cut(enc, msg) /\ msg = hash
  BY DEF MarkInv
<1> DEFINE len == SignatureLen(enc)
           c   == Share(enc)
<1>3. /\ n \in Nat \ {0} /\ DOMAIN atoms = 1 .. n /\ 1 \in 1 .. n
      /\ \A i \in DOMAIN atoms : atoms[i] \in AtomType
  BY <1>1, TypedState DEF IInv
<1>4. len \in Nat /\ len > 1 /\ c \in Nat \ {0} /\ n * c >= len
  BY <1>1, LengthIsTyped, ShareIsPositive DEF IInv
<1>5. c = Chunk(n, len) /\ len = SigLen[key.ver][enc] /\ key \in AddressType
  <2>1. key.ver = Version
    BY KeyOfVersion
  <2>2. key \in AddressType
    BY <1>3, KeyIsTyped DEF IInv
  <2> QED
    BY <2>1, <2>2 DEF Share, SignatureLen
<1>6. PICK K \in 1 .. n : K * c >= len /\ \A i \in 1 .. n : (i - 1) * c < len <=> i <= K
  <2> HIDE DEF n, c, len
  <2> QED
    BY <1>3, <1>4, Reached
<1>7. ASSUME NEW i \in 1 .. n, i <= K
      PROVE  atoms[i].frag = Piece(key, msg, enc, n, i) /\ atoms[i].frag # NoFrag
             /\ atoms[i].frag.enc = enc
  <2>1. atoms[i].frag = Piece(key, msg, enc, n, i)
    <3>1. (i - 1) * c < len
      BY <1>6, <1>7
    <3> QED
      BY <1>2, <1>3, <3>1 DEF Cut
  <2>2. Piece(key, msg, enc, n, i) \in FragmentType
    <3>1. i \in Nat
      BY <1>3
    <3>2. SigLen[key.ver][enc] \in Nat /\ SigLen[key.ver][enc] > 1
      BY <1>4, <1>5
    <3> HIDE DEF key, n
    <3> QED
      BY <1>3, <1>5, <3>1, <3>2, PieceIsTyped
  <2>3. Piece(key, msg, enc, n, i).enc = enc
    BY Zenon DEF Piece
  <2> QED
    BY <2>1, <2>2, <2>3, AbsentAssumption
<1>8. /\ I \in SUBSET (1 .. n) /\ IsFiniteSet(I) /\ C \in Nat
      /\ fs = [j \in 1 .. C |-> atoms[Nth(I, j)].frag] /\ Len(fs) = C
  BY TypedState, FragmentsAreThose DEF IInv
<1> HIDE DEF fs
<1>9. ASSUME NEW i \in I PROVE atoms[i].frag.enc \in EncodingsUsed
  <2>1. PICK k \in 1 .. C : Nth(I, k) = i
    <3>1. I \in SUBSET Nat
      BY <1>8
    <3> HIDE DEF I
    <3> QED
      BY <1>8, <3>1, EachIsNth
  <2>2. k \in DOMAIN fs /\ fs[k] = atoms[i].frag
    <3> HIDE DEF I, C
    <3> QED
      BY <1>8, <2>1
  <2> QED
    BY <2>2 DEF EncodingsUsed, fs
<1>10. \A x, y \in EncodingsUsed : x = y
  <2>1. EncodingsUsed \subseteq Encodings
    <3> SUFFICES ASSUME NEW k \in DOMAIN fs PROVE fs[k].enc \in Encodings
      BY DEF EncodingsUsed, fs
    <3>1. k \in 1 .. C
      <4> HIDE DEF I, C
      <4> QED
        BY <1>8
    <3>2. Nth(I, k) \in I
      <4>1. I \in SUBSET Nat
        BY <1>8
      <4> HIDE DEF I
      <4> QED
        BY <1>8, <3>1, <4>1, NthIsIn
    <3> DEFINE p == Nth(I, k)
    <3>3. p \in DOMAIN atoms /\ atoms[p].frag # NoFrag
      <4>1. p \in Present(atoms)
        BY <3>2
      <4> HIDE DEF p
      <4> QED
        BY <4>1 DEF Present
    <3>4. fs[k] = atoms[p].frag
      <4> HIDE DEF I, C
      <4> QED
        BY <1>8, <3>1
    <3> HIDE DEF p
    <3> QED
      BY <3>3, <3>4, FragmentEncoding DEF IInv
  <2>2. IsFiniteSet(Encodings)
    <3>1. IsFiniteSet({"hex"})
      BY FS_Singleton
    <3>2. IsFiniteSet({"hex"} \cup {"base64"})
      BY <3>1, FS_AddElement
    <3>3. Encodings = {"hex"} \cup {"base64"}
      BY DEF Encodings
    <3> QED
      BY <3>2, <3>3
  <2>3. IsFiniteSet(EncodingsUsed)
    BY <2>1, <2>2, FS_Subset
  <2> QED
    BY <2>3, FS_Singleton
<1>11. I = 1 .. K
  <2>1. ASSUME NEW i \in 1 .. K PROVE i \in I
    <3>1. i \in 1 .. n /\ i <= K
      BY <1>6
    <3>2. atoms[i].frag # NoFrag
      BY <1>7, <3>1
    <3> QED
      BY <1>3, <3>1, <3>2 DEF Present
  <2>2. ASSUME NEW i \in I PROVE i \in 1 .. K
    <3>1. i \in 1 .. n /\ i \in DOMAIN atoms /\ atoms[i].frag # NoFrag
      BY <1>3, <1>8 DEF Present
    <3>2. 1 \in I /\ atoms[1].frag.enc = enc
      <4>1. 1 \in 1 .. K /\ 1 <= K
        BY <1>6
      <4> QED
        BY <1>3, <1>7, <2>1, <4>1
    <3>3. atoms[i].frag.enc = enc
      <4> HIDE DEF I
      <4> QED
        BY <1>9, <1>10, <3>2
    <3>4. (i - 1) * c < len
      BY <1>1, <3>1, <3>3 DEF SpreadInv
    <3>5. i <= K
      BY <1>6, <3>1, <3>4
    <3> HIDE DEF I
    <3> QED
      BY <1>6, <3>1, <3>5
  <2> HIDE DEF I
  <2> QED
    BY <2>1, <2>2
<1>12. C = K
  <2>1. Cardinality(1 .. K) = K
    BY <1>6, FS_Interval
  <2> HIDE DEF I
  <2> QED
    BY <1>11, <2>1
<1>13. fs = [k \in 1 .. K |-> Piece(key, msg, enc, n, k)]
  <2>1. ASSUME NEW k \in 1 .. K PROVE atoms[Nth(I, k)].frag = Piece(key, msg, enc, n, k)
    <3>1. Nth(I, k) = k
      <4> HIDE DEF I
      <4> QED
        BY <1>6, <1>11, NthOfFirst
    <3>2. k \in 1 .. n /\ k <= K
      BY <1>6
    <3> HIDE DEF I, key, n
    <3> QED
      BY <1>7, <3>1, <3>2
  <2> HIDE DEF I, C, key, n
  <2> QED
    BY <1>8, <1>12, <2>1
<1>14. IsWholeSignature(fs) /\ fs[1].msg = msg /\ fs[1].key = key
  <2>1. K \in Nat \ {0} /\ (K - 1) * c < len /\ K * c >= len
    BY <1>6
  <2>2. DOMAIN fs = 1 .. K /\ Len(fs) = K /\ \A k \in 1 .. K : fs[k] = Piece(key, msg, enc, n, k)
    <3> HIDE DEF key, n, C
    <3> QED
      BY <1>8, <1>12, <1>13
  <2>3. PiecesOf(fs, key, msg, enc, n, K)
    <3> HIDE DEF key, n, len, c
    <3> QED
      BY <1>4, <1>5, <2>1, <2>2 DEF PiecesOf
  <2> HIDE DEF key, n
  <2> QED
    BY <2>3, PiecesAreWhole
<1>15. fs[1] = atoms[1].frag
  <2>1. 1 \in 1 .. K /\ 1 \in 1 .. n /\ 1 <= K
    BY <1>6
  <2> HIDE DEF key, n
  <2> QED
    BY <1>7, <1>13, <2>1
<1> QED
  BY <1>2, <1>14, <1>15 DEF fs
-----------------------------------------------------------------------------
(* What the builders make passes the check. *)

\* The checks of a molecule's content, the signature left aside.
ContentOK(s) ==
    /\ BatchIdOk(s) /\ ContinuIdOk(s) /\ IsotopeMOk(s) /\ IsotopeTCUIOk(s)
    /\ IsotopeVError(s) = "SUCCESS" /\ TokenOk(s)

\* t has the atoms of s, perhaps with more meta or with other fragments.
Alike(s, t) ==
    /\ s # <<>> /\ t # <<>> /\ Len(s) \in Nat /\ Len(t) = Len(s)
    /\ DOMAIN s = 1 .. Len(s) /\ DOMAIN t = DOMAIN s
    /\ \A i \in DOMAIN s :
        /\ t[i].iso = s[i].iso /\ t[i].addr = s[i].addr /\ t[i].token = s[i].token
        /\ t[i].value = s[i].value /\ t[i].batch = s[i].batch /\ t[i].bundle = s[i].bundle
        /\ t[i].index = s[i].index /\ (s[i].meta # {} => t[i].meta # {})

\* The greatest of some places is one of them.
LEMMA GreatestIsIn ==
    ASSUME NEW I \in SUBSET Nat, IsFiniteSet(I), I # {}
    PROVE  Max(I) \in I
<1> DEFINE C == Cardinality(I)
           p == Nth(I, C)
           U == {j \in I : j <= p}
<1>1. C \in 1 .. C
  BY FirstIsLeast, FS_CardinalityType
<1>2. p \in I /\ Cardinality(U) = C
  <2> HIDE DEF C
  <2> QED
    BY <1>1, NthIsIn DEF C
<1>3. U = I
  BY <1>2, FS_Subset
<1>4. \A j \in I : p >= j
  <2>1. p \in Nat
    BY <1>2
  <2> HIDE DEF p
  <2> QED
    BY <1>3, <2>1 DEF U
<1> HIDE DEF p
<1> QED
  BY <1>2, <1>4 DEF Max

LEMMA AlikePasses ==
    ASSUME NEW s, NEW t, Alike(s, t), ContentOK(s), 1 \in DOMAIN s
    PROVE  ContentOK(t)
<1>1. /\ DOMAIN t = DOMAIN s
      /\ \A i \in DOMAIN s :
            /\ t[i].iso = s[i].iso /\ t[i].addr = s[i].addr /\ t[i].token = s[i].token
            /\ t[i].value = s[i].value /\ t[i].batch = s[i].batch /\ t[i].bundle = s[i].bundle
            /\ t[i].index = s[i].index /\ (s[i].meta # {} => t[i].meta # {})
  BY Zenon DEF Alike
<1>2. ASSUME NEW isos PROVE OfIsotope(t, isos) = OfIsotope(s, isos)
  BY <1>1 DEF OfIsotope
<1>3. [i \in DOMAIN t |-> Parsed(t[i].value)] = [i \in DOMAIN s |-> Parsed(s[i].value)]
  BY <1>1
<1>4. ASSUME NEW isos PROVE ValueSum(t, isos) = ValueSum(s, isos)
  BY <1>2, <1>3, Zenon DEF ValueSum
<1>5. \A isos : OfIsotope(s, isos) \subseteq DOMAIN s
  BY DEF OfIsotope
<1>6. ASSUME NEW isos, NEW i \in OfIsotope(s, isos)
      PROVE  /\ t[i].iso = s[i].iso /\ t[i].token = s[i].token /\ t[i].value = s[i].value
             /\ t[i].batch = s[i].batch /\ t[i].bundle = s[i].bundle
             /\ t[i].index = s[i].index /\ (s[i].meta # {} => t[i].meta # {})
  BY <1>1, <1>5
<1>7. BatchIdOk(t)
  <2> SUFFICES ASSUME t[1].iso = "V", t[1].batch # NoBatch
               PROVE  /\ t[Max(OfIsotope(t, {"V"}))].batch = t[1].batch
                      /\ \A i \in OfIsotope(t, {"V"}) : t[i].batch # NoBatch
    BY Zenon DEF BatchIdOk
  <2> DEFINE vs == OfIsotope(s, {"V"})
  <2>1. s[1].iso = "V" /\ s[1].batch # NoBatch
    BY <1>1
  <2>2. s[Max(vs)].batch = s[1].batch /\ \A i \in vs : s[i].batch # NoBatch
    BY <2>1, Zenon DEF ContentOK, BatchIdOk
  <2>3. \A i \in vs : i \in DOMAIN s /\ t[i].batch = s[i].batch
    BY <1>6, <1>5
  <2>4. Max(vs) \in vs
    <3>1. 1 \in vs /\ vs \subseteq 1 .. Len(s) /\ Len(s) \in Nat
      BY <2>1 DEF OfIsotope, Alike
    <3>2. IsFiniteSet(vs) /\ vs \in SUBSET Nat
      <4> HIDE DEF vs
      <4>1. IsFiniteSet(1 .. Len(s))
        BY <3>1, FS_Interval, 1 \in Int
      <4>2. vs \in SUBSET (1 .. Len(s))
        BY <3>1
      <4>3. vs \in SUBSET Nat
        BY <4>2
      <4>4. IsFiniteSet(vs)
        BY <4>1, <4>2, FS_Subset
      <4> QED
        BY <4>3, <4>4
    <3> HIDE DEF vs
    <3> QED
      BY <3>1, <3>2, GreatestIsIn
  <2>5. vs = OfIsotope(t, {"V"}) /\ t[1].batch = s[1].batch
    BY <1>1, <1>2
  <2> HIDE DEF vs
  <2> QED
    BY <2>2, <2>3, <2>4, <2>5
<1>8. ContinuIdOk(t) /\ TokenOk(t)
  BY <1>1, <1>2, <1>6 DEF ContentOK, ContinuIdOk, TokenOk
<1>9. IsotopeMOk(t)
  BY <1>2, <1>6 DEF ContentOK, IsotopeMOk
<1>10. IsotopeTCUIOk(t)
  BY <1>2, <1>6 DEF ContentOK, IsotopeTCUIOk, IsotopeTOk, IsotopeCOk, IsotopeUOk, IsotopeIOk
<1>11. IsotopeVError(t) = IsotopeVError(s)
  <2>1. /\ OfIsotope(t, {"B", "F"}) = OfIsotope(s, {"B", "F"})
        /\ OfIsotope(t, {"V", "B", "F"}) = OfIsotope(s, {"V", "B", "F"})
        /\ ValueSum(t, {"V"}) = ValueSum(s, {"V"})
        /\ ValueSum(t, {"V", "B", "F"}) = ValueSum(s, {"V", "B", "F"})
    BY <1>2, <1>4
  <2>2. {i \in OfIsotope(s, {"B", "F"}) : t[i].bundle = ""}
          = {i \in OfIsotope(s, {"B", "F"}) : s[i].bundle = ""}
    BY <1>6
  <2>3. {i \in OfIsotope(s, {"V", "B", "F"}) :
            \/ t[i].value = NotANumber
            \/ t[i].iso = "F" /\ Parsed(t[i].value) < 0}
          = {i \in OfIsotope(s, {"V", "B", "F"}) :
                \/ s[i].value = NotANumber
                \/ s[i].iso = "F" /\ Parsed(s[i].value) < 0}
    BY <1>6
  <2> QED
    BY <2>1, <2>2, <2>3, Zenon DEF IsotopeVError
<1> QED
  BY <1>7, <1>8, <1>9, <1>10, <1>11 DEF ContentOK

\* The sums of two, three and four values.
LEMMA SmallSums ==
    ASSUME NEW f, f[1] \in Int, f[2] \in Int
    PROVE  /\ SumFunctionOnSet(f, 1 .. 2) = f[1] + f[2]
           /\ f[3] \in Int => SumFunctionOnSet(f, 1 .. 3) = f[1] + f[2] + f[3]
           /\ f[3] \in Int /\ f[4] \in Int =>
                SumFunctionOnSet(f, 1 .. 4) = f[1] + f[2] + f[3] + f[4]
<1>1. SumFunctionOnSet(f, {1}) = f[1]
  <2>1. SumFunctionOnSet(f, {} \cup {1}) = f[1] + SumFunctionOnSet(f, {})
    BY SumAdd, FS_EmptySet
  <2>2. {} \cup {1} = {1} /\ SumFunctionOnSet(f, {}) = 0
    BY SumEmpty
  <2> QED
    BY <2>1, <2>2
<1>2. SumFunctionOnSet(f, {1} \cup {2}) = f[2] + f[1]
  <2>1. IsFiniteSet({1})
    BY FS_Singleton
  <2>2. 2 \notin {1} /\ \A y \in {1} \cup {2} : f[y] \in Int
    OBVIOUS
  <2> QED
    BY <1>1, <2>1, <2>2, SumAdd
<1>3. 1 .. 2 = {1} \cup {2} /\ 1 .. 3 = (1 .. 2) \cup {3} /\ 1 .. 4 = (1 .. 3) \cup {4}
  OBVIOUS
<1>4. SumFunctionOnSet(f, 1 .. 2) = f[1] + f[2]
  <2>1. SumFunctionOnSet(f, 1 .. 2) = f[2] + f[1]
    BY <1>2, <1>3, Zenon
  <2> QED
    BY <2>1
<1>5. ASSUME f[3] \in Int PROVE SumFunctionOnSet(f, 1 .. 3) = f[1] + f[2] + f[3]
  <2>1. IsFiniteSet(1 .. 2)
    BY FS_Interval, 1 \in Int, 2 \in Int
  <2>2. 3 \notin 1 .. 2 /\ \A y \in (1 .. 2) \cup {3} : f[y] \in Int
    BY <1>3, <1>5
  <2>3. SumFunctionOnSet(f, (1 .. 2) \cup {3}) = f[3] + SumFunctionOnSet(f, 1 .. 2)
    BY <2>1, <2>2, SumAdd
  <2>4. SumFunctionOnSet(f, 1 .. 3) = f[3] + (f[1] + f[2])
    BY <1>3, <1>4, <2>3, Zenon
  <2> QED
    BY <1>5, <2>4
<1>6. ASSUME f[3] \in Int, f[4] \in Int
      PROVE  SumFunctionOnSet(f, 1 .. 4) = f[1] + f[2] + f[3] + f[4]
  <2>1. IsFiniteSet(1 .. 3)
    BY FS_Interval, 1 \in Int, 3 \in Int
  <2>2. 4 \notin 1 .. 3 /\ \A y \in (1 .. 3) \cup {4} : f[y] \in Int
    BY <1>3, <1>6
  <2>3. SumFunctionOnSet(f, (1 .. 3) \cup {4}) = f[4] + SumFunctionOnSet(f, 1 .. 3)
    BY <2>1, <2>2, SumAdd
  <2>4. SumFunctionOnSet(f, 1 .. 4) = f[4] + (f[1] + f[2] + f[3])
    BY <1>3, <1>5, <1>6, <2>3, Zenon
  <2> QED
    BY <1>6, <2>4
<1> QED
  BY <1>4, <1>5, <1>6

\* Within the width of an int nothing wraps.
LEMMA WrapInRange ==
    ASSUME NEW x \in Int, -IntMax - 1 <= x, x <= IntMax
    PROVE  WrapInt(x) = x
<1> DEFINE a == x + IntMax + 1
           m == 2 * (IntMax + 1)
<1>1. a \in Nat /\ m \in Nat \ {0} /\ a < m
  BY IntMaxAssumption
<1> HIDE DEF a, m
<1>2. a % m = a
  BY <1>1
<1> QED
  BY <1>2, IntMaxAssumption DEF a, m, WrapInt

\* The atoms as add_atom leaves them in an empty molecule.
Numbered(s) == [i \in 1 .. Len(s) |-> [s[i] EXCEPT !.index = i - 1]]

LEMMA NumberedAtoms ==
    ASSUME NEW s, NewSeq(s)
    PROVE  /\ Len(s) \in Nat /\ DOMAIN s = 1 .. Len(s)
           /\ DOMAIN Numbered(s) = 1 .. Len(s)
           /\ \A i \in 1 .. Len(s) :
                LET a == Numbered(s)[i]
                IN  /\ a.iso = s[i].iso /\ a.addr = s[i].addr /\ a.token = s[i].token
                    /\ a.value = s[i].value /\ a.batch = s[i].batch
                    /\ a.bundle = s[i].bundle /\ a.meta = s[i].meta /\ a.index = i - 1
<1>1. s \in Seq(AtomType)
  BY DEF NewSeq
<1>2. Len(s) \in Nat /\ DOMAIN s = 1 .. Len(s) /\ \A i \in 1 .. Len(s) : s[i] \in AtomType
  BY <1>1
<1>3. \A i \in 1 .. Len(s) : Numbered(s)[i] = [s[i] EXCEPT !.index = i - 1]
  BY DEF Numbered
<1>4. \A i \in 1 .. Len(s) :
        LET a == Numbered(s)[i]
        IN  /\ a.iso = s[i].iso /\ a.addr = s[i].addr /\ a.token = s[i].token
            /\ a.value = s[i].value /\ a.batch = s[i].batch
            /\ a.bundle = s[i].bundle /\ a.meta = s[i].meta /\ a.index = i - 1
  BY <1>2, <1>3 DEF AtomType
<1> QED
  BY <1>2, <1>4 DEF Numbered

\* A pair as the USER-signed builders make it.
UserPair(a, b) ==
    /\ a.iso \in {"M", "U", "C"} /\ b.iso = "I" /\ b.token = "USER"
    /\ a.iso = "U" => a.token \in {"AUTH", "USER"}
    /\ a.iso # "U" => a.token = "USER"
    /\ a.iso = "M" => a.meta # {}

LEMMA UserPairPasses ==
    ASSUME NEW a, NEW b, IsNew(a), IsNew(b), UserPair(a, b)
    PROVE  ContentOK(Numbered(<<a, b>>))
<1> DEFINE s == <<a, b>>
           t == Numbered(s)
<1>1. NewSeq(s) /\ Len(s) = 2
  BY TupleIsNewSeq
<1>2. /\ DOMAIN t = {1, 2}
      /\ t[1].iso = a.iso /\ t[1].token = a.token /\ t[1].meta = a.meta /\ t[1].index = 0
      /\ t[2].iso = b.iso /\ t[2].token = b.token /\ t[2].meta = b.meta /\ t[2].index = 1
  <2> HIDE DEF t
  <2>1. DOMAIN t = 1 .. 2 /\ 1 \in 1 .. 2 /\ 2 \in 1 .. 2 /\ s[1] = a /\ s[2] = b
        /\ 1 .. 2 = {1, 2} /\ 1 - 1 = 0 /\ 2 - 1 = 1
    BY <1>1, NumberedAtoms DEF t
  <2> HIDE DEF s
  <2> QED
    BY <1>1, <2>1, NumberedAtoms DEF t
<1> HIDE DEF s, t
<1>3. /\ OfIsotope(t, {"V"}) = {} /\ OfIsotope(t, {"B", "F"}) = {} /\ OfIsotope(t, {"T"}) = {}
      /\ 2 \in OfIsotope(t, {"I"})
  BY <1>2 DEF UserPair, OfIsotope
<1>4. BatchIdOk(t) /\ ContinuIdOk(t) /\ TokenOk(t)
  BY <1>2, <1>3 DEF BatchIdOk, ContinuIdOk, TokenOk, UserPair
<1>5. IsotopeMOk(t)
  BY <1>2 DEF IsotopeMOk, UserPair, OfIsotope
<1>6. IsotopeTCUIOk(t)
  BY <1>2, <1>3 DEF IsotopeTCUIOk, IsotopeTOk, IsotopeCOk, IsotopeUOk, IsotopeIOk, UserPair,
    OfIsotope
<1>7. IsotopeVError(t) = "SUCCESS"
  <2>1. ValueSum(t, {"V"}) = 0
    BY <1>3, SumEmpty DEF ValueSum
  <2> QED
    BY <1>3, <2>1, Zenon DEF IsotopeVError
<1> QED
  BY <1>4, <1>5, <1>6, <1>7 DEF ContentOK, t, s

\* What a value builder makes of a source whose token is token: every value a number, all
\* of them together nothing, and a batch of the first atom that of the last.
ValueAtoms(s, token) ==
    /\ s # <<>>
    /\ \A i \in 1 .. Len(s) :
        /\ s[i].iso \in {"V", "B", "F"} /\ s[i].value \in Int
        /\ s[i].iso # "V" => s[i].bundle # ""
        /\ s[i].iso = "F" => s[i].value >= 0
        /\ s[i].iso = "V" => s[i].token = token
    /\ s[1].token = token /\ token # "USER"
    /\ s[1].iso = "V" /\ s[1].batch # NoBatch =>
        /\ s[Len(s)].iso = "V" /\ s[Len(s)].batch = s[1].batch
        /\ \A i \in 1 .. Len(s) : s[i].iso = "V" => s[i].batch # NoBatch
    /\ SumFunctionOnSet([i \in 1 .. Len(s) |-> s[i].value], 1 .. Len(s)) = 0

LEMMA ValueAtomsPass ==
    ASSUME NEW s, NEW token, NewSeq(s), ValueAtoms(s, token)
    PROVE  ContentOK(Numbered(s))
<1> DEFINE t == Numbered(s)
           n == Len(s)
<1>1. n \in Nat /\ n # 0 /\ DOMAIN t = 1 .. n /\ 1 \in 1 .. n /\ n \in 1 .. n
  <2>1. n \in Nat /\ DOMAIN s = 1 .. n /\ DOMAIN t = 1 .. n
    BY NumberedAtoms
  <2>2. n # 0
    <3>1. s # <<>>
      BY Zenon DEF ValueAtoms
    <3> QED
      BY <3>1 DEF NewSeq
  <2> HIDE DEF t, n
  <2> QED
    BY <2>1, <2>2
<1>2. \A i \in 1 .. n :
        /\ t[i].iso = s[i].iso /\ t[i].token = s[i].token /\ t[i].value = s[i].value
        /\ t[i].batch = s[i].batch /\ t[i].bundle = s[i].bundle
  BY NumberedAtoms, Zenon
<1>3. /\ \A i \in 1 .. n :
            /\ t[i].iso \in {"V", "B", "F"} /\ t[i].value \in Int
            /\ t[i].iso # "V" => t[i].bundle # ""
            /\ t[i].iso = "F" => t[i].value >= 0
            /\ t[i].iso = "V" => t[i].token = token
      /\ t[1].token = token /\ token # "USER"
      /\ t[1].iso = "V" /\ t[1].batch # NoBatch =>
            /\ t[n].iso = "V" /\ t[n].batch = t[1].batch
            /\ \A i \in 1 .. n : t[i].iso = "V" => t[i].batch # NoBatch
  <2>1. /\ \A i \in 1 .. n :
            /\ s[i].iso \in {"V", "B", "F"} /\ s[i].value \in Int
            /\ s[i].iso # "V" => s[i].bundle # ""
            /\ s[i].iso = "F" => s[i].value >= 0
            /\ s[i].iso = "V" => s[i].token = token
        /\ s[1].token = token /\ token # "USER"
        /\ s[1].iso = "V" /\ s[1].batch # NoBatch =>
            /\ s[n].iso = "V" /\ s[n].batch = s[1].batch
            /\ \A i \in 1 .. n : s[i].iso = "V" => s[i].batch # NoBatch
    BY Zenon DEF ValueAtoms
  <2> HIDE DEF t, n
  <2> QED
    BY <1>1, <1>2, <2>1
<1>4. SumFunctionOnSet([i \in 1 .. n |-> t[i].value], 1 .. n) = 0
  <2>1. SumFunctionOnSet([i \in 1 .. n |-> s[i].value], 1 .. n) = 0
    BY Zenon DEF ValueAtoms
  <2> HIDE DEF t, n
  <2>2. [i \in 1 .. n |-> t[i].value] = [i \in 1 .. n |-> s[i].value]
    BY <1>2
  <2> QED
    BY <2>1, <2>2
<1> HIDE DEF t, n
<1>5. ASSUME NEW x \in Int PROVE x # NotANumber /\ Parsed(x) = x
  BY AbsentAssumption DEF Parsed
<1>6. /\ OfIsotope(t, {"I"}) = {} /\ OfIsotope(t, {"M"}) = {} /\ OfIsotope(t, {"T"}) = {}
      /\ OfIsotope(t, {"C"}) = {} /\ OfIsotope(t, {"U"}) = {}
      /\ OfIsotope(t, {"V", "B", "F"}) = 1 .. n
      /\ (OfIsotope(t, {"B", "F"}) = {} => OfIsotope(t, {"V"}) = 1 .. n)
  BY <1>1, <1>3 DEF OfIsotope
<1>7. BatchIdOk(t)
  <2> SUFFICES ASSUME t[1].iso = "V", t[1].batch # NoBatch
               PROVE  /\ t[Max(OfIsotope(t, {"V"}))].batch = t[1].batch
                      /\ \A i \in OfIsotope(t, {"V"}) : t[i].batch # NoBatch
    BY Zenon DEF BatchIdOk
  <2> DEFINE vs == OfIsotope(t, {"V"})
  <2>1. n \in vs /\ vs \subseteq 1 .. n
    BY <1>1, <1>3 DEF OfIsotope
  <2>2. \A i \in vs : t[i].batch # NoBatch
    BY <1>1, <1>3 DEF OfIsotope
  <2> HIDE DEF vs
  <2>3. Max(vs) = n
    <3>1. \A y \in vs : n >= y
      BY <1>1, <2>1
    <3>2. \A x \in vs : (\A y \in vs : x >= y) => x = n
      BY <1>1, <2>1
    <3> QED
      BY <2>1, <3>1, <3>2 DEF Max
  <2> QED
    BY <1>3, <2>2, <2>3 DEF vs
<1>8. ContinuIdOk(t) /\ TokenOk(t)
  BY <1>1, <1>3 DEF ContinuIdOk, TokenOk, OfIsotope
<1>9. IsotopeMOk(t) /\ IsotopeTCUIOk(t)
  BY <1>6 DEF IsotopeMOk, IsotopeTCUIOk, IsotopeTOk, IsotopeCOk, IsotopeUOk, IsotopeIOk
<1>10. IsotopeVError(t) = "SUCCESS"
  <2>1. [i \in 1 .. n |-> Parsed(t[i].value)] = [i \in 1 .. n |-> t[i].value]
    BY <1>3, <1>5
  <2>2. ValueSum(t, {"V", "B", "F"}) = 0
    BY <1>1, <1>4, <1>6, <2>1 DEF ValueSum
  <2>3. CASE OfIsotope(t, {"B", "F"}) = {}
    <3>1. ValueSum(t, {"V"}) = ValueSum(t, {"V", "B", "F"})
      BY <1>6, <2>3 DEF ValueSum
    <3> QED
      BY <2>2, <2>3, <3>1, Zenon DEF IsotopeVError
  <2>4. CASE OfIsotope(t, {"B", "F"}) # {}
    <3>1. {i \in OfIsotope(t, {"B", "F"}) : t[i].bundle = ""} = {}
      BY <1>1, <1>3 DEF OfIsotope
    <3>2. {i \in OfIsotope(t, {"V", "B", "F"}) :
                \/ t[i].value = NotANumber
                \/ t[i].iso = "F" /\ Parsed(t[i].value) < 0} = {}
      <4>1. ASSUME NEW i \in 1 .. n
            PROVE  t[i].value # NotANumber /\ (t[i].iso = "F" => ~(Parsed(t[i].value) < 0))
        <5>1. t[i].value \in Int /\ (t[i].iso = "F" => t[i].value >= 0)
          BY <1>3
        <5> QED
          BY <1>5, <5>1
      <4> QED
        BY <1>6, <4>1
    <3> QED
      BY <2>2, <2>4, <3>1, <3>2, Zenon DEF IsotopeVError
  <2> QED
    BY <2>3, <2>4
<1> QED
  BY <1>7, <1>8, <1>9, <1>10 DEF ContentOK, t

-----------------------------------------------------------------------------
(* The premises, and what a value molecule is. *)

\* Premise: a wallet has a bundle and owes nothing, and its address, if it has one, is that
\* of its token and of its OTS version (knishio_wallet_create derives it from them).
ProperWallets ==
    \A w \in (Sources \cup Remainders \cup Recipients) \ {NoWallet} :
        /\ w.bundle # "" /\ w.balance >= 0
        /\ w.addr # NoAddress => w.addr.token = w.token /\ w.addr.ver = w.ver

\* Premise: an int holds the sum of two amounts, and what they leave of a balance it holds.
\* (Past its width the builders' sums wrap, and the check refuses what was built.)
AmountsFit ==
    \A m, n \in Amounts :
        /\ -IntMax - 1 <= m + n /\ m + n <= IntMax
        /\ \A w \in Sources \ {NoWallet} :
            w.balance <= IntMax =>
                w.balance - n <= IntMax /\ w.balance - (m + n) <= IntMax

LEMMA SourcePays ==
    ASSUME NEW src \in WalletType, src.balance >= 0, src.balance <= IntMax
    PROVE  /\ IntBalance(src) = src.balance /\ Minus(IntBalance(src)) = -src.balance
           /\ \A n \in Int : n <= src.balance /\ src.balance - n <= IntMax =>
                    Remainder(src, n) = src.balance - n
<1> DEFINE b == src.balance
<1>1. b \in Int /\ b >= 0 /\ b <= IntMax
  BY WalletIsTyped
<1>2. IntBalance(src) = b
  BY <1>1 DEF IntBalance, CastInt
<1> HIDE DEF b
<1>3. Minus(b) = -b
  BY <1>1 DEF Minus
<1>4. ASSUME NEW n \in Int, n <= b, b - n <= IntMax PROVE Remainder(src, n) = b - n
  <2>1. b - n \in Int /\ -IntMax - 1 <= b - n /\ b - n <= IntMax
    BY <1>1, <1>4, IntMaxAssumption
  <2>2. WrapInt(b - n) = b - n
    BY <2>1, WrapInRange
  <2> QED
    BY <1>2, <2>2 DEF Remainder
<1> QED
  BY <1>2, <1>3, <1>4 DEF b

\* An atom of a value molecule of token.
ValueAtom(a, token) ==
    /\ a.iso \in {"V", "B", "F"} /\ a.value \in Int
    /\ a.iso # "V" => a.bundle # ""
    /\ a.iso = "F" => a.value >= 0
    /\ a.iso = "V" => a.token = token

\* The batch of the first atom is that of the last, and no other V atom is without.
BatchesOf(s) ==
    s[1].iso = "V" /\ s[1].batch # NoBatch =>
        /\ s[Len(s)].iso = "V" /\ s[Len(s)].batch = s[1].batch
        /\ \A i \in 1 .. Len(s) : s[i].iso = "V" => s[i].batch # NoBatch

LEMMA TuplesPass ==
    ASSUME NEW token, token # "USER", NEW a, IsNew(a), ValueAtom(a, token), a.token = token,
           NEW b, IsNew(b), ValueAtom(b, token)
    PROVE  /\ a.value + b.value = 0 /\ BatchesOf(<<a, b>>) => ContentOK(Numbered(<<a, b>>))
           /\ \A c : IsNew(c) /\ ValueAtom(c, token) /\ a.value + b.value + c.value = 0
                        /\ BatchesOf(<<a, b, c>>) => ContentOK(Numbered(<<a, b, c>>))
           /\ \A c, d : IsNew(c) /\ ValueAtom(c, token) /\ IsNew(d) /\ ValueAtom(d, token)
                        /\ a.value + b.value + c.value + d.value = 0
                        /\ BatchesOf(<<a, b, c, d>>) => ContentOK(Numbered(<<a, b, c, d>>))
<1>1. ASSUME NEW s, NewSeq(s), s # <<>>, s[1].token = token, BatchesOf(s),
             \A i \in 1 .. Len(s) : ValueAtom(s[i], token),
             SumFunctionOnSet([i \in 1 .. Len(s) |-> s[i].value], 1 .. Len(s)) = 0
      PROVE  ContentOK(Numbered(s))
  <2>1. ValueAtoms(s, token)
    BY <1>1, Zenon DEF ValueAtoms, ValueAtom, BatchesOf
  <2> QED
    BY <1>1, <2>1, ValueAtomsPass
<1>2. a.value \in Int /\ b.value \in Int
  BY DEF ValueAtom
<1>3. 1 .. 2 = {1, 2} /\ 1 .. 3 = {1, 2, 3} /\ 1 .. 4 = {1, 2, 3, 4}
  OBVIOUS
<1>4. ASSUME a.value + b.value = 0, BatchesOf(<<a, b>>) PROVE ContentOK(Numbered(<<a, b>>))
  <2> DEFINE s == <<a, b>>
             f == [i \in 1 .. 2 |-> s[i].value]
  <2>1. Len(s) = 2 /\ s # <<>> /\ s[1] = a /\ s[2] = b
    OBVIOUS
  <2>2. NewSeq(s)
    BY TupleIsNewSeq
  <2> HIDE DEF s
  <2>3. f[1] = a.value /\ f[2] = b.value
    BY <1>3, <2>1, Zenon
  <2> HIDE DEF f
  <2>4. SumFunctionOnSet(f, 1 .. 2) = 0
    BY <1>2, <1>4, <2>3, SmallSums
  <2>5. \A i \in 1 .. Len(s) : ValueAtom(s[i], token)
    BY <1>3, <2>1, Zenon
  <2> QED
    BY <1>1, <1>4, <2>1, <2>2, <2>4, <2>5, Zenon DEF s, f
<1>5. ASSUME NEW c, IsNew(c), ValueAtom(c, token), a.value + b.value + c.value = 0,
             BatchesOf(<<a, b, c>>)
      PROVE  ContentOK(Numbered(<<a, b, c>>))
  <2> DEFINE s == <<a, b, c>>
             f == [i \in 1 .. 3 |-> s[i].value]
  <2>1. Len(s) = 3 /\ s # <<>> /\ s[1] = a /\ s[2] = b /\ s[3] = c
    OBVIOUS
  <2>2. NewSeq(s) /\ c.value \in Int
    BY <1>5, TupleIsNewSeq DEF ValueAtom
  <2> HIDE DEF s
  <2>3. f[1] = a.value /\ f[2] = b.value /\ f[3] = c.value
    BY <1>3, <2>1, Zenon
  <2> HIDE DEF f
  <2>4. SumFunctionOnSet(f, 1 .. 3) = 0
    BY <1>2, <1>5, <2>2, <2>3, SmallSums
  <2>5. \A i \in 1 .. Len(s) : ValueAtom(s[i], token)
    BY <1>3, <1>5, <2>1, Zenon
  <2> QED
    BY <1>1, <1>5, <2>1, <2>2, <2>4, <2>5, Zenon DEF s, f
<1>6. ASSUME NEW c, IsNew(c), ValueAtom(c, token), NEW d, IsNew(d), ValueAtom(d, token),
             a.value + b.value + c.value + d.value = 0, BatchesOf(<<a, b, c, d>>)
      PROVE  ContentOK(Numbered(<<a, b, c, d>>))
  <2> DEFINE s == <<a, b, c, d>>
             f == [i \in 1 .. 4 |-> s[i].value]
  <2>1. Len(s) = 4 /\ s # <<>> /\ s[1] = a /\ s[2] = b /\ s[3] = c /\ s[4] = d
    OBVIOUS
  <2>2. NewSeq(s) /\ c.value \in Int /\ d.value \in Int
    BY <1>6, TupleIsNewSeq DEF ValueAtom
  <2> HIDE DEF s
  <2>3. f[1] = a.value /\ f[2] = b.value /\ f[3] = c.value /\ f[4] = d.value
    BY <1>3, <2>1, Zenon
  <2> HIDE DEF f
  <2>4. SumFunctionOnSet(f, 1 .. 4) = 0
    BY <1>2, <1>6, <2>2, <2>3, SmallSums
  <2>5. \A i \in 1 .. Len(s) : ValueAtom(s[i], token)
    BY <1>3, <1>6, <2>1, Zenon
  <2> QED
    BY <1>1, <1>6, <2>1, <2>2, <2>4, <2>5, Zenon DEF s, f
<1> QED
  BY <1>4, <1>5, <1>6

\* A new atom with these fields.
Has(a, iso, addr, token, value, batch, bundle) ==
    /\ IsNew(a) /\ a.iso = iso /\ a.addr = addr /\ a.token = token /\ a.value = value
    /\ a.batch = batch /\ a.bundle = bundle

LEMMA NewAtomHas ==
    ASSUME NEW iso \in Isotopes, NEW addr \in AddressType, NEW token \in Texts,
           NEW value \in Int \cup {NotANumber}, NEW batch \in Texts \cup {NoBatch}
    PROVE  Has(NewAtom(iso, addr, token, value, batch), iso, addr, token, value, batch, "")
<1> DEFINE a == NewAtom(iso, addr, token, value, batch)
<1>1. IsNew(a)
  BY NewAtomIsNew
<1>2. /\ a.iso = iso /\ a.addr = addr /\ a.token = token /\ a.value = value
      /\ a.batch = batch /\ a.bundle = ""
  BY Zenon DEF NewAtom
<1> HIDE DEF a
<1> QED
  BY <1>1, <1>2 DEF Has, a

LEMMA DecoratedHas ==
    ASSUME NEW a, NEW iso, NEW addr, NEW token, NEW value, NEW batch, NEW bundle,
           Has(a, iso, addr, token, value, batch, bundle)
    PROVE  /\ \A x \in Texts : Has(ToBundle(a, x), iso, addr, token, value, batch, x)
           /\ \A x \in Seq(Texts) : Has(WithUnits(a, x), iso, addr, token, value, batch, bundle)
           /\ \A x \in SUBSET (Texts \X Texts) :
                /\ Has(WithMeta(a, x), iso, addr, token, value, batch, bundle)
                /\ WithMeta(a, x).meta = x
           /\ Has([a EXCEPT !.batch = NoBatch], iso, addr, token, value, NoBatch, bundle)
<1>1. /\ a \in AtomType /\ IsNew(a) /\ a.iso = iso /\ a.addr = addr /\ a.token = token
      /\ a.value = value /\ a.batch = batch /\ a.bundle = bundle
  BY DEF Has, IsNew
<1>2. /\ \A x \in Texts : IsNew(ToBundle(a, x))
      /\ \A x \in Seq(Texts) : IsNew(WithUnits(a, x))
      /\ \A x \in SUBSET (Texts \X Texts) : IsNew(WithMeta(a, x))
      /\ IsNew([a EXCEPT !.batch = NoBatch])
  BY <1>1, DecoratedIsNew
<1>3. ASSUME NEW x \in Texts PROVE Has(ToBundle(a, x), iso, addr, token, value, batch, x)
  BY <1>1, <1>2 DEF Has, ToBundle, AtomType
<1>4. ASSUME NEW x \in Seq(Texts)
      PROVE  Has(WithUnits(a, x), iso, addr, token, value, batch, bundle)
  BY <1>1, <1>2 DEF Has, WithUnits, AtomType
<1>5. ASSUME NEW x \in SUBSET (Texts \X Texts)
      PROVE  /\ Has(WithMeta(a, x), iso, addr, token, value, batch, bundle)
             /\ WithMeta(a, x).meta = x
  BY <1>1, <1>2 DEF Has, WithMeta, AtomType
<1>6. Has([a EXCEPT !.batch = NoBatch], iso, addr, token, value, NoBatch, bundle)
  BY <1>1, <1>2 DEF Has, AtomType
<1> QED
  BY <1>3, <1>4, <1>5, <1>6

\* The atoms of the value builders.
LEMMA WalletAtomsHave ==
    ASSUME NEW iso \in Isotopes, NEW w \in WalletType, NEW v \in Int \cup {NotANumber}
    PROVE  /\ Has(WalletAtom(iso, w, v), iso, w.addr, w.token, v, w.batch, "")
           /\ Has(Credit(iso, w, v), iso, w.addr, w.token, v, w.batch, w.bundle)
           /\ Has(Debit(iso, w), iso, w.addr, w.token, Minus(IntBalance(w)), w.batch, "")
<1>1. Minus(IntBalance(w)) \in Int \cup {NotANumber}
  BY AmountsAreTyped, 0 \in Int
<1>2. ASSUME NEW x \in Int \cup {NotANumber}
      PROVE  Has(WalletAtom(iso, w, x), iso, w.addr, w.token, x, w.batch, "")
  BY NewAtomHas, WalletIsTyped DEF WalletAtom
<1>3. Has(Debit(iso, w), iso, w.addr, w.token, Minus(IntBalance(w)), w.batch, "")
  <2> DEFINE x == Minus(IntBalance(w))
  <2>1. Has(WalletAtom(iso, w, x), iso, w.addr, w.token, x, w.batch, "")
    BY <1>1, <1>2
  <2>2. Has(WithUnits(WalletAtom(iso, w, x), w.units), iso, w.addr, w.token, x, w.batch, "")
    <3> HIDE DEF x
    <3> QED
      BY <2>1, DecoratedHas, WalletIsTyped
  <2> QED
    BY <2>2 DEF Debit
<1>4. Has(Credit(iso, w, v), iso, w.addr, w.token, v, w.batch, w.bundle)
  <2>1. Has(ToBundle(WalletAtom(iso, w, v), w.bundle), iso, w.addr, w.token, v, w.batch,
            w.bundle)
    BY <1>2, DecoratedHas, WalletIsTyped
  <2> QED
    BY <2>1, DecoratedHas, WalletIsTyped DEF Credit
<1> QED
  BY <1>2, <1>3, <1>4

-----------------------------------------------------------------------------
(* Each builder, called as the protocol asks. *)

\* What a builder hands to add_atom passes the check and is signed by the source.
BuiltWell(s) ==
    /\ NewSeq(s) /\ s # <<>> /\ ContentOK(Numbered(s))
    /\ s[1].token = source.token /\ s[1].addr = source.addr

LEMMA ProperWallet ==
    ASSUME ProperWallets, NEW w, w # NoWallet,
           w \in Recipients \/ (TypeOK /\ w \in {source, remainder})
    PROVE  /\ w \in WalletType /\ w.bundle # "" /\ w.balance >= 0
           /\ w.addr # NoAddress => w.addr.token = w.token /\ w.addr.ver = w.ver
<1>1. w \in (Sources \cup Remainders \cup Recipients) \ {NoWallet}
  BY DEF TypeOK
<1> QED
  BY <1>1, WalletsAssumption, Zenon DEF ProperWallets

\* A source that pays.
LEMMA PayerPays ==
    ASSUME TypeOK, ProperWallets, ValueSigned
    PROVE  /\ source # NoWallet /\ source \in WalletType /\ source.token # "USER"
           /\ source.token \in Texts /\ source.addr \in AddressType
           /\ source.bundle # "" /\ source.batch \in Texts \cup {NoBatch}
           /\ source.bundle \in Texts /\ source.units \in Seq(Texts)
           /\ source.balance \in Int /\ source.balance >= 0 /\ source.balance <= IntMax
           /\ IntBalance(source) = source.balance
           /\ Minus(IntBalance(source)) = -source.balance
           /\ \A n \in Int : n <= source.balance /\ source.balance - n <= IntMax =>
                    Remainder(source, n) = source.balance - n
<1>1. source # NoWallet /\ source.token # "USER" /\ source.balance <= IntMax
  BY DEF ValueSigned, Owned
<1>2. source \in WalletType /\ source.bundle # "" /\ source.balance >= 0
  BY <1>1, ProperWallet
<1> QED
  BY <1>1, <1>2, SourcePays, WalletIsTyped

LEMMA UserPairBuilds ==
    ASSUME TypeOK, NEW first, NEW iso \in {"M", "U", "C"}, NEW value, NEW batch, NEW bundle,
           Has(first, iso, source.addr, source.token, value, batch, bundle),
           source # NoWallet, remainder # NoWallet, remainder.token = "USER",
           iso = "U" => source.token \in {"AUTH", "USER"},
           iso # "U" => source.token = "USER",
           iso = "M" => first.meta # {}
    PROVE  BuiltWell(ThenContinuId(first, source, remainder).atoms)
<1> DEFINE second == ContinuIdAtom(source, remainder)
<1>1. source \in WalletType /\ remainder \in WalletType
  BY TypedState
<1>2. IsNew(second) /\ second.iso = "I" /\ second.token = "USER"
  <2> DEFINE a == NewAtom("I", remainder.addr, remainder.token, 0, NoBatch)
             x == {<<"previousPosition", source.addr.pos>>}
  <2>1. "I" \in Isotopes /\ 0 \in Int \cup {NotANumber} /\ NoBatch \in Texts \cup {NoBatch}
    BY DEF Isotopes
  <2>2. Has(a, "I", remainder.addr, "USER", 0, NoBatch, "")
    BY <1>1, <2>1, NewAtomHas, WalletIsTyped
  <2>3. x \in SUBSET (Texts \X Texts)
    <3>1. <<"previousPosition", source.addr.pos>> \in Texts \X Texts
      BY <1>1, LiteralsAssumption, WalletIsTyped, PairIsTyped
    <3> QED
      BY <3>1, Zenon
  <2> HIDE DEF a, x
  <2>4. Has(ToBundle(a, remainder.bundle), "I", remainder.addr, "USER", 0, NoBatch,
            remainder.bundle)
    BY <1>1, <2>2, DecoratedHas, WalletIsTyped
  <2>5. Has(WithMeta(ToBundle(a, remainder.bundle), x), "I", remainder.addr, "USER", 0,
            NoBatch, remainder.bundle)
    BY <2>3, <2>4, DecoratedHas
  <2>6. second = WithMeta(ToBundle(a, remainder.bundle), x)
    BY Zenon DEF ContinuIdAtom, a, x
  <2> HIDE DEF second
  <2> QED
    BY <2>5, <2>6 DEF Has
<1> HIDE DEF second
<1>3. IsNew(first) /\ UserPair(first, second)
  BY <1>2 DEF Has, UserPair
<1>4. ContentOK(Numbered(<<first, second>>)) /\ NewSeq(<<first, second>>)
  BY <1>2, <1>3, UserPairPasses, TupleIsNewSeq
<1>5. <<first, second>> # <<>> /\ <<first, second>>[1] = first
  OBVIOUS
<1>6. ThenContinuId(first, source, remainder).atoms = <<first, second>>
  BY DEF ThenContinuId, Built, second
<1> QED
  BY <1>4, <1>5, <1>6, Zenon DEF BuiltWell, Has

\* The USER-signed builders.
LEMMA UserBuildersBuild ==
    ASSUME TypeOK, UserSigned({"USER"}) \/ UserSigned({"USER", "AUTH"})
    PROVE  /\ BuiltWell(InitAuthorization(source, remainder, "false").atoms)
           /\ UserSigned({"USER"}) =>
                /\ \A m \in Metas : m # {} => BuiltWell(InitMeta(source, remainder, m).atoms)
                /\ \A w \in Recipients \ {NoWallet} :
                    /\ BuiltWell(InitWalletCreation(source, remainder, w, {}).atoms)
                    /\ BuiltWell(InitShadowWalletClaim(source, remainder, w).atoms)
                    /\ \A n \in Amounts :
                        /\ BuiltWell(InitTokenCreation(source, remainder, w, n).atoms)
                        /\ \A us \in UnitLists :
                            InitReplenish(source, remainder, w, n, us).err = "SUCCESS" =>
                                BuiltWell(InitReplenish(source, remainder, w, n, us).atoms)
<1>1. /\ source # NoWallet /\ remainder # NoWallet /\ remainder.token = "USER"
      /\ source.token \in {"AUTH", "USER"}
      /\ UserSigned({"USER"}) => source.token = "USER"
  BY DEF UserSigned, Owned
<1>2. source \in WalletType /\ source.addr \in AddressType /\ source.token \in Texts
  BY <1>1, TypedState, WalletIsTyped
<1>3. ASSUME NEW iso \in {"M", "U", "C"}, NEW value \in Int, NEW batch \in Texts \cup {NoBatch}
      PROVE  Has(NewAtom(iso, source.addr, source.token, value, batch), iso, source.addr,
                 source.token, value, batch, "")
  BY <1>2, NewAtomHas DEF Isotopes
<1>4. ASSUME NEW iso \in {"M", "U", "C"}, NEW value \in Int, NEW batch \in Texts \cup {NoBatch},
             NEW m \in SUBSET (Texts \X Texts),
             iso = "M" => m # {}, iso # "U" => source.token = "USER"
      PROVE  LET a == WithMeta(NewAtom(iso, source.addr, source.token, value, batch), m)
             IN  /\ Has(a, iso, source.addr, source.token, value, batch, "")
                 /\ BuiltWell(ThenContinuId(a, source, remainder).atoms)
  <2> DEFINE a == WithMeta(NewAtom(iso, source.addr, source.token, value, batch), m)
  <2>1. Has(a, iso, source.addr, source.token, value, batch, "") /\ a.meta = m
    BY <1>3, DecoratedHas
  <2> HIDE DEF a
  <2>2. BuiltWell(ThenContinuId(a, source, remainder).atoms)
    BY <1>1, <1>4, <2>1, UserPairBuilds
  <2> QED
    BY <2>1, <2>2 DEF a
<1>5. 0 \in Int /\ NoBatch \in Texts \cup {NoBatch} /\ \A x : x \cup {} = x
  OBVIOUS
<1>6. BuiltWell(InitAuthorization(source, remainder, "false").atoms)
  <2>1. {<<"encrypt", "false">>} \in SUBSET (Texts \X Texts)
    <3>1. <<"encrypt", "false">> \in Texts \X Texts
      BY LiteralsAssumption, PairIsTyped
    <3> QED
      BY <3>1, Zenon
  <2> QED
    BY <1>1, <1>4, <1>5, <2>1 DEF InitAuthorization
<1>7. ASSUME UserSigned({"USER"}), NEW m \in Metas, m # {}
      PROVE  BuiltWell(InitMeta(source, remainder, m).atoms)
  <2>1. m \in SUBSET (Texts \X Texts)
    BY InputsAreTyped, Zenon
  <2> QED
    BY <1>1, <1>4, <1>5, <1>7, <2>1 DEF InitMeta
<1>8. ASSUME UserSigned({"USER"}), NEW w \in Recipients \ {NoWallet}
      PROVE  /\ BuiltWell(InitWalletCreation(source, remainder, w, {}).atoms)
             /\ BuiltWell(InitShadowWalletClaim(source, remainder, w).atoms)
             /\ \A n \in Amounts :
                    /\ BuiltWell(InitTokenCreation(source, remainder, w, n).atoms)
                    /\ \A us \in UnitLists :
                        InitReplenish(source, remainder, w, n, us).err = "SUCCESS" =>
                            BuiltWell(InitReplenish(source, remainder, w, n, us).atoms)
  <2>1. w \in WalletType /\ w.batch \in Texts \cup {NoBatch}
        /\ WalletMeta(w) \in SUBSET (Texts \X Texts)
    BY InputsAreTyped, WalletIsTyped, WalletMetaIsTyped
  <2>2. ASSUME NEW lead \in SUBSET (Texts \X Texts)
        PROVE  BuiltWell(InitWalletCreation(source, remainder, w, lead).atoms)
    <3>1. lead \cup WalletMeta(w) \in SUBSET (Texts \X Texts)
      BY <2>1, Zenon
    <3> QED
      BY <1>1, <1>4, <1>5, <1>8, <2>1, <3>1 DEF InitWalletCreation
  <2>3. {} \in SUBSET (Texts \X Texts) /\ {<<"shadowWalletClaim", "1">>} \in SUBSET (Texts \X Texts)
    <3>1. <<"shadowWalletClaim", "1">> \in Texts \X Texts
      BY LiteralsAssumption, PairIsTyped
    <3> QED
      BY <3>1, Zenon
  <2>4. ASSUME NEW n \in Amounts
        PROVE  BuiltWell(InitTokenCreation(source, remainder, w, n).atoms)
    <3>1. n \in Int
      BY InputsAreTyped
    <3> QED
      BY <1>1, <1>4, <1>8, <2>1, <3>1 DEF InitTokenCreation
  <2>5. ASSUME NEW n \in Amounts, NEW us \in UnitLists,
               InitReplenish(source, remainder, w, n, us).err = "SUCCESS"
        PROVE  BuiltWell(InitReplenish(source, remainder, w, n, us).atoms)
    <3> DEFINE value == IF us = <<>> THEN n ELSE Len(us)
               m == {<<"action", "add">>} \cup WalletMeta(w)
               a == WithMeta(NewAtom("C", source.addr, source.token, value, w.batch), m)
    <3>1. value \in Int /\ us \in Seq(Texts)
      BY InputsAreTyped
    <3>2. m \in SUBSET (Texts \X Texts)
      <4>1. <<"action", "add">> \in Texts \X Texts
        BY LiteralsAssumption, PairIsTyped
      <4> QED
        BY <2>1, <4>1, Zenon
    <3>3. InitReplenish(source, remainder, w, n, us)
            = ThenContinuId(WithUnits(a, us), source, remainder)
      <4>1. NoWallet \notin {source, remainder}
        BY <1>1
      <4>2. ~(us # <<>> /\ n \notin {0, Len(us)}) /\ ~(us = <<>> /\ n <= 0)
        <5>1. ASSUME us # <<>> /\ n \notin {0, Len(us)} PROVE FALSE
          <6>1. InitReplenish(source, remainder, w, n, us) = Refused("STACKABLE_UNIT_AMOUNT")
            BY <4>1, <5>1, Zenon DEF InitReplenish
          <6> QED
            BY <2>5, <6>1 DEF Refused
        <5>2. ASSUME us = <<>> /\ n <= 0 PROVE FALSE
          <6>1. ~(us # <<>> /\ n \notin {0, Len(us)})
            BY <5>2
          <6>2. InitReplenish(source, remainder, w, n, us) = Refused("NEGATIVE_AMOUNT")
            BY <4>1, <5>2, <6>1, Zenon DEF InitReplenish
          <6> QED
            BY <2>5, <6>2 DEF Refused
        <5> QED
          BY <5>1, <5>2, Zenon
      <4> QED
        BY <4>1, <4>2, Zenon DEF InitReplenish
    <3> HIDE DEF value, m
    <3>4. Has(a, "C", source.addr, source.token, value, w.batch, "")
      BY <1>1, <1>4, <1>8, <2>1, <3>1, <3>2
    <3> HIDE DEF a
    <3>5. Has(WithUnits(a, us), "C", source.addr, source.token, value, w.batch, "")
      BY <3>1, <3>4, DecoratedHas
    <3>6. BuiltWell(ThenContinuId(WithUnits(a, us), source, remainder).atoms)
      BY <1>1, <1>8, <3>5, UserPairBuilds
    <3> QED
      BY <3>3, <3>6
  <2> QED
    BY <2>2, <2>3, <2>4, <2>5 DEF InitShadowWalletClaim
<1> QED
  BY <1>6, <1>7, <1>8

LEMMA TupleBatches ==
    ASSUME NEW a, NEW b, NEW c, NEW d
    PROVE  /\ (a.iso = "V" /\ a.batch # NoBatch => b.iso = "V" /\ b.batch = a.batch)
                => BatchesOf(<<a, b>>)
           /\ (a.iso = "V" /\ a.batch # NoBatch =>
                    /\ c.iso = "V" /\ c.batch = a.batch /\ (b.iso = "V" => b.batch # NoBatch))
                => BatchesOf(<<a, b, c>>)
           /\ (a.iso = "V" /\ a.batch # NoBatch =>
                    /\ d.iso = "V" /\ d.batch = a.batch
                    /\ (b.iso = "V" => b.batch # NoBatch) /\ (c.iso = "V" => c.batch # NoBatch))
                => BatchesOf(<<a, b, c, d>>)
<1>1. 1 .. 2 = {1, 2} /\ 1 .. 3 = {1, 2, 3} /\ 1 .. 4 = {1, 2, 3, 4}
  OBVIOUS
<1>2. /\ Len(<<a, b>>) = 2 /\ <<a, b>>[1] = a /\ <<a, b>>[2] = b
      /\ Len(<<a, b, c>>) = 3 /\ <<a, b, c>>[1] = a /\ <<a, b, c>>[2] = b /\ <<a, b, c>>[3] = c
      /\ Len(<<a, b, c, d>>) = 4 /\ <<a, b, c, d>>[1] = a /\ <<a, b, c, d>>[2] = b
      /\ <<a, b, c, d>>[3] = c /\ <<a, b, c, d>>[4] = d
  OBVIOUS
<1> QED
  BY <1>1, <1>2 DEF BatchesOf

\* Value builders: what is taken from the source is what is given, to whom it may be.
LEMMA TuplesBuild ==
    ASSUME ValueSigned, NEW a, IsNew(a), ValueAtom(a, source.token),
           a.token = source.token, a.addr = source.addr,
           NEW b, IsNew(b), ValueAtom(b, source.token)
    PROVE  /\ a.value + b.value = 0 /\ BatchesOf(<<a, b>>) => BuiltWell(<<a, b>>)
           /\ \A c : IsNew(c) /\ ValueAtom(c, source.token) /\ a.value + b.value + c.value = 0
                        /\ BatchesOf(<<a, b, c>>) => BuiltWell(<<a, b, c>>)
           /\ \A c, d : IsNew(c) /\ ValueAtom(c, source.token)
                        /\ IsNew(d) /\ ValueAtom(d, source.token)
                        /\ a.value + b.value + c.value + d.value = 0
                        /\ BatchesOf(<<a, b, c, d>>) => BuiltWell(<<a, b, c, d>>)
<1>1. source.token # "USER"
  BY DEF ValueSigned
<1>2. ASSUME NEW c, NEW d
      PROVE  /\ <<a, b>> # <<>> /\ <<a, b, c>> # <<>> /\ <<a, b, c, d>> # <<>>
             /\ <<a, b>>[1] = a /\ <<a, b, c>>[1] = a /\ <<a, b, c, d>>[1] = a
  OBVIOUS
<1>3. ASSUME a.value + b.value = 0, BatchesOf(<<a, b>>) PROVE BuiltWell(<<a, b>>)
  <2>1. ContentOK(Numbered(<<a, b>>)) /\ NewSeq(<<a, b>>)
    BY <1>1, <1>3, TuplesPass, TupleIsNewSeq
  <2> QED
    BY <1>2, <2>1 DEF BuiltWell
<1>4. ASSUME NEW c, IsNew(c), ValueAtom(c, source.token), a.value + b.value + c.value = 0,
             BatchesOf(<<a, b, c>>)
      PROVE  BuiltWell(<<a, b, c>>)
  <2>1. ContentOK(Numbered(<<a, b, c>>)) /\ NewSeq(<<a, b, c>>)
    BY <1>1, <1>4, TuplesPass, TupleIsNewSeq
  <2> QED
    BY <1>2, <2>1 DEF BuiltWell
<1>5. ASSUME NEW c, IsNew(c), ValueAtom(c, source.token), NEW d, IsNew(d),
             ValueAtom(d, source.token), a.value + b.value + c.value + d.value = 0,
             BatchesOf(<<a, b, c, d>>)
      PROVE  BuiltWell(<<a, b, c, d>>)
  <2>1. ContentOK(Numbered(<<a, b, c, d>>)) /\ NewSeq(<<a, b, c, d>>)
    BY <1>1, <1>5, TuplesPass, TupleIsNewSeq
  <2> QED
    BY <1>2, <2>1 DEF BuiltWell
<1> QED
  BY <1>3, <1>4, <1>5, Zenon

\* What it takes to be an atom of a value molecule.
Fits(iso, token, value, bundle) ==
    /\ iso \in {"V", "B", "F"} /\ value \in Int
    /\ iso # "V" => bundle # ""
    /\ iso = "F" => value >= 0
    /\ iso = "V" => token = source.token

LEMMA FittingIsValueAtom ==
    ASSUME NEW a, NEW iso, NEW addr, NEW token, NEW value, NEW batch, NEW bundle,
           Has(a, iso, addr, token, value, batch, bundle), Fits(iso, token, value, bundle)
    PROVE  /\ IsNew(a) /\ ValueAtom(a, source.token) /\ a.iso = iso /\ a.addr = addr
           /\ a.token = token /\ a.value = value /\ a.batch = batch
  BY DEF Has, ValueAtom, Fits

LEMMA BuiltAtoms == ASSUME NEW s PROVE Built(s).atoms = s
  BY DEF Built

LEMMA RefusedError == ASSUME NEW e PROVE Refused(e).err = e
  BY DEF Refused


\* A source that pays, as the value builders see it.
Payer ==
    /\ source \in WalletType /\ source # NoWallet /\ source.token # "USER"
    /\ source.bundle # "" /\ source.balance \in Int
    /\ Minus(IntBalance(source)) = -source.balance /\ IntBalance(source) = source.balance
    /\ source.balance <= IntMax
    /\ \A n \in Int : n <= source.balance /\ source.balance - n <= IntMax =>
            Remainder(source, n) = source.balance - n

LEMMA PayerIs ==
    ASSUME Payer
    PROVE  /\ source \in WalletType /\ source # NoWallet /\ source.token # "USER"
           /\ source.bundle # "" /\ source.balance \in Int /\ -source.balance \in Int
           /\ Minus(IntBalance(source)) = -source.balance
           /\ IntBalance(source) = source.balance
           /\ \A n \in Nat : n <= source.balance => source.balance - n <= IntMax
<1>1. /\ source \in WalletType /\ source # NoWallet /\ source.token # "USER"
      /\ source.bundle # "" /\ source.balance \in Int
      /\ Minus(IntBalance(source)) = -source.balance /\ IntBalance(source) = source.balance
  BY Zenon DEF Payer
<1>2. \A x \in Int : -x \in Int
  OBVIOUS
<1>3. \A n \in Nat : n <= source.balance => source.balance - n <= IntMax
  <2> DEFINE b == source.balance
  <2>1. b \in Int /\ b <= IntMax
    BY Zenon DEF Payer
  <2> HIDE DEF b
  <2>2. \A n \in Nat : n <= b => b - n <= IntMax
    BY <2>1, IntMaxAssumption
  <2> QED
    BY <2>2 DEF b
<1> QED
  BY <1>1, <1>2, <1>3, Zenon

\* The debit of a payer, and what remains of its balance.
LEMMA PayerAtoms ==
    ASSUME Payer, NEW iso \in {"V", "B"}, NEW n \in Int, n <= source.balance,
           source.balance - n <= IntMax
    PROVE  /\ Has(Debit(iso, source), iso, source.addr, source.token, -source.balance,
                  source.batch, "")
           /\ Has(WalletAtom(iso, source, Minus(IntBalance(source))), iso, source.addr,
                  source.token, -source.balance, source.batch, "")
           /\ Remainder(source, n) = source.balance - n /\ source.balance - n \in Int
           /\ -source.balance + n + (source.balance - n) = 0
<1> DEFINE b == source.balance
<1>1. Minus(IntBalance(source)) = -b /\ b \in Int /\ source \in WalletType /\ -b \in Int
  BY PayerIs
<1>2. iso \in Isotopes
  BY DEF Isotopes
<1>3. /\ Has(Debit(iso, source), iso, source.addr, source.token, -b, source.batch, "")
      /\ Has(WalletAtom(iso, source, Minus(IntBalance(source))), iso, source.addr,
             source.token, -b, source.batch, "")
  <2> HIDE DEF b
  <2> QED
    BY <1>1, <1>2, WalletAtomsHave
<1>4. Remainder(source, n) = b - n
  BY Zenon DEF Payer
<1>5. b - n \in Int /\ -b + n + (b - n) = 0
  <2> HIDE DEF b
  <2> QED
    BY <1>1
<1> QED
  BY <1>3, <1>4, <1>5

LEMMA SourceIsPayer == ASSUME TypeOK, ProperWallets, ValueSigned PROVE Payer
  BY PayerPays, Zenon DEF Payer

LEMMA ValueBuilds ==
    ASSUME ValueSigned, Payer, remainder \in WalletType \cup {NoWallet},
           NEW w \in WalletType, NEW n \in Int, source.balance - n <= IntMax,
           w.token = source.token,
           source.batch # NoBatch => w.batch # NoBatch,
           remainder = NoWallet =>
                n = source.balance /\ (source.batch # NoBatch => w.batch = source.batch),
           remainder # NoWallet =>
                remainder.token = source.token
                /\ (source.batch # NoBatch => remainder.batch = source.batch),
           InitValue(source, remainder, w, n).err = "SUCCESS"
    PROVE  BuiltWell(InitValue(source, remainder, w, n).atoms)
<1> DEFINE b == source.balance
           first  == Debit("V", source)
           second == Credit("V", w, n)
           third  == Credit("V", remainder, Remainder(source, n))
<1>1. source # NoWallet /\ b \in Int /\ -b \in Int
  BY PayerIs
<1>2. ~(b < n)
  <2> SUFFICES ASSUME b < n PROVE FALSE
    OBVIOUS
  <2>1. InitValue(source, remainder, w, n) = Refused("BALANCE_INSUFFICIENT")
    BY <1>1, Zenon DEF InitValue
  <2> QED
    BY <2>1, RefusedError
<1>3. n <= b /\ n \in Int
  BY <1>1, <1>2
<1>4. /\ IsNew(first) /\ ValueAtom(first, source.token) /\ first.iso = "V"
      /\ first.addr = source.addr /\ first.token = source.token
      /\ first.value = -b /\ first.batch = source.batch
  <2> DEFINE v == -b
  <2>1. Has(first, "V", source.addr, source.token, v, source.batch, "")
    BY <1>3, PayerAtoms
  <2>2. Fits("V", source.token, v, "")
    BY <1>1 DEF Fits
  <2> HIDE DEF first, v
  <2>3. /\ IsNew(first) /\ ValueAtom(first, source.token) /\ first.iso = "V"
        /\ first.addr = source.addr /\ first.token = source.token
        /\ first.value = v /\ first.batch = source.batch
    BY <2>1, <2>2 DEF Has, ValueAtom, Fits
  <2> QED
    BY <2>3 DEF v
<1>5. /\ IsNew(second) /\ ValueAtom(second, source.token) /\ second.iso = "V"
      /\ second.value = n /\ second.batch = w.batch
  <2>1. Has(second, "V", w.addr, w.token, n, w.batch, w.bundle)
    BY <1>3, WalletAtomsHave DEF Isotopes
  <2>2. Fits("V", w.token, n, w.bundle)
    BY <1>3 DEF Fits
  <2> HIDE DEF second
  <2> QED
    BY <2>1, <2>2, FittingIsValueAtom
<1>6. CASE remainder = NoWallet
  <2>1. InitValue(source, remainder, w, n) = Built(<<first, second>>)
    BY <1>1, <1>2, <1>6, Zenon DEF InitValue
  <2> HIDE DEF first, second, b
  <2>2. InitValue(source, remainder, w, n).atoms = <<first, second>>
    BY <2>1, BuiltAtoms
  <2>3. first.value + second.value = 0
    BY <1>1, <1>4, <1>5, <1>6 DEF b
  <2>4. BatchesOf(<<first, second>>)
    BY <1>4, <1>5, <1>6, TupleBatches
  <2> QED
    BY <1>4, <1>5, <2>2, <2>3, <2>4, TuplesBuild
<1>7. CASE remainder # NoWallet
  <2>1. InitValue(source, remainder, w, n) = Built(<<first, second, third>>)
    BY <1>1, <1>2, <1>7, Zenon DEF InitValue
  <2>2. InitValue(source, remainder, w, n).atoms = <<first, second, third>>
    BY <2>1, BuiltAtoms, Zenon
  <2>3. /\ IsNew(third) /\ ValueAtom(third, source.token) /\ third.iso = "V"
        /\ third.value = b - n /\ third.batch = remainder.batch
    <3> DEFINE r == b - n
    <3>1. r \in Int /\ Remainder(source, n) = r
      BY <1>3, PayerAtoms
    <3>2. third = Credit("V", remainder, r)
      BY <3>1
    <3> HIDE DEF r, third
    <3>3. Has(third, "V", remainder.addr, remainder.token, r, remainder.batch,
              remainder.bundle)
      BY <1>7, <3>1, <3>2, WalletAtomsHave DEF Isotopes
    <3>4. Fits("V", remainder.token, r, remainder.bundle)
      BY <1>7, <3>1 DEF Fits
    <3>5. /\ IsNew(third) /\ ValueAtom(third, source.token) /\ third.iso = "V"
          /\ third.value = r /\ third.batch = remainder.batch
      BY <3>3, <3>4, FittingIsValueAtom
    <3> QED
      BY <3>5 DEF r
  <2> HIDE DEF first, second, third, b
  <2>4. first.value + second.value + third.value = 0
    BY <1>1, <1>4, <1>5, <2>3
  <2>5. BatchesOf(<<first, second, third>>)
    BY <1>4, <1>5, <1>7, <2>3, TupleBatches
  <2> QED
    BY <1>4, <1>5, <2>2, <2>3, <2>4, <2>5, TuplesBuild
<1> QED
  BY <1>6, <1>7

\* An atom of the source's value molecule, with these fields.
Item(a, iso, addr, token, value, batch) ==
    /\ IsNew(a) /\ ValueAtom(a, source.token) /\ a.iso = iso /\ a.addr = addr
    /\ a.token = token /\ a.value = value /\ a.batch = batch

LEMMA HasItem ==
    ASSUME NEW a, NEW iso, NEW addr, NEW token, NEW value, NEW batch, NEW bundle,
           Has(a, iso, addr, token, value, batch, bundle), Fits(iso, token, value, bundle)
    PROVE  Item(a, iso, addr, token, value, batch)
  BY FittingIsValueAtom, Zenon DEF Item

LEMMA WalletItem ==
    ASSUME NEW iso \in {"V", "B"}, NEW w \in WalletType, NEW v \in Int, NEW bundle \in Texts,
           iso = "B" => bundle # "", iso = "V" => w.token = source.token
    PROVE  Item(ToBundle(WalletAtom(iso, w, v), bundle), iso, w.addr, w.token, v, w.batch)
<1>1. iso \in Isotopes
  BY DEF Isotopes
<1>2. Has(WalletAtom(iso, w, v), iso, w.addr, w.token, v, w.batch, "")
  BY <1>1, WalletAtomsHave
<1>3. Has(ToBundle(WalletAtom(iso, w, v), bundle), iso, w.addr, w.token, v, w.batch, bundle)
  BY <1>2, DecoratedHas
<1>4. Fits(iso, w.token, v, bundle)
  BY DEF Fits
<1> QED
  BY <1>3, <1>4, HasItem

LEMMA SentHas ==
    ASSUME NEW iso \in {"V", "F"}, NEW addr \in AddressType, NEW token \in Texts, NEW v \in Int,
           NEW batch \in Texts \cup {NoBatch}, NEW bundle \in Texts
    PROVE  Has(ToBundle(NewAtom(iso, addr, token, v, batch), bundle), iso, addr, token, v, batch,
               bundle)
<1>1. iso \in Isotopes
  BY DEF Isotopes
<1>2. Has(NewAtom(iso, addr, token, v, batch), iso, addr, token, v, batch, "")
  BY <1>1, NewAtomHas
<1> QED
  BY <1>2, DecoratedHas

LEMMA BufferAllows ==
    ASSUME NEW n \in Int, source \in WalletType,
           BufferRefusal(source, remainder, n) = "SUCCESS"
    PROVE  n \in Nat /\ n <= source.balance
<1> DEFINE b == source.balance
<1>1. b \in Int
  BY WalletIsTyped
<1> HIDE DEF b
<1>2. NoWallet \notin {source, remainder}
  <2> SUFFICES ASSUME NoWallet \in {source, remainder} PROVE FALSE
    OBVIOUS
  <2>1. BufferRefusal(source, remainder, n) = "INVALID_STATE"
    BY Zenon DEF BufferRefusal
  <2> QED
    BY <2>1
<1>3. ~(n < 0)
  <2> SUFFICES ASSUME n < 0 PROVE FALSE
    OBVIOUS
  <2>1. BufferRefusal(source, remainder, n) = "INVALID_ARGS"
    BY <1>2, Zenon DEF BufferRefusal
  <2> QED
    BY <2>1
<1>4. ~(b < n)
  <2> SUFFICES ASSUME b < n PROVE FALSE
    OBVIOUS
  <2>1. BufferRefusal(source, remainder, n) = "BALANCE_INSUFFICIENT"
    BY <1>2, <1>3, Zenon DEF BufferRefusal, b
  <2> QED
    BY <2>1
<1>5. n \in Nat /\ n <= b
  BY <1>1, <1>3, <1>4
<1> QED
  BY <1>5 DEF b

LEMMA DepositBuilds ==
    ASSUME ValueSigned, Payer, remainder \in WalletType \cup {NoWallet}, remainder # NoWallet,
           NEW w \in WalletType, NEW n \in Int, w.token = source.token,
           remainder.token = source.token,
           source.batch # NoBatch => remainder.batch = source.batch,
           InitDepositBuffer(source, remainder, w, n).err = "SUCCESS"
    PROVE  BuiltWell(InitDepositBuffer(source, remainder, w, n).atoms)
<1> DEFINE b == source.balance
           v == -b
           r == b - n
           first  == WalletAtom("V", source, Minus(IntBalance(source)))
           second == ToBundle(WalletAtom("B", w, n), source.bundle)
           third  == ToBundle(WalletAtom("V", remainder, Remainder(source, n)), source.bundle)
<1>1. /\ source \in WalletType /\ source # NoWallet /\ b \in Int /\ v \in Int
      /\ source.bundle # "" /\ remainder \in WalletType
  BY PayerIs
<1>2. BufferRefusal(source, remainder, n) = "SUCCESS"
  <2> SUFFICES ASSUME BufferRefusal(source, remainder, n) # "SUCCESS" PROVE FALSE
    OBVIOUS
  <2>1. InitDepositBuffer(source, remainder, w, n)
            = Refused(BufferRefusal(source, remainder, n))
    BY Zenon DEF InitDepositBuffer
  <2> QED
    BY <2>1, RefusedError
<1>3. n \in Nat /\ n <= b /\ b - n <= IntMax
  BY <1>1, <1>2, BufferAllows, PayerIs
<1>4. InitDepositBuffer(source, remainder, w, n) = Built(<<first, second, third>>)
  BY <1>2, Zenon DEF InitDepositBuffer
<1>5. InitDepositBuffer(source, remainder, w, n).atoms = <<first, second, third>>
  BY <1>4, BuiltAtoms, Zenon
<1>6. r \in Int /\ Remainder(source, n) = r /\ v + n + r = 0
  BY <1>3, PayerAtoms
<1>7. Item(first, "V", source.addr, source.token, v, source.batch)
  <2>1. Has(first, "V", source.addr, source.token, v, source.batch, "")
    BY <1>3, PayerAtoms
  <2> HIDE DEF first, v
  <2>2. Fits("V", source.token, v, "")
    BY <1>1 DEF Fits
  <2> QED
    BY <2>1, <2>2, HasItem
<1>8. Item(second, "B", w.addr, w.token, n, w.batch)
  BY <1>1, <1>3, WalletItem, WalletIsTyped
<1>9. Item(third, "V", remainder.addr, remainder.token, r, remainder.batch)
  <2>1. third = ToBundle(WalletAtom("V", remainder, r), source.bundle)
    BY <1>6, Zenon
  <2> HIDE DEF third, r
  <2> QED
    BY <1>1, <1>6, <2>1, WalletItem, WalletIsTyped
<1> HIDE DEF first, second, third, v, r
<1>10. first.value + second.value + third.value = 0
  BY <1>6, <1>7, <1>8, <1>9 DEF Item
<1>11. BatchesOf(<<first, second, third>>)
  BY <1>7, <1>8, <1>9, TupleBatches DEF Item
<1> QED
  BY <1>5, <1>7, <1>8, <1>9, <1>10, <1>11, TuplesBuild DEF Item

LEMMA WithdrawBuilds ==
    ASSUME ValueSigned, Payer, remainder \in WalletType, remainder # NoWallet,
           remainder.bundle # "", NEW w \in WalletType, NEW n \in Int,
           InitWithdrawBuffer(source, remainder, w, n).err = "SUCCESS"
    PROVE  BuiltWell(InitWithdrawBuffer(source, remainder, w, n).atoms)
<1> DEFINE b == source.balance
           v == -b
           r == b - n
           first  == ToBundle(Debit("B", source), source.bundle)
           second == ToBundle(NewAtom("V", w.addr, source.token, n, w.batch), w.bundle)
           third  == ToBundle(WalletAtom("B", remainder, Remainder(source, n)),
                              remainder.bundle)
<1>1. /\ source \in WalletType /\ source # NoWallet /\ b \in Int /\ v \in Int
      /\ source.bundle # "" /\ source.bundle \in Texts /\ source.token \in Texts
  BY PayerIs, WalletIsTyped
<1>2. BufferRefusal(source, remainder, n) = "SUCCESS"
  <2> SUFFICES ASSUME BufferRefusal(source, remainder, n) # "SUCCESS" PROVE FALSE
    OBVIOUS
  <2>1. InitWithdrawBuffer(source, remainder, w, n)
            = Refused(BufferRefusal(source, remainder, n))
    BY Zenon DEF InitWithdrawBuffer
  <2> QED
    BY <2>1, RefusedError
<1>3. n \in Nat /\ n <= b /\ b - n <= IntMax
  BY <1>1, <1>2, BufferAllows, PayerIs
<1>4. InitWithdrawBuffer(source, remainder, w, n) = Built(<<first, second, third>>)
  BY <1>2, Zenon DEF InitWithdrawBuffer
<1>5. InitWithdrawBuffer(source, remainder, w, n).atoms = <<first, second, third>>
  BY <1>4, BuiltAtoms, Zenon
<1>6. r \in Int /\ Remainder(source, n) = r /\ v + n + r = 0
  BY <1>3, PayerAtoms
<1>7. Item(first, "B", source.addr, source.token, v, source.batch)
  <2>1. Has(Debit("B", source), "B", source.addr, source.token, v, source.batch, "")
    BY <1>3, PayerAtoms
  <2> HIDE DEF v
  <2>2. Has(first, "B", source.addr, source.token, v, source.batch, source.bundle)
    BY <1>1, <2>1, DecoratedHas
  <2>3. Fits("B", source.token, v, source.bundle)
    BY <1>1 DEF Fits
  <2> HIDE DEF first
  <2> QED
    BY <2>2, <2>3, HasItem
<1>8. Item(second, "V", w.addr, source.token, n, w.batch)
  <2>1. Has(second, "V", w.addr, source.token, n, w.batch, w.bundle)
    BY <1>1, <1>3, SentHas, WalletIsTyped
  <2>2. Fits("V", source.token, n, w.bundle)
    BY <1>1, <1>3 DEF Fits
  <2> HIDE DEF second
  <2> QED
    BY <2>1, <2>2, HasItem
<1>9. Item(third, "B", remainder.addr, remainder.token, r, remainder.batch)
  <2>1. third = ToBundle(WalletAtom("B", remainder, r), remainder.bundle)
    BY <1>6, Zenon
  <2> HIDE DEF third, r
  <2> QED
    BY <1>1, <1>6, <2>1, WalletItem, WalletIsTyped
<1> HIDE DEF first, second, third, v, r
<1>10. first.value + second.value + third.value = 0
  BY <1>6, <1>7, <1>8, <1>9 DEF Item
<1>11. BatchesOf(<<first, second, third>>)
  BY <1>7, <1>8, <1>9, TupleBatches DEF Item
<1> QED
  BY <1>5, <1>7, <1>8, <1>9, <1>10, <1>11, TuplesBuild DEF Item

LEMMA BurnBuilds ==
    ASSUME ValueSigned, Payer, remainder \in WalletType, remainder # NoWallet,
           remainder.token = source.token, NEW n \in Int, source.balance - n <= IntMax,
           InitBurn(source, remainder, n).err = "SUCCESS"
    PROVE  BuiltWell(InitBurn(source, remainder, n).atoms)
<1> DEFINE b == source.balance
           v == -b
           r == b - n
           first  == [Debit("V", source) EXCEPT !.batch = NoBatch]
           second == ToBundle(NewAtom("V", NoAddress, source.token, n, NoBatch), ZeroBundle)
           third  == [Credit("V", remainder, Remainder(source, n)) EXCEPT !.batch = NoBatch]
<1>1. /\ source \in WalletType /\ source # NoWallet /\ b \in Int /\ v \in Int
      /\ source.token \in Texts /\ NoAddress \in AddressType /\ ZeroBundle \in Texts
  BY PayerIs, WalletIsTyped, LiteralsAssumption DEF NoAddress, AddressType, ZeroBundle
<1>2. ~(b < n)
  <2> SUFFICES ASSUME b < n PROVE FALSE
    OBVIOUS
  <2>1. NoWallet \notin {source, remainder}
    BY <1>1
  <2>2. InitBurn(source, remainder, n) = Refused("BALANCE_INSUFFICIENT")
    BY <2>1, Zenon DEF InitBurn
  <2> QED
    BY <2>2, RefusedError
<1>3. n \in Int /\ n <= b
  BY <1>1, <1>2
<1>4. InitBurn(source, remainder, n) = Built(<<first, second, third>>)
  <2>1. NoWallet \notin {source, remainder}
    BY <1>1
  <2> QED
    BY <1>2, <2>1, Zenon DEF InitBurn
<1>5. InitBurn(source, remainder, n).atoms = <<first, second, third>>
  BY <1>4, BuiltAtoms, Zenon
<1>6. r \in Int /\ Remainder(source, n) = r /\ v + n + r = 0
  BY <1>3, PayerAtoms
<1>7. Item(first, "V", source.addr, source.token, v, NoBatch)
  <2>1. Has(Debit("V", source), "V", source.addr, source.token, v, source.batch, "")
    BY <1>3, PayerAtoms
  <2> HIDE DEF v
  <2>2. Has(first, "V", source.addr, source.token, v, NoBatch, "")
    BY <2>1, DecoratedHas
  <2>3. Fits("V", source.token, v, "")
    BY <1>1 DEF Fits
  <2> HIDE DEF first
  <2> QED
    BY <2>2, <2>3, HasItem
<1>8. Item(second, "V", NoAddress, source.token, n, NoBatch)
  <2>1. Has(second, "V", NoAddress, source.token, n, NoBatch, ZeroBundle)
    BY <1>1, <1>3, SentHas
  <2>2. Fits("V", source.token, n, ZeroBundle)
    BY <1>1, <1>3 DEF Fits
  <2> HIDE DEF second
  <2> QED
    BY <2>1, <2>2, HasItem
<1>9. Item(third, "V", remainder.addr, remainder.token, r, NoBatch)
  <2>1. third = [Credit("V", remainder, r) EXCEPT !.batch = NoBatch]
    BY <1>6, Zenon
  <2> HIDE DEF third, r
  <2>2. Has(Credit("V", remainder, r), "V", remainder.addr, remainder.token, r,
            remainder.batch, remainder.bundle)
    BY <1>6, WalletAtomsHave DEF Isotopes
  <2>3. Has(third, "V", remainder.addr, remainder.token, r, NoBatch, remainder.bundle)
    BY <2>1, <2>2, DecoratedHas
  <2>4. Fits("V", remainder.token, r, remainder.bundle)
    BY <1>6 DEF Fits
  <2> QED
    BY <2>3, <2>4, HasItem
<1> HIDE DEF first, second, third, v, r
<1>10. first.value + second.value + third.value = 0
  BY <1>6, <1>7, <1>8, <1>9 DEF Item
<1>11. BatchesOf(<<first, second, third>>)
  BY <1>7, <1>8, <1>9, TupleBatches DEF Item
<1> QED
  BY <1>5, <1>7, <1>8, <1>9, <1>10, <1>11, TuplesBuild DEF Item

LEMMA UnitsKeepItem ==
    ASSUME NEW a, NEW iso, NEW addr, NEW token, NEW value, NEW batch, NEW bundle,
           Has(a, iso, addr, token, value, batch, bundle), Fits(iso, token, value, bundle),
           NEW us \in Seq(Texts)
    PROVE  Item(WithUnits(a, us), iso, addr, token, value, batch)
<1>1. Has(WithUnits(a, us), iso, addr, token, value, batch, bundle)
  BY DecoratedHas
<1> QED
  BY <1>1, HasItem

LEMMA FrontIsTyped ==
    ASSUME NEW ids \in Seq(Texts)
    PROVE  Len(ids) \in Nat /\ (Len(ids) >= 2 => Front(ids) \in Seq(Texts))
  BY DEF Front

LEMMA FusedSums ==
    ASSUME NEW b \in Int, NEW k \in Nat, ~(k < 2), ~(b < k)
    PROVE  /\ k \in Int /\ k >= 2 /\ k <= b /\ k - 1 \in Int /\ k - 1 >= 0 /\ b - k \in Int
           /\ -b + (k - 1) + 1 + (b - k) = 0
  OBVIOUS

LEMMA OneIsPositive == 1 \in Int /\ 1 >= 0
  OBVIOUS

LEMMA UnitFits ==
    ASSUME NEW token, NEW bundle, bundle # ""
    PROVE  Fits("F", token, 1, bundle) /\ 1 \in Int
<1>1. "F" # "V" /\ "F" \in {"V", "B", "F"}
  BY Zenon
<1> QED
  BY <1>1, OneIsPositive, Zenon DEF Fits

LEMMA FuseBuilds ==
    ASSUME ValueSigned, Payer, remainder \in WalletType, remainder # NoWallet,
           NEW w \in WalletType, w.bundle # "", NEW ids \in Seq(Texts), NEW id \in Texts,
           InitFuseToken(source, remainder, w, ids, id).err = "SUCCESS"
    PROVE  BuiltWell(InitFuseToken(source, remainder, w, ids, id).atoms)
<1> DEFINE b == source.balance
           k == Len(ids)
           v == -b
           k1 == k - 1
           r == b - k
           burnt == FreshBatch(source, "burnBatch")
           fused == FreshBatch(source, "fusionBatch")
           sent == Those(source.units, ToSet(ids))
           kept == Those(source.units, ToSet(source.units) \ ToSet(ids))
           front == Front(ids)
           debit == WalletAtom("V", source, Minus(IntBalance(source)))
           burn  == ToBundle(NewAtom("V", NoAddress, source.token, k1, burnt), ZeroBundle)
           new   == ToBundle(NewAtom("F", w.addr, source.token, 1, fused), w.bundle)
           rest  == ToBundle(NewAtom("V", remainder.addr, source.token,
                                     Remainder(source, k), source.batch), remainder.bundle)
           a1 == WithUnits(debit, sent)
           a2 == WithUnits(burn, front)
           a3 == WithUnits(new, <<id>>)
           a4 == WithUnits(rest, kept)
<1>1. /\ source \in WalletType /\ source # NoWallet /\ b \in Int /\ v \in Int
      /\ source.token \in Texts /\ NoAddress \in AddressType /\ ZeroBundle \in Texts
      /\ source.batch \in Texts \cup {NoBatch}
  BY PayerIs, WalletIsTyped, LiteralsAssumption DEF NoAddress, AddressType, ZeroBundle
<1>2. NoWallet \notin {source, remainder}
  BY <1>1
<1>3. ~FusionRefused(source, ids, id)
  <2> SUFFICES ASSUME FusionRefused(source, ids, id) PROVE FALSE
    OBVIOUS
  <2>1. InitFuseToken(source, remainder, w, ids, id) = Refused("TRANSFER_BALANCE")
    BY <1>2, Zenon DEF InitFuseToken
  <2> QED
    BY <2>1, RefusedError
<1>4. ~(IntBalance(source) < k)
  <2> SUFFICES ASSUME IntBalance(source) < k PROVE FALSE
    OBVIOUS
  <2>1. InitFuseToken(source, remainder, w, ids, id) = Refused("BALANCE_INSUFFICIENT")
    BY <1>2, <1>3, Zenon DEF InitFuseToken
  <2> QED
    BY <2>1, RefusedError
<1>5. InitFuseToken(source, remainder, w, ids, id) = Built(<<a1, a2, a3, a4>>)
  BY <1>2, <1>3, <1>4, Zenon DEF InitFuseToken
<1>6. InitFuseToken(source, remainder, w, ids, id).atoms = <<a1, a2, a3, a4>>
  BY <1>5, BuiltAtoms, Zenon
<1>7. ~(k < 2)
  BY <1>3, Zenon DEF FusionRefused
<1>8. /\ k \in Nat /\ k \in Int /\ k >= 2 /\ k <= b /\ b - k <= IntMax /\ k1 \in Int
      /\ v + k1 + 1 + r = 0
  <2>1. k \in Nat
    BY FrontIsTyped
  <2>2. IntBalance(source) = b
    BY PayerIs
  <2>3. ~(b < k)
    BY <1>4, <2>2, Zenon
  <2>4. k <= b => b - k <= IntMax
    BY <2>1, PayerIs, Zenon
  <2> HIDE DEF k, b
  <2>5. k \in Int /\ k >= 2 /\ k <= b /\ k - 1 \in Int /\ -b + (k - 1) + 1 + (b - k) = 0
    BY <1>1, <1>7, <2>1, <2>3, FusedSums
  <2> QED
    BY <2>1, <2>4, <2>5, Zenon
<1>9. r \in Int /\ Remainder(source, k) = r
  <2> HIDE DEF k
  <2> QED
    BY <1>8, PayerAtoms
<1>10. Fits("F", source.token, 1, w.bundle) /\ 1 \in Int
  BY UnitFits, Zenon
<1>11. /\ burnt \in Texts \cup {NoBatch} /\ fused \in Texts \cup {NoBatch}
       /\ source.batch # NoBatch => burnt # NoBatch
  <2>1. "burnBatch" \in Texts /\ "fusionBatch" \in Texts
    BY LiteralsAssumption, Zenon
  <2> QED
    BY <2>1, AbsentAssumption DEF FreshBatch
<1>12. /\ sent \in Seq(Texts) /\ kept \in Seq(Texts) /\ <<id>> \in Seq(Texts)
       /\ front \in Seq(Texts)
  <2>1. source.units \in Seq(Texts)
    BY <1>1, WalletIsTyped
  <2>2. sent \in Seq(Texts) /\ kept \in Seq(Texts)
    BY <2>1, ThoseAreTyped, Zenon
  <2>3. <<id>> \in Seq(Texts)
    BY OneIsSeq, Zenon
  <2>4. front \in Seq(Texts)
    BY <1>8, FrontIsTyped, Zenon
  <2> QED
    BY <2>2, <2>3, <2>4
<1>13. Has(debit, "V", source.addr, source.token, v, source.batch, "")
  <2> HIDE DEF k
  <2> QED
    BY <1>8, PayerAtoms
<1> HIDE DEF b, v, r, k1, burnt, fused, sent, kept, front, debit
<1>14. Item(a1, "V", source.addr, source.token, v, source.batch)
  <2>1. Fits("V", source.token, v, "")
    BY <1>1 DEF Fits
  <2> QED
    BY <1>12, <1>13, <2>1, UnitsKeepItem
<1>15. Item(a2, "V", NoAddress, source.token, k1, burnt)
  <2>1. Has(burn, "V", NoAddress, source.token, k1, burnt, ZeroBundle)
    BY <1>1, <1>8, <1>11, SentHas
  <2>2. Fits("V", source.token, k1, ZeroBundle)
    BY <1>8 DEF Fits
  <2> HIDE DEF burn
  <2> QED
    BY <1>12, <2>1, <2>2, UnitsKeepItem
<1>16. Item(a3, "F", w.addr, source.token, 1, fused)
  <2>1. Has(new, "F", w.addr, source.token, 1, fused, w.bundle)
    BY <1>1, <1>10, <1>11, SentHas, WalletIsTyped
  <2>2. Fits("F", source.token, 1, w.bundle)
    BY <1>10, Zenon
  <2> HIDE DEF new
  <2> QED
    BY <1>12, <2>1, <2>2, UnitsKeepItem
<1>17. Item(a4, "V", remainder.addr, source.token, r, source.batch)
  <2>1. rest = ToBundle(NewAtom("V", remainder.addr, source.token, r, source.batch),
                        remainder.bundle)
    BY <1>9, Zenon
  <2> HIDE DEF rest
  <2>2. Has(rest, "V", remainder.addr, source.token, r, source.batch, remainder.bundle)
    BY <1>1, <1>9, <2>1, SentHas, WalletIsTyped
  <2>3. Fits("V", source.token, r, remainder.bundle)
    BY <1>9 DEF Fits
  <2> QED
    BY <1>12, <2>2, <2>3, UnitsKeepItem
<1> HIDE DEF a1, a2, a3, a4
<1>18. a1.value + a2.value + a3.value + a4.value = 0
  BY <1>8, <1>14, <1>15, <1>16, <1>17 DEF Item
<1>19. BatchesOf(<<a1, a2, a3, a4>>)
  BY <1>11, <1>14, <1>15, <1>16, <1>17, TupleBatches DEF Item
<1> QED
  BY <1>6, <1>14, <1>15, <1>16, <1>17, <1>18, <1>19, TuplesBuild DEF Item

\* The sum of two amounts an int holds.
LEMMA TotalOfTwo ==
    ASSUME NEW m \in Int, NEW n \in Int, -IntMax - 1 <= m + n, m + n <= IntMax
    PROVE  Total(<<m, n>>) = m + n
<1> DEFINE ns == <<m, n>>
<1>1. DOMAIN ns = 1 .. 2 /\ ns[1] = m /\ ns[2] = n
  OBVIOUS
<1>2. m \in Int /\ n \in Int /\ m + n \in Int
  OBVIOUS
<1> HIDE DEF ns
<1>3. SumFunctionOnSet(ns, DOMAIN ns) = m + n
  BY <1>1, <1>2, SmallSums
<1>4. WrapInt(m + n) = m + n
  BY <1>2, WrapInRange
<1> QED
  BY <1>3, <1>4 DEF Total, ns

LEMMA CreditItem ==
    ASSUME NEW w \in WalletType, NEW n \in Int, w.token = source.token
    PROVE  Item(Credit("V", w, n), "V", w.addr, w.token, n, w.batch)
<1>1. Has(Credit("V", w, n), "V", w.addr, w.token, n, w.batch, w.bundle)
  BY WalletAtomsHave DEF Isotopes
<1>2. Fits("V", w.token, n, w.bundle)
  BY DEF Fits
<1> QED
  BY <1>1, <1>2, HasItem

LEMMA TwoCreditsBuild ==
    ASSUME ValueSigned, Payer, remainder \in WalletType, remainder # NoWallet,
           NEW v \in WalletType, v # NoWallet, NEW w \in WalletType, w # NoWallet,
           NEW m \in Int, NEW n \in Int, -IntMax - 1 <= m + n, m + n <= IntMax,
           source.balance - (m + n) <= IntMax,
           v.token = source.token, w.token = source.token, remainder.token = source.token,
           source.batch # NoBatch =>
                remainder.batch = source.batch /\ v.batch # NoBatch /\ w.batch # NoBatch,
           InitValues(source, remainder, <<v, w>>, <<m, n>>).err = "SUCCESS"
    PROVE  BuiltWell(InitValues(source, remainder, <<v, w>>, <<m, n>>).atoms)
<1> DEFINE rs    == <<v, w>>
           ns    == <<m, n>>
           total == Total(ns)
           nulls == {i \in DOMAIN rs : rs[i] = NoWallet}
           paid  == IF nulls = {} THEN Len(rs) ELSE Min(nulls) - 1
           atom(i) == IF i = 1 THEN Debit("V", source)
                      ELSE IF i <= paid + 1
                      THEN Credit("V", rs[i - 1], ns[i - 1])
                      ELSE Credit("V", remainder, Remainder(source, total))
           b == source.balance
           d == -b
           k == m + n
           r == b - k
           a1 == Debit("V", source)
           a2 == Credit("V", v, m)
           a3 == Credit("V", w, n)
           a4 == Credit("V", remainder, Remainder(source, total))
<1>1. /\ source \in WalletType /\ source # NoWallet /\ b \in Int /\ d \in Int
  BY PayerIs
<1>2. NoWallet \notin {source, remainder}
  BY <1>1
<1>3. nulls = {} /\ rs # <<>>
  OBVIOUS
<1>4. paid = 2
  <2>1. Len(rs) = 2
    OBVIOUS
  <2> QED
    BY <1>3, <2>1, Zenon
<1>5. total = k /\ k \in Int /\ m \in Int /\ n \in Int
  BY TotalOfTwo
<1>6. ~(b < total)
  <2> SUFFICES ASSUME b < total PROVE FALSE
    OBVIOUS
  <2>1. InitValues(source, remainder, rs, ns) = Refused("BALANCE_INSUFFICIENT")
    BY <1>2, <1>3, Zenon DEF InitValues
  <2> QED
    BY <2>1, RefusedError
<1>7. k <= b
  <2> HIDE DEF b, k, total
  <2> QED
    BY <1>1, <1>5, <1>6
<1>8. InitValues(source, remainder, rs, ns) = Built([i \in 1 .. paid + 2 |-> atom(i)])
  <2> HIDE DEF rs, ns
  <2> QED
    BY <1>2, <1>3, <1>6, Zenon DEF InitValues
<1>9. /\ paid + 2 = 4 /\ atom(1) = a1 /\ atom(2) = a2 /\ atom(3) = a3 /\ atom(4) = a4
  <2>1. 2 - 1 = 1 /\ 3 - 1 = 2 /\ 2 # 1 /\ 3 # 1 /\ 4 # 1 /\ 2 <= 3 /\ 3 <= 3 /\ ~(4 <= 3)
        /\ 2 + 1 = 3 /\ 2 + 2 = 4
    OBVIOUS
  <2>2. rs[1] = v /\ rs[2] = w /\ ns[1] = m /\ ns[2] = n
    OBVIOUS
  <2> HIDE DEF rs, ns, paid
  <2> QED
    BY <1>4, <2>1, <2>2, Zenon
<1> DEFINE four == [i \in 1 .. paid + 2 |-> atom(i)]
<1>10. four = <<a1, a2, a3, a4>>
  <2>1. 1 .. 4 = {1, 2, 3, 4}
    OBVIOUS
  <2> HIDE DEF paid, atom, a1, a2, a3, a4
  <2>2. four = [i \in 1 .. 4 |-> atom(i)]
    BY <1>9, Zenon
  <2>3. \A i \in 1 .. 4 : atom(i) = <<a1, a2, a3, a4>>[i]
    BY <1>9, <2>1
  <2>4. <<a1, a2, a3, a4>> = [i \in 1 .. 4 |-> <<a1, a2, a3, a4>>[i]]
    OBVIOUS
  <2>5. [i \in 1 .. 4 |-> atom(i)] = [i \in 1 .. 4 |-> <<a1, a2, a3, a4>>[i]]
    BY <2>3, Zenon
  <2> QED
    BY <2>2, <2>4, <2>5, Zenon
<1>11. InitValues(source, remainder, rs, ns).atoms = <<a1, a2, a3, a4>>
  BY <1>8, <1>10, BuiltAtoms, Zenon
<1>12. r \in Int /\ Remainder(source, k) = r /\ d + k + r = 0
  <2>1. source.balance - k <= IntMax
    OBVIOUS
  <2> HIDE DEF k
  <2> QED
    BY <1>5, <1>7, <2>1, PayerAtoms
<1>13. d + m + n + r = 0
  BY <1>1, <1>12
<1>14. Has(a1, "V", source.addr, source.token, d, source.batch, "")
  BY <1>5, <1>7, PayerAtoms
<1>15. a4 = Credit("V", remainder, r)
  BY <1>5, <1>12, Zenon
<1> HIDE DEF rs, ns, total, paid, atom, four, b, d, k, r, a1, a4
<1>16. Item(a1, "V", source.addr, source.token, d, source.batch)
  <2>1. Fits("V", source.token, d, "")
    BY <1>1 DEF Fits
  <2> QED
    BY <1>14, <2>1, HasItem
<1>17. Item(a2, "V", v.addr, v.token, m, v.batch) /\ Item(a3, "V", w.addr, w.token, n, w.batch)
  BY <1>5, CreditItem
<1>18. Item(a4, "V", remainder.addr, remainder.token, r, remainder.batch)
  BY <1>12, <1>15, CreditItem
<1> HIDE DEF a2, a3
<1>19. a1.value + a2.value + a3.value + a4.value = 0
  BY <1>13, <1>16, <1>17, <1>18 DEF Item
<1>20. BatchesOf(<<a1, a2, a3, a4>>)
  BY <1>16, <1>17, <1>18, TupleBatches DEF Item
<1>21. BuiltWell(<<a1, a2, a3, a4>>)
  BY <1>16, <1>17, <1>18, <1>19, <1>20, TuplesBuild DEF Item
<1> QED
  BY <1>11, <1>21 DEF rs, ns

\* A call that kept the rules and was not refused was built well.
Well(built, rules) ==
    rules = TRUE /\ built.err = "SUCCESS" => Owned(source) /\ BuiltWell(built.atoms)

\* The molecule passes the check but for its signature, and its first atom is the signer's.
Sound ==
    atoms # <<>> /\ ContentOK(atoms) /\ SigningKey(atoms[1]) = atoms[1].addr

\* What BuilderPassesCheck needs of the past: a molecule is empty until the first builder
\* call, and after that one call, made by the rules, it has the atoms that builder made,
\* perhaps with more meta and with a signature, the first of them the signer's.
BuiltInv ==
    /\ \E S : calls \in Seq(S)
    /\ calls = <<>> => atoms = <<>>
    /\ OneBuilder /\ calls[1].rules /\ secret # NoSecret => Sound

LEMMA Appended ==
    ASSUME NEW S, NEW s \in Seq(S), NEW e
    PROVE  /\ Append(s, e) \in Seq(S \cup {e}) /\ Len(Append(s, e)) = Len(s) + 1
           /\ Append(s, e) # <<>>
           /\ s = <<>> => Append(s, e)[1] = e
           /\ s # <<>> => Len(Append(s, e)) # 1
<1>1. s \in Seq(S \cup {e}) /\ e \in S \cup {e}
  OBVIOUS
<1> DEFINE T == S \cup {e}
<1>2. s \in Seq(T) /\ e \in T
  BY <1>1
<1> HIDE DEF T
<1>3. Append(s, e) \in Seq(T) /\ Len(Append(s, e)) = Len(s) + 1 /\ Append(s, e) # <<>>
  BY <1>2
<1>4. s = <<>> => Append(s, e)[1] = e
  BY <1>2
<1>5. s # <<>> => Len(Append(s, e)) # 1
  BY <1>2
<1> QED
  BY <1>3, <1>4, <1>5 DEF T

\* The first atoms of a molecule are numbered from 0, all of them if they fit.
LEMMA FirstAtoms ==
    ASSUME NEW new \in Seq(AtomType), AddAtoms(new), atoms = <<>>,
           Len(new) <= MaxAtoms - Len(atoms)
    PROVE  atoms' = Numbered(new) /\ UNCHANGED <<source, remainder, secret, touched>>
<1>1. Len(new) \in Nat /\ Len(atoms) = 0 /\ DOMAIN new = 1 .. Len(new)
  OBVIOUS
<1>2. Smaller(Len(new), MaxAtoms - Len(atoms)) = Len(new)
  BY DEF Smaller
<1>3. atoms' = Extended(new, Len(new), 0)
  BY <1>1, <1>2 DEF AddAtoms
<1> DEFINE n == Len(atoms)
<1>4. Extended(new, Len(new), 0)
        = [i \in 1 .. n + Len(new) |->
                IF i <= n THEN atoms[i] ELSE [new[i - n] EXCEPT !.index = 0 + (i - n) - 1]]
  BY Zenon DEF Extended
<1>5. ASSUME NEW i \in 1 .. Len(new)
      PROVE  (IF i <= n THEN atoms[i] ELSE [new[i - n] EXCEPT !.index = 0 + (i - n) - 1])
                = [new[i] EXCEPT !.index = i - 1]
  <2>1. n = 0
    BY <1>1
  <2> HIDE DEF n
  <2>2. ~(i <= n) /\ i - n = i /\ 0 + (i - n) - 1 = i - 1
    BY <2>1
  <2> QED
    BY <2>2, Zenon
<1>6. n + Len(new) = Len(new)
  BY <1>1
<1>7. atoms' = Numbered(new)
  BY <1>3, <1>4, <1>5, <1>6, Zenon DEF Numbered
<1> QED
  BY <1>7 DEF AddAtoms, fields

\* The first atom's key is the address it names.
LEMMA FirstSigns ==
    ASSUME TypeOK, ProperWallets, Owned(source), NEW s, BuiltWell(s)
    PROVE  SigningKey(Numbered(s)[1]) = Numbered(s)[1].addr
<1> DEFINE a == Numbered(s)[1]
<1>1. source # NoWallet /\ source.addr # NoAddress /\ source.addr.owner = secret
  BY DEF Owned
<1>2. /\ source \in WalletType /\ source.addr.token = source.token
      /\ source.addr.ver = source.ver
  BY <1>1, ProperWallet, Zenon
<1>3. source.addr \in AddressType
  BY <1>2, WalletIsTyped
<1>4. s # <<>> /\ NewSeq(s) /\ s[1].token = source.token /\ s[1].addr = source.addr
  BY DEF BuiltWell
<1>5. 1 \in 1 .. Len(s)
  BY <1>4, NumberedAtoms, s \in Seq(AtomType) DEF NewSeq
<1>6. a.token = source.token /\ a.addr = source.addr
  BY <1>4, <1>5, NumberedAtoms, Zenon
<1> HIDE DEF a
<1>7. SigningKey(a) = [owner |-> secret, token |-> source.token, pos |-> source.addr.pos,
                       ver |-> source.ver]
  BY <1>1, <1>6, Zenon DEF SigningKey
<1>8. source.addr = [owner |-> secret, token |-> source.token, pos |-> source.addr.pos,
                     ver |-> source.ver]
  BY <1>1, <1>2, <1>3 DEF AddressType
<1> QED
  BY <1>6, <1>7, <1>8 DEF a

LEMMA BuildBuiltInv ==
    ASSUME TypeOK, BuiltInv, ProperWallets, NEW op, NEW built, NEW rules,
           Build(op, built, rules), built.atoms \in Seq(AtomType), Well(built, rules)
    PROVE  BuiltInv'
<1> DEFINE new == built.atoms
           e == [op |-> op, rules |-> rules,
                 ok |-> built.err = "SUCCESS" /\ Len(new) <= MaxAtoms - Len(atoms)]
<1>1. AddAtoms(new) /\ calls' = Append(calls, e)
  BY Zenon DEF Build
<1>2. PICK S : calls \in Seq(S)
  BY DEF BuiltInv
<1>3. /\ calls' \in Seq(S \cup {e}) /\ calls' # <<>>
      /\ calls = <<>> => calls'[1] = e
      /\ calls # <<>> => Len(calls') # 1
  <2> HIDE DEF e
  <2> QED
    BY <1>1, <1>2, Appended
<1>4. ASSUME OneBuilder', calls'[1].rules
      PROVE  Sound'
  <2>1. calls = <<>> /\ calls'[1] = e /\ atoms = <<>>
    BY <1>3, <1>4, Zenon DEF OneBuilder, BuiltInv
  <2>2. e.ok /\ e.rules
    BY <1>4, <2>1, Zenon DEF OneBuilder
  <2>3. rules /\ built.err = "SUCCESS" /\ Len(new) <= MaxAtoms - Len(atoms)
    BY <2>2
  <2>4. Owned(source) /\ BuiltWell(new)
    BY <2>3 DEF Well
  <2>5. atoms' = Numbered(new) /\ source' = source /\ secret' = secret
    BY <1>1, <2>1, <2>3, FirstAtoms
  <2>6. ContentOK(atoms') /\ SigningKey(atoms'[1]) = atoms'[1].addr
    BY <2>4, <2>5, FirstSigns, Zenon DEF BuiltWell
  <2>7. atoms' # <<>>
    <3>1. NewSeq(new) /\ new # <<>>
      BY <2>4 DEF BuiltWell
    <3>2. Len(new) \in Nat /\ Len(new) # 0
      BY <3>1 DEF NewSeq
    <3>3. DOMAIN atoms' = 1 .. Len(new)
      BY <2>5, <3>1, NumberedAtoms, Zenon
    <3> QED
      BY <3>2, <3>3
  <2> QED
    BY <2>5, <2>6, <2>7, Zenon DEF Sound, SigningKey
<1>5. \E T : calls' \in Seq(T)
  BY <1>3, Zenon
<1> QED
  BY <1>3, <1>4, <1>5, Zenon DEF BuiltInv

\* Meta and signatures leave an atom what it is.
LEMMA LaterAtoms ==
    ASSUME IInv, CallAtomAddMeta \/ CallSign
    PROVE  /\ UNCHANGED <<source, secret, calls>> /\ atoms # <<>>
           /\ DOMAIN atoms' = DOMAIN atoms /\ Len(atoms') = Len(atoms)
           /\ \A i \in DOMAIN atoms :
                /\ atoms'[i].iso = atoms[i].iso /\ atoms'[i].addr = atoms[i].addr
                /\ atoms'[i].token = atoms[i].token /\ atoms'[i].value = atoms[i].value
                /\ atoms'[i].batch = atoms[i].batch /\ atoms'[i].bundle = atoms[i].bundle
                /\ atoms'[i].units = atoms[i].units /\ atoms'[i].index = atoms[i].index
                /\ (atoms[i].meta # {} => atoms'[i].meta # {})
<1>1. /\ UNCHANGED <<source, secret, calls>> /\ atoms # <<>> /\ DOMAIN atoms' = DOMAIN atoms
      /\ Len(atoms') = Len(atoms)
      /\ \A i \in DOMAIN atoms :
            \/ atoms'[i] = atoms[i]
            \/ \E x : atoms'[i] = [atoms[i] EXCEPT !.meta = atoms[i].meta \cup x]
            \/ \E x : atoms'[i] = [atoms[i] EXCEPT !.frag = x]
  <2>1. CASE CallAtomAddMeta
    <3>1. atoms # <<>>
      BY <2>1 DEF CallAtomAddMeta
    <3>2. /\ UNCHANGED <<source, secret, calls>>
          /\ DOMAIN atoms' = DOMAIN atoms /\ Len(atoms') = Len(atoms)
      BY <2>1, GivenMeta DEF IInv
    <3>3. ASSUME NEW i \in DOMAIN atoms
          PROVE  \/ atoms'[i] = atoms[i]
                 \/ \E x : atoms'[i] = [atoms[i] EXCEPT !.meta = atoms[i].meta \cup x]
      BY <2>1, GivenMeta, Zenon DEF IInv
    <3> QED
      BY <3>1, <3>2, <3>3, Zenon
  <2>2. CASE CallSign
    <3>1. /\ UNCHANGED <<source, secret, calls>> /\ atoms # <<>>
          /\ DOMAIN atoms' = DOMAIN atoms /\ Len(atoms') = Len(atoms)
      BY <2>2, SignedAtoms, Zenon
    <3>2. ASSUME NEW i \in DOMAIN atoms
          PROVE  \/ atoms'[i] = atoms[i]
                 \/ \E x : atoms'[i] = [atoms[i] EXCEPT !.frag = x]
      BY <2>2, SignedAtoms, Zenon
    <3> QED
      BY <3>1, <3>2, Zenon
  <2> QED
    BY <2>1, <2>2
<1>2. ASSUME NEW i \in DOMAIN atoms
      PROVE  /\ atoms'[i].iso = atoms[i].iso /\ atoms'[i].addr = atoms[i].addr
             /\ atoms'[i].token = atoms[i].token /\ atoms'[i].value = atoms[i].value
             /\ atoms'[i].batch = atoms[i].batch /\ atoms'[i].bundle = atoms[i].bundle
             /\ atoms'[i].units = atoms[i].units /\ atoms'[i].index = atoms[i].index
             /\ (atoms[i].meta # {} => atoms'[i].meta # {})
  <2>1. atoms[i] \in AtomType
    BY TypedState DEF IInv
  <2>2. CASE atoms'[i] = atoms[i]
    BY <2>2
  <2>3. CASE \E x : atoms'[i] = [atoms[i] EXCEPT !.meta = atoms[i].meta \cup x]
    BY <2>1, <2>3 DEF AtomType
  <2>4. CASE \E x : atoms'[i] = [atoms[i] EXCEPT !.frag = x]
    BY <2>1, <2>4 DEF AtomType
  <2> QED
    BY <1>1, <2>2, <2>3, <2>4, Zenon
<1> QED
  BY <1>1, <1>2

\* Meta and signatures leave what the builder made as it was.
LEMMA LaterBuiltInv ==
    ASSUME IInv, BuiltInv, CallAtomAddMeta \/ CallSign
    PROVE  BuiltInv'
<1>1. /\ UNCHANGED <<source, secret, calls>> /\ atoms # <<>> /\ DOMAIN atoms' = DOMAIN atoms
      /\ Len(atoms') = Len(atoms)
  BY LaterAtoms
<1>2. ASSUME NEW i \in DOMAIN atoms
      PROVE  /\ atoms'[i].iso = atoms[i].iso /\ atoms'[i].addr = atoms[i].addr
             /\ atoms'[i].token = atoms[i].token /\ atoms'[i].value = atoms[i].value
             /\ atoms'[i].batch = atoms[i].batch /\ atoms'[i].bundle = atoms[i].bundle
             /\ atoms'[i].index = atoms[i].index
             /\ (atoms[i].meta # {} => atoms'[i].meta # {})
  BY LaterAtoms, Zenon
<1>3. ASSUME Sound PROVE Sound'
  <2>1. Len(atoms) \in Nat /\ DOMAIN atoms = 1 .. Len(atoms) /\ Len(atoms) # 0
    BY <1>1, TypedState DEF IInv
  <2>2. atoms' # <<>> /\ 1 \in DOMAIN atoms
    BY <1>1, <2>1
  <2>3. Alike(atoms, atoms')
    BY <1>1, <1>2, <2>1, <2>2, Zenon DEF Alike
  <2>4. ContentOK(atoms')
    BY <1>3, <2>2, <2>3, AlikePasses, Zenon DEF Sound
  <2> QED
    BY <1>1, <1>2, <1>3, <2>2, <2>4, Zenon DEF Sound, SigningKey
<1> QED
  BY <1>1, <1>3, Zenon DEF BuiltInv, OneBuilder

LEMMA UserBuiltInv ==
    ASSUME TypeOK, BuiltInv, ProperWallets,
           \/ CallInitMeta \/ CallInitAuthorization
           \/ CallInitTokenCreation \/ CallInitWalletCreation
           \/ CallInitShadowWalletClaim \/ CallInitReplenish
    PROVE  BuiltInv'
<1>1. ASSUME NEW op, NEW built, NEW rules, Build(op, built, rules), NewSeq(built.atoms),
             rules = TRUE => UserSigned({"USER"}) \/ UserSigned({"USER", "AUTH"}),
             rules = TRUE /\ built.err = "SUCCESS" => BuiltWell(built.atoms)
      PROVE  BuiltInv'
  <2>1. Well(built, rules)
    BY <1>1, Zenon DEF Well, UserSigned
  <2>2. built.atoms \in Seq(AtomType)
    BY <1>1 DEF NewSeq
  <2> QED
    BY <1>1, <2>1, <2>2, BuildBuiltInv, Zenon
<1> DEFINE Made(built) == NewSeq(built.atoms)
<1>2. /\ source \in WalletType \cup {NoWallet} /\ remainder \in WalletType \cup {NoWallet}
      /\ \E w \in WalletType : TRUE
      /\ 0 \in Int /\ <<>> \in Seq(Texts) /\ {} \in SUBSET (Texts \X Texts) /\ "false" \in Texts
  BY TypedState, SomeInputs, InputsAreTyped, Zenon
<1>3. CASE CallInitMeta
  <2>1. PICK m \in Metas : Build("meta", InitMeta(source, remainder, m),
                                 UserSigned({"USER"}) /\ m # {})
    BY <1>3, Zenon DEF CallInitMeta
  <2>2. Made(InitMeta(source, remainder, m))
    BY <1>2, InputsAreTyped, UserBuildersCreateNew
  <2> QED
    BY <1>1, <2>1, <2>2, UserBuildersBuild, Zenon
<1>4. CASE CallInitAuthorization
  <2>1. Build("auth", InitAuthorization(source, remainder, "false"),
              UserSigned({"USER", "AUTH"}))
    BY <1>4, Zenon DEF CallInitAuthorization
  <2>2. Made(InitAuthorization(source, remainder, "false"))
    BY <1>2, InputsAreTyped, UserBuildersCreateNew
  <2> QED
    BY <1>1, <2>1, <2>2, UserBuildersBuild, Zenon
<1>5. CASE CallInitTokenCreation
  <2>1. PICK w \in Recipients \ {NoWallet}, n \in Amounts :
            Build("token", InitTokenCreation(source, remainder, w, n), UserSigned({"USER"}))
    BY <1>5, Zenon DEF CallInitTokenCreation
  <2>2. Made(InitTokenCreation(source, remainder, w, n))
    BY <1>2, InputsAreTyped, UserBuildersCreateNew
  <2> QED
    BY <1>1, <2>1, <2>2, UserBuildersBuild, Zenon
<1>6. CASE CallInitWalletCreation
  <2>1. PICK w \in Recipients \ {NoWallet} :
            Build("wallet", InitWalletCreation(source, remainder, w, {}), UserSigned({"USER"}))
    BY <1>6, Zenon DEF CallInitWalletCreation
  <2>2. Made(InitWalletCreation(source, remainder, w, {}))
    BY <1>2, InputsAreTyped, UserBuildersCreateNew
  <2> QED
    BY <1>1, <2>1, <2>2, UserBuildersBuild, Zenon
<1>7. CASE CallInitShadowWalletClaim
  <2>1. PICK w \in Recipients \ {NoWallet} :
            Build("claim", InitShadowWalletClaim(source, remainder, w), UserSigned({"USER"}))
    BY <1>7, Zenon DEF CallInitShadowWalletClaim
  <2>2. Made(InitShadowWalletClaim(source, remainder, w))
    BY <1>2, InputsAreTyped, UserBuildersCreateNew
  <2> QED
    BY <1>1, <2>1, <2>2, UserBuildersBuild, Zenon
<1>8. CASE CallInitReplenish
  <2>1. PICK w \in Recipients \ {NoWallet}, n \in Amounts, us \in UnitLists :
            Build("replenish", InitReplenish(source, remainder, w, n, us), UserSigned({"USER"}))
    BY <1>8, Zenon DEF CallInitReplenish
  <2>2. Made(InitReplenish(source, remainder, w, n, us))
    BY <1>2, InputsAreTyped, UserBuildersCreateNew
  <2> QED
    BY <1>1, <2>1, <2>2, UserBuildersBuild, Zenon
<1> QED
  BY <1>3, <1>4, <1>5, <1>6, <1>7, <1>8

LEMMA ValueBuiltInv ==
    ASSUME TypeOK, BuiltInv, ProperWallets, AmountsFit,
           \/ CallInitValue \/ CallInitValues \/ CallInitDepositBuffer
           \/ CallInitWithdrawBuffer \/ CallInitBurn \/ CallInitFuseToken
    PROVE  BuiltInv'
<1>1. ASSUME NEW op, NEW built, NEW rules, Build(op, built, rules), NewSeq(built.atoms),
             rules = TRUE => ValueSigned,
             rules = TRUE /\ ValueSigned /\ Payer /\ built.err = "SUCCESS" =>
                BuiltWell(built.atoms)
      PROVE  BuiltInv'
  <2>1. Well(built, rules)
    BY <1>1, SourceIsPayer, Zenon DEF Well, ValueSigned
  <2>2. built.atoms \in Seq(AtomType)
    BY <1>1 DEF NewSeq
  <2> QED
    BY <1>1, <2>1, <2>2, BuildBuiltInv, Zenon
<1> DEFINE Made(built) == NewSeq(built.atoms)
<1>9. ASSUME ValueSigned, NEW m \in Amounts, NEW n \in Amounts
      PROVE  source.balance - n <= IntMax /\ source.balance - (m + n) <= IntMax
  <2>1. source \in Sources \ {NoWallet} /\ source.balance <= IntMax
    BY <1>9, Zenon DEF ValueSigned, Owned, TypeOK
  <2> QED
    BY <2>1 DEF AmountsFit
<1>2. /\ source \in WalletType \cup {NoWallet} /\ remainder \in WalletType \cup {NoWallet}
      /\ \E w \in WalletType : TRUE
      /\ 0 \in Int /\ <<>> \in Seq(Texts) /\ "" \in Texts
  BY TypedState, SomeInputs, Zenon
<1>3. CASE CallInitValue
  <2>1. PICK w \in Recipients \ {NoWallet}, n \in Amounts :
            Build("value", InitValue(source, remainder, w, n),
                  /\ ValueSigned
                  /\ IF remainder = NoWallet
                     THEN SameToken({w}) /\ Batched({w}, w) /\ n = source.balance
                     ELSE SameToken({w, remainder}) /\ Batched({w}, remainder))
    BY <1>3, Zenon DEF CallInitValue
  <2> DEFINE paired == IF remainder = NoWallet
                       THEN SameToken({w}) /\ Batched({w}, w) /\ n = source.balance
                       ELSE SameToken({w, remainder}) /\ Batched({w}, remainder)
  <2>2. w \in WalletType /\ n \in Int
    BY InputsAreTyped
  <2>3. Made(InitValue(source, remainder, w, n))
    BY <1>2, <2>2, ValueBuildersCreateNew
  <2>4. ASSUME paired
        PROVE  /\ w.token = source.token
               /\ (source.batch # NoBatch => w.batch # NoBatch)
               /\ (remainder = NoWallet =>
                     n = source.balance /\ (source.batch # NoBatch => w.batch = source.batch))
               /\ (remainder # NoWallet =>
                     remainder.token = source.token
                     /\ (source.batch # NoBatch => remainder.batch = source.batch))
    BY <2>4, Zenon DEF SameToken, Batched
  <2> HIDE DEF paired
  <2>5. ASSUME ValueSigned, paired, Payer, InitValue(source, remainder, w, n).err = "SUCCESS"
        PROVE  BuiltWell(InitValue(source, remainder, w, n).atoms)
    BY <1>2, <1>9, <2>2, <2>4, <2>5, ValueBuilds, Zenon
  <2> QED
    BY <1>1, <2>1, <2>3, <2>5, Zenon DEF paired
<1>4. CASE CallInitValues
  <2>1. PICK v \in Recipients, w \in Recipients, m \in Amounts, n \in Amounts :
            Build("values", InitValues(source, remainder, <<v, w>>, <<m, n>>),
                  /\ ValueSigned
                  /\ NoWallet \notin {v, w, remainder}
                  /\ SameToken({v, w, remainder})
                  /\ Batched({v, w}, remainder))
    BY <1>4, Zenon DEF CallInitValues
  <2>2. /\ v \in WalletType \cup {NoWallet} /\ w \in WalletType \cup {NoWallet}
        /\ m \in Int /\ n \in Int /\ -IntMax - 1 <= m + n /\ m + n <= IntMax
    BY InputsAreTyped DEF AmountsFit
  <2>3. Made(InitValues(source, remainder, <<v, w>>, <<m, n>>))
    BY <1>2, <2>2, InitValuesCreatesNew
  <2> DEFINE paired == /\ NoWallet \notin {v, w, remainder}
                       /\ SameToken({v, w, remainder})
                       /\ Batched({v, w}, remainder)
  <2>4. ASSUME paired
        PROVE  /\ v # NoWallet /\ w # NoWallet /\ remainder # NoWallet
               /\ v \in WalletType /\ w \in WalletType /\ remainder \in WalletType
               /\ v.token = source.token /\ w.token = source.token
               /\ remainder.token = source.token
               /\ (source.batch # NoBatch =>
                     remainder.batch = source.batch /\ v.batch # NoBatch /\ w.batch # NoBatch)
    BY <1>2, <2>2, <2>4, Zenon DEF SameToken, Batched
  <2> HIDE DEF paired
  <2>5. ASSUME ValueSigned, paired, Payer,
               InitValues(source, remainder, <<v, w>>, <<m, n>>).err = "SUCCESS"
        PROVE  BuiltWell(InitValues(source, remainder, <<v, w>>, <<m, n>>).atoms)
    BY <1>9, <2>2, <2>4, <2>5, TwoCreditsBuild, Zenon
  <2> QED
    BY <1>1, <2>1, <2>3, <2>5, Zenon DEF paired
<1>5. CASE CallInitDepositBuffer
  <2>1. PICK w \in Recipients \ {NoWallet}, n \in Amounts :
            Build("deposit", InitDepositBuffer(source, remainder, w, n),
                  /\ ValueSigned /\ remainder # NoWallet
                  /\ SameToken({w, remainder}) /\ Batched({}, remainder))
    BY <1>5, Zenon DEF CallInitDepositBuffer
  <2>2. w \in WalletType /\ n \in Int
    BY InputsAreTyped
  <2>3. Made(InitDepositBuffer(source, remainder, w, n))
    BY <1>2, <2>2, ValueBuildersCreateNew
  <2>4. ASSUME SameToken({w, remainder}), Batched({}, remainder)
        PROVE  /\ w.token = source.token /\ remainder.token = source.token
               /\ (source.batch # NoBatch => remainder.batch = source.batch)
    BY <2>4, Zenon DEF SameToken, Batched
  <2>5. ASSUME ValueSigned, remainder # NoWallet, SameToken({w, remainder}),
               Batched({}, remainder), Payer,
               InitDepositBuffer(source, remainder, w, n).err = "SUCCESS"
        PROVE  BuiltWell(InitDepositBuffer(source, remainder, w, n).atoms)
    BY <1>2, <2>2, <2>4, <2>5, DepositBuilds, Zenon
  <2> QED
    BY <1>1, <2>1, <2>3, <2>5, Zenon
<1>6. CASE CallInitWithdrawBuffer
  <2>1. PICK w \in Recipients \ {NoWallet}, n \in Amounts :
            Build("withdraw", InitWithdrawBuffer(source, remainder, w, n),
                  ValueSigned /\ remainder # NoWallet /\ SameToken({w, remainder}))
    BY <1>6, Zenon DEF CallInitWithdrawBuffer
  <2>2. w \in WalletType /\ n \in Int
    BY InputsAreTyped
  <2>3. Made(InitWithdrawBuffer(source, remainder, w, n))
    BY <1>2, <2>2, ValueBuildersCreateNew
  <2>4. remainder # NoWallet => remainder \in WalletType /\ remainder.bundle # ""
    BY ProperWallet, Zenon
  <2>5. ASSUME ValueSigned, remainder # NoWallet, Payer,
               InitWithdrawBuffer(source, remainder, w, n).err = "SUCCESS"
        PROVE  BuiltWell(InitWithdrawBuffer(source, remainder, w, n).atoms)
    BY <2>2, <2>4, <2>5, WithdrawBuilds, Zenon
  <2> QED
    BY <1>1, <2>1, <2>3, <2>5, Zenon
<1>7. CASE CallInitBurn
  <2>1. PICK n \in Amounts :
            Build("burn", InitBurn(source, remainder, n),
                  ValueSigned /\ remainder # NoWallet /\ SameToken({remainder}))
    BY <1>7, Zenon DEF CallInitBurn
  <2>2. n \in Int
    BY InputsAreTyped
  <2>3. Made(InitBurn(source, remainder, n))
    BY <1>2, <2>2, ValueBuildersCreateNew
  <2>4. ASSUME ValueSigned, remainder # NoWallet, SameToken({remainder}), Payer,
               InitBurn(source, remainder, n).err = "SUCCESS"
        PROVE  BuiltWell(InitBurn(source, remainder, n).atoms)
    <3>1. remainder \in WalletType /\ remainder.token = source.token
      BY <1>2, <2>4, Zenon DEF SameToken
    <3> QED
      BY <1>9, <2>2, <2>4, <3>1, BurnBuilds, Zenon
  <2> QED
    BY <1>1, <2>1, <2>3, <2>4, Zenon
<1>8. CASE CallInitFuseToken
  <2>1. PICK w \in Recipients \ {NoWallet}, us \in UnitLists, id \in NewIds :
            Build("fuse", InitFuseToken(source, remainder, w, us, id),
                  ValueSigned /\ remainder # NoWallet /\ SameToken({w, remainder}))
    BY <1>8, Zenon DEF CallInitFuseToken
  <2>2. w \in WalletType /\ us \in Seq(Texts) /\ id \in Texts /\ w # NoWallet /\ w \in Recipients
    BY InputsAreTyped
  <2>3. Made(InitFuseToken(source, remainder, w, us, id))
    BY <1>2, <2>2, ValueBuildersCreateNew
  <2>4. w.bundle # ""
    BY <2>2, ProperWallet, Zenon
  <2>5. ASSUME ValueSigned, remainder # NoWallet, Payer,
               InitFuseToken(source, remainder, w, us, id).err = "SUCCESS"
        PROVE  BuiltWell(InitFuseToken(source, remainder, w, us, id).atoms)
    <3>1. remainder \in WalletType
      BY <1>2, <2>5, Zenon
    <3> QED
      BY <2>2, <2>4, <2>5, <3>1, FuseBuilds, Zenon
  <2> QED
    BY <1>1, <2>1, <2>3, <2>5, Zenon
<1> QED
  BY <1>3, <1>4, <1>5, <1>6, <1>7, <1>8

LEMMA InitBuiltInv == Init => BuiltInv
<1> SUFFICES ASSUME Init PROVE BuiltInv
  OBVIOUS
<1>1. calls = <<>> /\ atoms = <<>> /\ isSigned = FALSE
  BY DEF Init
<1>2. <<>> \in Seq({}) /\ Len(<<>>) # 1
  OBVIOUS
<1> QED
  BY <1>1, <1>2, Zenon DEF BuiltInv, OneBuilder

LEMMA StepBuiltInv ==
    ASSUME ProperWallets, AmountsFit, IInv, BuiltInv, [Next]_vars
    PROVE  BuiltInv'
<1>1. TypeOK
  BY DEF IInv
<1>2. CASE UNCHANGED vars
  BY <1>2, Zenon DEF vars, BuiltInv, OneBuilder, Sound, SigningKey
<1>3. CASE CallGenerateHash
  BY <1>3, Zenon DEF CallGenerateHash, fields, BuiltInv, OneBuilder, Sound, SigningKey
<1>4. CASE CallFromJson
  <2>1. Reverse(<<>>) = <<>>
    BY DEF Reverse
  <2>2. /\ (atoms = <<>> => atoms' = <<>>) /\ secret' = NoSecret /\ isSigned' = FALSE
        /\ calls' = calls
    BY <1>4, <2>1, Zenon DEF CallFromJson
  <2> QED
    BY <2>2, Zenon DEF BuiltInv
<1>5. CASE CallAddAtom
  <2>1. PICK a \in LooseAtoms :
            Build("loose", [atoms |-> <<a>>, err |-> "SUCCESS"], FALSE)
    BY <1>5, Zenon DEF CallAddAtom
  <2>2. <<a>> \in Seq(AtomType)
    BY InputsAreTyped, OneIsSeq, Zenon
  <2> DEFINE built == [atoms |-> <<a>>, err |-> "SUCCESS"]
  <2>3. built.atoms = <<a>>
    OBVIOUS
  <2>4. Well(built, FALSE)
    BY Zenon DEF Well
  <2> QED
    BY <1>1, <2>1, <2>2, <2>3, <2>4, BuildBuiltInv, Zenon
<1>6. CASE CallAtomAddMeta \/ CallSign
  BY <1>6, LaterBuiltInv
<1> QED
  BY <1>1, <1>2, <1>3, <1>4, <1>5, <1>6, UserBuiltInv, ValueBuiltInv, Zenon DEF Next

\* A builder's molecule, signed in one encoding: nothing is left for the check to refuse.
LEMMA SignedBuilderPasses ==
    ASSUME IInv, SpreadInv, MarkInv, BuiltInv
    PROVE  BuilderPassesCheck
<1> SUFFICES ASSUME OneBuilder, calls[1].rules, isSigned, ~touched,
                    Cardinality(EncodingsUsed) = 1
             PROVE  verdict = "SUCCESS"
  BY Zenon DEF BuilderPassesCheck
<1>1. secret # NoSecret
  BY DEF MarkInv
<1>2. atoms # <<>> /\ ContentOK(atoms) /\ SigningKey(atoms[1]) = atoms[1].addr
  BY <1>1, Zenon DEF BuiltInv, Sound
<1>3. hash = MolecularHash(atoms)
  BY DEF IInv, SignedIsCurrent
<1>4. hash # NoHash
  <2>1. Placed(atoms)
    BY <1>1 DEF IInv, IndexIsPlace, Placed
  <2> QED
    BY <1>3, <2>1, HashIsTyped, AbsentAssumption, Zenon DEF IInv
<1>5. /\ IsWholeSignature(Fragments(atoms)) /\ Fragments(atoms)[1].msg = hash
      /\ Fragments(atoms)[1].key = atoms[1].addr
  BY <1>2, OneEncodingIsWhole, Zenon
<1>6. OtsError(atoms, hash) = "SUCCESS"
  BY <1>5, Zenon DEF OtsError
<1> QED
  BY <1>2, <1>3, <1>4, <1>6 DEF verdict, Check, ContentOK
-----------------------------------------------------------------------------
(* Value that moves comes out of the signer's wallet, whole. *)

\* Premise: amounts are positive, and a balance past the int is seen to be: the cast gives
\* INT_MIN, as on x86-64. (On AArch64 it gives INT_MAX, which is then debited and passes.)
PaysPositively ==
    /\ \A n \in Amounts : n > 0
    /\ OutOfRange < 0 \/ \A w \in Sources \ {NoWallet} : w.balance <= IntMax

\* a debits the source by what (int) makes of its balance; a credits.
Debits(a)  == a.addr = source.addr /\ a.value = Minus(IntBalance(source))
Credits(a) == a.value \in Int /\ a.value >= 0

Moves(a) == IsNew(a) /\ a.iso \in {"V", "B", "F"} /\ (Debits(a) \/ Credits(a))

\* What a value builder hands to add_atom begins with a debit.
Moved(s) ==
    /\ NewSeq(s) /\ \A i \in DOMAIN s : Moves(s[i])
    /\ s # <<>> => source # NoWallet /\ Debits(s[1])

LEMMA HasMoves ==
    ASSUME NEW a, NEW iso \in {"V", "B", "F"}, NEW addr, NEW token, NEW value, NEW batch,
           NEW bundle, Has(a, iso, addr, token, value, batch, bundle)
    PROVE  /\ addr = source.addr /\ value = Minus(IntBalance(source)) => Moves(a) /\ Debits(a)
           /\ value \in Int /\ value >= 0 => Moves(a)
  BY DEF Has, Moves, Debits, Credits

LEMMA TuplesMove ==
    ASSUME NEW a, Moves(a), Debits(a), source # NoWallet,
           NEW b, Moves(b), NEW c, Moves(c), NEW d, Moves(d)
    PROVE  Moved(<<a>>) /\ Moved(<<a, b>>) /\ Moved(<<a, b, c>>) /\ Moved(<<a, b, c, d>>)
<1>1. NewSeq(<<a>>) /\ NewSeq(<<a, b>>) /\ NewSeq(<<a, b, c>>) /\ NewSeq(<<a, b, c, d>>)
  BY TupleIsNewSeq DEF Moves
<1>2. /\ \A i \in DOMAIN <<a>> : Moves(<<a>>[i])
      /\ \A i \in DOMAIN <<a, b>> : Moves(<<a, b>>[i])
      /\ \A i \in DOMAIN <<a, b, c>> : Moves(<<a, b, c>>[i])
      /\ \A i \in DOMAIN <<a, b, c, d>> : Moves(<<a, b, c, d>>[i])
  OBVIOUS
<1> QED
  BY <1>1, <1>2 DEF Moved

LEMMA RefusedMoves == ASSUME NEW err PROVE Moved(Refused(err).atoms)
  BY RefusedIsNewSeq DEF Moved, Refused

\* A source with the balance the premises allow.
LEMMA SourceIs ==
    ASSUME TypeOK, ProperWallets, PaysPositively, source # NoWallet
    PROVE  /\ source \in WalletType /\ source.balance \in Int /\ source.balance >= 0
           /\ source.balance <= IntMax \/ OutOfRange = -IntMax - 1
<1>1. source \in WalletType /\ source.balance >= 0
  BY ProperWallet, Zenon
<1>2. source.balance <= IntMax \/ OutOfRange < 0
  BY DEF PaysPositively, TypeOK
<1> QED
  BY <1>1, <1>2, WalletIsTyped, IntMaxAssumption

\* What the whole debit leaves is no debt.
LEMMA RestIsCredit ==
    ASSUME TypeOK, ProperWallets, PaysPositively, source # NoWallet,
           NEW n \in Int, n > 0, n <= IntMax, ~(source.balance < n)
    PROVE  Remainder(source, n) \in Int /\ Remainder(source, n) >= 0
<1> DEFINE b == source.balance
<1>1. source \in WalletType /\ b \in Int /\ b >= 0 /\ (b <= IntMax \/ OutOfRange = -IntMax - 1)
  BY SourceIs
<1>2. n <= b
  BY <1>1
<1>3. CASE b <= IntMax
  <2>1. IntBalance(source) = b
    BY <1>3 DEF IntBalance, CastInt
  <2> HIDE DEF b
  <2>2. b - n \in Int /\ -IntMax - 1 <= b - n /\ b - n <= IntMax /\ b - n >= 0
    BY <1>1, <1>2, <1>3, IntMaxAssumption
  <2>3. WrapInt(b - n) = b - n
    BY <2>2, WrapInRange
  <2> QED
    BY <2>1, <2>2, <2>3 DEF Remainder
<1>4. CASE ~(b <= IntMax)
  <2>1. IntBalance(source) = -IntMax - 1
    BY <1>1, <1>4 DEF IntBalance, CastInt
  <2> HIDE DEF b
  <2> DEFINE x == -n
             y == 2 * (IntMax + 1)
  <2>2. WrapInt(-IntMax - 1 - n) = (x % y) - IntMax - 1
    <3>1. -IntMax - 1 - n + IntMax + 1 = x
      BY IntMaxAssumption
    <3> HIDE DEF x
    <3> QED
      BY <3>1 DEF WrapInt
  <2>3. x % y = y - n
    BY IntMaxAssumption
  <2>4. WrapInt(-IntMax - 1 - n) = IntMax + 1 - n
    BY <2>2, <2>3, IntMaxAssumption
  <2>5. IntMax + 1 - n \in Int /\ IntMax + 1 - n >= 0
    BY IntMaxAssumption
  <2> QED
    BY <2>1, <2>4, <2>5 DEF Remainder
<1> QED
  BY <1>3, <1>4

\* A debit of the source and a credit to any wallet, as the builders make them.
LEMMA WalletMoves ==
    ASSUME source \in WalletType, source # NoWallet, NEW iso \in {"V", "B", "F"},
           NEW w \in WalletType, NEW n \in Int, n >= 0, NEW bundle \in Texts
    PROVE  /\ Moves(Debit(iso, source)) /\ Debits(Debit(iso, source))
           /\ Moves(WalletAtom(iso, source, Minus(IntBalance(source))))
           /\ Debits(WalletAtom(iso, source, Minus(IntBalance(source))))
           /\ Moves(ToBundle(Debit(iso, source), bundle))
           /\ Debits(ToBundle(Debit(iso, source), bundle))
           /\ Moves([Debit(iso, source) EXCEPT !.batch = NoBatch])
           /\ Debits([Debit(iso, source) EXCEPT !.batch = NoBatch])
           /\ Moves(Credit(iso, w, n)) /\ Moves([Credit(iso, w, n) EXCEPT !.batch = NoBatch])
           /\ Moves(ToBundle(WalletAtom(iso, w, n), bundle))
<1> DEFINE v == Minus(IntBalance(source))
           debit == Debit(iso, source)
           plain == WalletAtom(iso, source, v)
<1>1. iso \in Isotopes
  BY DEF Isotopes
<1>2. v \in Int \cup {NotANumber} /\ n \in Int \cup {NotANumber}
  BY AmountsAreTyped, 0 \in Int
<1>3. /\ Has(debit, iso, source.addr, source.token, v, source.batch, "")
      /\ Has(plain, iso, source.addr, source.token, v, source.batch, "")
      /\ Has(Credit(iso, w, n), iso, w.addr, w.token, n, w.batch, w.bundle)
      /\ Has(WalletAtom(iso, w, n), iso, w.addr, w.token, n, w.batch, "")
  <2> HIDE DEF v
  <2>1. /\ Has(plain, iso, source.addr, source.token, v, source.batch, "")
        /\ Has(Credit(iso, w, n), iso, w.addr, w.token, n, w.batch, w.bundle)
        /\ Has(WalletAtom(iso, w, n), iso, w.addr, w.token, n, w.batch, "")
    BY <1>1, <1>2, WalletAtomsHave
  <2>2. Has(debit, iso, source.addr, source.token, v, source.batch, "")
    BY <1>1, <1>2, WalletAtomsHave DEF v
  <2> QED
    BY <2>1, <2>2
<1>4. Moves(debit) /\ Debits(debit) /\ Moves(plain) /\ Debits(plain)
  <2> HIDE DEF debit, plain
  <2> QED
    BY <1>3, HasMoves
<1>5. /\ Has(ToBundle(debit, bundle), iso, source.addr, source.token, v, source.batch, bundle)
      /\ Has([debit EXCEPT !.batch = NoBatch], iso, source.addr, source.token, v, NoBatch, "")
      /\ Has(ToBundle(WalletAtom(iso, w, n), bundle), iso, w.addr, w.token, n, w.batch, bundle)
      /\ Has([Credit(iso, w, n) EXCEPT !.batch = NoBatch], iso, w.addr, w.token, n, NoBatch,
             w.bundle)
  <2> HIDE DEF debit, v
  <2> QED
    BY <1>3, DecoratedHas
<1>6. /\ Moves(ToBundle(debit, bundle)) /\ Debits(ToBundle(debit, bundle))
      /\ Moves([debit EXCEPT !.batch = NoBatch]) /\ Debits([debit EXCEPT !.batch = NoBatch])
  <2> DEFINE a == ToBundle(debit, bundle)
             c == [debit EXCEPT !.batch = NoBatch]
  <2> HIDE DEF a, c
  <2>1. Moves(a) /\ Debits(a)
    BY <1>5, HasMoves DEF a
  <2>2. Moves(c) /\ Debits(c)
    BY <1>5, HasMoves DEF c
  <2> QED
    BY <2>1, <2>2 DEF a, c
<1>7. /\ Moves(Credit(iso, w, n)) /\ Moves([Credit(iso, w, n) EXCEPT !.batch = NoBatch])
      /\ Moves(ToBundle(WalletAtom(iso, w, n), bundle))
  BY <1>3, <1>5, HasMoves
<1> QED
  BY <1>4, <1>6, <1>7

\* An atom for an address of no wallet.
LEMMA SentMoves ==
    ASSUME NEW iso \in {"V", "F"}, NEW addr \in AddressType, NEW token \in Texts, NEW n \in Int,
           n >= 0, NEW batch \in Texts \cup {NoBatch}, NEW bundle \in Texts
    PROVE  /\ Moves(ToBundle(NewAtom(iso, addr, token, n, batch), bundle))
           /\ \A us \in Seq(Texts) :
                Moves(WithUnits(ToBundle(NewAtom(iso, addr, token, n, batch), bundle), us))
<1> DEFINE a == ToBundle(NewAtom(iso, addr, token, n, batch), bundle)
<1>1. Has(a, iso, addr, token, n, batch, bundle)
  BY SentHas
<1> HIDE DEF a
<1>2. \A us \in Seq(Texts) : Has(WithUnits(a, us), iso, addr, token, n, batch, bundle)
  BY <1>1, DecoratedHas
<1>3. Moves(a) /\ \A us \in Seq(Texts) : Moves(WithUnits(a, us))
  BY <1>1, <1>2, HasMoves
<1> QED
  BY <1>3 DEF a

LEMMA AmountIs ==
    ASSUME AmountsFit, PaysPositively, NEW m \in Amounts, NEW n \in Amounts
    PROVE  /\ m \in Int /\ n \in Int /\ m > 0 /\ n > 0 /\ m <= IntMax /\ n <= IntMax
           /\ m + n \in Int /\ m + n > 0 /\ m + n <= IntMax /\ -IntMax - 1 <= m + n
<1>1. m \in Int /\ n \in Int /\ m > 0 /\ n > 0
  BY InputsAreTyped DEF PaysPositively
<1>2. m + n <= IntMax /\ m + m <= IntMax /\ n + n <= IntMax /\ -IntMax - 1 <= m + n
  BY DEF AmountsFit
<1> QED
  BY <1>1, <1>2, IntMaxAssumption

\* The premises of the builders' lemmas.
Paying ==
    /\ TypeOK /\ ProperWallets /\ AmountsFit /\ PaysPositively
    /\ source \in WalletType \cup {NoWallet} /\ remainder \in WalletType \cup {NoWallet}

LEMMA ValueMoves ==
    ASSUME Paying, NEW w \in WalletType, NEW n \in Amounts
    PROVE  Moved(InitValue(source, remainder, w, n).atoms)
<1> DEFINE b == source.balance
           r == Remainder(source, n)
           first  == Debit("V", source)
           second == Credit("V", w, n)
           third  == Credit("V", remainder, r)
           made   == InitValue(source, remainder, w, n)
<1>1. /\ n \in Int /\ n > 0 /\ n >= 0 /\ n <= IntMax
      /\ "V" \in {"V", "B", "F"} /\ ZeroBundle \in Texts
  <2>1. ZeroBundle \in Texts
    BY LiteralsAssumption DEF ZeroBundle
  <2> QED
    BY <2>1, AmountIs DEF Paying
<1>2. \/ \E err : made = Refused(err)
      \/ /\ source # NoWallet /\ ~(b < n)
         /\ \/ made = Built(<<first, second>>)
            \/ remainder # NoWallet /\ made = Built(<<first, second, third>>)
  BY Zenon DEF InitValue
<1>4. ASSUME source # NoWallet
      PROVE  source \in WalletType /\ Moves(first) /\ Debits(first) /\ Moves(second)
  BY <1>1, <1>4, WalletMoves DEF Paying
<1>5. ASSUME source # NoWallet, remainder # NoWallet, ~(b < n) PROVE Moves(third)
  <2>1. r \in Int /\ r >= 0
    BY <1>1, <1>5, RestIsCredit DEF Paying
  <2> HIDE DEF r
  <2> QED
    BY <1>1, <1>4, <1>5, <2>1, WalletMoves DEF Paying
<1> HIDE DEF first, second, third, made, b
<1>6. /\ source # NoWallet => Moved(<<first, second>>)
      /\ source # NoWallet /\ remainder # NoWallet /\ ~(b < n) =>
            Moved(<<first, second, third>>)
  BY <1>4, <1>5, TuplesMove
<1>7. Moved(made.atoms)
  BY <1>2, <1>6, RefusedMoves, BuiltAtoms, Zenon
<1> QED
  BY <1>7 DEF made

LEMMA BurnMoves ==
    ASSUME Paying, NEW n \in Amounts
    PROVE  Moved(InitBurn(source, remainder, n).atoms)
<1> DEFINE b == source.balance
           r == Remainder(source, n)
           first  == [Debit("V", source) EXCEPT !.batch = NoBatch]
           second == ToBundle(NewAtom("V", NoAddress, source.token, n, NoBatch), ZeroBundle)
           third  == [Credit("V", remainder, r) EXCEPT !.batch = NoBatch]
           made   == InitBurn(source, remainder, n)
<1>1. /\ n \in Int /\ n > 0 /\ n >= 0 /\ n <= IntMax /\ "V" \in {"V", "B", "F"}
      /\ "V" \in {"V", "F"} /\ NoAddress \in AddressType /\ ZeroBundle \in Texts
      /\ NoBatch \in Texts \cup {NoBatch}
  <2>1. n \in Int /\ n > 0 /\ n >= 0 /\ n <= IntMax
    BY AmountIs DEF Paying
  <2>2. NoAddress \in AddressType /\ ZeroBundle \in Texts
    BY LiteralsAssumption DEF NoAddress, AddressType, ZeroBundle
  <2> QED
    BY <2>1, <2>2
<1>2. \/ \E err : made = Refused(err)
      \/ /\ source # NoWallet /\ remainder # NoWallet /\ ~(b < n)
         /\ made = Built(<<first, second, third>>)
  BY Zenon DEF InitBurn
<1>3. ASSUME source # NoWallet, remainder # NoWallet, ~(b < n)
      PROVE  Moved(<<first, second, third>>)
  <2>1. r \in Int /\ r >= 0 /\ source \in WalletType
    BY <1>1, <1>3, RestIsCredit DEF Paying
  <2> HIDE DEF r
  <2>2. Moves(first) /\ Debits(first) /\ Moves(third)
    BY <1>1, <1>3, <2>1, WalletMoves DEF Paying
  <2>3. Moves(second)
    BY <1>1, <2>1, SentMoves, WalletIsTyped
  <2> HIDE DEF first, second, third
  <2> QED
    BY <1>3, <2>2, <2>3, TuplesMove
<1> HIDE DEF first, second, third, made, b
<1>4. Moved(made.atoms)
  BY <1>2, <1>3, RefusedMoves, BuiltAtoms, Zenon
<1> QED
  BY <1>4 DEF made

LEMMA BufferMoves ==
    ASSUME Paying, NEW w \in WalletType, NEW n \in Amounts
    PROVE  /\ Moved(InitDepositBuffer(source, remainder, w, n).atoms)
           /\ Moved(InitWithdrawBuffer(source, remainder, w, n).atoms)
<1> DEFINE b == source.balance
           r == Remainder(source, n)
           d1 == WalletAtom("V", source, Minus(IntBalance(source)))
           d2 == ToBundle(WalletAtom("B", w, n), source.bundle)
           d3 == ToBundle(WalletAtom("V", remainder, r), source.bundle)
           w1 == ToBundle(Debit("B", source), source.bundle)
           w2 == ToBundle(NewAtom("V", w.addr, source.token, n, w.batch), w.bundle)
           w3 == ToBundle(WalletAtom("B", remainder, r), remainder.bundle)
           deposit  == InitDepositBuffer(source, remainder, w, n)
           withdraw == InitWithdrawBuffer(source, remainder, w, n)
           allowed  == BufferRefusal(source, remainder, n) = "SUCCESS"
<1>1. /\ n \in Int /\ n > 0 /\ n >= 0 /\ n <= IntMax
      /\ "V" \in {"V", "B", "F"} /\ "B" \in {"V", "B", "F"} /\ "V" \in {"V", "F"}
  BY AmountIs DEF Paying
<1>2. /\ (\E err : deposit = Refused(err)) \/ (allowed /\ deposit = Built(<<d1, d2, d3>>))
      /\ (\E err : withdraw = Refused(err)) \/ (allowed /\ withdraw = Built(<<w1, w2, w3>>))
  BY Zenon DEF InitDepositBuffer, InitWithdrawBuffer
<1>3. ASSUME allowed PROVE Moved(<<d1, d2, d3>>) /\ Moved(<<w1, w2, w3>>)
  <2>1. source # NoWallet /\ remainder # NoWallet /\ ~(b < n)
    <3>1. "INVALID_STATE" # "SUCCESS" /\ "INVALID_ARGS" # "SUCCESS"
          /\ "BALANCE_INSUFFICIENT" # "SUCCESS" /\ ~(n < 0)
      BY <1>1
    <3>2. NoWallet \notin {source, remainder}
      BY <1>3, <3>1, Zenon DEF BufferRefusal
    <3>3. ~(b < n)
      BY <1>3, <3>1, <3>2, Zenon DEF BufferRefusal
    <3> QED
      BY <3>2, <3>3
  <2>2. /\ r \in Int /\ r >= 0 /\ source \in WalletType /\ remainder \in WalletType
        /\ source.bundle \in Texts /\ remainder.bundle \in Texts
    BY <1>1, <2>1, RestIsCredit, WalletIsTyped DEF Paying
  <2> HIDE DEF r
  <2>3. Moves(d1) /\ Debits(d1) /\ Moves(d2) /\ Moves(d3)
    BY <1>1, <2>1, <2>2, WalletMoves
  <2>4. Moves(w1) /\ Debits(w1) /\ Moves(w3)
    BY <1>1, <2>1, <2>2, WalletMoves
  <2>5. Moves(w2)
    BY <1>1, <2>2, SentMoves, WalletIsTyped
  <2> HIDE DEF d1, d2, d3, w1, w2, w3
  <2> QED
    BY <2>1, <2>3, <2>4, <2>5, TuplesMove
<1> HIDE DEF d1, d2, d3, w1, w2, w3, deposit, withdraw, allowed
<1>4. Moved(deposit.atoms) /\ Moved(withdraw.atoms)
  BY <1>2, <1>3, RefusedMoves, BuiltAtoms, Zenon
<1> QED
  BY <1>4 DEF deposit, withdraw

LEMMA ValuesMove ==
    ASSUME Paying, NEW v \in WalletType \cup {NoWallet}, NEW w \in WalletType \cup {NoWallet},
           NEW m \in Amounts, NEW n \in Amounts
    PROVE  Moved(InitValues(source, remainder, <<v, w>>, <<m, n>>).atoms)
<1> DEFINE rs    == <<v, w>>
           ns    == <<m, n>>
           total == Total(ns)
           paid  == Paid(rs)
           b     == source.balance
           rest  == Remainder(source, total)
           atom(i) == IF i = 1 THEN Debit("V", source)
                      ELSE IF i <= paid + 1
                      THEN Credit("V", rs[i - 1], ns[i - 1])
                      ELSE Credit("V", remainder, rest)
           made == InitValues(source, remainder, rs, ns)
<1>1. /\ m \in Int /\ n \in Int /\ m >= 0 /\ n >= 0 /\ "V" \in {"V", "B", "F"}
      /\ ZeroBundle \in Texts
  <2>1. ZeroBundle \in Texts
    BY LiteralsAssumption DEF ZeroBundle
  <2>2. m \in Int /\ n \in Int /\ m > 0 /\ n > 0
    BY AmountIs DEF Paying
  <2> QED
    BY <2>1, <2>2
<1>2. total \in Int /\ total > 0 /\ total <= IntMax
  <2>1. total = m + n
    BY AmountIs, TotalOfTwo DEF Paying
  <2>2. m + n \in Int /\ m + n > 0 /\ m + n <= IntMax
    BY AmountIs DEF Paying
  <2> HIDE DEF total
  <2> QED
    BY <2>1, <2>2
<1>3. paid \in 0 .. 2 /\ \A i \in 2 .. paid + 1 : rs[i - 1] # NoWallet
  BY PaidAreWallets
<1>4. NewSeq(made.atoms)
  BY <1>1, InitValuesCreatesNew DEF Paying
<1> HIDE DEF paid, total
<1>5. \/ \E err : made = Refused(err)
      \/ /\ source # NoWallet /\ remainder # NoWallet /\ ~(b < total)
         /\ \E k \in {paid + 1, paid + 2} : made.atoms = [i \in 1 .. k |-> atom(i)]
  <2>1. \/ \E err : made = Refused(err)
        \/ /\ NoWallet \notin {source, remainder} /\ ~(b < total)
           /\ \/ made.atoms = [i \in 1 .. paid + 1 |-> atom(i)]
              \/ made.atoms = [i \in 1 .. paid + 2 |-> atom(i)]
    <3> HIDE DEF rs, ns
    <3> QED
      BY Zenon DEF InitValues, Built, Paid, paid, total
  <2> HIDE DEF made, atom
  <2> QED
    BY <2>1, Zenon
<1>6. ASSUME source # NoWallet, remainder # NoWallet, ~(b < total), NEW k \in {paid + 1, paid + 2},
             made.atoms = [i \in 1 .. k |-> atom(i)]
      PROVE  Moved(made.atoms)
  <2>1. rest \in Int /\ rest >= 0 /\ source \in WalletType /\ remainder \in WalletType
    BY <1>2, <1>6, RestIsCredit DEF Paying
  <2> HIDE DEF rest
  <2>2. Moves(Debit("V", source)) /\ Debits(Debit("V", source)) /\ Moves(Credit("V", remainder, rest))
    BY <1>1, <1>6, <2>1, WalletMoves
  <2>3. ASSUME NEW i \in 1 .. k PROVE Moves(atom(i))
    <3>1. CASE i # 1 /\ i <= paid + 1
      <4>1. i \in 2 .. paid + 1 /\ i - 1 \in {1, 2}
        BY <1>3, <1>6, <3>1
      <4>2. rs[i - 1] \in WalletType \cup {NoWallet} /\ rs[i - 1] # NoWallet
            /\ ns[i - 1] \in Int /\ ns[i - 1] >= 0
        BY <1>1, <1>3, <4>1
      <4> HIDE DEF rs, ns
      <4> QED
        BY <1>1, <1>6, <2>1, <3>1, <4>2, WalletMoves
    <3>2. CASE ~(i # 1 /\ i <= paid + 1)
      BY <2>2, <3>2
    <3> QED
      BY <3>1, <3>2
  <2>4. atom(1) = Debit("V", source) /\ 1 \in 1 .. k /\ k \in Nat
    BY <1>3, <1>6
  <2> HIDE DEF atom
  <2>5. DOMAIN made.atoms = 1 .. k /\ \A i \in 1 .. k : made.atoms[i] = atom(i)
    BY <1>6
  <2> HIDE DEF made
  <2> QED
    BY <1>4, <1>6, <2>2, <2>3, <2>4, <2>5 DEF Moved
<1> HIDE DEF made, atom, b
<1>7. Moved(made.atoms)
  BY <1>5, <1>6, RefusedMoves, Zenon
<1> QED
  BY <1>7 DEF made, rs, ns

LEMMA FuseMoves ==
    ASSUME Paying, NEW w \in WalletType, NEW ids \in Seq(Texts), NEW id \in Texts
    PROVE  Moved(InitFuseToken(source, remainder, w, ids, id).atoms)
<1> DEFINE b == source.balance
           k == Len(ids)
           v == Minus(IntBalance(source))
           k1 == k - 1
           r == Remainder(source, k)
           burnt == FreshBatch(source, "burnBatch")
           fused == FreshBatch(source, "fusionBatch")
           sent == Those(source.units, ToSet(ids))
           kept == Those(source.units, ToSet(source.units) \ ToSet(ids))
           front == Front(ids)
           debit == WalletAtom("V", source, v)
           a1 == WithUnits(debit, sent)
           a2 == WithUnits(ToBundle(NewAtom("V", NoAddress, source.token, k1, burnt), ZeroBundle),
                           front)
           a3 == WithUnits(ToBundle(NewAtom("F", w.addr, source.token, 1, fused), w.bundle), <<id>>)
           a4 == WithUnits(ToBundle(NewAtom("V", remainder.addr, source.token, r, source.batch),
                                    remainder.bundle), kept)
           made == InitFuseToken(source, remainder, w, ids, id)
<1>1. \/ \E err : made = Refused(err)
      \/ /\ source # NoWallet /\ remainder # NoWallet /\ ~(k < 2) /\ ~(IntBalance(source) < k)
         /\ made = Built(<<a1, a2, a3, a4>>)
  <2>1. \/ \E err : made = Refused(err)
        \/ /\ NoWallet \notin {source, remainder} /\ ~FusionRefused(source, ids, id)
           /\ ~(IntBalance(source) < k)
           /\ made = Built(<<a1, a2, a3, a4>>)
    BY Zenon DEF InitFuseToken
  <2>2. FusionRefused(source, ids, id) \/ ~(k < 2)
    BY Zenon DEF FusionRefused
  <2> HIDE DEF made, a1, a2, a3, a4, k
  <2> QED
    BY <2>1, <2>2, Zenon
<1>2. /\ NoAddress \in AddressType /\ ZeroBundle \in Texts /\ "V" \in {"V", "B", "F"}
      /\ "V" \in {"V", "F"} /\ "F" \in {"V", "F"} /\ 1 \in Int /\ 1 >= 0
  <2>1. NoAddress \in AddressType /\ ZeroBundle \in Texts
    BY LiteralsAssumption DEF NoAddress, AddressType, ZeroBundle
  <2> QED
    BY <2>1
<1>3. ASSUME source # NoWallet, remainder # NoWallet, ~(k < 2), ~(IntBalance(source) < k)
      PROVE  Moved(<<a1, a2, a3, a4>>)
  <2>1. /\ source \in WalletType /\ remainder \in WalletType /\ b \in Int /\ b >= 0
        /\ (b <= IntMax \/ OutOfRange = -IntMax - 1)
    BY <1>3, SourceIs DEF Paying
  <2>2. k \in Nat /\ (k >= 2 => front \in Seq(Texts))
    BY FrontIsTyped
  <2> HIDE DEF k, b, v, front
  <2>3. k \in Int /\ k > 0 /\ k >= 2 /\ k1 \in Int /\ k1 >= 0
    BY <1>3, <2>2
  <2>4. b <= IntMax /\ IntBalance(source) = b
    <3>1. IntBalance(source) = IF b <= IntMax THEN b ELSE OutOfRange
      BY DEF IntBalance, CastInt, b
    <3>2. ~(-IntMax - 1 >= k)
      BY <2>3, IntMaxAssumption
    <3>3. b <= IntMax
      BY <1>3, <2>1, <2>3, <3>1, IntMaxAssumption
    <3> QED
      BY <3>1, <3>3
  <2>5. k <= IntMax /\ ~(b < k)
    BY <1>3, <2>1, <2>3, <2>4, IntMaxAssumption
  <2>6. r \in Int /\ r >= 0
    BY <1>3, <2>3, <2>5, RestIsCredit DEF Paying, b
  <2>7. /\ sent \in Seq(Texts) /\ kept \in Seq(Texts) /\ <<id>> \in Seq(Texts)
        /\ front \in Seq(Texts)
    <3>1. source.units \in Seq(Texts)
      BY <2>1, WalletIsTyped
    <3>2. sent \in Seq(Texts) /\ kept \in Seq(Texts)
      BY <3>1, ThoseAreTyped, Zenon
    <3>3. <<id>> \in Seq(Texts)
      BY OneIsSeq, Zenon
    <3> QED
      BY <2>2, <2>3, <3>2, <3>3
  <2>8. burnt \in Texts \cup {NoBatch} /\ fused \in Texts \cup {NoBatch}
    <3>1. "burnBatch" \in Texts /\ "fusionBatch" \in Texts
      BY LiteralsAssumption, Zenon
    <3> QED
      BY <3>1 DEF FreshBatch
  <2> HIDE DEF r, k1, burnt, fused, sent, kept
  <2>9. Moves(a1) /\ Debits(a1)
    <3>1. "V" \in Isotopes /\ v \in Int \cup {NotANumber}
      BY <2>1, AmountsAreTyped, 0 \in Int DEF Isotopes, v
    <3>2. Has(debit, "V", source.addr, source.token, v, source.batch, "")
      BY <2>1, <3>1, WalletAtomsHave
    <3> HIDE DEF debit
    <3>3. Has(a1, "V", source.addr, source.token, v, source.batch, "")
      BY <2>7, <3>2, DecoratedHas
    <3> HIDE DEF a1
    <3> QED
      BY <1>2, <3>3, HasMoves DEF v
  <2>10. Moves(a2)
    BY <1>2, <2>1, <2>3, <2>7, <2>8, SentMoves, WalletIsTyped
  <2>11. Moves(a3)
    BY <1>2, <2>1, <2>7, <2>8, SentMoves, WalletIsTyped
  <2>12. Moves(a4)
    BY <1>2, <2>1, <2>6, <2>7, SentMoves, WalletIsTyped
  <2> HIDE DEF a1, a2, a3, a4
  <2> QED
    BY <1>3, <2>9, <2>10, <2>11, <2>12, TuplesMove
<1> HIDE DEF a1, a2, a3, a4, made, k
<1>4. Moved(made.atoms)
  BY <1>1, <1>3, RefusedMoves, BuiltAtoms, Zenon
<1> QED
  BY <1>4 DEF made

\* What PassingDebitsSigner needs of the past: while the value builders alone add atoms, and
\* the atoms are in their places, an atom credits or says what the first says, and that
\* debits the source.
DebitInv ==
    BuiltBy(ValueOps) /\ Placed(atoms) =>
        /\ \A i \in DOMAIN atoms :
            /\ atoms[i].iso \in {"V", "B", "F"}
            /\ \/ atoms[i].addr = atoms[1].addr /\ atoms[i].value = atoms[1].value
               \/ Credits(atoms[i])
        /\ source # NoWallet /\ atoms # <<>> => Debits(atoms[1])

\* The first atom a builder makes is the first of the molecule.
LEMMA FirstAdded ==
    ASSUME NEW new \in Seq(AtomType), AddAtoms(new), atoms = <<>>, atoms' # <<>>
    PROVE  1 \in DOMAIN new /\ atoms'[1] = [new[1] EXCEPT !.index = 0]
<1> DEFINE room == Smaller(Len(new), MaxAtoms - Len(atoms))
           n == Len(atoms)
<1>1. Len(new) \in Nat /\ n = 0 /\ DOMAIN new = 1 .. Len(new)
  OBVIOUS
<1>2. room \in Nat /\ room <= Len(new)
  BY <1>1, MaxAtomsAssumption DEF Smaller
<1> HIDE DEF room, n
<1>3. atoms' = [i \in 1 .. n + room |->
                    IF i <= n THEN atoms[i] ELSE [new[i - n] EXCEPT !.index = n + (i - n) - 1]]
  BY Zenon DEF AddAtoms, Extended, room, n
<1>4. room # 0
  <2> SUFFICES ASSUME room = 0 PROVE FALSE
    OBVIOUS
  <2>1. 1 .. n + room = {}
    BY <1>1
  <2>2. atoms' = <<>>
    BY <1>3, <2>1
  <2> QED
    BY <2>2
<1>5. 1 \in 1 .. n + room /\ ~(1 <= n) /\ 1 - n = 1 /\ n + (1 - n) - 1 = 0 /\ 1 \in 1 .. Len(new)
  BY <1>1, <1>2, <1>4
<1>6. atoms'[1] = [new[1] EXCEPT !.index = 0]
  BY <1>3, <1>5, Zenon
<1> QED
  BY <1>1, <1>5, <1>6

LEMMA BuiltByMore ==
    ASSUME NEW S, calls \in Seq(S), NEW op, NEW rules, NEW ok,
           calls' = Append(calls, [op |-> op, rules |-> rules, ok |-> ok]),
           NEW ops, BuiltBy(ops)'
    PROVE  BuiltBy(ops) /\ op \in ops
<1> DEFINE e == [op |-> op, rules |-> rules, ok |-> ok]
<1>1. e.op = op
  OBVIOUS
<1> HIDE DEF e
<1>2. /\ Len(calls) \in Nat /\ DOMAIN calls = 1 .. Len(calls)
      /\ DOMAIN calls' = 1 .. Len(calls) + 1
      /\ calls'[Len(calls) + 1] = e /\ \A k \in 1 .. Len(calls) : calls'[k] = calls[k]
  BY DEF e
<1>3. Len(calls) + 1 \in DOMAIN calls' /\ \A k \in DOMAIN calls : k \in DOMAIN calls'
  BY <1>2
<1> QED
  BY <1>1, <1>2, <1>3, Zenon DEF BuiltBy

LEMMA BuildDebitInv ==
    ASSUME TypeOK, DebitInv, NEW S, calls \in Seq(S), NEW op, NEW built, NEW rules,
           Build(op, built, rules), built.atoms \in Seq(AtomType),
           op \in ValueOps => Moved(built.atoms)
    PROVE  DebitInv'
<1> DEFINE new == built.atoms
<1>1. AddAtoms(new) /\ new \in Seq(AtomType)
  BY Zenon DEF Build
<1>2. BuiltBy(ValueOps)' => BuiltBy(ValueOps) /\ op \in ValueOps
  <2> DEFINE ok == built.err = "SUCCESS" /\ Len(built.atoms) <= MaxAtoms - Len(atoms)
  <2>1. calls' = Append(calls, [op |-> op, rules |-> rules, ok |-> ok])
    BY Zenon DEF Build
  <2> HIDE DEF ok
  <2> QED
    BY <2>1, BuiltByMore, Zenon
<1> HIDE DEF new
<1>3. /\ UNCHANGED source /\ Len(atoms') \in Nat /\ Len(atoms) <= Len(atoms')
      /\ DOMAIN atoms' = 1 .. Len(atoms')
      /\ \A i \in DOMAIN atoms : atoms'[i] = atoms[i]
      /\ \A i \in DOMAIN atoms' \ DOMAIN atoms :
                \E j \in DOMAIN new : atoms'[i] = [new[j] EXCEPT !.index = i - 1]
  <2>1. /\ UNCHANGED source /\ Len(atoms') \in Nat /\ Len(atoms) <= Len(atoms')
        /\ atoms' = [i \in 1 .. Len(atoms') |-> atoms'[i]]
        /\ \A i \in DOMAIN atoms : atoms'[i] = atoms[i]
        /\ \A i \in DOMAIN atoms' \ DOMAIN atoms :
                \E j \in DOMAIN new : atoms'[i] = [new[j] EXCEPT !.index = i - 1]
    BY <1>1, AddedAtoms
  <2> QED
    BY <2>1
<1>4. Len(atoms) \in Nat /\ DOMAIN atoms = 1 .. Len(atoms) /\ (atoms # <<>> => 1 \in DOMAIN atoms)
  BY DEF TypeOK
<1> SUFFICES ASSUME BuiltBy(ValueOps)', Placed(atoms)' PROVE DebitInv'
  BY Zenon DEF DebitInv
<1>5. Moved(new)
  BY <1>2 DEF new
<1>6. Placed(atoms)
  BY <1>3, <1>4 DEF Placed
<1>7. /\ \A i \in DOMAIN atoms :
            /\ atoms[i].iso \in {"V", "B", "F"}
            /\ \/ atoms[i].addr = atoms[1].addr /\ atoms[i].value = atoms[1].value
               \/ Credits(atoms[i])
      /\ source # NoWallet /\ atoms # <<>> => Debits(atoms[1])
  BY <1>2, <1>6, Zenon DEF DebitInv
<1>8. ASSUME NEW i \in DOMAIN atoms' \ DOMAIN atoms
      PROVE  /\ source # NoWallet /\ atoms'[i].iso \in {"V", "B", "F"}
             /\ Debits(atoms'[i]) \/ Credits(atoms'[i])
  <2>1. PICK j \in DOMAIN new : atoms'[i] = [new[j] EXCEPT !.index = i - 1]
    BY <1>3
  <2>2. Moves(new[j]) /\ source # NoWallet /\ new[j] \in AtomType
    BY <1>1, <1>5, <2>1 DEF Moved
  <2>3. /\ atoms'[i].iso = new[j].iso /\ atoms'[i].addr = new[j].addr
        /\ atoms'[i].value = new[j].value
    BY <2>1, <2>2 DEF AtomType
  <2> QED
    BY <2>2, <2>3, Zenon DEF Moves, Debits, Credits
<1>9. ASSUME source # NoWallet, atoms' # <<>> PROVE Debits(atoms'[1])
  <2>1. CASE atoms # <<>>
    BY <1>3, <1>4, <1>7, <1>9, <2>1
  <2>2. CASE atoms = <<>>
    <3>1. 1 \in DOMAIN new /\ atoms'[1] = [new[1] EXCEPT !.index = 0]
      BY <1>1, <1>9, <2>2, FirstAdded
    <3>2. new[1] \in AtomType /\ new # <<>>
      BY <1>1, <3>1
    <3>3. Debits(new[1])
      BY <1>5, <3>2 DEF Moved
    <3>4. atoms'[1].addr = new[1].addr /\ atoms'[1].value = new[1].value
      BY <3>1, <3>2 DEF AtomType
    <3> QED
      BY <3>3, <3>4 DEF Debits
  <2> QED
    BY <2>1, <2>2
<1>10. ASSUME NEW i \in DOMAIN atoms'
       PROVE  /\ atoms'[i].iso \in {"V", "B", "F"}
              /\ \/ atoms'[i].addr = atoms'[1].addr /\ atoms'[i].value = atoms'[1].value
                 \/ Credits(atoms'[i])
  <2>1. CASE i \in DOMAIN atoms
    <3>1. atoms'[i] = atoms[i] /\ atoms'[1] = atoms[1]
      BY <1>3, <1>4, <2>1
    <3> QED
      BY <1>7, <2>1, <3>1
  <2>2. CASE i \notin DOMAIN atoms
    <3>1. /\ source # NoWallet /\ atoms'[i].iso \in {"V", "B", "F"}
          /\ Debits(atoms'[i]) \/ Credits(atoms'[i])
      BY <1>8, <2>2
    <3>2. atoms' # <<>>
      BY <1>3
    <3>3. Debits(atoms'[1])
      BY <1>9, <3>1, <3>2
    <3> QED
      BY <3>1, <3>3, Zenon DEF Debits
  <2> QED
    BY <2>1, <2>2
<1> QED
  BY <1>3, <1>9, <1>10, Zenon DEF DebitInv, Debits, Credits

LEMMA InitDebitInv == Init => DebitInv
  BY DEF Init, DebitInv

\* A user's builder is no value builder.
LEMMA OtherOps ==
    {"meta", "auth", "token", "wallet", "claim", "replenish", "loose"} \cap ValueOps = {}
  BY DEF ValueOps

LEMMA BuildersDebitInv ==
    ASSUME Paying, DebitInv, NEW S, calls \in Seq(S),
           \/ CallInitMeta \/ CallInitAuthorization
           \/ CallInitTokenCreation \/ CallInitWalletCreation
           \/ CallInitShadowWalletClaim \/ CallInitReplenish
           \/ CallInitValue \/ CallInitValues
           \/ CallInitDepositBuffer \/ CallInitWithdrawBuffer
           \/ CallInitBurn \/ CallInitFuseToken \/ CallAddAtom
    PROVE  DebitInv'
<1>1. TypeOK /\ source \in WalletType \cup {NoWallet} /\ remainder \in WalletType \cup {NoWallet}
  BY DEF Paying
<1>2. ASSUME NEW op \in {"meta", "auth", "token", "wallet", "claim", "replenish", "loose"},
             NEW built, NEW rules, Build(op, built, rules), built.atoms \in Seq(AtomType)
      PROVE  DebitInv'
  <2>1. op \notin ValueOps
    BY OtherOps
  <2> QED
    BY <1>1, <1>2, <2>1, BuildDebitInv
<1>3. ASSUME NEW op, NEW built, NEW rules, Build(op, built, rules), Moved(built.atoms)
      PROVE  DebitInv'
  <2>1. built.atoms \in Seq(AtomType)
    BY <1>3 DEF Moved, NewSeq
  <2> QED
    BY <1>1, <1>3, <2>1, BuildDebitInv
<1>4. ASSUME NEW s, NewSeq(s) PROVE s \in Seq(AtomType)
  BY <1>4 DEF NewSeq
<1>5. CASE CallInitMeta
  BY <1>1, <1>2, <1>4, <1>5, InputsAreTyped, SomeInputs, UserBuildersCreateNew DEF CallInitMeta
<1>6. CASE CallInitAuthorization
  BY <1>1, <1>2, <1>4, <1>6, InputsAreTyped, SomeInputs, UserBuildersCreateNew DEF CallInitAuthorization
<1>7. CASE CallInitTokenCreation
  BY <1>1, <1>2, <1>4, <1>7, InputsAreTyped, SomeInputs, UserBuildersCreateNew DEF CallInitTokenCreation
<1>8. CASE CallInitWalletCreation
  BY <1>1, <1>2, <1>4, <1>8, InputsAreTyped, SomeInputs, UserBuildersCreateNew DEF CallInitWalletCreation
<1>9. CASE CallInitShadowWalletClaim
  BY <1>1, <1>2, <1>4, <1>9, InputsAreTyped, SomeInputs, UserBuildersCreateNew DEF CallInitShadowWalletClaim
<1>10. CASE CallInitReplenish
  BY <1>1, <1>2, <1>4, <1>10, InputsAreTyped, SomeInputs, UserBuildersCreateNew DEF CallInitReplenish
<1>11. CASE CallInitValue
  BY <1>3, <1>11, InputsAreTyped, ValueMoves DEF CallInitValue
<1>12. CASE CallInitValues
  BY <1>3, <1>12, InputsAreTyped, ValuesMove DEF CallInitValues
<1>13. CASE CallInitDepositBuffer
  BY <1>3, <1>13, InputsAreTyped, BufferMoves DEF CallInitDepositBuffer
<1>14. CASE CallInitWithdrawBuffer
  BY <1>3, <1>14, InputsAreTyped, BufferMoves DEF CallInitWithdrawBuffer
<1>15. CASE CallInitBurn
  BY <1>3, <1>15, BurnMoves DEF CallInitBurn
<1>16. CASE CallInitFuseToken
  BY <1>3, <1>16, InputsAreTyped, FuseMoves DEF CallInitFuseToken
<1>17. CASE CallAddAtom
  <2>1. PICK a \in LooseAtoms :
            Build("loose", [atoms |-> <<a>>, err |-> "SUCCESS"], FALSE)
    BY <1>17, Zenon DEF CallAddAtom
  <2> DEFINE built == [atoms |-> <<a>>, err |-> "SUCCESS"]
  <2>2. built.atoms \in Seq(AtomType)
    <3>1. <<a>> \in Seq(AtomType)
      BY InputsAreTyped, OneIsSeq, Zenon
    <3> QED
      BY <3>1
  <2> HIDE DEF built
  <2>3. Build("loose", built, FALSE)
    BY <2>1 DEF built
  <2> QED
    BY <1>2, <2>2, <2>3
<1> QED
  BY <1>5, <1>6, <1>7, <1>8, <1>9, <1>10, <1>11, <1>12, <1>13, <1>14, <1>15, <1>16, <1>17

LEMMA StepDebitInv ==
    ASSUME ProperWallets, AmountsFit, PaysPositively, IInv, BuiltInv, DebitInv, [Next]_vars
    PROVE  DebitInv'
<1>1. Paying /\ \E S : calls \in Seq(S)
  BY TypedState, Zenon DEF Paying, IInv, BuiltInv
<1>2. Len(atoms) \in Nat /\ DOMAIN atoms = 1 .. Len(atoms) /\ (atoms # <<>> => 1 \in DOMAIN atoms)
  BY DEF IInv, TypeOK
<1>3. CASE UNCHANGED vars
  BY <1>3, Zenon DEF vars, DebitInv, BuiltBy, Debits, Credits
<1>4. CASE CallGenerateHash
  BY <1>4, Zenon DEF CallGenerateHash, fields, DebitInv, BuiltBy, Debits, Credits
<1>5. CASE CallAtomAddMeta \/ CallSign
  <2>1. /\ UNCHANGED <<source, calls>> /\ atoms # <<>> /\ DOMAIN atoms' = DOMAIN atoms
        /\ \A i \in DOMAIN atoms :
             /\ atoms'[i].iso = atoms[i].iso /\ atoms'[i].addr = atoms[i].addr
             /\ atoms'[i].value = atoms[i].value /\ atoms'[i].index = atoms[i].index
    BY <1>5, LaterAtoms
  <2>2. BuiltBy(ValueOps)' => BuiltBy(ValueOps)
    BY <2>1, Zenon DEF BuiltBy
  <2>3. Placed(atoms)' => Placed(atoms)
    BY <2>1, Zenon DEF Placed
  <2> QED
    BY <1>2, <2>1, <2>2, <2>3, Zenon DEF DebitInv, Debits, Credits
<1>6. CASE CallFromJson
  <2>1. /\ source' = NoWallet /\ calls' = calls
        /\ atoms' = Reverse(atoms) \/ atoms' = atoms
    BY <1>6 DEF CallFromJson
  <2>2. CASE atoms' = atoms
    BY <2>1, <2>2, Zenon DEF DebitInv, BuiltBy, Debits, Credits
  <2>3. CASE atoms' = Reverse(atoms) /\ Placed(atoms')
    <3> DEFINE n == Len(atoms)
    <3>1. /\ n \in Nat /\ DOMAIN atoms = 1 .. n /\ DOMAIN atoms' = 1 .. n
          /\ \A i \in 1 .. n : atoms'[i] = atoms[n - i + 1]
      BY <2>3 DEF IInv, TypeOK, Reverse
    <3> HIDE DEF n
    <3>2. Placed(atoms)
      BY <1>6 DEF IInv, IndexIsPlace, CallFromJson, Placed
    <3>3. ASSUME n >= 2 PROVE FALSE
      <4>1. atoms'[1] = atoms[n] /\ 1 \in 1 .. n /\ n \in 1 .. n
        BY <3>1, <3>3
      <4>2. atoms'[1].index = 0 /\ atoms[n].index = n - 1
        BY <2>3, <3>1, <3>2, <4>1 DEF Placed
      <4> QED
        BY <3>1, <3>3, <4>1, <4>2
    <3>4. \A i \in 1 .. n : i = 1 /\ n = 1 /\ atoms'[i] = atoms[i]
      BY <3>1, <3>3
    <3> QED
      BY <2>1, <3>1, <3>2, <3>4, Zenon DEF DebitInv, BuiltBy, Debits, Credits
  <2> QED
    BY <2>1, <2>2, <2>3, Zenon DEF DebitInv
<1> QED
  BY <1>1, <1>3, <1>4, <1>5, <1>6, BuildersDebitInv, Zenon DEF Next

\* Numbers that are not negative sum to zero only if each is zero.
LEMMA ZeroSum ==
    ASSUME NEW S, IsFiniteSet(S), NEW f, \A x \in S : f[x] \in Nat, SumFunctionOnSet(f, S) = 0
    PROVE  \A x \in S : f[x] = 0
<1> SUFFICES ASSUME NEW x \in S PROVE f[x] = 0
  OBVIOUS
<1>1. SumFunctionOnSet(f, S) = f[x] + SumFunctionOnSet(f, S \ {x})
  <2>1. \A y \in S : f[y] \in Int
    OBVIOUS
  <2> QED
    BY <2>1, SumRemove
<1>2. SumFunctionOnSet(f, S \ {x}) \in Nat
  <2>1. IsFiniteSet(S \ {x})
    BY FS_Subset
  <2> QED
    BY <2>1, SumNat
<1> QED
  BY <1>1, <1>2

\* The debit is a number just when the balance fits an int.
LEMMA DebitIs ==
    ASSUME TypeOK, ProperWallets, PaysPositively, source # NoWallet,
           Minus(IntBalance(source)) # NotANumber
    PROVE  Minus(IntBalance(source)) = -source.balance
<1> DEFINE b == source.balance
<1>1. b \in Int /\ b >= 0 /\ (b <= IntMax \/ OutOfRange = -IntMax - 1)
  BY SourceIs
<1>2. IntBalance(source) = IF b <= IntMax THEN b ELSE OutOfRange
  BY DEF IntBalance, CastInt
<1> HIDE DEF b
<1>3. CASE b <= IntMax
  <2>1. IntBalance(source) = b /\ ~(b < 0)
    BY <1>1, <1>2, <1>3
  <2> QED
    BY <2>1 DEF Minus, b
<1>4. CASE ~(b <= IntMax)
  <2>1. IntBalance(source) < 0
    BY <1>1, <1>2, <1>4, IntMaxAssumption
  <2> QED
    BY <2>1 DEF Minus
<1> QED
  BY <1>3, <1>4

\* The check adds up what is debited and credited to zero, so that a debit that is no
\* number pays for nothing.
LEMMA PassingDebits ==
    ASSUME ProperWallets, PaysPositively, IInv, OrderInv, DebitInv
    PROVE  PassingDebitsSigner
<1> SUFFICES ASSUME verdict = "SUCCESS", BuiltBy(ValueOps), NEW i \in DOMAIN atoms
             PROVE  IF atoms[i].value = NotANumber
                    THEN \A j \in DOMAIN atoms : Parsed(atoms[j].value) = 0
                    ELSE atoms[i].value < 0 =>
                            /\ atoms[i].addr = atoms[1].addr
                            /\ source # NoWallet => atoms[i].value = -source.balance
  BY Zenon DEF PassingDebitsSigner
<1>1. Placed(atoms)
  BY TurnedIsRefused DEF OrderInv
<1>2. /\ \A j \in DOMAIN atoms :
            /\ atoms[j].iso \in {"V", "B", "F"}
            /\ \/ atoms[j].addr = atoms[1].addr /\ atoms[j].value = atoms[1].value
               \/ Credits(atoms[j])
      /\ source # NoWallet /\ atoms # <<>> => Debits(atoms[1])
  BY <1>1, Zenon DEF DebitInv
<1>3. TypeOK /\ Len(atoms) \in Nat /\ DOMAIN atoms = 1 .. Len(atoms) /\ atoms # <<>>
      /\ \A j \in DOMAIN atoms : atoms[j].value \in Int \cup {NotANumber}
  <2>1. \A a \in AtomType : a.value \in Int \cup {NotANumber}
    BY DEF AtomType
  <2>2. TypeOK /\ Len(atoms) \in Nat /\ DOMAIN atoms = 1 .. Len(atoms)
        /\ \A j \in DOMAIN atoms : atoms[j] \in AtomType
    BY TypedState DEF IInv
  <2>3. atoms # <<>>
    BY <2>2
  <2> QED
    BY <2>1, <2>2, <2>3
<1>4. IsotopeVError(atoms) = "SUCCESS"
  BY CheckPasses DEF verdict
<1>5. CASE atoms[i].value = NotANumber
  <2>1. ~Credits(atoms[i])
    BY <1>5, AbsentAssumption DEF Credits
  <2>2. atoms[1].value = NotANumber
    BY <1>2, <1>5, <2>1
  <2> DEFINE f == [j \in DOMAIN atoms |-> Parsed(atoms[j].value)]
  <2>3. ASSUME NEW j \in DOMAIN atoms PROVE f[j] \in Nat
    <3>1. atoms[j].value = NotANumber \/ (atoms[j].value \in Int /\ atoms[j].value >= 0)
      BY <1>2, <2>2 DEF Credits
    <3>2. Parsed(atoms[j].value) \in Nat
      BY <3>1, AbsentAssumption DEF Parsed
    <3> QED
      BY <3>2
  <2>4. OfIsotope(atoms, {"V", "B", "F"}) = DOMAIN atoms
    BY <1>2 DEF OfIsotope
  <2>5. SumFunctionOnSet(f, DOMAIN atoms) = 0
    BY <1>4, <2>4, PassingSums DEF ValueSum
  <2>6. IsFiniteSet(DOMAIN atoms)
    BY <1>3, FS_Interval
  <2>7. \A j \in DOMAIN atoms : f[j] = Parsed(atoms[j].value)
    OBVIOUS
  <2> HIDE DEF f
  <2>8. \A j \in DOMAIN atoms : f[j] = 0
    BY <2>3, <2>5, <2>6, ZeroSum
  <2> QED
    BY <1>5, <2>7, <2>8
<1>6. CASE atoms[i].value # NotANumber
  <2> SUFFICES ASSUME atoms[i].value < 0
               PROVE  /\ atoms[i].addr = atoms[1].addr
                      /\ source # NoWallet => atoms[i].value = -source.balance
    BY <1>6, Zenon
  <2>1. ~Credits(atoms[i])
    BY <1>3, <1>6 DEF Credits
  <2>2. atoms[i].addr = atoms[1].addr /\ atoms[i].value = atoms[1].value
    BY <1>2, <2>1
  <2>3. ASSUME source # NoWallet PROVE atoms[i].value = -source.balance
    <3>1. atoms[i].value = Minus(IntBalance(source))
      BY <1>2, <1>3, <2>2, <2>3 DEF Debits
    <3> QED
      BY <1>3, <1>6, <2>3, <3>1, DebitIs
  <2> QED
    BY <2>2, <2>3
<1> QED
  BY <1>5, <1>6, Zenon

-----------------------------------------------------------------------------
(* Units. *)

\* s names nothing twice.
Once(s) == \A i, j \in DOMAIN s : s[i] = s[j] => i = j

LEMMA SeqIs ==
    ASSUME NEW s \in Seq(Texts)
    PROVE  /\ Len(s) \in Nat /\ DOMAIN s = 1 .. Len(s) /\ s \in [1 .. Len(s) -> Texts]
           /\ \A i \in 1 .. Len(s) : s[i] \in Texts
  OBVIOUS

LEMMA OnceCount ==
    ASSUME NEW s \in Seq(Texts), Once(s)
    PROVE  IsFiniteSet(ToSet(s)) /\ Cardinality(ToSet(s)) = Len(s)
<1> DEFINE n == Len(s)
<1>1. n \in Nat /\ DOMAIN s = 1 .. n /\ s \in [1 .. n -> Texts]
  BY SeqIs
<1> HIDE DEF n
<1>2. ToSet(s) = {s[i] : i \in 1 .. n}
  BY <1>1, Zenon DEF ToSet
<1>3. s \in [1 .. n -> ToSet(s)]
  BY <1>1, <1>2
<1>4. s \in Bijection(1 .. n, ToSet(s))
  <2>1. s \in Surjection(1 .. n, ToSet(s))
    BY <1>2, <1>3 DEF Surjection
  <2>2. s \in Injection(1 .. n, ToSet(s))
    BY <1>1, <1>3 DEF Injection, IsInjective, Once
  <2> QED
    BY <2>1, <2>2 DEF Bijection
<1>5. ExistsBijection(1 .. n, ToSet(s))
  BY <1>4, Zenon DEF ExistsBijection
<1>6. IsFiniteSet(1 .. n) /\ Cardinality(1 .. n) = n
  BY <1>1, FS_Interval
<1> QED
  BY <1>5, <1>6, FS_Bijection DEF n

LEMMA OnceIsToSeqs ==
    ASSUME NEW s \in Seq(Texts), Once(s), NEW S, ToSet(s) = S
    PROVE  s \in SetToSeqs(S)
<1> DEFINE D == 1 .. Cardinality(S)
<1>1. D = 1 .. Len(s) /\ D = DOMAIN s
  BY OnceCount, SeqIs
<1>2. s \in [D -> S]
  <2>1. s = [i \in D |-> s[i]]
    BY <1>1, SeqIs
  <2>2. \A i \in D : s[i] \in S
    BY <1>1, Zenon DEF ToSet
  <2> HIDE DEF D
  <2> QED
    BY <2>1, <2>2
<1>3. \A i, j \in D : i # j => s[i] # s[j]
  BY <1>1, Zenon DEF Once
<1> HIDE DEF D
<1> QED
  BY <1>2, <1>3, Zenon DEF SetToSeqs, D

\* The units that are in a set, each once.
LEMMA ThoseOnce ==
    ASSUME NEW units \in Seq(Texts), Once(units), NEW set
    PROVE  /\ Those(units, set) \in Seq(Texts) /\ Once(Those(units, set))
           /\ ToSet(Those(units, set)) = ToSet(units) \cap set
<1> DEFINE I == {i \in DOMAIN units : units[i] \in set}
           C == Cardinality(I)
           s == Those(units, set)
<1>1. DOMAIN units = 1 .. Len(units) /\ Len(units) \in Nat
  BY SeqIs
<1>2. I \in SUBSET Nat /\ IsFiniteSet(I)
  <2>1. I \in SUBSET (1 .. Len(units)) /\ IsFiniteSet(1 .. Len(units)) /\ 1 .. Len(units) \subseteq Nat
    BY <1>1, FS_Interval
  <2> HIDE DEF I
  <2> QED
    BY <2>1, FS_Subset
<1>3. s = [k \in 1 .. C |-> units[Nth(I, k)]]
  BY Zenon DEF Those, At
<1>4. s \in Seq(Texts)
  BY ThoseAreTyped, Zenon
<1>5. DOMAIN s = 1 .. C /\ \A k \in 1 .. C : s[k] = units[Nth(I, k)]
  <2> HIDE DEF s, C, I
  <2> QED
    BY <1>3
<1>6. \A k \in 1 .. C : Nth(I, k) \in I /\ Cardinality({j \in I : j <= Nth(I, k)}) = k
  <2> HIDE DEF I
  <2> QED
    BY <1>2, NthIsIn
<1>7. \A i \in I : i \in DOMAIN units /\ units[i] \in set
  OBVIOUS
<1>8. \A i \in I : \E k \in 1 .. C : Nth(I, k) = i
  <2> HIDE DEF I
  <2> QED
    BY <1>2, EachIsNth
<1>9. \A i \in DOMAIN units : units[i] \in set => i \in I
  OBVIOUS
<1> HIDE DEF I, C, s
<1>10. Once(s)
  <2> SUFFICES ASSUME NEW h \in 1 .. C, NEW k \in 1 .. C, s[h] = s[k] PROVE h = k
    BY <1>5, Zenon DEF Once
  <2>1. Nth(I, h) = Nth(I, k)
    BY <1>5, <1>6, <1>7, Zenon DEF Once
  <2> QED
    BY <1>6, <2>1
<1>11. ToSet(s) = ToSet(units) \cap set
  <2>1. ASSUME NEW x \in ToSet(s) PROVE x \in ToSet(units) \cap set
    <3>1. PICK k \in 1 .. C : x = s[k]
      BY <1>5, Zenon DEF ToSet
    <3> QED
      BY <1>5, <1>6, <1>7, <3>1, Zenon DEF ToSet
  <2>2. ASSUME NEW x \in ToSet(units) \cap set PROVE x \in ToSet(s)
    <3>1. PICK i \in DOMAIN units : x = units[i]
      BY Zenon DEF ToSet
    <3>2. PICK k \in 1 .. C : Nth(I, k) = i
      BY <1>8, <1>9, <3>1
    <3> QED
      BY <1>5, <3>1, <3>2, Zenon DEF ToSet
  <2> QED
    BY <2>1, <2>2
<1> QED
  BY <1>4, <1>10, <1>11 DEF s

\* One list after another.
LEMMA OnceJoined ==
    ASSUME NEW s \in Seq(Texts), NEW t \in Seq(Texts), Once(s), Once(t),
           ToSet(s) \cap ToSet(t) = {}
    PROVE  /\ s \o t \in Seq(Texts) /\ Once(s \o t)
           /\ ToSet(s \o t) = ToSet(s) \cup ToSet(t)
<1> DEFINE u == s \o t
           m == Len(s)
           n == Len(t)
<1>1. /\ u \in Seq(Texts) /\ m \in Nat /\ n \in Nat /\ DOMAIN u = 1 .. m + n
      /\ DOMAIN s = 1 .. m /\ DOMAIN t = 1 .. n
      /\ \A i \in 1 .. m + n : u[i] = IF i <= m THEN s[i] ELSE t[i - m]
  OBVIOUS
<1> HIDE DEF u, m, n
<1>2. ASSUME NEW i \in 1 .. m + n
      PROVE  \/ i <= m /\ i \in DOMAIN s /\ u[i] = s[i] /\ u[i] \in ToSet(s)
             \/ ~(i <= m) /\ i - m \in DOMAIN t /\ u[i] = t[i - m] /\ u[i] \in ToSet(t)
  <2>1. i <= m => i \in DOMAIN s
    BY <1>1
  <2>2. ~(i <= m) => i - m \in DOMAIN t
    BY <1>1
  <2> QED
    BY <1>1, <2>1, <2>2, Zenon DEF ToSet
<1>3. ASSUME NEW i \in 1 .. m + n, NEW j \in 1 .. m + n, u[i] = u[j] PROVE i = j
  <2>1. CASE i <= m
    <3>1. j <= m
      BY <1>2, <1>3, <2>1
    <3> QED
      BY <1>2, <1>3, <2>1, <3>1, Zenon DEF Once
  <2>2. CASE ~(i <= m)
    <3>1. ~(j <= m)
      BY <1>2, <1>3, <2>2
    <3>2. i - m = j - m
      BY <1>2, <1>3, <2>2, <3>1, Zenon DEF Once
    <3> QED
      BY <1>1, <3>2
  <2> QED
    BY <2>1, <2>2
<1>4. ASSUME NEW x PROVE x \in ToSet(u) <=> x \in ToSet(s) \cup ToSet(t)
  <2>1. ASSUME x \in ToSet(u) PROVE x \in ToSet(s) \cup ToSet(t)
    <3>1. PICK i \in 1 .. m + n : x = u[i]
      BY <1>1, <2>1, Zenon DEF ToSet
    <3> QED
      BY <1>2, <3>1
  <2>2. ASSUME x \in ToSet(s) PROVE x \in ToSet(u)
    <3>1. PICK i \in 1 .. m : x = s[i]
      BY <1>1, <2>2, Zenon DEF ToSet
    <3>2. i \in 1 .. m + n /\ u[i] = x
      BY <1>1, <3>1
    <3> QED
      BY <1>1, <3>2, Zenon DEF ToSet
  <2>3. ASSUME x \in ToSet(t) PROVE x \in ToSet(u)
    <3>1. PICK i \in 1 .. n : x = t[i]
      BY <1>1, <2>3, Zenon DEF ToSet
    <3>2. i + m \in 1 .. m + n /\ ~(i + m <= m) /\ i + m - m = i
      BY <1>1
    <3>3. u[i + m] = x
      BY <1>1, <3>1, <3>2
    <3> QED
      BY <1>1, <3>2, <3>3, Zenon DEF ToSet
  <2> QED
    BY <2>1, <2>2, <2>3
<1>5. Once(u)
  BY <1>1, <1>3, Zenon DEF Once
<1>6. ToSet(u) = ToSet(s) \cup ToSet(t)
  BY <1>4
<1> QED
  BY <1>1, <1>5, <1>6 DEF u

\* Premise: a list of units names none twice, a caller's as a wallet's.
UnitsOnce ==
    /\ \A us \in UnitLists : Once(us)
    /\ \A w \in Sources \ {NoWallet} : Once(w.units)

\* What the fused units, those kept and those sent come to.
LEMMA FusedUnits ==
    ASSUME NEW units \in Seq(Texts), Once(units), NEW ids \in Seq(Texts), Once(ids),
           ToSet(ids) \subseteq ToSet(units)
    PROVE  LET sent == Those(units, ToSet(ids))
               kept == Those(units, ToSet(units) \ ToSet(ids))
           IN  /\ Len(kept) = Len(units) - Len(ids)
               /\ kept \o sent \in SetToSeqs(ToSet(units))
<1> DEFINE U == ToSet(units)
           I == ToSet(ids)
           sent == Those(units, I)
           kept == Those(units, U \ I)
<1>1. /\ sent \in Seq(Texts) /\ Once(sent) /\ ToSet(sent) = U \cap I
      /\ kept \in Seq(Texts) /\ Once(kept) /\ ToSet(kept) = U \cap (U \ I)
  BY ThoseOnce, Zenon
<1>2. /\ IsFiniteSet(U) /\ Cardinality(U) = Len(units)
      /\ Cardinality(I) = Len(ids) /\ Cardinality(ToSet(kept)) = Len(kept)
  <2> HIDE DEF kept
  <2> QED
    BY <1>1, OnceCount
<1>3. I \subseteq U
  OBVIOUS
<1> HIDE DEF U, I, sent, kept
<1>4. U \cap I = I /\ U \cap (U \ I) = U \ I
  BY <1>3
<1>5. Cardinality(U \ I) = Cardinality(U) - Cardinality(I)
  <2>1. Cardinality(U \ I) = Cardinality(U) - Cardinality(U \cap I)
    BY <1>2, FS_Difference, Zenon
  <2> QED
    BY <1>4, <2>1, Zenon
<1>6. kept \o sent \in Seq(Texts) /\ Once(kept \o sent) /\ ToSet(kept \o sent) = U
  <2>1. ToSet(kept) \cap ToSet(sent) = {} /\ ToSet(kept) \cup ToSet(sent) = U
    BY <1>1, <1>3
  <2> QED
    BY <1>1, <2>1, OnceJoined
<1>7. kept \o sent \in SetToSeqs(U)
  BY <1>6, OnceIsToSeqs
<1>8. Len(kept) = Len(units) - Len(ids)
  BY <1>1, <1>2, <1>4, <1>5
<1> QED
  BY <1>7, <1>8 DEF U, I, sent, kept

\* What a fusion makes of distinct units.
Fused(s) ==
    /\ Len(s) = 4
    /\ \A i \in 2 .. Len(s) : s[i].value = Len(s[i].units)
    /\ s[4].units \o s[1].units \in SetToSeqs(ToSet(source.units))

\* An atom with n units that is worth n.
Worth(a, n) == a.value = n /\ Len(a.units) = n

LEMMA SentWorth ==
    ASSUME NEW iso \in {"V", "F"}, NEW addr \in AddressType, NEW token \in Texts, NEW n \in Int,
           NEW batch \in Texts \cup {NoBatch}, NEW bundle \in Texts, NEW us \in Seq(Texts),
           Len(us) = n
    PROVE  /\ Worth(WithUnits(ToBundle(NewAtom(iso, addr, token, n, batch), bundle), us), n)
           /\ WithUnits(ToBundle(NewAtom(iso, addr, token, n, batch), bundle), us).units = us
<1> DEFINE a == ToBundle(NewAtom(iso, addr, token, n, batch), bundle)
<1>1. a \in AtomType /\ a.value = n
  BY SentHas DEF Has, IsNew
<1> HIDE DEF a
<1>2. WithUnits(a, us).value = n /\ WithUnits(a, us).units = us
  BY <1>1 DEF WithUnits, AtomType
<1> QED
  BY <1>2 DEF Worth, a

LEMMA FuseMakes ==
    ASSUME Paying, UnitsOnce, NEW w \in WalletType, NEW ids \in UnitLists, NEW id \in Texts,
           InitFuseToken(source, remainder, w, ids, id).err = "SUCCESS",
           source # NoWallet, source.balance = Len(source.units)
    PROVE  Fused(InitFuseToken(source, remainder, w, ids, id).atoms)
<1> DEFINE b == source.balance
           k == Len(ids)
           k1 == k - 1
           r == b - k
           burnt == FreshBatch(source, "burnBatch")
           fused == FreshBatch(source, "fusionBatch")
           sent == Those(source.units, ToSet(ids))
           kept == Those(source.units, ToSet(source.units) \ ToSet(ids))
           front == Front(ids)
           debit == WalletAtom("V", source, Minus(IntBalance(source)))
           a1 == WithUnits(debit, sent)
           a2 == WithUnits(ToBundle(NewAtom("V", NoAddress, source.token, k1, burnt), ZeroBundle),
                           front)
           a3 == WithUnits(ToBundle(NewAtom("F", w.addr, source.token, 1, fused), w.bundle), <<id>>)
           a4 == WithUnits(ToBundle(NewAtom("V", remainder.addr, source.token,
                                            Remainder(source, k), source.batch),
                                    remainder.bundle), kept)
           made == InitFuseToken(source, remainder, w, ids, id)
<1>1. /\ remainder # NoWallet /\ ToSet(ids) \subseteq ToSet(source.units) /\ ~(k < 2)
      /\ ~(IntBalance(source) < k) /\ made = Built(<<a1, a2, a3, a4>>)
  <2>1. NoWallet \notin {source, remainder}
    <3> SUFFICES ASSUME NoWallet \in {source, remainder} PROVE FALSE
      OBVIOUS
    <3>1. made = Refused("INVALID_STATE")
      BY Zenon DEF InitFuseToken
    <3> QED
      BY <3>1, RefusedError
  <2>2. ~FusionRefused(source, ids, id)
    <3> SUFFICES ASSUME FusionRefused(source, ids, id) PROVE FALSE
      OBVIOUS
    <3>1. made = Refused("TRANSFER_BALANCE")
      BY <2>1, Zenon DEF InitFuseToken
    <3> QED
      BY <3>1, RefusedError
  <2>3. ~(IntBalance(source) < k)
    <3> SUFFICES ASSUME IntBalance(source) < k PROVE FALSE
      OBVIOUS
    <3>1. made = Refused("BALANCE_INSUFFICIENT")
      BY <2>1, <2>2, Zenon DEF InitFuseToken
    <3> QED
      BY <3>1, RefusedError
  <2>4. made = Built(<<a1, a2, a3, a4>>)
    BY <2>1, <2>2, <2>3, Zenon DEF InitFuseToken
  <2>5. ~(k < 2) /\ ToSet(ids) \ ToSet(source.units) = {}
    BY <2>2, Zenon DEF FusionRefused
  <2> HIDE DEF made, a1, a2, a3, a4, k
  <2> QED
    BY <2>1, <2>3, <2>4, <2>5
<1>2. /\ source \in WalletType /\ remainder \in WalletType /\ b \in Int /\ b >= 0
      /\ (b <= IntMax \/ OutOfRange = -IntMax - 1)
      /\ source.units \in Seq(Texts) /\ Once(source.units)
      /\ ids \in Seq(Texts) /\ Once(ids)
  <2>1. source \in WalletType /\ remainder \in WalletType /\ b \in Int /\ b >= 0
        /\ (b <= IntMax \/ OutOfRange = -IntMax - 1)
    BY <1>1, SourceIs DEF Paying
  <2>2. source \in Sources \ {NoWallet}
    BY DEF Paying, TypeOK
  <2>3. source.units \in Seq(Texts)
    BY <2>1, WalletIsTyped
  <2>4. ids \in Seq(Texts)
    BY InputsAreTyped
  <2> QED
    BY <2>1, <2>2, <2>3, <2>4, Zenon DEF UnitsOnce
<1>3. Len(kept) = b - k /\ kept \o sent \in SetToSeqs(ToSet(source.units))
  BY <1>1, <1>2, FusedUnits, Zenon
<1>4. /\ sent \in Seq(Texts) /\ kept \in Seq(Texts)
      /\ <<id>> \in Seq(Texts) /\ Len(<<id>>) = 1
  BY <1>2, ThoseAreTyped, OneIsSeq
<1>5. k \in Nat /\ k >= 2 /\ front \in Seq(Texts) /\ Len(front) = k1
  <2>1. k \in Nat
    BY <1>2, FrontIsTyped
  <2>2. k >= 2
    <3> HIDE DEF k
    <3> QED
      BY <1>1, <2>1
  <2> QED
    BY <1>2, <2>1, <2>2 DEF Front
<1>6. Remainder(source, k) = r /\ r \in Int
  <2> HIDE DEF k, b
  <2>1. b <= IntMax /\ IntBalance(source) = b
    <3>1. IntBalance(source) = IF b <= IntMax THEN b ELSE OutOfRange
      BY DEF IntBalance, CastInt, b
    <3>2. b <= IntMax
      BY <1>1, <1>2, <1>5, <3>1, IntMaxAssumption
    <3> QED
      BY <3>1, <3>2
  <2>2. b - k \in Int /\ -IntMax - 1 <= b - k /\ b - k <= IntMax
    BY <1>1, <1>2, <1>5, <2>1, IntMaxAssumption
  <2> QED
    BY <2>1, <2>2, WrapInRange DEF Remainder
<1>7. /\ NoAddress \in AddressType /\ ZeroBundle \in Texts /\ "V" \in {"V", "F"}
      /\ "F" \in {"V", "F"} /\ 1 \in Int /\ k1 \in Int
      /\ burnt \in Texts \cup {NoBatch} /\ fused \in Texts \cup {NoBatch}
  <2>1. NoAddress \in AddressType /\ ZeroBundle \in Texts
    BY LiteralsAssumption DEF NoAddress, AddressType, ZeroBundle
  <2>2. "burnBatch" \in Texts /\ "fusionBatch" \in Texts
    BY LiteralsAssumption, Zenon
  <2>3. burnt \in Texts \cup {NoBatch} /\ fused \in Texts \cup {NoBatch}
    BY <2>2 DEF FreshBatch
  <2>4. k1 \in Int
    <3> HIDE DEF k
    <3> QED
      BY <1>5
  <2> QED
    BY <2>1, <2>3, <2>4
<1> HIDE DEF k1, r, burnt, fused, sent, kept, front
<1>8. a1.units = sent
  <2>1. "V" \in Isotopes /\ Minus(IntBalance(source)) \in Int \cup {NotANumber}
    BY <1>2, AmountsAreTyped, 0 \in Int DEF Isotopes
  <2>2. debit \in AtomType
    BY <1>2, <2>1, WalletAtomsHave DEF Has, IsNew
  <2> HIDE DEF debit
  <2> QED
    BY <2>2 DEF WithUnits, AtomType
<1>9. Worth(a2, k1)
  BY <1>2, <1>5, <1>7, SentWorth, WalletIsTyped
<1>10. Worth(a3, 1)
  BY <1>2, <1>4, <1>7, SentWorth, WalletIsTyped
<1>11. Worth(a4, r) /\ a4.units = kept
  <2>1. Len(kept) = r
    BY <1>3 DEF r
  <2>2. a4 = WithUnits(ToBundle(NewAtom("V", remainder.addr, source.token, r, source.batch),
                                remainder.bundle), kept)
    BY <1>6, Zenon
  <2> HIDE DEF a4
  <2> QED
    BY <1>2, <1>4, <1>6, <1>7, <2>1, <2>2, SentWorth, WalletIsTyped
<1> HIDE DEF a1, a2, a3, a4, k, made
<1>12. made.atoms = <<a1, a2, a3, a4>>
  BY <1>1, BuiltAtoms
<1>13. Fused(<<a1, a2, a3, a4>>)
  <2> DEFINE s == <<a1, a2, a3, a4>>
  <2>1. Len(s) = 4 /\ s[1] = a1 /\ s[2] = a2 /\ s[3] = a3 /\ s[4] = a4
    OBVIOUS
  <2> HIDE DEF s
  <2>2. \A i \in 2 .. Len(s) : i \in {2, 3, 4}
    BY <2>1
  <2>3. \A i \in 2 .. Len(s) : s[i].value = Len(s[i].units)
    BY <1>9, <1>10, <1>11, <2>1, <2>2 DEF Worth
  <2> QED
    BY <1>3, <1>8, <1>11, <2>1, <2>3, Zenon DEF Fused, s
<1> QED
  BY <1>12, <1>13 DEF made

\* FusionBalances, and that a fusion makes four atoms.
FuseInv ==
    OneBuilder /\ calls[1].op = "fuse" /\ atoms # <<>>
        /\ source # NoWallet /\ source.balance = Len(source.units) => Fused(atoms)

LEMMA InitFuseInv == Init => FuseInv
  BY DEF Init, FuseInv

\* The units stay with the atoms when add_atom numbers them.
LEMMA NumberedUnits ==
    ASSUME NEW s \in Seq(AtomType), Fused(s)
    PROVE  Fused(Numbered(s))
<1> DEFINE t == Numbered(s)
<1>1. Len(s) = 4 /\ \A i \in 1 .. 4 : s[i] \in AtomType
  <2>1. Len(s) = 4
    BY Zenon DEF Fused
  <2>2. \A i \in 1 .. Len(s) : s[i] \in AtomType
    OBVIOUS
  <2> QED
    BY <2>1, <2>2
<1>2. t = [i \in 1 .. 4 |-> [s[i] EXCEPT !.index = i - 1]]
  BY <1>1 DEF Numbered
<1>3. Len(t) = 4 /\ \A i \in 1 .. 4 : t[i] = [s[i] EXCEPT !.index = i - 1]
  <2> HIDE DEF t
  <2> QED
    BY <1>2
<1>4. \A i \in 1 .. 4 : t[i].value = s[i].value /\ t[i].units = s[i].units
  <2> HIDE DEF t
  <2> QED
    BY <1>1, <1>3 DEF AtomType
<1>5. 1 \in 1 .. 4 /\ 4 \in 1 .. 4 /\ \A i \in 2 .. 4 : i \in 1 .. 4
  OBVIOUS
<1> HIDE DEF t
<1>6. Fused(t)
  <2>1. \A i \in 2 .. Len(t) : t[i].value = Len(t[i].units)
    BY <1>1, <1>3, <1>4, <1>5, Zenon DEF Fused
  <2>2. t[4].units = s[4].units /\ t[1].units = s[1].units
    BY <1>4, <1>5
  <2> QED
    BY <1>3, <2>1, <2>2, Zenon DEF Fused
<1> QED
  BY <1>6 DEF t

LEMMA BuildFuseInv ==
    ASSUME TypeOK, BuiltInv, FuseInv, NEW op, NEW built, NEW rules,
           Build(op, built, rules), built.atoms \in Seq(AtomType),
           op = "fuse" /\ built.err = "SUCCESS" /\ source # NoWallet
               /\ source.balance = Len(source.units) => Fused(built.atoms)
    PROVE  FuseInv'
<1> DEFINE new == built.atoms
           e == [op |-> op, rules |-> rules,
                 ok |-> built.err = "SUCCESS" /\ Len(new) <= MaxAtoms - Len(atoms)]
<1>1. AddAtoms(new) /\ calls' = Append(calls, e)
  BY Zenon DEF Build
<1>2. PICK S : calls \in Seq(S)
  BY DEF BuiltInv
<1>3. /\ calls' # <<>>
      /\ calls = <<>> => calls'[1] = e
      /\ calls # <<>> => Len(calls') # 1
  <2> HIDE DEF e
  <2> QED
    BY <1>1, <1>2, Appended
<1> SUFFICES ASSUME OneBuilder', calls'[1].op = "fuse", source' # NoWallet,
                    source'.balance = Len(source'.units)
             PROVE  Fused(atoms)'
  BY Zenon DEF FuseInv
<1>4. calls = <<>> /\ calls'[1] = e /\ atoms = <<>>
  BY <1>3, Zenon DEF OneBuilder, BuiltInv
<1>5. e.op = "fuse" /\ e.ok
  BY <1>4, Zenon DEF OneBuilder
<1>6. op = "fuse" /\ built.err = "SUCCESS" /\ Len(new) <= MaxAtoms - Len(atoms)
  BY <1>5
<1>7. atoms' = Numbered(new) /\ source' = source
  BY <1>1, <1>4, <1>6, FirstAtoms
<1>8. Fused(new)
  BY <1>6, <1>7
<1>9. Fused(Numbered(new))
  BY <1>8, NumberedUnits
<1> QED
  BY <1>7, <1>9, Zenon DEF Fused

\* Only a fusion makes what FuseInv is about.
LEMMA StepFuseInv ==
    ASSUME ProperWallets, AmountsFit, PaysPositively, UnitsOnce, IInv, BuiltInv, FuseInv, [Next]_vars
    PROVE  FuseInv'
<1>1. Paying /\ TypeOK
  BY TypedState, Zenon DEF Paying, IInv
<1>2. ASSUME NEW op, NEW built, NEW rules, op # "fuse", Build(op, built, rules),
             built.atoms \in Seq(AtomType)
      PROVE  FuseInv'
  BY <1>1, <1>2, BuildFuseInv
<1>3. ASSUME NEW s, NewSeq(s) PROVE s \in Seq(AtomType)
  BY <1>3 DEF NewSeq
<1>4. CASE UNCHANGED vars
  BY <1>4, Zenon DEF vars, FuseInv, OneBuilder, Fused
<1>5. CASE CallGenerateHash
  BY <1>5, Zenon DEF CallGenerateHash, fields, FuseInv, OneBuilder, Fused
<1>6. CASE CallFromJson
  BY <1>6, Zenon DEF CallFromJson, FuseInv
<1>7. CASE CallAtomAddMeta \/ CallSign
  <2>1. /\ UNCHANGED <<source, calls>> /\ atoms # <<>>
        /\ DOMAIN atoms' = DOMAIN atoms /\ Len(atoms') = Len(atoms)
        /\ \A i \in DOMAIN atoms :
             atoms'[i].value = atoms[i].value /\ atoms'[i].units = atoms[i].units
    BY <1>7, LaterAtoms
  <2>2. ASSUME Fused(atoms) PROVE Fused(atoms)'
    <3>1. Len(atoms) = 4 /\ DOMAIN atoms = 1 .. 4
      BY <1>1, <2>2 DEF Fused, TypeOK
    <3>2. 1 \in 1 .. 4 /\ 4 \in 1 .. 4 /\ \A i \in 2 .. 4 : i \in 1 .. 4
      OBVIOUS
    <3>3. \A i \in 2 .. Len(atoms') : atoms'[i].value = Len(atoms'[i].units)
      BY <2>1, <2>2, <3>1, <3>2, Zenon DEF Fused
    <3>4. atoms'[4].units = atoms[4].units /\ atoms'[1].units = atoms[1].units
      BY <2>1, <3>1, <3>2
    <3> QED
      BY <2>1, <2>2, <3>1, <3>3, <3>4, Zenon DEF Fused
  <2> QED
    BY <2>1, <2>2, Zenon DEF FuseInv, OneBuilder
<1>8. CASE \/ CallInitMeta \/ CallInitAuthorization
           \/ CallInitTokenCreation \/ CallInitWalletCreation
           \/ CallInitShadowWalletClaim \/ CallInitReplenish
  <2> USE <1>2, <1>3, InputsAreTyped, SomeInputs, TypedState, UserBuildersCreateNew
  <2>1. CASE CallInitMeta
    BY <1>1, <2>1 DEF CallInitMeta
  <2>2. CASE CallInitAuthorization
    BY <1>1, <2>2 DEF CallInitAuthorization
  <2>3. CASE CallInitTokenCreation
    BY <1>1, <2>3 DEF CallInitTokenCreation
  <2>4. CASE CallInitWalletCreation
    BY <1>1, <2>4 DEF CallInitWalletCreation
  <2>5. CASE CallInitShadowWalletClaim
    BY <1>1, <2>5 DEF CallInitShadowWalletClaim
  <2>6. CASE CallInitReplenish
    BY <1>1, <2>6 DEF CallInitReplenish
  <2> QED
    BY <1>8, <2>1, <2>2, <2>3, <2>4, <2>5, <2>6
<1>9. CASE \/ CallInitValue \/ CallInitValues \/ CallInitDepositBuffer
           \/ CallInitWithdrawBuffer \/ CallInitBurn
  <2> USE <1>2, <1>3, InputsAreTyped, SomeInputs
  <2>0. \A s : Moved(s) => NewSeq(s)
    BY DEF Moved
  <2>1. CASE CallInitValue
    BY <1>1, <2>0, <2>1, ValueMoves DEF CallInitValue
  <2>2. CASE CallInitValues
    BY <1>1, <2>0, <2>2, ValuesMove DEF CallInitValues
  <2>3. CASE CallInitDepositBuffer
    BY <1>1, <2>0, <2>3, BufferMoves DEF CallInitDepositBuffer
  <2>4. CASE CallInitWithdrawBuffer
    BY <1>1, <2>0, <2>4, BufferMoves DEF CallInitWithdrawBuffer
  <2>5. CASE CallInitBurn
    BY <1>1, <2>0, <2>5, BurnMoves DEF CallInitBurn
  <2> QED
    BY <1>9, <2>1, <2>2, <2>3, <2>4, <2>5
<1>10. CASE CallInitFuseToken
  <2>1. PICK w \in Recipients \ {NoWallet}, us \in UnitLists, id \in NewIds :
            \E rules : Build("fuse", InitFuseToken(source, remainder, w, us, id), rules)
    BY <1>10, Zenon DEF CallInitFuseToken
  <2> DEFINE built == InitFuseToken(source, remainder, w, us, id)
  <2>2. w \in WalletType /\ us \in Seq(Texts) /\ id \in Texts
    BY InputsAreTyped
  <2>3. built.atoms \in Seq(AtomType)
    BY <1>1, <2>2, FuseMoves DEF Moved, NewSeq
  <2>4. built.err = "SUCCESS" /\ source # NoWallet /\ source.balance = Len(source.units)
            => Fused(built.atoms)
    BY <1>1, <2>2, FuseMakes
  <2> HIDE DEF built
  <2>5. PICK rules : Build("fuse", built, rules)
    BY <2>1 DEF built
  <2> QED
    BY <1>1, <2>3, <2>4, <2>5, BuildFuseInv
<1>11. CASE CallAddAtom
  <2>1. PICK a \in LooseAtoms :
            Build("loose", [atoms |-> <<a>>, err |-> "SUCCESS"], FALSE)
    BY <1>11, Zenon DEF CallAddAtom
  <2> DEFINE built == [atoms |-> <<a>>, err |-> "SUCCESS"]
  <2>2. built.atoms \in Seq(AtomType)
    <3>1. <<a>> \in Seq(AtomType)
      BY InputsAreTyped, OneIsSeq, Zenon
    <3> QED
      BY <3>1
  <2> HIDE DEF built
  <2>3. Build("loose", built, FALSE)
    BY <2>1 DEF built
  <2> QED
    BY <1>2, <2>2, <2>3
<1> QED
  BY <1>4, <1>5, <1>6, <1>7, <1>8, <1>9, <1>10, <1>11 DEF Next

-----------------------------------------------------------------------------
(* The properties. *)

\* Types, and KNISHIO_MAX_ATOMS_PER_MOLECULE, which no sequence of calls gets past.
THEOREM MoleculeIsAlwaysTyped == Spec => []TypeOK
<1>1. IInv => TypeOK
  BY DEF IInv
<1> QED
  BY <1>1, Invariance, PTL

\* The order of the array is the order of the indexes, for as long as the
\* molecule is the caller's own: hash, signature and fragments use one order.
THEOREM IndexIsAlwaysPlace == Spec => []IndexIsPlace
<1>1. IInv => IndexIsPlace
  BY DEF IInv
<1> QED
  BY <1>1, Invariance, PTL

\* The signed mark never outlives the content it was set for.
THEOREM SignedIsAlwaysCurrent == Spec => []SignedIsCurrent
<1>1. IInv => SignedIsCurrent
  BY DEF IInv
<1> QED
  BY <1>1, Invariance, PTL

LEMMA OrderAlways == LooseAtomsAreUnsigned => (Spec => [](IInv /\ OrderInv))
<1> SUFFICES ASSUME LooseAtomsAreUnsigned PROVE Spec => [](IInv /\ OrderInv)
  OBVIOUS
<1>1. Init => IInv /\ OrderInv
  BY InitIInv, InitOrderInv
<1>2. IInv /\ OrderInv /\ [Next]_vars => (IInv /\ OrderInv)'
  BY StepIInv, StepOrderInv
<1> QED
  BY <1>1, <1>2, PTL DEF Spec

\* A molecule read from a JSON that lists its atoms in another order is refused for good,
\* whatever is added, hashed or given meta afterwards (from_json, check_molecule.c).
THEOREM ReorderedIsAlwaysRefused == LooseAtomsAreUnsigned => (Spec => []ReorderedIsRefused)
<1>1. IInv /\ OrderInv => ReorderedIsRefused
  <2> SUFFICES ASSUME IInv, OrderInv, ~InIndexOrder(atoms) PROVE verdict # "SUCCESS"
    BY DEF ReorderedIsRefused
  <2>1. ~Placed(atoms)
    <3>1. Placed(atoms) => InIndexOrder(atoms)
      BY TypedState DEF IInv, Placed, InIndexOrder
    <3> QED
      BY <3>1
  <2> QED
    BY <2>1, TurnedIsRefused DEF OrderInv
<1> QED
  BY <1>1, OrderAlways, PTL

LEMMA WholeAlways ==
    LooseAtomsAreUnsigned => (Spec => [](IInv /\ SpreadInv /\ MarkInv))
<1> SUFFICES ASSUME LooseAtomsAreUnsigned PROVE Spec => [](IInv /\ SpreadInv /\ MarkInv)
  OBVIOUS
<1>1. Init => IInv /\ SpreadInv /\ MarkInv
  BY InitIInv, InitWholeInv
<1>2. IInv /\ SpreadInv /\ MarkInv /\ [Next]_vars => (IInv /\ SpreadInv /\ MarkInv)'
  BY StepIInv, StepSpreadInv, StepMarkInv
<1> QED
  BY <1>1, <1>2, PTL DEF Spec

\* However often a molecule was signed in one encoding, and whatever was added between,
\* its fragments join to one whole signature over its hash (sign's chunks, molecule.c).
THEOREM SignedIsAlwaysWhole == LooseAtomsAreUnsigned => (Spec => []SignedIsWhole)
<1>1. IInv /\ SpreadInv /\ MarkInv => SignedIsWhole
  BY OneEncodingIsWhole DEF SignedIsWhole
<1> QED
  BY <1>1, WholeAlways, PTL

\* Every builder, called as the protocol asks, makes a molecule that its own library sends:
\* signed in one encoding it passes the check (molecule.c against check_molecule.c).
THEOREM BuildersAlwaysPass ==
    LooseAtomsAreUnsigned /\ ProperWallets /\ AmountsFit => (Spec => []BuilderPassesCheck)
<1> SUFFICES ASSUME LooseAtomsAreUnsigned, ProperWallets, AmountsFit
             PROVE  Spec => []BuilderPassesCheck
  OBVIOUS
<1>1. Init => BuiltInv
  BY InitBuiltInv
<1>2. IInv /\ BuiltInv /\ [Next]_vars => BuiltInv'
  BY StepBuiltInv
<1>3. IInv /\ SpreadInv /\ MarkInv /\ BuiltInv => BuilderPassesCheck
  BY SignedBuilderPasses
<1> QED
  BY <1>1, <1>2, <1>3, WholeAlways, PTL DEF Spec

\* Value that goes somewhere comes out of the signer's wallet, whole, unit by unit: the
\* builders of molecule.c against the sums of check_molecule.c.
THEOREM BuildersAlwaysBalance ==
    LooseAtomsAreUnsigned /\ ProperWallets /\ AmountsFit /\ PaysPositively /\ UnitsOnce =>
        (Spec => []BuildersBalance)
<1> SUFFICES ASSUME LooseAtomsAreUnsigned, ProperWallets, AmountsFit, PaysPositively, UnitsOnce
             PROVE  Spec => []BuildersBalance
  OBVIOUS
<1>1. Init => BuiltInv /\ DebitInv /\ FuseInv
  BY InitBuiltInv, InitDebitInv, InitFuseInv
<1>2. IInv /\ BuiltInv /\ DebitInv /\ FuseInv /\ [Next]_vars => (BuiltInv /\ DebitInv /\ FuseInv)'
  BY StepBuiltInv, StepDebitInv, StepFuseInv
<1>3. IInv /\ OrderInv /\ DebitInv /\ FuseInv => BuildersBalance
  <2>1. FuseInv => FusionBalances
    BY Zenon DEF FuseInv, FusionBalances, Fused
  <2> QED
    BY <2>1, PassingDebits DEF BuildersBalance
<1> QED
  BY <1>1, <1>2, <1>3, OrderAlways, PTL DEF Spec

\* Nothing that passes the check creates or destroys value (check_isotope_v and the
\* cross-isotope delegate, check_molecule.c).
THEOREM PassingAlwaysConserves == Spec => []PassingConserves
<1>1. PassingConserves
  BY CheckPasses, PassingSums DEF PassingConserves, verdict
<1> QED
  BY <1>1, PTL

\* knishio_molecule_from_json keeps the sender's hash, and is the only call after which a
\* molecule has another secret.
THEOREM VerdictAlwaysSurvivesJson == Spec => VerdictSurvivesJson
<1>1. [Next]_vars => [secret' # secret /\ atoms' = atoms => verdict' = verdict]_vars
  <2> SUFFICES ASSUME Next, secret' # secret, atoms' = atoms PROVE verdict' = verdict
    BY DEF vars
  <2>1. ASSUME NEW op, NEW built, NEW rules, Build(op, built, rules) PROVE FALSE
    BY <2>1 DEF Build, AddAtoms, fields
  <2>2. CASE CallFromJson
    BY <2>2 DEF CallFromJson, verdict
  <2> QED
    BY <2>1, <2>2 DEF Next, CallAtomAddMeta, CallGenerateHash, CallSign, fields,
      CallInitMeta, CallInitAuthorization, CallInitTokenCreation, CallInitWalletCreation,
      CallInitShadowWalletClaim, CallInitReplenish, CallInitValue, CallInitValues,
      CallInitDepositBuffer, CallInitWithdrawBuffer, CallInitBurn, CallInitFuseToken,
      CallAddAtom
<1> QED
  BY <1>1, PTL DEF Spec, VerdictSurvivesJson
=============================================================================
