------------------------- MODULE MoleculeBuilders -------------------------
(***************************************************************************)
(* The knishio_molecule_init_* builders of molecule.c. Each is an operator *)
(* that returns the atoms the call creates, in order, and the error it     *)
(* returns; a builder that fails half way has created the atoms before the *)
(* failure. Adding them to the molecule, with its limit and its resets, is *)
(* Molecule!Build.                                                         *)
(*                                                                         *)
(* A wallet is a record of its address, token, bundle, batch id, token     *)
(* units and balance. Amounts are C ints of the width IntMax gives; the    *)
(* balance is a double, wide enough for every integer considered here.     *)
(***************************************************************************)
EXTENDS CheckMolecule

CONSTANTS
    NoWallet,
    IntMax,         \* INT_MAX
    OutOfRange      \* (int)d of a double above INT_MAX, undefined in C:
                    \* INT_MIN from x86-64's cvttsd2si, INT_MAX from AArch64

ASSUME IntMaxAssumption ==
    IntMax \in Nat \ {0} /\ OutOfRange \in {IntMax, -IntMax - 1}

ZeroBundle == "0000"

Refused(err) == [atoms |-> <<>>, err |-> err]
Built(atoms) == [atoms |-> atoms, err |-> "SUCCESS"]

CastInt(d) == IF d <= IntMax THEN d ELSE OutOfRange

\* Overflowing int arithmetic, undefined in C: it wraps in every build made.
WrapInt(n) == ((n + IntMax + 1) % (2 * (IntMax + 1))) - IntMax - 1

IntBalance(w) == CastInt(w.balance)

WalletAtom(iso, w, value) == NewAtom(iso, w.addr, w.token, value, w.batch)
ToBundle(atom, bundle) == [atom EXCEPT !.bundle = bundle]
WithUnits(atom, units) == [atom EXCEPT !.units = units]
WithMeta(atom, meta)   == [atom EXCEPT !.meta = meta]

\* append_wallet_meta: enough of the seven wallet* keys to tell wallets apart.
WalletMeta(w) ==
    {<<"walletTokenSlug", w.token>>, <<"walletBundleHash", w.bundle>>,
     <<"walletPosition", w.addr.pos>>}

-----------------------------------------------------------------------------
(* USER-signed builders: one atom of the source, then the ContinuID atom. *)

\* add_continuid_atom
ContinuIdAtom(src, rem) ==
    WithMeta(ToBundle(NewAtom("I", rem.addr, rem.token, 0, NoBatch),
                      rem.bundle),
             {<<"previousPosition", src.addr.pos>>})

\* The first atom stays in the molecule when the remainder is missing.
ThenContinuId(first, src, rem) ==
    IF rem = NoWallet THEN [atoms |-> <<first>>, err |-> "INVALID_STATE"]
    ELSE Built(<<first, ContinuIdAtom(src, rem)>>)

InitMeta(src, rem, meta) ==
    IF src = NoWallet THEN Refused("INVALID_STATE")
    ELSE ThenContinuId(
            WithMeta(NewAtom("M", src.addr, src.token, 0, NoBatch), meta),
            src, rem)

InitAuthorization(src, rem, encrypt) ==
    IF src = NoWallet THEN Refused("INVALID_STATE")
    ELSE ThenContinuId(
            WithMeta(NewAtom("U", src.addr, src.token, 0, NoBatch),
                     {<<"encrypt", encrypt>>}),
            src, rem)

\* initTokenCreation: the value is the issued supply, the batch the recipient's.
InitTokenCreation(src, rem, recipient, amount) ==
    IF src = NoWallet THEN Refused("INVALID_STATE")
    ELSE ThenContinuId(
            WithMeta(NewAtom("C", src.addr, src.token, amount, recipient.batch),
                     WalletMeta(recipient)),
            src, rem)

\* init_wallet_creation; lead is the shadowWalletClaim pair or nothing.
InitWalletCreation(src, rem, wallet, lead) ==
    IF src = NoWallet THEN Refused("INVALID_STATE")
    ELSE ThenContinuId(
            WithMeta(NewAtom("C", src.addr, src.token, 0, wallet.batch),
                     lead \cup WalletMeta(wallet)),
            src, rem)

InitShadowWalletClaim(src, rem, wallet) ==
    InitWalletCreation(src, rem, wallet, {<<"shadowWalletClaim", "1">>})

\* init_replenish: with units the value is their number.
InitReplenish(src, rem, credited, amount, units) ==
    LET value == IF units = <<>> THEN amount ELSE Len(units)
    IN  IF NoWallet \in {src, rem} THEN Refused("INVALID_STATE")
        ELSE IF units # <<>> /\ amount \notin {0, Len(units)}
        THEN Refused("STACKABLE_UNIT_AMOUNT")
        ELSE IF units = <<>> /\ amount <= 0 THEN Refused("NEGATIVE_AMOUNT")
        ELSE ThenContinuId(
                WithUnits(
                    WithMeta(NewAtom("C", src.addr, src.token, value,
                                     credited.batch),
                             {<<"action", "add">>} \cup WalletMeta(credited)),
                    units),
                src, rem)

-----------------------------------------------------------------------------
(* Value builders: debit the whole source, credit, return the remainder. *)

\* The debit prints "-%d" of (int)balance: a negative one reads "--k".
Minus(n) == IF n < 0 THEN NotANumber ELSE -n

Debit(iso, src) ==
    WithUnits(WalletAtom(iso, src, Minus(IntBalance(src))), src.units)

\* What the full-balance debit leaves once sent is paid.
Remainder(src, sent) == WrapInt(IntBalance(src) - sent)

Credit(iso, w, value) ==
    WithUnits(ToBundle(WalletAtom(iso, w, value), w.bundle), w.units)

\* init_value: the remainder is optional.
InitValue(src, rem, recipient, amount) ==
    IF src = NoWallet THEN Refused("INVALID_STATE")
    ELSE IF src.balance < amount THEN Refused("BALANCE_INSUFFICIENT")
    ELSE IF rem = NoWallet
    THEN Built(<<Debit("V", src), Credit("V", recipient, amount)>>)
    ELSE Built(<<Debit("V", src), Credit("V", recipient, amount),
                 Credit("V", rem, Remainder(src, amount))>>)

\* The int the amounts are added up in; wrapping once comes to the same as at
\* every addition.
Total(amounts) == WrapInt(SumFunctionOnSet(amounts, DOMAIN amounts))

\* init_values; recipients[i] may be a NULL entry, and then the atoms before it
\* are already added.
InitValues(src, rem, recipients, amounts) ==
    LET total == Total(amounts)
        nulls == {i \in DOMAIN recipients : recipients[i] = NoWallet}
        paid  == IF nulls = {} THEN Len(recipients) ELSE Min(nulls) - 1
        atom(i) == IF i = 1 THEN Debit("V", src)
                   ELSE IF i <= paid + 1
                   THEN Credit("V", recipients[i - 1], amounts[i - 1])
                   ELSE Credit("V", rem, Remainder(src, total))
    IN  IF recipients = <<>> THEN Refused("INVALID_ARGS")
        ELSE IF NoWallet \in {src, rem} THEN Refused("INVALID_STATE")
        ELSE IF src.balance < total THEN Refused("BALANCE_INSUFFICIENT")
        ELSE IF nulls # {}
        THEN [atoms |-> [i \in 1 .. paid + 1 |-> atom(i)],
              err |-> "INVALID_ARGS"]
        ELSE Built([i \in 1 .. paid + 2 |-> atom(i)])

\* init_buffer_common, one direction each. A V debit has no walletBundle meta
\* and no units; a deposit's B and V credits name the SOURCE's bundle.
BufferRefusal(src, rem, amount) ==
    IF NoWallet \in {src, rem} THEN "INVALID_STATE"
    ELSE IF amount < 0 THEN "INVALID_ARGS"
    ELSE IF src.balance < amount THEN "BALANCE_INSUFFICIENT"
    ELSE "SUCCESS"

InitDepositBuffer(src, rem, buffer, amount) ==
    IF BufferRefusal(src, rem, amount) # "SUCCESS"
    THEN Refused(BufferRefusal(src, rem, amount))
    ELSE Built(<<WalletAtom("V", src, Minus(IntBalance(src))),
                 ToBundle(WalletAtom("B", buffer, amount), src.bundle),
                 ToBundle(WalletAtom("V", rem, Remainder(src, amount)),
                          src.bundle)>>)

InitWithdrawBuffer(src, rem, recipient, amount) ==
    IF BufferRefusal(src, rem, amount) # "SUCCESS"
    THEN Refused(BufferRefusal(src, rem, amount))
    ELSE Built(<<ToBundle(Debit("B", src), src.bundle),
                 ToBundle(NewAtom("V", recipient.addr, src.token, amount,
                                  recipient.batch), recipient.bundle),
                 ToBundle(WalletAtom("B", rem, Remainder(src, amount)),
                          rem.bundle)>>)

\* Mutant of InitBurn: the debit carries the source's batch id.
InitBurnBatched(src, rem, amount) ==
    IF NoWallet \in {src, rem} THEN Refused("INVALID_STATE")
    ELSE IF src.balance < amount THEN Refused("BALANCE_INSUFFICIENT")
    ELSE Built(<<Debit("V", src),
                 ToBundle(NewAtom("V", NoAddress, src.token, amount, NoBatch),
                          ZeroBundle),
                 Credit("V", rem, Remainder(src, amount))>>)

\* init_burn: no atom carries a batch id.
InitBurn(src, rem, amount) ==
    IF NoWallet \in {src, rem} THEN Refused("INVALID_STATE")
    ELSE IF src.balance < amount THEN Refused("BALANCE_INSUFFICIENT")
    ELSE LET debit == [Debit("V", src) EXCEPT !.batch = NoBatch]
             burn  == ToBundle(NewAtom("V", NoAddress, src.token, amount,
                                       NoBatch), ZeroBundle)
             rest  == [Credit("V", rem, Remainder(src, amount))
                         EXCEPT !.batch = NoBatch]
         IN  Built(<<debit, burn, rest>>)

-----------------------------------------------------------------------------
(* Fusion of token units. *)

\* knishio_molecule_fusion_error: every id is looked up on its own, so a list
\* that names one unit twice is not refused.
FusionRefused(src, ids, newId) ==
    \/ Len(ids) < 2
    \/ ToSet(ids) \ ToSet(src.units) # {}
    \/ newId = ""
    \/ newId \in ToSet(src.units)

\* The units that are in set, in the wallet's order.
Those(units, set) == At(units, {i \in DOMAIN units : units[i] \in set})

\* A batch-bearing source gives the burn and the fusion fresh batch ids.
FreshBatch(src, name) == IF src.batch = NoBatch THEN NoBatch ELSE name

\* Mutant of InitFuseToken: every fused unit is burnt, the last one too.
InitFuseTokenBurnAll(src, rem, recipient, ids, newId) ==
    IF NoWallet \in {src, rem} THEN Refused("INVALID_STATE")
    ELSE IF FusionRefused(src, ids, newId) THEN Refused("TRANSFER_BALANCE")
    ELSE Built(
        <<WithUnits(WalletAtom("V", src, Minus(IntBalance(src))),
                    Those(src.units, ToSet(ids))),
          WithUnits(ToBundle(NewAtom("V", NoAddress, src.token, Len(ids) - 1,
                        FreshBatch(src, "burnBatch")), ZeroBundle), ids),
          WithUnits(ToBundle(NewAtom("F", recipient.addr, src.token, 1,
                        FreshBatch(src, "fusionBatch")), recipient.bundle),
                    <<newId>>),
          WithUnits(ToBundle(NewAtom("V", rem.addr, src.token,
                        Remainder(src, Len(ids)), src.batch), rem.bundle),
                    Those(src.units, ToSet(src.units) \ ToSet(ids)))>>)

\* init_fuse_token, given that a wallet lists a unit once.
InitFuseToken(src, rem, recipient, ids, newId) ==
    LET sent == Those(src.units, ToSet(ids))
        kept == Those(src.units, ToSet(src.units) \ ToSet(ids))
    IN  IF NoWallet \in {src, rem} THEN Refused("INVALID_STATE")
        ELSE IF FusionRefused(src, ids, newId)
        THEN Refused("TRANSFER_BALANCE")
        ELSE IF IntBalance(src) < Len(ids)
        THEN Refused("BALANCE_INSUFFICIENT")
        ELSE Built(
            <<WithUnits(WalletAtom("V", src, Minus(IntBalance(src))), sent),
              WithUnits(ToBundle(NewAtom("V", NoAddress, src.token,
                            Len(ids) - 1, FreshBatch(src, "burnBatch")),
                            ZeroBundle), Front(ids)),
              WithUnits(ToBundle(NewAtom("F", recipient.addr, src.token, 1,
                            FreshBatch(src, "fusionBatch")),
                            recipient.bundle), <<newId>>),
              WithUnits(ToBundle(NewAtom("V", rem.addr, src.token,
                            Remainder(src, Len(ids)), src.batch),
                            rem.bundle), kept)>>)

=============================================================================
