----------------------------- MODULE TokenUnits -----------------------------
(***************************************************************************)
(* Token units (NFTs) of a transfer: wallet.c deals those of the source    *)
(* out to the recipients and the remainder before transfer.c builds a      *)
(* molecule of the wallets, and init_value puts each one's units on its    *)
(* atom. A unit is its id. A wallet's units are a sequence; `lists` names  *)
(* what each recipient gets.                                               *)
(***************************************************************************)
EXTENDS Calls, Naturals, Sequences, FiniteSets, SequencesExt

CONSTANTS
    Units,          \* ids
    MaxUnits        \* bound on a wallet's units

\* tu_id_in_units
Sent(units, list) == Chosen(units, ToSet(list))
Kept(units, list) == Chosen(units, ToSet(units) \ ToSet(list))

\* knishio_wallet_split_units: the wallets as it leaves them, by an allocation that
\* fails or none. `to` is the number of recipients: a burning has none.
SplitUnits(units, list, to, fault) ==
    CASE list = <<>> ->
            [ok |-> TRUE, source |-> units, remainder |-> <<>>,
             recipients |-> [r \in 1..to |-> <<>>]]
      [] list # <<>> /\ fault > 0 ->
            [ok |-> FALSE, source |-> units, remainder |-> <<>>,
             recipients |-> [r \in 1..to |-> <<>>]]
      [] OTHER ->
            [ok |-> TRUE, source |-> Sent(units, list), remainder |-> Kept(units, list),
             recipients |-> [r \in 1..to |-> Sent(units, list)]]

\* Mutant of SplitUnitsMulti: what is left for the next recipient and the remainder
\* is decided by the list of the last.
SplitUnitsMultiLast(units, lists, fault) ==
    LET last == lists[Len(lists)] IN
    [ok |-> TRUE, source |-> Sent(units, last), remainder |-> Kept(units, last),
     recipients |-> [r \in DOMAIN lists |-> Sent(units, lists[r])]]

\* knishio_wallet_split_units_multi: each recipient in turn, then source and
\* remainder; `fault` is the recipient whose allocation fails, or the one after the
\* last for the source's and the remainder's, or 0.
SplitUnitsMulti(units, lists, fault) ==
    LET n     == Len(lists)
        named == FoldLeft(\o, <<>>, lists)
    IN CASE named = <<>> ->
            [ok |-> TRUE, source |-> units, remainder |-> <<>>,
             recipients |-> [r \in 1..n |-> <<>>]]
         [] named # <<>> /\ fault > 0 ->
            [ok |-> FALSE, source |-> units, remainder |-> <<>>,
             recipients |-> [r \in 1..n |->
                                IF r < fault THEN Sent(units, lists[r]) ELSE <<>>]]
         [] OTHER ->
            [ok |-> TRUE, source |-> Sent(units, named), remainder |-> Kept(units, named),
             recipients |-> [r \in 1..n |-> Sent(units, lists[r])]]

\* knishio_client_transfer_tokens and _transfer_tokens_multi go on with the wallets as
\* they are: nobody asks whether they could be dealt out.
Dealt(units, lists, fault) ==
    IF Len(lists) = 1 THEN SplitUnits(units, lists[1], 1, fault)
    ELSE SplitUnitsMulti(units, lists, fault)

\* knishio_client_burn_tokens: the source keeps what is burnt.
Burnt(units, list, fault) == SplitUnits(units, list, 0, fault)

SomeUnits == {s \in UNION {[1..n -> Units] : n \in 0..MaxUnits} : IsInjective(s)}

\* A transfer to one or two, or a burning, with the ids the caller names.
DealUnits ==
    /\ Quiet
    /\ \E units \in SomeUnits, lists \in UNION {[1..n -> SomeUnits] : n \in 1..2},
          fault \in 0..3, fn \in {"deal", "burn"} :
        /\ fault <= Len(lists) + 1
        /\ fn = "burn" => Len(lists) = 1
        /\ Made([fn |-> fn, units |-> units, lists |-> lists,
                 dealt |-> IF fn = "deal" THEN Dealt(units, lists, fault)
                          ELSE Burnt(units, lists[1], fault)])

UnitSpec == call = NoCall /\ [][DealUnits \/ Return]_call

-----------------------------------------------------------------------------
(* Properties. *)

Dealing == call.fn \in {"deal", "burn"}

\* "The source retains the SENT union, each recipient gets its own subset, and the
\* remainder keeps the KEPT units" (wallet.h:496), whoever is named for what. When
\* memory fails the source has all its units still, and the remainder none.
UnitsPartitioned ==
    Dealing /\ (\E r \in DOMAIN call.lists : call.lists[r] # <<>>) =>
        LET d == call.dealt IN
        /\ ToSet(d.source) \cup ToSet(d.remainder) = ToSet(call.units)
        /\ ToSet(d.source) \cap ToSet(d.remainder) = {}
        /\ call.fn = "deal" /\ d.ok =>
            UNION {ToSet(d.recipients[r]) : r \in DOMAIN d.recipients} = ToSet(d.source)

\* No unit goes to two, as long as none is named for two, and none is doubled.
UnitsGoOnce ==
    Dealing /\ (\A r, q \in DOMAIN call.lists :
                    r # q => ToSet(call.lists[r]) \cap ToSet(call.lists[q]) = {}) =>
        LET to == call.dealt.recipients IN
        /\ \A r, q \in DOMAIN to : r # q => ToSet(to[r]) \cap ToSet(to[q]) = {}
        /\ \A r \in DOMAIN to : IsInjective(to[r])

\* Units are dealt out whole, each to one.
UnitsDealtOnce == UnitsPartitioned /\ UnitsGoOnce

=============================================================================
