---------------------------- MODULE LedgerClient ----------------------------
(***************************************************************************)
(* Clients that read the ledger, build a molecule from what they read,     *)
(* sign it and propose it (src/operations/transfer.c, token.c, wallet.c,   *)
(* identity.c, and the helpers they share in src/client_ops.c).  Nothing   *)
(* is locked between the reading and the proposal, several devices share   *)
(* one identity, and answers may be lost or late.  The validator is        *)
(* external: it is what the operations assume it to be.  There is one      *)
(* token; molecules are what Molecule says of them, reduced to what they   *)
(* take from the ledger and give it.                                       *)
(***************************************************************************)
EXTENDS Naturals, FiniteSets, FiniteSetsExt

CONSTANTS
    Clients,
    Bundles,        \* the identities of the ledger
    BundleOf,       \* the one a client's secret is of
    Amounts,        \* what an operation is asked to move
    MaxMolecules,   \* so many molecules are proposed
    None,
    Fixed           \* KNISHIO_FIXED_POSITION

ASSUME MaxMoleculesAssumption == MaxMolecules \in Nat
ASSUME AmountsAssumption == Amounts \subseteq Nat \ {0}
ASSUME BundleOfAssumption == BundleOf \in [Clients -> Bundles]
ASSUME BundlesAssumption == IsFiniteSet(Bundles)

\* Random positions are named by the molecule they were drawn for; molecules
\* before the first are number 0.
Positions == [of : 0..MaxMolecules, as : {"next", "new"}] \cup {Fixed}

ASSUME NoneAssumption ==
    /\ Fixed \notin [of : 0..MaxMolecules, as : {"next", "new"}]
    /\ None \notin Positions
    /\ None \notin 0..MaxMolecules

Keys == [owner : Bundles, token : {"USER", "token"}, position : Positions]

Rows == [owner : Bundles, buffer : BOOLEAN, position : Positions, balance : Nat]

Shadows == [owner : Bundles, batch : 0..MaxMolecules, amount : Nat]

FundedOps == {"transfer", "transfer_multi", "burn", "fuse", "deposit", "withdraw"}
UserOps == {"create_meta", "create_wallet", "create_token", "replenish", "claim"}

VARIABLES
    pointer,    \* the ledger: the ContinuID position of a bundle
    rows,       \* its wallets with an address
    shadows,    \* and those to be claimed
    spent,      \* the keys that signed what it accepted
    call,       \* a client's operation in progress, its locals
    result,     \* what its last call returned
    outcome,    \* the result of its last proposal
    flight,     \* molecules on their way to the validator
    verdict,    \* of those that arrived
    count       \* how many were proposed

ledger == <<pointer, rows, shadows, spent>>
network == <<flight, verdict, count>>
vars == <<ledger, call, result, outcome, network>>

Idle == [c \in Clients |-> None]

\* A client's bundle is new, or holds a wallet, a buffer and a shadow from
\* earlier operations.
Init ==
    /\ \E old \in SUBSET {BundleOf[c] : c \in Clients} :
        /\ pointer = [b \in Bundles |->
                        IF b \in old THEN [of |-> 0, as |-> "next"] ELSE None]
        /\ rows = [owner : old, buffer : {FALSE}, position : {[of |-> 0, as |-> "new"]},
                   balance : {4}]
                \cup [owner : old, buffer : {TRUE},
                      position : {[of |-> 0, as |-> "next"]}, balance : {2}]
        /\ shadows = [owner : old, batch : {0}, amount : {1}]
        /\ spent = [owner : old, token : {"USER"}, position : {Fixed}]
    /\ call = Idle /\ result = [c \in Clients |-> "none"]
    /\ outcome = [c \in Clients |-> "none"]
    /\ flight = {} /\ verdict = [m \in 1..MaxMolecules |-> "none"] /\ count = 0

-----------------------------------------------------------------------------
(* Calls. *)

Own(c) == BundleOf[c]

\* Mutant of Finish: the last claim decides.
FinishLast(c, res) ==
    LET k == call[c] IN
    IF k.todo = {}
    THEN /\ call' = [call EXCEPT ![c] = None]
         /\ result' = [result EXCEPT ![c] = res]
    ELSE /\ \E b \in k.todo :
                call' = [call EXCEPT ![c] = [k EXCEPT
                    !.step = "user", !.batch = b, !.todo = @ \ {b}]]
         /\ UNCHANGED result

\* The end of an operation, or of one claim of knishio_client_claim_shadow_wallets,
\* which goes on with the next wallet it listed whatever became of this one.
Finish(c, res) ==
    LET k == call[c]
        ok == k.ok /\ res = "SUCCESS"
    IN  IF k.todo = {}
        THEN /\ call' = [call EXCEPT ![c] = None]
             /\ result' = [result EXCEPT ![c] =
                    IF k.all THEN IF ok THEN "SUCCESS" ELSE "ERROR" ELSE res]
        ELSE /\ \E b \in k.todo :
                    call' = [call EXCEPT ![c] = [k EXCEPT
                        !.step = "user", !.batch = b, !.todo = @ \ {b}, !.ok = ok]]
             /\ UNCHANGED result

Ends(c, res) ==
    /\ call' = [call EXCEPT ![c] = None]
    /\ result' = [result EXCEPT ![c] = res]

At(c, step) == call[c] # None /\ call[c].step = step

\* A batch the caller names is one that was listed earlier.
Begin(c, op, to, n, all) ==
    /\ call[c] = None /\ count < MaxMolecules
    /\ all => op = "claim"
    /\ op \notin {"transfer", "withdraw", "fuse"} => to = Own(c)
    /\ op \notin FundedOps \cup {"create_token", "replenish"} => \A m \in Amounts : n <= m
    /\ call' = [call EXCEPT ![c] =
        [op |-> op, to |-> to, amount |-> n, all |-> all, ok |-> TRUE,
         step |-> CASE op = "claim" -> "list" [] op \in FundedOps -> "balance" [] OTHER -> "user",
         batch |-> None, todo |-> {}, listed |-> {},
         user |-> None, asked |-> "none", source |-> {}, stale |-> FALSE, sent |-> 0]]
    /\ result' = [result EXCEPT ![c] = "none"]
    /\ outcome' = [outcome EXCEPT ![c] = "none"]
    /\ UNCHANGED <<ledger, network>>

\* knishio_client_query_wallets: one shadow wallet is claimed, or all in turn.
ListShadows(c) ==
    /\ At(c, "list")
    /\ LET mine == {s.batch : s \in {s \in shadows : s.owner = Own(c)}}
       IN  IF mine = {} THEN Ends(c, IF call[c].all THEN "SUCCESS" ELSE "ERROR")
           ELSE /\ \E b \in mine :
                    call' = [call EXCEPT ![c].step = "user", ![c].batch = b,
                        ![c].listed = IF call[c].all THEN mine ELSE {b},
                        ![c].todo = IF call[c].all THEN mine \ {b} ELSE {}]
                /\ UNCHANGED result
    /\ UNCHANGED <<ledger, outcome, network>>

UserKey(c, position) == [owner |-> Own(c), token |-> "USER", position |-> position]

RowKey(r) == [owner |-> r.owner, token |-> "token", position |-> r.position]

SigningPosition(c, asked) == IF asked = "found" THEN pointer[Own(c)] ELSE Fixed

\* knishio_client_get_source_wallet_continuid: without a position, because there
\* is none or because the query failed, the fixed one.  Operations that spend a
\* token ask too, but sign with that token's key and use nothing of the answer.
AskContinuId(c) ==
    /\ At(c, "user")
    /\ \E asked \in {IF pointer[Own(c)] = None THEN "genesis" ELSE "found", "failed"} :
        LET position == SigningPosition(c, asked)
        IN  call' = [call EXCEPT ![c].user = position, ![c].asked = asked,
                ![c].stale = UserKey(c, position) \in spent,
                ![c].step = IF call[c].op = "replenish" THEN "balance" ELSE "propose"]
    /\ UNCHANGED <<ledger, result, outcome, network>>

\* What the source must hold.
Needs(k) ==
    CASE k.op = "transfer_multi" -> k.amount * Cardinality(Bundles)
      [] k.op = "fuse" -> k.amount + 1
      [] OTHER -> k.amount

\* Mutant of Suffices: the balance is not looked at.
SufficesAny(k, r) == TRUE

Suffices(k, r) == r.balance >= Needs(k)

\* The wallet the ledger answers with, one of several perhaps.
Answered(c) ==
    {r \in rows : r.owner = Own(c) /\ (r.buffer <=> call[c].op = "withdraw")}

\* QueryBalance.  A wallet that is not there, or does not hold enough, ends the
\* call; a replenishment takes a new one, also when the query was refused.
AskBalance(c) ==
    /\ At(c, "balance")
    /\ LET k == call[c]
       IN  \/ /\ k.op = "replenish"
              /\ \E found \in {{}} \cup {{r} : r \in Answered(c)} :
                    call' = [call EXCEPT ![c].step = "propose", ![c].source = found]
              /\ UNCHANGED result
           \/ /\ k.op \in FundedOps
              /\ \E r \in Answered(c) : Suffices(k, r) /\
                    call' = [call EXCEPT ![c].step = "propose", ![c].source = {r},
                                         ![c].stale = RowKey(r) \in spent]
              /\ UNCHANGED result
           \/ /\ k.op \in FundedOps
              /\ Answered(c) = {} \/ \E r \in Answered(c) : ~Suffices(k, r)
              /\ Finish(c, "ERROR")
    /\ UNCHANGED <<ledger, outcome, network>>

\* A query is lost or refused, the secret cannot be had, a wallet of the answer
\* is not the secret's, no random position can be drawn.
Fails(c) ==
    /\ \/ At(c, "list") /\ Ends(c, "ERROR")
       \/ \E step \in {"user", "balance", "propose"} : At(c, step) /\ Finish(c, "ERROR")
    /\ UNCHANGED <<ledger, outcome, network>>

-----------------------------------------------------------------------------
(* Molecules: the wallets they debit, create and credit, the shadows they     *)
(* leave and claim.                                                           *)

Molecules ==
    [id : 1..MaxMolecules, by : Bundles, op : FundedOps \cup UserOps,
     to : Bundles, amount : Nat, signer : Keys,
     debits : SUBSET Rows, gives : SUBSET Rows, owes : SUBSET Shadows,
     credits : SUBSET Positions, claims : SUBSET (0..MaxMolecules)]

\* A fresh random position.
NewPosition(id) == [of |-> id, as |-> "new"]

\* Mutant of RemainderPosition: the remainder of a withdrawal goes back to the
\* buffer it came from.
RemainderPositionBack(c, id) ==
    IF call[c].op = "withdraw" THEN (CHOOSE r \in call[c].source : TRUE).position
    ELSE [of |-> id, as |-> "next"]

RemainderPosition(c, id) == [of |-> id, as |-> "next"]

\* A molecule signed with the USER wallet, that so far does nothing else than
\* move the ContinuID pointer to its fresh remainder.
UserMolecule(c, id) ==
    [id |-> id, by |-> Own(c), op |-> call[c].op, to |-> call[c].to,
     amount |-> call[c].amount, signer |-> UserKey(c, call[c].user),
     debits |-> {}, gives |-> {}, owes |-> {}, credits |-> {}, claims |-> {}]

Row(c, buffer, position, n) ==
    [owner |-> Own(c), buffer |-> buffer, position |-> position, balance |-> n]

\* A wallet at a fresh position, and an addressless one of a recipient bundle.
NewRow(c, id, buffer, n) == Row(c, buffer, NewPosition(id), n)
Shadow(b, id, n) == [owner |-> b, batch |-> id, amount |-> n]

\* A molecule signed with the wallet it spends: the whole balance the client
\* read is debited, and what is left goes to the remainder.
SpendingMolecule(c, id) ==
    LET r == CHOOSE r \in call[c].source : TRUE
    IN  [UserMolecule(c, id) EXCEPT
            !.signer = RowKey(r), !.debits = {r},
            !.gives = {Row(c, r.buffer, RemainderPosition(c, id), r.balance - Needs(call[c]))}]

(* One operation each. *)

TransferTokens(c, id) ==
    [SpendingMolecule(c, id) EXCEPT !.owes = {Shadow(call[c].to, id, call[c].amount)}]

TransferTokensMulti(c, id) ==
    [SpendingMolecule(c, id) EXCEPT !.owes = {Shadow(b, id, call[c].amount) : b \in Bundles}]

BurnTokens(c, id) == SpendingMolecule(c, id)

DepositBufferToken(c, id) ==
    [SpendingMolecule(c, id) EXCEPT !.gives = @ \cup {NewRow(c, id, TRUE, call[c].amount)}]

WithdrawBufferToken(c, id) ==
    [SpendingMolecule(c, id) EXCEPT !.owes = {Shadow(call[c].to, id, call[c].amount)}]

\* One unit for several: it goes to a new wallet, or to another bundle.
FuseToken(c, id) ==
    IF call[c].to = Own(c)
    THEN [SpendingMolecule(c, id) EXCEPT !.gives = @ \cup {NewRow(c, id, FALSE, 1)}]
    ELSE [SpendingMolecule(c, id) EXCEPT !.owes = {Shadow(call[c].to, id, 1)}]

CreateMeta(c, id) == UserMolecule(c, id)

CreateWallet(c, id) == [UserMolecule(c, id) EXCEPT !.gives = {NewRow(c, id, FALSE, 0)}]

CreateToken(c, id) ==
    [UserMolecule(c, id) EXCEPT !.gives = {NewRow(c, id, FALSE, call[c].amount)}]

\* The wallet the identity has is credited, else a new one.
ReplenishToken(c, id) ==
    [UserMolecule(c, id) EXCEPT
        !.credits = {r.position : r \in call[c].source},
        !.gives = IF call[c].source = {} THEN {NewRow(c, id, FALSE, call[c].amount)} ELSE {}]

ClaimShadowWallet(c, id) == [UserMolecule(c, id) EXCEPT !.claims = {call[c].batch}]

Build(c, id) ==
    CASE call[c].op = "transfer" -> TransferTokens(c, id)
      [] call[c].op = "transfer_multi" -> TransferTokensMulti(c, id)
      [] call[c].op = "burn" -> BurnTokens(c, id)
      [] call[c].op = "fuse" -> FuseToken(c, id)
      [] call[c].op = "deposit" -> DepositBufferToken(c, id)
      [] call[c].op = "withdraw" -> WithdrawBufferToken(c, id)
      [] call[c].op = "create_meta" -> CreateMeta(c, id)
      [] call[c].op = "create_wallet" -> CreateWallet(c, id)
      [] call[c].op = "create_token" -> CreateToken(c, id)
      [] call[c].op = "replenish" -> ReplenishToken(c, id)
      [] call[c].op = "claim" -> ClaimShadowWallet(c, id)

\* Signed, checked and sent.
Propose(c) ==
    /\ At(c, "propose") /\ count < MaxMolecules
    /\ count' = count + 1
    /\ flight' = flight \cup {Build(c, count')}
    /\ call' = [call EXCEPT ![c] = [@ EXCEPT
            !.step = "sent", !.sent = count', !.batch = None,
            !.user = None, !.asked = "none", !.source = {}, !.stale = FALSE]]
    /\ outcome' = [outcome EXCEPT ![c] = "none"]
    /\ UNCHANGED <<ledger, result, verdict>>

-----------------------------------------------------------------------------
(* The validator.  It refuses a key it has seen, a debit that is not the      *)
(* whole of a wallet (as check_molecule.c compares it with the signer's), a   *)
(* USER molecule not signed from the pointer, a credit to a wallet that is    *)
(* not there, a shadow that is not.  Otherwise it may refuse for its reasons. *)

Acceptable(m) ==
    /\ m.signer \notin spent
    /\ m.debits \subseteq rows
    /\ m.op \in UserOps => pointer[m.by] \in {None, m.signer.position}
    /\ \A p \in m.credits : \E r \in rows : r.owner = m.by /\ ~r.buffer /\ r.position = p
    /\ \A b \in m.claims : \E s \in shadows : s.owner = m.by /\ s.batch = b

Claimed(m) == {s \in shadows : s.owner = m.by /\ s.batch \in m.claims}

Accept(m) ==
    /\ m \in flight /\ Acceptable(m)
    /\ flight' = flight \ {m} /\ verdict' = [verdict EXCEPT ![m.id] = "accepted"]
    /\ spent' = spent \cup {m.signer}
    /\ pointer' = IF m.op \in UserOps
                  THEN [pointer EXCEPT ![m.by] = [of |-> m.id, as |-> "next"]]
                  ELSE pointer
    /\ shadows' = (shadows \ Claimed(m)) \cup m.owes
    /\ rows' = {IF r.owner = m.by /\ r.position \in m.credits
                THEN [r EXCEPT !.balance = @ + m.amount] ELSE r : r \in rows \ m.debits}
               \cup m.gives
               \cup {[owner |-> m.by, buffer |-> FALSE, position |-> NewPosition(m.id),
                      balance |-> s.amount] : s \in Claimed(m)}
    /\ UNCHANGED <<call, result, outcome, count>>

Reject(m) ==
    /\ m \in flight
    /\ flight' = flight \ {m} /\ verdict' = [verdict EXCEPT ![m.id] = "rejected"]
    /\ UNCHANGED <<ledger, call, result, outcome, count>>

-----------------------------------------------------------------------------
(* Results. *)

Reports(c, res) ==
    /\ outcome' = [outcome EXCEPT ![c] = res]
    /\ Finish(c, res)
    /\ UNCHANGED <<ledger, network>>

\* Mutant of Confirms: an answer is a success, whatever its status.
ConfirmsAny(id) == verdict[id] # "none"

\* knishio_graphql_response_apply_body: HTTP 2xx and the status is "accepted".
Confirms(id) == verdict[id] = "accepted"

Succeeds(c) == At(c, "sent") /\ Confirms(call[c].sent) /\ Reports(c, "SUCCESS")

\* A rejection, an answer of something between whose HTTP status is none of the
\* validator's, or no answer in time: the molecule may be accepted yet.
NotConfirmed(c) == At(c, "sent") /\ Reports(c, "ERROR")

ClientSteps(c) ==
    \/ ListShadows(c) \/ AskContinuId(c) \/ AskBalance(c) \/ Fails(c) \/ Propose(c)
    \/ Succeeds(c) \/ NotConfirmed(c)

Next ==
    \/ \E c \in Clients, op \in FundedOps \cup UserOps, to \in Bundles, all \in BOOLEAN,
            n \in Amounts : Begin(c, op, to, n, all)
    \/ \E c \in Clients : ClientSteps(c)
    \/ \E m \in flight : Accept(m) \/ Reject(m)

Spec == Init /\ [][Next]_vars

-----------------------------------------------------------------------------
(* Properties. *)

Calls ==
    [op : FundedOps \cup UserOps, to : Bundles, amount : Amounts, all : BOOLEAN,
     ok : BOOLEAN, step : {"list", "user", "balance", "propose", "sent"},
     batch : 0..MaxMolecules \cup {None}, todo : SUBSET (0..MaxMolecules),
     listed : SUBSET (0..MaxMolecules), user : Positions \cup {None},
     asked : {"none", "genesis", "found", "failed"}, source : SUBSET Rows,
     stale : BOOLEAN, sent : 0..MaxMolecules]

\* A client without a call has none of them.
ASSUME NoCallAssumption == None \notin Calls

\* Types; a call that spends has one source.
TypeOK ==
    /\ pointer \in [Bundles -> Positions \cup {None}]
    /\ rows \subseteq Rows /\ shadows \subseteq Shadows /\ spent \subseteq Keys
    /\ \A c \in Clients :
        /\ call[c] = None \/ call[c] \in Calls
        /\ call[c] # None /\ call[c].step = "propose"
           /\ call[c].op \in FundedOps => Cardinality(call[c].source) = 1
        /\ result[c] \in {"none", "SUCCESS", "ERROR"}
        /\ outcome[c] \in {"none", "SUCCESS", "ERROR"}
    /\ flight \subseteq Molecules
    /\ count \in 0..MaxMolecules
    /\ verdict \in [1..MaxMolecules -> {"none", "accepted", "rejected"}]

\* No wallet holds value behind a key that has signed ("so no value is credited
\* behind the consumed signing key", knishio_client_withdraw_buffer_token).
NothingBehindSpentKey == \A r \in rows : RowKey(r) \notin spent

\* A molecule is about to be signed with a one-time key that was unspent when the ledger was
\* asked for it, whatever became of it since: operations do not go back to a
\* key by themselves.  The exception is a USER molecule whose ContinuID query
\* failed (GenesisOnly).
SignerWasUnspent ==
    \A c \in Clients : At(c, "propose") /\ call[c].stale =>
        call[c].asked = "failed" /\ call[c].op \in UserOps

\* A key signs once: value is not left behind one that has, and none is taken twice.
KeysSignOnce == NothingBehindSpentKey /\ SignerWasUnspent

\* The fixed position is for "a genesis bundle with no ContinuID yet"
\* (src/include/knishio/client_ops.h:156-157): when a client turns to it, its
\* key has not signed before.
GenesisOnly ==
    \A c \in Clients : At(c, "propose") /\ call[c].user = Fixed => ~call[c].stale

\* When knishio_client_claim_shadow_wallets reports success, none of the wallets
\* it listed is still to be claimed; others may have claimed some of them in
\* the meantime, and some of its answers may be lost.
ClaimsAll ==
    [][\A c \in Clients :
        call[c] # None /\ call'[c] = None /\ call[c].op = "claim" /\ result'[c] = "SUCCESS"
        => \A s \in shadows' : s.owner = Own(c) => s.batch \notin call[c].listed]_vars

\* Operations of several clients on one ledger are as good as whole ones, one at
\* a time on accounts: none is lost between what one reads and another writes,
\* none takes effect twice, and a success has taken effect.
Balance(b, buffer) ==
    SumFunctionOnSet([r \in rows |-> r.balance],
                     {r \in rows : r.owner = b /\ r.buffer = buffer})

Owed(b) == SumFunctionOnSet([s \in shadows |-> s.amount], {s \in shadows : s.owner = b})

WishOf(id, k, b) == [id |-> id, by |-> b, to |-> k.to, amount |-> k.amount, op |-> k.op]

Ideal == INSTANCE IdealLedger WITH
    free <- [b \in Bundles |-> Balance(b, FALSE)],
    held <- [b \in Bundles |-> Balance(b, TRUE)],
    owed <- [b \in Bundles |-> Owed(b)],
    pending <- [c \in Clients |->
        IF At(c, "sent") THEN {WishOf(call[c].sent, call[c], Own(c))} ELSE {}],
    loose <- {WishOf(m.id, m, m.by) : m \in flight},
    done <- {id \in 1..MaxMolecules : verdict[id] = "accepted"},
    submitted <- count

ImplementsIdealLedger == Ideal!Spec

=============================================================================
