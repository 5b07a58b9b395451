---------------------------- MODULE IdealLedger ----------------------------
(***************************************************************************)
(* What the operations of a client promise together (src/operations):      *)
(* accounts of one token that change by whole operations, each at one      *)
(* moment between its call and its result, on the accounts as they are     *)
(* then.  An operation whose result was not a success may still take       *)
(* effect later, once.                                                     *)
(***************************************************************************)
EXTENDS Naturals, FiniteSets

CONSTANTS
    Clients, Bundles,
    Amounts     \* what an operation moves

Wishes(id) ==
    [id : {id}, by : Bundles, to : Bundles, amount : Amounts,
     op : {"create_meta", "create_wallet", "create_token", "replenish", "claim",
           "transfer", "transfer_multi", "burn", "fuse", "deposit", "withdraw"}]

VARIABLES
    free,       \* what a bundle holds in regular wallets
    held,       \* in buffer wallets
    owed,       \* in shadow wallets, to be claimed
    pending,    \* a client's operation without a result: none or one
    loose,      \* the operations that may yet take effect
    done,       \* those that have, by number
    outcome,    \* the result of a client's last operation, if it has one
    submitted   \* how many there were

accounts == <<free, held, owed>>
vars == <<accounts, pending, loose, done, outcome, submitted>>

Init ==
    /\ {free, held, owed} \subseteq [Bundles -> Nat]
    /\ pending = [c \in Clients |-> {}] /\ loose = {} /\ done = {}
    /\ outcome = [c \in Clients |-> "none"] /\ submitted = 0

More(account, b, n) == [account EXCEPT ![b] = @ + n]
Less(account, b, n) == account[b] >= n /\ account' = [account EXCEPT ![b] = @ - n]

\* What an operation does to the accounts.
Effect(w) ==
    CASE w.op \in {"create_meta", "create_wallet"} -> UNCHANGED accounts
      [] w.op \in {"create_token", "replenish"} ->
            free' = More(free, w.by, w.amount) /\ UNCHANGED <<held, owed>>
      [] w.op = "claim" ->
            \E n \in 0..owed[w.by] :
                /\ Less(owed, w.by, n) /\ free' = More(free, w.by, n)
                /\ UNCHANGED held
      [] w.op = "transfer" ->
            /\ Less(free, w.by, w.amount) /\ owed' = More(owed, w.to, w.amount)
            /\ UNCHANGED held
      [] w.op = "transfer_multi" ->
            /\ Less(free, w.by, w.amount * Cardinality(Bundles))
            /\ owed' = [b \in Bundles |-> owed[b] + w.amount]
            /\ UNCHANGED held
      [] w.op = "burn" -> Less(free, w.by, w.amount) /\ UNCHANGED <<held, owed>>
      [] w.op = "fuse" ->
            /\ UNCHANGED held
            /\ IF w.to = w.by THEN Less(free, w.by, w.amount) /\ UNCHANGED owed
               ELSE Less(free, w.by, w.amount + 1) /\ owed' = More(owed, w.to, 1)
      [] w.op = "deposit" ->
            /\ Less(free, w.by, w.amount) /\ held' = More(held, w.by, w.amount)
            /\ UNCHANGED owed
      [] w.op = "withdraw" ->
            /\ Less(held, w.by, w.amount) /\ owed' = More(owed, w.to, w.amount)
            /\ UNCHANGED free

Submit(c) ==
    /\ pending[c] = {}
    /\ submitted' = submitted + 1
    /\ \E w \in Wishes(submitted') :
        pending' = [pending EXCEPT ![c] = {w}] /\ loose' = loose \cup {w}
    /\ outcome' = [outcome EXCEPT ![c] = "none"]
    /\ UNCHANGED <<accounts, done>>

\* The result is forgotten.
Forget(c) ==
    /\ pending[c] = {}
    /\ outcome' = [outcome EXCEPT ![c] = "none"]
    /\ UNCHANGED <<accounts, pending, loose, done, submitted>>

\* Takes effect, whether its client waits for the result or gave up.
Commit(w) ==
    /\ w \in loose
    /\ loose' = loose \ {w} /\ done' = done \cup {w.id}
    /\ Effect(w)
    /\ UNCHANGED <<pending, outcome, submitted>>

\* Will never take effect.
Refuse(w) ==
    /\ w \in loose
    /\ loose' = loose \ {w}
    /\ UNCHANGED <<accounts, pending, done, outcome, submitted>>

\* A success means that the effect is there; a failure means nothing.
Return(c, result) ==
    /\ pending[c] # {}
    /\ result = "SUCCESS" => \A w \in pending[c] : w.id \in done
    /\ pending' = [pending EXCEPT ![c] = {}]
    /\ outcome' = [outcome EXCEPT ![c] = result]
    /\ UNCHANGED <<accounts, loose, done, submitted>>

Next ==
    \/ \E c \in Clients : Submit(c) \/ Forget(c)
    \/ \E w \in loose : Commit(w) \/ Refuse(w)
    \/ \E c \in Clients, result \in {"SUCCESS", "ERROR"} : Return(c, result)

Spec == Init /\ [][Next]_vars

=============================================================================
