------------------------- MODULE LedgerClient_proof -------------------------
(***************************************************************************)
(* KeysSignOnce, ClaimsAll and the refinement of IdealLedger, for any      *)
(* number of devices, identities, amounts and molecules. A key of the      *)
(* ledger is old: its position is one from before, or one of an accepted   *)
(* molecule. So the positions a molecule under way would bring have not    *)
(* signed, and it is enough that no two wallets of the ledger have one     *)
(* key: then each molecule takes from an account what it names, once.      *)
(***************************************************************************)
EXTENDS LedgerClient, FoldTheorems, TLAPS, FiniteSetTheorems

Verdicts == {"none", "accepted", "rejected"}
Results == {"none", "SUCCESS", "ERROR"}
Fresh == [of : 0..MaxMolecules, as : {"next", "new"}]

LedgerType ==
    /\ pointer \in [Bundles -> Positions \cup {None}]
    /\ rows \subseteq Rows /\ shadows \subseteq Shadows /\ spent \subseteq Keys

CallType ==
    /\ call \in [Clients -> Calls \cup {None}]
    /\ result \in [Clients -> Results]
    /\ outcome \in [Clients -> Results]

NetworkType ==
    /\ flight \subseteq Molecules
    /\ count \in 0..MaxMolecules
    /\ verdict \in [1..MaxMolecules -> Verdicts]

\* With the verdicts v, the molecule a position or a shadow was made by has been accepted.
Happened(v, id) == id = 0 \/ (id \in 1..MaxMolecules /\ v[id] = "accepted")
Used(v, p) == p = Fixed \/ (p \in Fresh /\ Happened(v, p.of))

\* A call knows what its step needs, and a position of the past only.
CallOK(v, c, k) ==
    /\ k.step \in {"list", "user"} => k.op \in UserOps
    /\ k.step = "list" => k.op = "claim"
    /\ k.todo # {} => k.op = "claim"
    /\ k.op = "claim" /\ k.step \in {"user", "propose"} => k.batch # None
    /\ k.step = "balance" => k.op \in FundedOps \cup {"replenish"}
    /\ k.step \in {"balance", "propose"} /\ k.op \in UserOps =>
            k.user # None /\ (k.stale => k.asked = "failed")
    /\ k.user # None => Used(v, k.user)
    /\ k.step = "propose" /\ k.op \in FundedOps =>
            /\ ~k.stale
            /\ \E r \in Rows : /\ k.source = {r} /\ r.owner = Own(c)
                               /\ r.balance >= Needs(k) /\ Used(v, r.position)

CallsInv == \A c \in Clients : call[c] # None => CallOK(verdict, c, call[c])

\* What a molecule signs with is of the past, what it gives is its own.
MoleculeOK(v, m) ==
    /\ Used(v, m.signer.position)
    /\ m.op \in UserOps => m.signer.token = "USER" /\ m.signer.owner = m.by /\ m.debits = {}
    /\ m.op \in FundedOps => /\ m.signer.token = "token"
                             /\ \E r \in Rows : m.debits = {r} /\ m.signer = RowKey(r)
    /\ \A r \in m.gives : r.owner = m.by /\ r.position \in Fresh /\ r.position.of = m.id
    /\ \A r, q \in m.gives : r.position = q.position => r = q
    /\ \A s \in m.owes : s.batch = m.id
    /\ \A s, t \in m.owes : s.owner = t.owner => s = t
    /\ m.claims # {} => m.gives = {}
    /\ \A a, b \in m.claims : a = b

FlightInv ==
    /\ \A m \in flight : m.id <= count /\ verdict[m.id] = "none" /\ MoleculeOK(verdict, m)
    /\ \A m, n \in flight : m.id = n.id => m = n
    /\ \A id \in 1..MaxMolecules : id > count => verdict[id] = "none"

RowsInv ==
    /\ \A r \in rows : Used(verdict, r.position) /\ RowKey(r) \notin spent
    /\ \A r, q \in rows : r.owner = q.owner /\ r.position = q.position => r = q

ShadowsInv ==
    /\ \A s \in shadows : Happened(verdict, s.batch)
    /\ \A s, t \in shadows : s.owner = t.owner /\ s.batch = t.batch => s = t

SpentInv == \A k \in spent : Used(verdict, k.position)

PointerInv ==
    \A b \in Bundles :
        /\ pointer[b] = None => \A k \in spent : k.owner = b => k.token = "token"
        /\ pointer[b] # None =>
                /\ Used(verdict, pointer[b])
                /\ [owner |-> b, token |-> "USER", position |-> pointer[b]] \notin spent

LedgerInv == RowsInv /\ ShadowsInv /\ SpentInv /\ PointerInv

IInv == LedgerType /\ CallType /\ NetworkType /\ CallsInv /\ FlightInv /\ LedgerInv

-----------------------------------------------------------------------------

LEMMA FixedIsApart ==
    /\ Fresh \subseteq Positions /\ Positions \subseteq Fresh \cup {Fixed}
    /\ Fixed \in Positions /\ Fixed \notin Fresh /\ None \notin Positions
  BY NoneAssumption DEF Fresh, Positions

LEMMA FreshIsApart ==
  ASSUME NEW p \in Fresh
  PROVE  p \in Positions /\ p # Fixed /\ p # None /\ (Happened(verdict, p.of) => Used(verdict, p))
  BY FixedIsApart DEF Used

LEMMA InitIInv == Init => IInv
<1> SUFFICES ASSUME Init PROVE IInv
  OBVIOUS
<1>1. PICK old \in SUBSET {BundleOf[c] : c \in Clients} :
        /\ pointer = [b \in Bundles |->
                        IF b \in old THEN [of |-> 0, as |-> "next"] ELSE None]
        /\ rows = [owner : old, buffer : {FALSE}, position : {[of |-> 0, as |-> "new"]},
                   balance : {4}]
                \cup [owner : old, buffer : {TRUE},
                      position : {[of |-> 0, as |-> "next"]}, balance : {2}]
        /\ shadows = [owner : old, batch : {0}, amount : {1}]
        /\ spent = [owner : old, token : {"USER"}, position : {Fixed}]
  BY DEF Init
<1>2. old \subseteq Bundles /\ 0 \in 0..MaxMolecules
  BY BundleOfAssumption, MaxMoleculesAssumption
<1> DEFINE New == [of |-> 0, as |-> "new"]
          Next0 == [of |-> 0, as |-> "next"]
<1>a. /\ New \in Fresh /\ Next0 \in Fresh /\ New # Next0
      /\ Happened(verdict, New.of) /\ Happened(verdict, Next0.of)
  <2>1. New \in Fresh /\ Next0 \in Fresh
    BY <1>2 DEF Fresh
  <2>2. New.as # Next0.as /\ New.of = 0 /\ Next0.of = 0
    OBVIOUS
  <2> HIDE DEF New, Next0
  <2> QED
    BY <2>1, <2>2 DEF Happened
<1> HIDE DEF New, Next0
<1>b. /\ New \in Positions /\ New # Fixed /\ New # None /\ Used(verdict, New)
      /\ Next0 \in Positions /\ Next0 # Fixed /\ Next0 # None /\ Used(verdict, Next0)
  BY <1>a, FreshIsApart
<1>c. /\ pointer = [b \in Bundles |-> IF b \in old THEN Next0 ELSE None]
      /\ rows = [owner : old, buffer : {FALSE}, position : {New}, balance : {4}]
                \cup [owner : old, buffer : {TRUE}, position : {Next0}, balance : {2}]
  BY <1>1 DEF New, Next0
<1>3. LedgerType
  <2>1. pointer \in [Bundles -> Positions \cup {None}]
    BY <1>c, <1>b
  <2>2. ASSUME NEW r \in rows PROVE r \in Rows
    <3>1. CASE r \in [owner : old, buffer : {FALSE}, position : {New}, balance : {4}]
      <4>1. r \in [owner : old, buffer : BOOLEAN, position : {New}, balance : {4}]
        BY <3>1, Zenon
      <4> QED
        BY <4>1, <1>2, <1>b DEF Rows
    <3>2. CASE r \in [owner : old, buffer : {TRUE}, position : {Next0}, balance : {2}]
      <4>1. r \in [owner : old, buffer : BOOLEAN, position : {Next0}, balance : {2}]
        BY <3>2, Zenon
      <4> QED
        BY <4>1, <1>2, <1>b DEF Rows
    <3> QED
      BY <1>c, <3>1, <3>2
  <2>3. ASSUME NEW s \in shadows PROVE s \in Shadows
    BY <1>1, <1>2 DEF Shadows
  <2>4. ASSUME NEW k \in spent PROVE k \in Keys
    BY <1>1, <1>2 DEF Keys, Positions
  <2> QED
    BY <2>1, <2>2, <2>3, <2>4 DEF LedgerType
<1>4. CallType /\ NetworkType /\ CallsInv /\ FlightInv
  <2>1. CallType
    BY DEF Init, Idle, CallType, Results
  <2>2. NetworkType
    BY MaxMoleculesAssumption DEF Init, NetworkType, Verdicts
  <2>3. CallsInv
    BY DEF Init, Idle, CallsInv
  <2>4. FlightInv
    BY DEF Init, FlightInv
  <2> QED
    BY <2>1, <2>2, <2>3, <2>4
<1>d. ASSUME NEW r \in rows
      PROVE  \/ r = [owner |-> r.owner, buffer |-> FALSE, position |-> New, balance |-> 4]
             \/ r = [owner |-> r.owner, buffer |-> TRUE, position |-> Next0, balance |-> 2]
  BY <1>c
<1>e. ASSUME NEW k \in spent PROVE k.token = "USER" /\ k.position = Fixed /\ k.owner \in old
  BY <1>1
<1>6. RowsInv
  <2>1. ASSUME NEW r \in rows PROVE Used(verdict, r.position) /\ RowKey(r) \notin spent
    <3>1. r.position \in {New, Next0}
      BY <1>d
    <3>2. RowKey(r).token = "token"
      BY DEF RowKey
    <3> QED
      BY <3>1, <3>2, <1>b, <1>e
  <2>2. ASSUME NEW r \in rows, NEW q \in rows, r.owner = q.owner, r.position = q.position
        PROVE  r = q
    <3>1. CASE r.position = New
      <4>1. r = [owner |-> r.owner, buffer |-> FALSE, position |-> New, balance |-> 4]
        BY <3>1, <1>d, <1>a
      <4>2. q = [owner |-> q.owner, buffer |-> FALSE, position |-> New, balance |-> 4]
        BY <3>1, <2>2, <1>d, <1>a
      <4> QED
        BY <4>1, <4>2, <2>2
    <3>2. CASE r.position # New
      <4>1. r = [owner |-> r.owner, buffer |-> TRUE, position |-> Next0, balance |-> 2]
        BY <3>2, <1>d, <1>a
      <4>2. q = [owner |-> q.owner, buffer |-> TRUE, position |-> Next0, balance |-> 2]
        BY <3>2, <2>2, <1>d, <1>a
      <4> QED
        BY <4>1, <4>2, <2>2
    <3> QED
      BY <3>1, <3>2
  <2> QED
    BY <2>1, <2>2 DEF RowsInv
<1>7. ShadowsInv
  <2>1. ASSUME NEW s \in shadows PROVE s = [owner |-> s.owner, batch |-> 0, amount |-> 1]
    BY <1>1
  <2> QED
    <3>1. \A s \in shadows : s.batch = 0
      BY <2>1
    <3>2. \A s, u \in shadows : s.owner = u.owner => s = u
      BY <2>1
    <3> QED
      BY <3>1, <3>2 DEF ShadowsInv, Happened
<1>8. SpentInv /\ PointerInv
  <2>1. SpentInv
    BY <1>e DEF SpentInv, Used
  <2>2. ASSUME NEW b \in Bundles, pointer[b] = None, NEW k \in spent, k.owner = b PROVE k.token = "token"
    BY <2>2, <1>c, <1>b, <1>e
  <2>3. ASSUME NEW b \in Bundles, pointer[b] # None
        PROVE  /\ Used(verdict, pointer[b])
               /\ [owner |-> b, token |-> "USER", position |-> pointer[b]] \notin spent
    <3>1. pointer[b] = Next0
      BY <2>3, <1>c
    <3>2. [owner |-> b, token |-> "USER", position |-> Next0].position = Next0
      OBVIOUS
    <3> QED
      BY <3>1, <3>2, <1>b, <1>e
  <2> QED
    BY <2>1, <2>2, <2>3 DEF PointerInv
<1> QED
  BY <1>3, <1>4, <1>6, <1>7, <1>8 DEF IInv, LedgerInv

LEMMA InvImplies == IInv => TypeOK /\ KeysSignOnce
<1> SUFFICES ASSUME IInv PROVE TypeOK /\ KeysSignOnce
  OBVIOUS
<1>1. ASSUME NEW c \in Clients, call[c] # None, call[c].step = "propose", call[c].op \in FundedOps
      PROVE  Cardinality(call[c].source) = 1 /\ ~call[c].stale
  <2>1. CallOK(verdict, c, call[c])
    BY <1>1 DEF IInv, CallsInv
  <2>2. PICK r : call[c].source = {r}
    BY <1>1, <2>1 DEF CallOK
  <2> QED
    BY <1>1, <2>1, <2>2, FS_Singleton DEF CallOK
<1>2. TypeOK
  BY <1>1 DEF IInv, TypeOK, LedgerType, CallType, NetworkType, Results, Verdicts
<1>3. NothingBehindSpentKey
  BY DEF IInv, LedgerInv, RowsInv, NothingBehindSpentKey
<1>4. ASSUME NEW c \in Clients, At(c, "propose"), call[c].stale
      PROVE  call[c].asked = "failed" /\ call[c].op \in UserOps
  <2>1. call[c] # None /\ call[c].step = "propose" /\ CallOK(verdict, c, call[c])
    BY <1>4 DEF At, IInv, CallsInv
  <2>2. call[c] \in Calls
    BY <2>1 DEF IInv, CallType
  <2>3. call[c].op \in UserOps
    BY <1>1, <1>4, <2>1, <2>2 DEF Calls
  <2> QED
    BY <1>4, <2>1, <2>3 DEF CallOK
<1> QED
  BY <1>2, <1>3, <1>4 DEF KeysSignOnce, SignerWasUnspent

-----------------------------------------------------------------------------
(* What has happened stays so. *)

Later(v, w) == \A id \in 1..MaxMolecules : v[id] = "accepted" => w[id] = "accepted"

LEMMA UsedStays ==
  ASSUME NEW v, NEW w, Later(v, w), NEW p, Used(v, p)
  PROVE  Used(w, p)
  BY DEF Later, Used, Happened

LEMMA CallStays ==
  ASSUME NEW v, NEW w, Later(v, w), NEW c, NEW k, CallOK(v, c, k)
  PROVE  CallOK(w, c, k)
  BY UsedStays DEF CallOK

LEMMA MoleculeStays ==
  ASSUME NEW v, NEW w, Later(v, w), NEW m, MoleculeOK(v, m)
  PROVE  MoleculeOK(w, m)
  BY UsedStays DEF MoleculeOK

-----------------------------------------------------------------------------
(* Steps of a call that leave ledger and network alone. *)

LEMMA OneCall ==
  ASSUME IInv, UNCHANGED <<ledger, network>>, NEW c \in Clients,
         NEW k \in Calls \cup {None}, k # None => CallOK(verdict, c, k),
         call' = [call EXCEPT ![c] = k],
         result' \in [Clients -> Results], outcome' \in [Clients -> Results]
  PROVE  IInv'
<1>1. LedgerType' /\ NetworkType' /\ FlightInv' /\ LedgerInv' /\ verdict' = verdict
  BY DEF IInv, ledger, network, LedgerType, NetworkType, FlightInv, LedgerInv, RowsInv, ShadowsInv,
         SpentInv, PointerInv
<1>2. CallType'
  BY DEF IInv, CallType
<1>3. CallsInv'
  BY <1>1 DEF IInv, CallType, CallsInv
<1> QED
  BY <1>1, <1>2, <1>3 DEF IInv

\* Another claim of the same call.
Again(k, b, ok) == [k EXCEPT !.step = "user", !.batch = b, !.todo = @ \ {b}, !.ok = ok]

LEMMA FinishStep ==
  ASSUME IInv, UNCHANGED <<ledger, network>>, NEW c \in Clients, call[c] # None,
         NEW res \in {"SUCCESS", "ERROR"}, Finish(c, res),
         outcome' \in [Clients -> Results]
  PROVE  IInv'
<1> DEFINE k == call[c]
           ok == k.ok /\ res = "SUCCESS"
<1>1. k \in Calls /\ CallOK(verdict, c, k) /\ ok \in BOOLEAN
  BY DEF IInv, CallType, CallsInv, Calls
<1>2. result' \in [Clients -> Results]
  BY DEF IInv, CallType, Finish, Results
<1>3. CASE k.todo = {}
  <2>1. call' = [call EXCEPT ![c] = None]
    BY <1>3 DEF Finish
  <2> QED
    BY <1>2, <2>1, OneCall
<1>4. CASE k.todo # {}
  <2>1. PICK b \in k.todo : call' = [call EXCEPT ![c] = Again(k, b, ok)]
    BY <1>4 DEF Finish, Again
  <2>2. b \in 0..MaxMolecules /\ b # None /\ k.op = "claim" /\ "claim" \in UserOps
    BY <1>1, <1>4, NoneAssumption DEF Calls, CallOK, UserOps
  <2> HIDE DEF k, ok
  <2>3. Again(k, b, ok) \in Calls
    BY <1>1, <2>2 DEF Calls, Again
  <2>4. CallOK(verdict, c, Again(k, b, ok))
    BY <1>1, <2>2 DEF CallOK, Again, Calls
  <2> QED
    BY <1>2, <2>1, <2>3, <2>4, OneCall DEF k
<1> QED
  BY <1>3, <1>4

LEMMA BeginStep ==
  ASSUME IInv, NEW c \in Clients, NEW op \in FundedOps \cup UserOps, NEW to \in Bundles,
         NEW all \in BOOLEAN, NEW n \in Amounts, Begin(c, op, to, n, all)
  PROVE  IInv'
<1> DEFINE k == [op |-> op, to |-> to, amount |-> n, all |-> all, ok |-> TRUE,
                 step |-> CASE op = "claim" -> "list" [] op \in FundedOps -> "balance" [] OTHER -> "user",
                 batch |-> None, todo |-> {}, listed |-> {},
                 user |-> None, asked |-> "none", source |-> {}, stale |-> FALSE, sent |-> 0]
<1>1. call' = [call EXCEPT ![c] = k] /\ UNCHANGED <<ledger, network>>
  BY DEF Begin
<1>2. /\ k.op = op /\ k.batch = None /\ k.todo = {} /\ k.user = None /\ k.stale = FALSE
      /\ k.step = CASE op = "claim" -> "list" [] op \in FundedOps -> "balance" [] OTHER -> "user"
  OBVIOUS
<1>3. k \in Calls
  <2>1. k.step \in {"list", "user", "balance", "propose", "sent"}
    BY <1>2
  <2> QED
    BY <2>1, MaxMoleculesAssumption DEF Calls
<1>4. result' \in [Clients -> Results] /\ outcome' \in [Clients -> Results]
  BY DEF IInv, CallType, Begin, Results
<1>5. CallOK(verdict, c, k)
  <2> HIDE DEF k
  <2>1. /\ op = "claim" => k.step = "list" /\ op \in UserOps
        /\ op # "claim" /\ op \in FundedOps => k.step = "balance"
        /\ op # "claim" /\ op \notin FundedOps => k.step = "user" /\ op \in UserOps
    BY <1>2 DEF UserOps, FundedOps
  <2>2. op \in FundedOps => op \notin UserOps
    BY DEF UserOps, FundedOps
  <2> QED
    BY <1>2, <2>1, <2>2 DEF CallOK
<1> HIDE DEF k
<1> QED
  BY <1>1, <1>3, <1>4, <1>5, OneCall

LEMMA EndsStep ==
  ASSUME IInv, UNCHANGED <<ledger, network>>, NEW c \in Clients,
         NEW res \in {"SUCCESS", "ERROR"}, Ends(c, res), UNCHANGED outcome
  PROVE  IInv'
<1>1. /\ result' \in [Clients -> Results] /\ outcome' \in [Clients -> Results]
      /\ call' = [call EXCEPT ![c] = None]
  BY DEF IInv, CallType, Ends, Results
<1> QED
  BY <1>1, OneCall

LEMMA ListShadowsStep ==
  ASSUME IInv, NEW c \in Clients, ListShadows(c)
  PROVE  IInv'
<1> DEFINE mine == {s.batch : s \in {s \in shadows : s.owner = Own(c)}}
           k == call[c]
<1>1. k # None /\ k.step = "list" /\ k \in Calls /\ CallOK(verdict, c, k)
  BY DEF ListShadows, At, IInv, CallType, CallsInv
<1>2. mine \subseteq 0..MaxMolecules
  BY DEF IInv, LedgerType, Shadows
<1>3. UNCHANGED <<ledger, network>> /\ UNCHANGED outcome
  BY DEF ListShadows
<1>4. CASE mine = {}
  <2>1. Ends(c, IF k.all THEN "SUCCESS" ELSE "ERROR")
    BY <1>4 DEF ListShadows
  <2> QED
    BY <1>3, <2>1, EndsStep
<1>5. CASE mine # {}
  <2>1. PICK b \in mine :
            call' = [call EXCEPT ![c].step = "user", ![c].batch = b,
                        ![c].listed = IF k.all THEN mine ELSE {b},
                        ![c].todo = IF k.all THEN mine \ {b} ELSE {}]
    BY <1>5 DEF ListShadows
  <2> DEFINE next == [k EXCEPT !.step = "user", !.batch = b,
                        !.listed = IF k.all THEN mine ELSE {b},
                        !.todo = IF k.all THEN mine \ {b} ELSE {}]
  <2>2. call' = [call EXCEPT ![c] = next]
    BY <2>1 DEF IInv, CallType
  <2>3. b \in 0..MaxMolecules /\ b # None /\ k.op = "claim" /\ "claim" \in UserOps
    BY <1>1, <1>2, NoneAssumption DEF CallOK, UserOps
  <2> HIDE DEF k, mine
  <2>4. next \in Calls
    BY <1>1, <1>2, <2>3 DEF Calls
  <2>5. CallOK(verdict, c, next)
    BY <1>1, <2>3 DEF CallOK, Calls
  <2>6. result' \in [Clients -> Results] /\ outcome' \in [Clients -> Results]
    BY <1>5 DEF mine, ListShadows, IInv, CallType
  <2> HIDE DEF next
  <2> QED
    BY <1>3, <2>2, <2>4, <2>5, <2>6, OneCall
<1> QED
  BY <1>4, <1>5

LEMMA AskContinuIdStep ==
  ASSUME IInv, NEW c \in Clients, AskContinuId(c)
  PROVE  IInv'
<1> DEFINE k == call[c]
<1>1. k # None /\ k.step = "user" /\ k \in Calls /\ CallOK(verdict, c, k)
  BY DEF AskContinuId, At, IInv, CallType, CallsInv
<1>2. UNCHANGED <<ledger, network>> /\ UNCHANGED <<outcome, result>>
  BY DEF AskContinuId
<1>3. PICK asked \in {IF pointer[Own(c)] = None THEN "genesis" ELSE "found", "failed"} :
        call' = [call EXCEPT ![c].user = SigningPosition(c, asked), ![c].asked = asked,
                ![c].stale = UserKey(c, SigningPosition(c, asked)) \in spent,
                ![c].step = IF k.op = "replenish" THEN "balance" ELSE "propose"]
  BY DEF AskContinuId
<1> DEFINE position == SigningPosition(c, asked)
           stale == UserKey(c, position) \in spent
           next == [k EXCEPT !.user = position, !.asked = asked, !.stale = stale,
                             !.step = IF k.op = "replenish" THEN "balance" ELSE "propose"]
<1>4. call' = [call EXCEPT ![c] = next]
  BY <1>3 DEF IInv, CallType
<1>5. Own(c) \in Bundles
  BY BundleOfAssumption DEF Own
<1>6. position \in Positions /\ position # None /\ Used(verdict, position)
      /\ (stale => asked = "failed")
  <2>1. CASE asked = "found"
    <3>1. pointer[Own(c)] # None /\ position = pointer[Own(c)]
      BY <1>3, <2>1 DEF SigningPosition
    <3> QED
      BY <1>5, <3>1 DEF IInv, LedgerInv, LedgerType, PointerInv, UserKey
  <2>2. CASE asked # "found"
    <3>1. position = Fixed /\ Used(verdict, Fixed) /\ Fixed \in Positions /\ Fixed # None
      BY <2>2, FixedIsApart DEF SigningPosition, Used
    <3>2. CASE asked = "genesis"
      <4>1. pointer[Own(c)] = None
        BY <1>3, <3>2
      <4>2. UserKey(c, position).owner = Own(c) /\ UserKey(c, position).token = "USER"
        BY DEF UserKey
      <4> QED
        BY <1>5, <3>1, <4>1, <4>2 DEF IInv, LedgerInv, PointerInv
    <3> QED
      BY <1>3, <2>2, <3>1, <3>2
  <2> QED
    BY <2>1, <2>2
<1>7. asked \in {"genesis", "found", "failed"} /\ stale \in BOOLEAN
  BY <1>3
<1> HIDE DEF position, stale, k
<1>8. next \in Calls
  BY <1>1, <1>6, <1>7 DEF Calls
<1>9. CallOK(verdict, c, next)
  BY <1>1, <1>6, <1>7 DEF CallOK, Calls, FundedOps, UserOps
<1>10. result' \in [Clients -> Results] /\ outcome' \in [Clients -> Results]
  BY <1>2 DEF IInv, CallType
<1> HIDE DEF next
<1> QED
  BY <1>2, <1>4, <1>8, <1>9, <1>10, OneCall

LEMMA AskBalanceStep ==
  ASSUME IInv, NEW c \in Clients, AskBalance(c)
  PROVE  IInv'
<1> DEFINE k == call[c]
<1>1. k # None /\ k.step = "balance" /\ k \in Calls /\ CallOK(verdict, c, k)
  BY DEF AskBalance, At, IInv, CallType, CallsInv
<1>2. UNCHANGED <<ledger, network>> /\ UNCHANGED outcome
  BY DEF AskBalance
<1>3. outcome' \in [Clients -> Results]
  BY <1>2 DEF IInv, CallType
<1>4. ASSUME NEW r \in Answered(c)
      PROVE  r \in rows /\ r \in Rows /\ r.owner = Own(c) /\ Used(verdict, r.position)
             /\ RowKey(r) \notin spent
  BY DEF Answered, IInv, LedgerType, LedgerInv, RowsInv
<1>5. CASE k.op = "replenish" /\ UNCHANGED result
           /\ \E found \in {{}} \cup {{r} : r \in Answered(c)} :
                call' = [call EXCEPT ![c].step = "propose", ![c].source = found]
  <2>1. PICK found \in {{}} \cup {{r} : r \in Answered(c)} :
                call' = [call EXCEPT ![c].step = "propose", ![c].source = found]
    BY <1>5
  <2> DEFINE next == [k EXCEPT !.step = "propose", !.source = found]
  <2>2. call' = [call EXCEPT ![c] = next]
    BY <2>1 DEF IInv, CallType
  <2>3. found \in SUBSET Rows
    BY <1>4
  <2>4. result' \in [Clients -> Results]
    BY <1>5 DEF IInv, CallType
  <2>5. k.op = "replenish" /\ "replenish" \in UserOps /\ "replenish" \notin FundedOps
    BY <1>5 DEF UserOps, FundedOps
  <2> HIDE DEF k
  <2>6. next \in Calls
    BY <1>1, <2>3 DEF Calls
  <2>7. CallOK(verdict, c, next)
    BY <1>1, <2>5 DEF CallOK, Calls
  <2> HIDE DEF next
  <2> QED
    BY <1>2, <1>3, <2>2, <2>4, <2>6, <2>7, OneCall
<1>6. CASE k.op \in FundedOps /\ UNCHANGED result
           /\ \E r \in Answered(c) : Suffices(k, r) /\
                call' = [call EXCEPT ![c].step = "propose", ![c].source = {r},
                                     ![c].stale = RowKey(r) \in spent]
  <2>1. PICK r \in Answered(c) : Suffices(k, r) /\
                call' = [call EXCEPT ![c].step = "propose", ![c].source = {r},
                                     ![c].stale = RowKey(r) \in spent]
    BY <1>6
  <2> DEFINE next == [k EXCEPT !.step = "propose", !.source = {r}, !.stale = FALSE]
  <2>2. call' = [call EXCEPT ![c] = next]
    <3>1. (RowKey(r) \in spent) = FALSE
      BY <1>4
    <3> QED
      BY <2>1, <3>1 DEF IInv, CallType
  <2>3. result' \in [Clients -> Results]
    BY <1>6 DEF IInv, CallType
  <2>4. k.op \in FundedOps /\ k.op \notin UserOps /\ k.op # "claim"
    BY <1>6 DEF UserOps, FundedOps
  <2>5. r \in Rows /\ r.owner = Own(c) /\ Used(verdict, r.position) /\ r.balance >= Needs(k)
    BY <1>4, <2>1 DEF Suffices
  <2> HIDE DEF k
  <2>6. next \in Calls
    BY <1>1, <2>5 DEF Calls
  <2>7. Needs(next) = Needs(k)
    BY <1>1 DEF Needs, Calls
  <2>8. CallOK(verdict, c, next)
    <3>1. /\ next.step = "propose" /\ next.op = k.op /\ next.todo = k.todo /\ next.user = k.user
          /\ next.source = {r} /\ next.stale = FALSE
      BY <1>1 DEF Calls
    <3> HIDE DEF next
    <3> QED
      BY <1>1, <2>4, <2>5, <2>7, <3>1 DEF CallOK
  <2> HIDE DEF next
  <2> QED
    BY <1>2, <1>3, <2>2, <2>3, <2>6, <2>8, OneCall
<1>7. CASE Finish(c, "ERROR")
  BY <1>1, <1>2, <1>3, <1>7, FinishStep
<1> QED
  BY <1>5, <1>6, <1>7 DEF AskBalance

LEMMA FailsStep ==
  ASSUME IInv, NEW c \in Clients, Fails(c)
  PROVE  IInv'
<1>1. UNCHANGED <<ledger, network>> /\ UNCHANGED outcome /\ outcome' \in [Clients -> Results]
  BY DEF Fails, IInv, CallType
<1>2. call[c] # None /\ (Ends(c, "ERROR") \/ Finish(c, "ERROR"))
  BY DEF Fails, At
<1> QED
  BY <1>1, <1>2, EndsStep, FinishStep

LEMMA ReportsStep ==
  ASSUME IInv, NEW c \in Clients, Succeeds(c) \/ NotConfirmed(c)
  PROVE  IInv'
<1>1. PICK res \in {"SUCCESS", "ERROR"} : call[c] # None /\ Reports(c, res)
  BY DEF Succeeds, NotConfirmed, At
<1>2. UNCHANGED <<ledger, network>> /\ Finish(c, res) /\ outcome' \in [Clients -> Results]
  BY <1>1 DEF Reports, IInv, CallType, Results
<1> QED
  BY <1>1, <1>2, FinishStep

-----------------------------------------------------------------------------
(* Molecules. *)

\* What a molecule leaves behind it is at positions of its own, one wallet at each.
GivesOK(id, by, gives) ==
    /\ gives \subseteq Rows
    /\ \A r \in gives : r.owner = by /\ r.position \in Fresh /\ r.position.of = id
    /\ \A r, q \in gives : r.position = q.position => r = q

OwesOK(id, owes) ==
    /\ owes \subseteq Shadows
    /\ \A s \in owes : s.batch = id
    /\ \A s, t \in owes : s.owner = t.owner => s = t

MoleculeOf(id, k, by, signer, debits, gives, owes, credits, claims) ==
    [id |-> id, by |-> by, op |-> k.op, to |-> k.to, amount |-> k.amount, signer |-> signer,
     debits |-> debits, gives |-> gives, owes |-> owes, credits |-> credits, claims |-> claims]

Sound(v, id, m) == m \in Molecules /\ m.id = id /\ MoleculeOK(v, m)

LEMMA SpendingIsOK ==
  ASSUME NEW v, NEW id \in 1..MaxMolecules, NEW k \in Calls, k.op \in FundedOps,
         NEW by \in Bundles, NEW r \in Rows, Used(v, r.position),
         NEW gives, GivesOK(id, by, gives), NEW owes, OwesOK(id, owes)
  PROVE  Sound(v, id, MoleculeOf(id, k, by, RowKey(r), {r}, gives, owes, {}, {}))
<1> DEFINE m == MoleculeOf(id, k, by, RowKey(r), {r}, gives, owes, {}, {})
<1>1. /\ m.id = id /\ m.by = by /\ m.op = k.op /\ m.signer = RowKey(r) /\ m.debits = {r}
      /\ m.gives = gives /\ m.owes = owes /\ m.claims = {}
  BY DEF MoleculeOf
<1>2. RowKey(r) \in Keys /\ RowKey(r).token = "token" /\ RowKey(r).position = r.position
  BY DEF RowKey, Keys, Rows
<1>3. k.op \notin UserOps /\ k.to \in Bundles /\ k.amount \in Nat
  BY AmountsAssumption DEF UserOps, FundedOps, Calls
<1>4. m \in Molecules
  BY <1>2, <1>3 DEF Molecules, MoleculeOf, GivesOK, OwesOK
<1> HIDE DEF m
<1>5. MoleculeOK(v, m)
  BY <1>1, <1>2, <1>3 DEF MoleculeOK, GivesOK, OwesOK
<1> QED
  BY <1>1, <1>4, <1>5 DEF m, Sound

LEMMA UserIsOK ==
  ASSUME NEW v, NEW id \in 1..MaxMolecules, NEW k \in Calls, k.op \in UserOps,
         NEW by \in Bundles, NEW signer \in Keys, signer.owner = by, signer.token = "USER",
         Used(v, signer.position),
         NEW gives, GivesOK(id, by, gives), NEW credits \in SUBSET Positions,
         NEW claims \in SUBSET (0..MaxMolecules), claims # {} => gives = {},
         \A a, b \in claims : a = b
  PROVE  Sound(v, id, MoleculeOf(id, k, by, signer, {}, gives, {}, credits, claims))
<1> DEFINE m == MoleculeOf(id, k, by, signer, {}, gives, {}, credits, claims)
<1>1. /\ m.id = id /\ m.by = by /\ m.op = k.op /\ m.signer = signer /\ m.debits = {}
      /\ m.gives = gives /\ m.owes = {} /\ m.claims = claims
  BY DEF MoleculeOf
<1>2. k.op \notin FundedOps /\ k.to \in Bundles /\ k.amount \in Nat
  BY AmountsAssumption DEF UserOps, FundedOps, Calls
<1>3. m \in Molecules
  BY <1>2 DEF Molecules, MoleculeOf, GivesOK
<1> HIDE DEF m
<1>4. MoleculeOK(v, m)
  BY <1>1, <1>2 DEF MoleculeOK, GivesOK
<1> QED
  BY <1>1, <1>3, <1>4 DEF m, Sound

RowOK(id, c, as, r) ==
    /\ r \in Rows /\ r.owner = Own(c)
    /\ r.position \in Fresh /\ r.position.of = id /\ r.position.as = as

LEMMA RowIsOK ==
  ASSUME NEW id \in 1..MaxMolecules, NEW c \in Clients, NEW buffer \in BOOLEAN,
         NEW as \in {"next", "new"}, NEW n \in Nat
  PROVE  RowOK(id, c, as, Row(c, buffer, [of |-> id, as |-> as], n))
<1> DEFINE p == [of |-> id, as |-> as]
<1>1. p \in Fresh /\ p.of = id /\ p.as = as
  <2>1. id \in 0..MaxMolecules
    BY MaxMoleculesAssumption
  <2> QED
    BY <2>1 DEF Fresh
<1>2. p \in Positions /\ Own(c) \in Bundles
  BY <1>1, FreshIsApart, BundleOfAssumption DEF Own
<1> HIDE DEF p
<1>3. Row(c, buffer, p, n) \in Rows
  BY <1>2 DEF Row, Rows
<1>4. Row(c, buffer, p, n).owner = Own(c) /\ Row(c, buffer, p, n).position = p
  BY DEF Row
<1> QED
  BY <1>1, <1>3, <1>4 DEF p, RowOK

LEMMA GivesOne ==
  ASSUME NEW id, NEW c, NEW as, NEW r, RowOK(id, c, as, r)
  PROVE  GivesOK(id, Own(c), {r})
  BY DEF GivesOK, RowOK

LEMMA GivesTwo ==
  ASSUME NEW id, NEW c, NEW r, RowOK(id, c, "next", r), NEW q, RowOK(id, c, "new", q)
  PROVE  GivesOK(id, Own(c), {r} \cup {q})
  BY DEF GivesOK, RowOK

LEMMA NewRowIsOK ==
  ASSUME NEW id \in 1..MaxMolecules, NEW c \in Clients, NEW buffer \in BOOLEAN, NEW n \in Nat
  PROVE  RowOK(id, c, "new", NewRow(c, id, buffer, n))
<1>1. "new" \in {"next", "new"}
  OBVIOUS
<1> QED
  BY <1>1, RowIsOK, Zenon DEF NewRow, NewPosition

LEMMA NeedsType ==
  ASSUME NEW k, k.amount \in Nat
  PROVE  Needs(k) \in Nat
<1>1. Cardinality(Bundles) \in Nat
  BY BundlesAssumption, FS_CardinalityType
<1>2. k.amount * Cardinality(Bundles) \in Nat
  BY <1>1
<1> QED
  BY <1>2 DEF Needs

\* What a molecule is made of: its own wallets, what a spending one leaves of its
\* source, and what it gives and owes for a call, or a molecule, k.
Made(id, by, buffer, n) ==
    [owner |-> by, buffer |-> buffer, position |-> NewPosition(id), balance |-> n]

Remainder(id, k, by, r) ==
    [owner |-> by, buffer |-> r.buffer, position |-> [of |-> id, as |-> "next"],
     balance |-> r.balance - Needs(k)]

SpendingGives(id, k, by, r) ==
    {Remainder(id, k, by, r)} \cup
        (IF k.op = "deposit" THEN {Made(id, by, TRUE, k.amount)}
         ELSE IF k.op = "fuse" /\ k.to = by THEN {Made(id, by, FALSE, 1)} ELSE {})

Owes(id, k, by) ==
    IF k.op \in {"transfer", "withdraw"} THEN {Shadow(k.to, id, k.amount)}
    ELSE IF k.op = "transfer_multi" THEN {Shadow(b, id, k.amount) : b \in Bundles}
    ELSE IF k.op = "fuse" /\ k.to # by THEN {Shadow(k.to, id, 1)} ELSE {}

UserGives(id, k, by) ==
    IF k.op = "create_wallet" THEN {Made(id, by, FALSE, 0)}
    ELSE IF k.op = "create_token" \/ (k.op = "replenish" /\ k.source = {})
         THEN {Made(id, by, FALSE, k.amount)} ELSE {}

Credits(k) == IF k.op = "replenish" THEN {r.position : r \in k.source} ELSE {}
Claims(k) == IF k.op = "claim" THEN {k.batch} ELSE {}

LEMMA BuildSpends ==
  ASSUME NEW c, NEW id, call[c].op \in FundedOps, NEW r, call[c].source = {r}
  PROVE  Build(c, id) = MoleculeOf(id, call[c], Own(c), RowKey(r), {r},
                SpendingGives(id, call[c], Own(c), r), Owes(id, call[c], Own(c)), {}, {})
<1> DEFINE k == call[c]
           rest == Remainder(id, k, Own(c), r)
           Spending(gives, owes) ==
                MoleculeOf(id, k, Own(c), RowKey(r), {r}, gives, owes, {}, {})
<1>1. SpendingMolecule(c, id) = Spending({rest}, {})
  <2>1. (CHOOSE x \in k.source : TRUE) = r
    OBVIOUS
  <2>2. SpendingMolecule(c, id) = [UserMolecule(c, id) EXCEPT
                !.signer = RowKey(r), !.debits = {r}, !.gives = {rest}]
    BY <2>1, Zenon DEF SpendingMolecule, RemainderPosition, Remainder, Row
  <2> HIDE DEF rest
  <2> QED
    BY <2>2 DEF UserMolecule, MoleculeOf
<1> DEFINE gives == SpendingGives(id, k, Own(c), r)
           owes == Owes(id, k, Own(c))
<1> SUFFICES Build(c, id) = Spending(gives, owes)
  OBVIOUS
<1>2. \A n, buffer : NewRow(c, id, buffer, n) = Made(id, Own(c), buffer, n)
  BY Zenon DEF NewRow, Made, Row
<1>3. CASE k.op \in {"transfer", "withdraw"}
  <2>1. Build(c, id) = [Spending({rest}, {}) EXCEPT !.owes = {Shadow(k.to, id, k.amount)}]
    BY <1>1, <1>3 DEF Build, TransferTokens, WithdrawBufferToken
  <2>2. gives = {rest} /\ owes = {Shadow(k.to, id, k.amount)}
    BY <1>3 DEF SpendingGives, Owes
  <2> HIDE DEF rest, k
  <2> QED
    BY <2>1, <2>2 DEF MoleculeOf
<1>4. CASE k.op = "transfer_multi"
  <2>1. Build(c, id) = TransferTokensMulti(c, id)
    BY <1>4 DEF Build
  <2>2. TransferTokensMulti(c, id) =
            [Spending({rest}, {}) EXCEPT !.owes = {Shadow(b, id, k.amount) : b \in Bundles}]
    BY <1>1, Zenon DEF TransferTokensMulti
  <2>3. gives = {rest} /\ owes = {Shadow(b, id, k.amount) : b \in Bundles}
    BY <1>4 DEF SpendingGives, Owes
  <2> HIDE DEF rest, k
  <2> QED
    BY <2>1, <2>2, <2>3 DEF MoleculeOf
<1>5. CASE k.op = "burn"
  <2>1. Build(c, id) = Spending({rest}, {})
    BY <1>1, <1>5 DEF Build, BurnTokens
  <2>2. gives = {rest} /\ owes = {}
    BY <1>5 DEF SpendingGives, Owes
  <2> QED
    BY <2>1, <2>2
<1>6. CASE k.op = "deposit"
  <2> DEFINE one == Made(id, Own(c), TRUE, k.amount)
  <2>1. Build(c, id) = DepositBufferToken(c, id)
    BY <1>6 DEF Build
  <2>2. DepositBufferToken(c, id) = [Spending({rest}, {}) EXCEPT !.gives = @ \cup {one}]
    BY <1>1, <1>2, Zenon DEF DepositBufferToken
  <2>3. gives = {rest} \cup {one} /\ owes = {}
    BY <1>6 DEF SpendingGives, Owes
  <2> HIDE DEF one, rest, k
  <2> QED
    BY <2>1, <2>2, <2>3 DEF MoleculeOf
<1>7. CASE k.op = "fuse"
  <2>1. Build(c, id) = FuseToken(c, id)
    BY <1>7 DEF Build
  <2>2. CASE k.to = Own(c)
    <3> DEFINE one == Made(id, Own(c), FALSE, 1)
    <3>1. FuseToken(c, id) = [Spending({rest}, {}) EXCEPT !.gives = @ \cup {one}]
      BY <1>1, <1>2, <2>2, Zenon DEF FuseToken
    <3>2. gives = {rest} \cup {one} /\ owes = {}
      BY <1>7, <2>2 DEF SpendingGives, Owes
    <3> HIDE DEF one, rest, k
    <3> QED
      BY <2>1, <3>1, <3>2 DEF MoleculeOf
  <2>3. CASE k.to # Own(c)
    <3>1. FuseToken(c, id) = [Spending({rest}, {}) EXCEPT !.owes = {Shadow(k.to, id, 1)}]
      BY <1>1, <2>3, Zenon DEF FuseToken
    <3>2. gives = {rest} /\ owes = {Shadow(k.to, id, 1)}
      BY <1>7, <2>3 DEF SpendingGives, Owes
    <3> HIDE DEF rest, k
    <3> QED
      BY <2>1, <3>1, <3>2 DEF MoleculeOf
  <2> QED
    BY <2>2, <2>3
<1> QED
  BY <1>3, <1>4, <1>5, <1>6, <1>7 DEF FundedOps

LEMMA BuildUses ==
  ASSUME NEW c, NEW id, call[c].op \in UserOps
  PROVE  Build(c, id) = MoleculeOf(id, call[c], Own(c), UserKey(c, call[c].user), {},
                UserGives(id, call[c], Own(c)), {}, Credits(call[c]), Claims(call[c]))
<1> DEFINE k == call[c]
           signer == UserKey(c, k.user)
           gives == UserGives(id, k, Own(c))
           Signed(new, credits, claims) ==
                MoleculeOf(id, k, Own(c), signer, {}, new, {}, credits, claims)
<1> SUFFICES Build(c, id) = Signed(gives, Credits(k), Claims(k))
  OBVIOUS
<1>1. UserMolecule(c, id) = Signed({}, {}, {})
  BY DEF UserMolecule, MoleculeOf
<1>2. \A n, buffer : NewRow(c, id, buffer, n) = Made(id, Own(c), buffer, n)
  BY Zenon DEF NewRow, Made, Row
<1>3. CASE k.op = "create_meta"
  <2>1. Build(c, id) = Signed({}, {}, {})
    BY <1>1, <1>3 DEF Build, CreateMeta
  <2>2. gives = {} /\ Credits(k) = {} /\ Claims(k) = {}
    BY <1>3 DEF UserGives, Credits, Claims
  <2> QED
    BY <2>1, <2>2
<1>4. ASSUME NEW one, Build(c, id) = [Signed({}, {}, {}) EXCEPT !.gives = {one}],
             gives = {one}, k.op \in {"create_wallet", "create_token"}
      PROVE  Build(c, id) = Signed(gives, Credits(k), Claims(k))
  <2>1. Credits(k) = {} /\ Claims(k) = {}
    BY <1>4 DEF Credits, Claims
  <2> HIDE DEF k, signer, gives
  <2> QED
    BY <1>4, <2>1 DEF MoleculeOf
<1>5. CASE k.op = "create_wallet"
  <2>1. Build(c, id) = CreateWallet(c, id)
    BY <1>5 DEF Build
  <2>2. CreateWallet(c, id) = [Signed({}, {}, {}) EXCEPT !.gives = {Made(id, Own(c), FALSE, 0)}]
    BY <1>1, <1>2, Zenon DEF CreateWallet
  <2>3. gives = {Made(id, Own(c), FALSE, 0)}
    BY <1>5 DEF UserGives
  <2> QED
    BY <1>4, <1>5, <2>1, <2>2, <2>3, Zenon
<1>6. CASE k.op = "create_token"
  <2>1. Build(c, id) = CreateToken(c, id)
    BY <1>6 DEF Build
  <2>2. CreateToken(c, id) =
            [Signed({}, {}, {}) EXCEPT !.gives = {Made(id, Own(c), FALSE, k.amount)}]
    BY <1>1, <1>2, Zenon DEF CreateToken
  <2>3. gives = {Made(id, Own(c), FALSE, k.amount)}
    BY <1>6 DEF UserGives
  <2> QED
    BY <1>4, <1>6, <2>1, <2>2, <2>3, Zenon
<1>7. CASE k.op = "replenish"
  <2> DEFINE one == Made(id, Own(c), FALSE, k.amount)
  <2>1. Build(c, id) = ReplenishToken(c, id)
    BY <1>7 DEF Build
  <2>2. ReplenishToken(c, id) = [Signed({}, {}, {}) EXCEPT
            !.credits = {r.position : r \in k.source},
            !.gives = IF k.source = {} THEN {one} ELSE {}]
    BY <1>1, <1>2, Zenon DEF ReplenishToken
  <2>3. /\ gives = IF k.source = {} THEN {one} ELSE {}
        /\ Credits(k) = {r.position : r \in k.source} /\ Claims(k) = {}
    BY <1>7 DEF UserGives, Credits, Claims
  <2>4. Build(c, id) = [Signed({}, {}, {}) EXCEPT !.credits = Credits(k), !.gives = gives]
    BY <2>1, <2>2, <2>3, Zenon
  <2> HIDE DEF k, signer, gives
  <2> QED
    BY <2>3, <2>4 DEF MoleculeOf
<1>8. CASE k.op = "claim"
  <2>1. Build(c, id) = [Signed({}, {}, {}) EXCEPT !.claims = {k.batch}]
    BY <1>1, <1>8 DEF Build, ClaimShadowWallet
  <2>2. gives = {} /\ Credits(k) = {} /\ Claims(k) = {k.batch}
    BY <1>8 DEF UserGives, Credits, Claims
  <2> HIDE DEF k, signer, gives
  <2> QED
    BY <2>1, <2>2 DEF MoleculeOf
<1> QED
  BY <1>3, <1>5, <1>6, <1>7, <1>8 DEF UserOps

LEMMA BuildOK ==
  ASSUME IInv, NEW c \in Clients, At(c, "propose"), NEW id \in 1..MaxMolecules
  PROVE  Sound(verdict, id, Build(c, id))
<1> DEFINE k == call[c]
           by == Own(c)
<1>1. k \in Calls /\ CallOK(verdict, c, k) /\ k.step = "propose" /\ by \in Bundles /\ k.to \in Bundles
  BY BundleOfAssumption DEF At, IInv, CallType, CallsInv, Own, Calls
<1>2. k.amount \in Nat /\ Needs(k) \in Nat
  BY <1>1, AmountsAssumption, NeedsType DEF Calls
<1>3. ASSUME NEW n \in Nat, NEW buffer \in BOOLEAN
      PROVE  RowOK(id, c, "new", Made(id, by, buffer, n))
  BY NewRowIsOK, Zenon DEF NewRow, Row, Made
<1>4. CASE k.op \in FundedOps
  <2>1. PICK r \in Rows : /\ k.source = {r} /\ r.owner = by /\ r.balance >= Needs(k)
                          /\ Used(verdict, r.position)
    BY <1>1, <1>4 DEF CallOK
  <2> DEFINE rest == Remainder(id, k, by, r)
             gives == SpendingGives(id, k, by, r)
             owes == Owes(id, k, by)
  <2>2. r.balance - Needs(k) \in Nat /\ r.buffer \in BOOLEAN /\ "next" \in {"next", "new"}
    BY <2>1, <1>2 DEF Rows
  <2>3. RowOK(id, c, "next", rest)
    BY <2>2, RowIsOK, Zenon DEF Remainder, Row
  <2>4. GivesOK(id, by, gives)
    <3>1. ASSUME NEW n \in Nat, NEW buffer \in BOOLEAN
          PROVE  GivesOK(id, by, {rest} \cup {Made(id, by, buffer, n)})
      BY <1>3, <2>3, GivesTwo, Zenon
    <3>2. GivesOK(id, by, {rest}) /\ {rest} \cup {} = {rest}
      BY <2>3, GivesOne
    <3>3. /\ GivesOK(id, by, {rest} \cup {Made(id, by, TRUE, k.amount)})
          /\ GivesOK(id, by, {rest} \cup {Made(id, by, FALSE, 1)})
      BY <1>2, <3>1, 1 \in Nat, TRUE \in BOOLEAN, FALSE \in BOOLEAN, Zenon
    <3> QED
      BY <3>2, <3>3, Zenon DEF SpendingGives
  <2>5. OwesOK(id, owes)
    <3>1. ASSUME NEW b \in Bundles, NEW n \in Nat PROVE OwesOK(id, {Shadow(b, id, n)})
      BY DEF OwesOK, Shadow, Shadows
    <3>2. OwesOK(id, {Shadow(b, id, k.amount) : b \in Bundles}) /\ OwesOK(id, {})
      BY <1>2 DEF OwesOK, Shadow, Shadows
    <3> QED
      BY <1>1, <1>2, <3>1, <3>2, 1 \in Nat, Zenon DEF Owes
  <2>6. Build(c, id) = MoleculeOf(id, k, by, RowKey(r), {r}, gives, owes, {}, {})
    BY <1>4, <2>1, BuildSpends
  <2> HIDE DEF gives, owes
  <2> QED
    BY <1>1, <1>4, <2>1, <2>4, <2>5, <2>6, SpendingIsOK
<1>5. CASE k.op \in UserOps
  <2> DEFINE signer == UserKey(c, k.user)
             gives == UserGives(id, k, by)
  <2>1. k.user \in Positions /\ Used(verdict, k.user)
    BY <1>1, <1>5 DEF CallOK, Calls
  <2>2. signer \in Keys /\ signer.owner = by /\ signer.token = "USER" /\ signer.position = k.user
    BY <1>1, <2>1 DEF UserKey, Keys
  <2>3. GivesOK(id, by, gives)
    <3>1. GivesOK(id, by, {})
      BY DEF GivesOK
    <3>2. ASSUME NEW n \in Nat PROVE GivesOK(id, by, {Made(id, by, FALSE, n)})
      BY <1>3, GivesOne, FALSE \in BOOLEAN, Zenon
    <3> QED
      BY <1>2, <3>1, <3>2, 0 \in Nat, Zenon DEF UserGives
  <2>4. Credits(k) \in SUBSET Positions
    BY <1>1 DEF Credits, Calls, Rows
  <2>5. Claims(k) \in SUBSET (0..MaxMolecules) /\ \A a, b \in Claims(k) : a = b
    <3>1. k.op = "claim" => k.batch \in 0..MaxMolecules
      BY <1>1 DEF CallOK, Calls
    <3> HIDE DEF k
    <3> QED
      BY <3>1 DEF Claims
  <2>6. Claims(k) # {} => gives = {}
    BY DEF Claims, UserGives
  <2>7. Build(c, id) = MoleculeOf(id, k, by, signer, {}, gives, {}, Credits(k), Claims(k))
    BY <1>5, BuildUses
  <2> HIDE DEF gives, signer
  <2> QED
    BY <1>1, <1>5, <2>1, <2>2, <2>3, <2>4, <2>5, <2>6, <2>7, UserIsOK
<1> QED
  BY <1>1, <1>4, <1>5 DEF Calls

LEMMA ProposeStep ==
  ASSUME IInv, NEW c \in Clients, Propose(c)
  PROVE  IInv'
<1> DEFINE id == count + 1
           m == Build(c, id)
           k == call[c]
           next == [k EXCEPT !.step = "sent", !.sent = id, !.batch = None,
                             !.user = None, !.asked = "none", !.source = {}, !.stale = FALSE]
<1>1. id \in 1..MaxMolecules /\ id \in 0..MaxMolecules
  BY MaxMoleculesAssumption DEF Propose, IInv, NetworkType
<1>2. /\ count' = id /\ flight' = flight \cup {m}
      /\ UNCHANGED <<ledger, result, verdict>> /\ outcome' = [outcome EXCEPT ![c] = "none"]
  BY DEF Propose
<1>3. call' = [call EXCEPT ![c] = next]
  BY DEF Propose
<1>4. Sound(verdict, id, m)
  BY <1>1, BuildOK DEF Propose
<1>5. k \in Calls /\ CallOK(verdict, c, k) /\ k.step = "propose"
  BY DEF Propose, At, IInv, CallType, CallsInv
<1> HIDE DEF m, k
<1>6. next \in Calls
  BY <1>1, <1>5 DEF Calls
<1>7. CallOK(verdict, c, next)
  BY <1>5 DEF CallOK, Calls
<1> HIDE DEF next
<1>8. LedgerType' /\ LedgerInv' /\ verdict' = verdict
  BY <1>2 DEF IInv, ledger, LedgerType, LedgerInv, RowsInv, ShadowsInv, SpentInv, PointerInv
<1>9. CallType' /\ CallsInv'
  BY <1>2, <1>3, <1>6, <1>7 DEF IInv, CallType, CallsInv, Results
<1>10. NetworkType'
  BY <1>1, <1>2, <1>4 DEF IInv, NetworkType, Sound
<1>11. FlightInv'
  <2>1. \A n \in flight : n.id \in 1..MaxMolecules /\ n.id <= count
    BY DEF IInv, NetworkType, FlightInv, Molecules
  <2>2. count \in Nat /\ verdict[id] = "none"
    BY <1>1 DEF IInv, NetworkType, FlightInv
  <2>3. ASSUME NEW n \in flight' PROVE n.id <= count' /\ verdict'[n.id] = "none" /\ MoleculeOK(verdict', n)
    BY <1>2, <1>4, <2>1, <2>2 DEF IInv, FlightInv, Sound
  <2>4. ASSUME NEW n \in flight', NEW o \in flight', n.id = o.id PROVE n = o
    BY <1>2, <1>4, <2>1, <2>2, <2>4 DEF IInv, FlightInv, Sound
  <2>5. ASSUME NEW j \in 1..MaxMolecules, j > count' PROVE verdict'[j] = "none"
    BY <1>2, <2>2, <2>5 DEF IInv, FlightInv
  <2> QED
    BY <2>3, <2>4, <2>5 DEF FlightInv
<1> QED
  BY <1>8, <1>9, <1>10, <1>11 DEF IInv

-----------------------------------------------------------------------------
(* The validator. *)

LEMMA VerdictStep ==
  ASSUME IInv, NEW m \in flight, NEW res \in {"accepted", "rejected"},
         flight' = flight \ {m}, verdict' = [verdict EXCEPT ![m.id] = res],
         UNCHANGED <<call, result, outcome, count>>
  PROVE  Later(verdict, verdict') /\ CallType' /\ CallsInv' /\ NetworkType' /\ FlightInv'
<1>1. m.id \in 1..MaxMolecules /\ verdict[m.id] = "none" /\ m.id <= count /\ count \in Nat
  BY DEF IInv, NetworkType, FlightInv, Molecules
<1>2. /\ verdict'[m.id] = res
      /\ \A id \in 1..MaxMolecules : id # m.id => verdict'[id] = verdict[id]
  BY <1>1 DEF IInv, NetworkType
<1>3. Later(verdict, verdict')
  BY <1>1, <1>2 DEF Later
<1>4. CallType' /\ NetworkType'
  BY DEF IInv, CallType, NetworkType, Verdicts
<1>5. CallsInv'
  BY <1>3, CallStays DEF IInv, CallsInv
<1>6. FlightInv'
  <2>1. ASSUME NEW n \in flight' PROVE n.id <= count' /\ verdict'[n.id] = "none" /\ MoleculeOK(verdict', n)
    <3>1. n \in flight /\ n # m /\ n.id \in 1..MaxMolecules
      BY DEF IInv, NetworkType, Molecules
    <3>2. n.id # m.id
      BY <3>1 DEF IInv, FlightInv
    <3> QED
      BY <1>2, <1>3, <3>1, <3>2, MoleculeStays DEF IInv, FlightInv
  <2>2. \A n, o \in flight' : n.id = o.id => n = o
    BY DEF IInv, FlightInv
  <2>3. ASSUME NEW id \in 1..MaxMolecules, id > count' PROVE verdict'[id] = "none"
    BY <1>1, <1>2, <2>3 DEF IInv, FlightInv
  <2> QED
    BY <2>1, <2>2, <2>3 DEF FlightInv
<1> QED
  BY <1>3, <1>4, <1>5, <1>6

LEMMA RejectStep ==
  ASSUME IInv, NEW m \in flight, Reject(m)
  PROVE  IInv'
<1>1. /\ flight' = flight \ {m} /\ verdict' = [verdict EXCEPT ![m.id] = "rejected"]
      /\ UNCHANGED <<ledger, call, result, outcome, count>>
  BY DEF Reject
<1>2. Later(verdict, verdict') /\ CallType' /\ CallsInv' /\ NetworkType' /\ FlightInv'
  BY <1>1, VerdictStep
<1>3. LedgerType'
  BY <1>1 DEF IInv, ledger, LedgerType
<1>4. \A id : Happened(verdict, id) => Happened(verdict', id)
  BY <1>2 DEF Happened, Later
<1>5. RowsInv' /\ SpentInv'
  BY <1>1, <1>2, UsedStays DEF IInv, ledger, LedgerInv, RowsInv, SpentInv
<1>6. ShadowsInv'
  BY <1>1, <1>4 DEF IInv, ledger, LedgerInv, ShadowsInv
<1>7. PointerInv'
  BY <1>1, <1>2, UsedStays DEF IInv, ledger, LedgerInv, PointerInv
<1> QED
  BY <1>2, <1>3, <1>5, <1>6, <1>7 DEF IInv, LedgerInv

\* A position of a molecule under way has not signed, nor is it of any wallet.
LEMMA OwnIsUnused ==
  ASSUME NEW v, NEW id \in 1..MaxMolecules, v[id] = "none", NEW p, p.of = id, p # Fixed
  PROVE  ~Used(v, p)
  BY DEF Used, Happened

LEMMA AcceptStep ==
  ASSUME IInv, NEW m \in flight, Accept(m)
  PROVE  IInv'
<1> DEFINE Credited(r) == IF r.owner = m.by /\ r.position \in m.credits
                          THEN [r EXCEPT !.balance = @ + m.amount] ELSE r
           Old == {Credited(r) : r \in rows \ m.debits}
           Row1(s) == [owner |-> m.by, buffer |-> FALSE, position |-> NewPosition(m.id),
                       balance |-> s.amount]
           Taken == {Row1(s) : s \in Claimed(m)}
           w == verdict'
<1>1. /\ flight' = flight \ {m} /\ verdict' = [verdict EXCEPT ![m.id] = "accepted"]
      /\ UNCHANGED <<call, result, outcome, count>>
      /\ spent' = spent \cup {m.signer}
      /\ pointer' = IF m.op \in UserOps
                    THEN [pointer EXCEPT ![m.by] = [of |-> m.id, as |-> "next"]] ELSE pointer
      /\ shadows' = (shadows \ Claimed(m)) \cup m.owes
  BY DEF Accept
<1>2. rows' = Old \cup m.gives \cup Taken
  BY DEF Accept
<1>3. Acceptable(m)
  BY DEF Accept
<1>4. Later(verdict, w) /\ CallType' /\ CallsInv' /\ NetworkType' /\ FlightInv'
  BY <1>1, VerdictStep
<1>5. /\ m \in Molecules /\ m.id \in 1..MaxMolecules /\ verdict[m.id] = "none"
      /\ MoleculeOK(verdict, m) /\ w[m.id] = "accepted"
  <2>1. m \in Molecules /\ verdict[m.id] = "none" /\ MoleculeOK(verdict, m)
    BY DEF IInv, NetworkType, FlightInv
  <2>2. m.id \in 1..MaxMolecules
    BY <2>1 DEF Molecules
  <2> QED
    BY <1>1, <2>1, <2>2 DEF IInv, NetworkType
<1>6. ASSUME NEW p \in Fresh, p.of = m.id
      PROVE  ~Used(verdict, p) /\ Used(w, p)
  <2>1. p # Fixed
    BY FreshIsApart
  <2> QED
    BY <1>5, <1>6, <2>1, OwnIsUnused DEF Used, Happened
<1>7. ASSUME NEW as \in {"next", "new"}
      PROVE  /\ [of |-> m.id, as |-> as] \in Fresh
             /\ [of |-> m.id, as |-> as].of = m.id
  <2>1. m.id \in 0..MaxMolecules
    BY <1>5, MaxMoleculesAssumption
  <2> QED
    BY <2>1 DEF Fresh
<1>8. /\ NewPosition(m.id) \in Fresh /\ NewPosition(m.id).of = m.id
      /\ NewPosition(m.id) \in Positions
  BY <1>7, FreshIsApart DEF NewPosition
<1>9. /\ m.by \in Bundles /\ m.amount \in Nat /\ m.signer \in Keys /\ m.gives \subseteq Rows
      /\ m.owes \subseteq Shadows /\ m.op \in FundedOps \cup UserOps
  BY <1>5 DEF Molecules
<1>10. rows \subseteq Rows /\ shadows \subseteq Shadows /\ spent \subseteq Keys
       /\ pointer \in [Bundles -> Positions \cup {None}]
  BY DEF IInv, LedgerType
\* Every wallet of the ledger is one it had, or one of the molecule's own.
<1>11. ASSUME NEW r \in rows
       PROVE  /\ Credited(r) \in Rows /\ Credited(r).owner = r.owner
              /\ Credited(r).position = r.position
  <2>1. r \in Rows
    BY <1>10
  <2> QED
    BY <1>9, <2>1 DEF Rows
<1>12. ASSUME NEW x \in m.gives \cup Taken
       PROVE  x \in Rows /\ x.owner = m.by /\ x.position \in Fresh /\ x.position.of = m.id
  <2>1. CASE x \in m.gives
    BY <1>5, <1>9, <2>1 DEF MoleculeOK
  <2>2. CASE x \in Taken
    <3>1. PICK s \in Claimed(m) : x = Row1(s)
      BY <2>2
    <3>2. s.amount \in Nat
      BY <1>10 DEF Claimed, Shadows
    <3> QED
      BY <1>8, <1>9, <3>1, <3>2 DEF Rows
  <2> QED
    BY <2>1, <2>2
<1>13. ASSUME NEW s \in Claimed(m), NEW u \in Claimed(m)
       PROVE  s = u /\ m.gives = {}
  <2>1. /\ s \in shadows /\ u \in shadows /\ s.owner = m.by /\ u.owner = m.by
        /\ s.batch \in m.claims /\ u.batch \in m.claims
    BY DEF Claimed
  <2>2. s.batch = u.batch /\ m.gives = {}
    BY <1>5, <2>1 DEF MoleculeOK
  <2> QED
    BY <2>1, <2>2 DEF IInv, LedgerInv, ShadowsInv
<1>14. ASSUME NEW x \in m.gives \cup Taken, NEW y \in m.gives \cup Taken, x.position = y.position
       PROVE  x = y
  <2>1. CASE x \in m.gives /\ y \in m.gives
    BY <1>5, <1>14, <2>1 DEF MoleculeOK
  <2>2. CASE x \in Taken \/ y \in Taken
    <3>1. m.gives = {}
      BY <1>13, <2>2
    <3>2. PICK s \in Claimed(m) : x = Row1(s)
      BY <3>1
    <3>3. PICK u \in Claimed(m) : y = Row1(u)
      BY <3>1
    <3> QED
      BY <1>13, <3>2, <3>3
  <2> QED
    BY <2>1, <2>2
<1> HIDE DEF Credited, Old, Taken
<1>15. ASSUME NEW x \in Old
       PROVE  \E r \in rows \ m.debits : x = Credited(r)
  BY <1>15 DEF Old
<1>16. LedgerType'
  <2>1. pointer' \in [Bundles -> Positions \cup {None}]
    BY <1>1, <1>7, <1>9, <1>10, FreshIsApart
  <2>2. rows' \subseteq Rows
    BY <1>2, <1>9, <1>11, <1>12, <1>15
  <2>3. shadows' \subseteq Shadows /\ spent' \subseteq Keys
    BY <1>1, <1>9, <1>10
  <2> QED
    BY <2>1, <2>2, <2>3 DEF LedgerType
<1>17. Used(verdict, m.signer.position) /\ Used(w, m.signer.position)
  BY <1>4, <1>5, UsedStays DEF MoleculeOK
<1>18. SpentInv'
  BY <1>1, <1>4, <1>17, UsedStays DEF IInv, LedgerInv, SpentInv
<1>19. ASSUME NEW k, Used(verdict, k.position), NEW x, x.position \in Fresh, x.position.of = m.id
       PROVE  k.position # x.position
  BY <1>6, <1>19
<1>20. RowsInv'
  <2>1. ASSUME NEW r \in rows \ m.debits
        PROVE  RowKey(r) \notin spent'
    <3>1. RowKey(r) \notin spent
      BY DEF IInv, LedgerInv, RowsInv
    <3>2. CASE m.op \in UserOps
      <4>1. RowKey(r).token = "token" /\ m.signer.token = "USER"
        BY <1>5, <3>2 DEF RowKey, MoleculeOK
      <4> QED
        BY <1>1, <3>1, <4>1
    <3>3. CASE m.op \in FundedOps
      <4>1. PICK d : m.debits = {d} /\ m.signer = RowKey(d)
        BY <1>5, <3>3 DEF MoleculeOK
      <4>2. d \in rows /\ d # r
        BY <1>3, <4>1 DEF Acceptable
      <4>3. r.owner # d.owner \/ r.position # d.position
        BY <4>2 DEF IInv, LedgerInv, RowsInv
      <4>4. RowKey(r) # RowKey(d)
        BY <4>3 DEF RowKey
      <4> QED
        BY <1>1, <3>1, <4>1, <4>4
    <3> QED
      BY <1>9, <3>2, <3>3
  <2>2. ASSUME NEW x \in Old
        PROVE  Used(w, x.position) /\ RowKey(x) \notin spent'
    <3>1. PICK r \in rows \ m.debits : x = Credited(r)
      BY <1>15
    <3>2. RowKey(x) = RowKey(r) /\ x.position = r.position
      BY <1>11, <3>1 DEF RowKey
    <3>3. Used(verdict, r.position)
      BY DEF IInv, LedgerInv, RowsInv
    <3> QED
      BY <1>4, <2>1, <3>2, <3>3, UsedStays
  <2>3. ASSUME NEW x \in m.gives \cup Taken
        PROVE  Used(w, x.position) /\ RowKey(x) \notin spent'
    <3>1. RowKey(x).position = x.position
      BY DEF RowKey
    <3>2. \A k \in spent' : Used(verdict, k.position)
      BY <1>1, <1>17 DEF IInv, LedgerInv, SpentInv
    <3>3. ~Used(verdict, x.position) /\ Used(w, x.position)
      BY <1>6, <1>12
    <3> QED
      BY <3>1, <3>2, <3>3
  <2>4. ASSUME NEW x \in Old, NEW y \in Old, x.owner = y.owner, x.position = y.position
        PROVE  x = y
    <3>1. PICK r \in rows \ m.debits : x = Credited(r)
      BY <1>15
    <3>2. PICK q \in rows \ m.debits : y = Credited(q)
      BY <1>15
    <3>3. r.owner = q.owner /\ r.position = q.position
      BY <1>11, <2>4, <3>1, <3>2
    <3>4. r = q
      BY <3>3 DEF IInv, LedgerInv, RowsInv
    <3> QED
      BY <3>1, <3>2, <3>4
  <2>5. ASSUME NEW x \in Old, NEW y \in m.gives \cup Taken
        PROVE  x.position # y.position
    <3>1. PICK r \in rows \ m.debits : x = Credited(r)
      BY <1>15
    <3>2. x.position = r.position /\ Used(verdict, r.position)
      BY <1>11, <3>1 DEF IInv, LedgerInv, RowsInv
    <3>3. ~Used(verdict, y.position)
      BY <1>6, <1>12
    <3> QED
      BY <3>2, <3>3
  <2> QED
    BY <1>2, <1>14, <2>2, <2>3, <2>4, <2>5 DEF RowsInv
<1>21. ShadowsInv'
  <2>1. ASSUME NEW s \in shadows
        PROVE  Happened(w, s.batch) /\ s.batch # m.id
    <3>1. Happened(verdict, s.batch)
      BY DEF IInv, LedgerInv, ShadowsInv
    <3> QED
      BY <1>4, <1>5, <3>1 DEF Happened, Later
  <2>2. ASSUME NEW s \in m.owes
        PROVE  Happened(w, s.batch) /\ s.batch = m.id
    BY <1>5 DEF MoleculeOK, Happened
  <2>3. \A s, u \in shadows : s.owner = u.owner /\ s.batch = u.batch => s = u
    BY DEF IInv, LedgerInv, ShadowsInv
  <2>4. \A s, u \in m.owes : s.owner = u.owner => s = u
    BY <1>5 DEF MoleculeOK
  <2> QED
    BY <1>1, <2>1, <2>2, <2>3, <2>4 DEF ShadowsInv
<1>22. PointerInv'
  <2> SUFFICES ASSUME NEW b \in Bundles
               PROVE  /\ pointer'[b] = None => \A k \in spent' : k.owner = b => k.token = "token"
                      /\ pointer'[b] # None =>
                            /\ Used(w, pointer'[b])
                            /\ [owner |-> b, token |-> "USER", position |-> pointer'[b]] \notin spent'
    BY DEF PointerInv
  <2> DEFINE key == [owner |-> b, token |-> "USER", position |-> pointer'[b]]
  <2>1. key.owner = b /\ key.token = "USER" /\ key.position = pointer'[b]
    OBVIOUS
  <2> HIDE DEF key
  <2>2. CASE m.op \in UserOps /\ b = m.by
    <3>1. pointer'[b] = [of |-> m.id, as |-> "next"]
      BY <1>1, <1>10, <2>2
    <3>2. pointer'[b] \in Fresh /\ pointer'[b].of = m.id
      BY <1>7, <3>1
    <3>3. pointer'[b] # None /\ Used(w, pointer'[b]) /\ ~Used(verdict, pointer'[b])
      BY <1>6, <3>2, FreshIsApart
    <3>4. \A k \in spent' : Used(verdict, k.position)
      BY <1>1, <1>17 DEF IInv, LedgerInv, SpentInv
    <3> QED
      BY <2>1, <3>3, <3>4 DEF key
  <2>3. CASE ~(m.op \in UserOps /\ b = m.by)
    <3>1. pointer'[b] = pointer[b]
      BY <1>1, <1>10, <2>3
    <3>2. m.signer.owner = b => m.signer.token = "token"
      BY <1>5, <1>9, <2>3 DEF MoleculeOK
    <3>3. CASE pointer[b] = None
      BY <1>1, <3>1, <3>2, <3>3 DEF IInv, LedgerInv, PointerInv
    <3>4. CASE pointer[b] # None
      <4>1. Used(verdict, pointer[b]) /\ key \notin spent
        BY <3>1, <3>4 DEF IInv, LedgerInv, PointerInv, key
      <4>2. key # m.signer
        BY <2>1, <3>2
      <4> QED
        BY <1>1, <1>4, <3>1, <3>4, <4>1, <4>2, UsedStays DEF key
    <3> QED
      BY <3>3, <3>4
  <2> QED
    BY <2>2, <2>3
<1> QED
  BY <1>4, <1>16, <1>18, <1>20, <1>21, <1>22 DEF IInv, LedgerInv

-----------------------------------------------------------------------------

LEMMA EveryStep == IInv /\ [Next]_vars => IInv'
<1> SUFFICES ASSUME IInv, [Next]_vars PROVE IInv'
  OBVIOUS
<1>1. ASSUME NEW c \in Clients, NEW op \in FundedOps \cup UserOps, NEW to \in Bundles,
             NEW all \in BOOLEAN, NEW n \in Amounts, Begin(c, op, to, n, all)
      PROVE  IInv'
  BY <1>1, BeginStep, Zenon
<1>2. ASSUME NEW c \in Clients, ClientSteps(c) PROVE IInv'
  BY <1>2, ListShadowsStep, AskContinuIdStep, AskBalanceStep, FailsStep, ProposeStep, ReportsStep
     DEF ClientSteps
<1>3. ASSUME NEW m \in flight, Accept(m) \/ Reject(m) PROVE IInv'
  BY <1>3, AcceptStep, RejectStep
<1>4. CASE UNCHANGED vars
  BY <1>4 DEF vars, ledger, network, IInv, LedgerType, CallType, NetworkType, CallsInv, FlightInv,
     LedgerInv, RowsInv, ShadowsInv, SpentInv, PointerInv
<1> QED
  BY <1>1, <1>2, <1>3, <1>4, Zenon DEF Next

LEMMA AlwaysIInv == Spec => []IInv
  BY InitIInv, EveryStep, PTL DEF Spec

-----------------------------------------------------------------------------
(* Claims. A batch that a call listed and is done with is claimed, by it or   *)
(* another device, or the molecule that claims it is the one being waited     *)
(* for, which is on its way or rejected; unless a claim has failed. The batch *)
(* of a new shadow is its molecule, so what is claimed does not come back.    *)

Gone(sh, c, b) == \A s \in sh : s.owner = Own(c) => s.batch # b

Awaited(v, fl, c, k, b) ==
    /\ k.step = "sent"
    /\ v[k.sent] = "rejected" \/ \E m \in fl : m.id = k.sent /\ m.by = Own(c) /\ b \in m.claims

ClaimOK(v, sh, fl, c, k) ==
    k.op = "claim" =>
        /\ k.step = "list" => k.listed = {}
        /\ k.all \/ (k.ok /\ k.todo = {})
        /\ k.step = "sent" => k.sent \in 1..MaxMolecules
        /\ \A b \in k.listed : Happened(v, b)
        /\ k.ok => \A b \in k.listed \ k.todo :
                \/ Gone(sh, c, b)
                \/ k.step \in {"user", "propose"} /\ b = k.batch
                \/ Awaited(v, fl, c, k, b)

ClaimsInv ==
    \A c \in Clients : call[c] # None =>
        result[c] = "none" /\ ClaimOK(verdict, shadows, flight, c, call[c])

\* The action of ClaimsAll.
Reported(c) ==
    call[c] # None /\ call'[c] = None /\ call[c].op = "claim" /\ result'[c] = "SUCCESS"
    => \A s \in shadows' : s.owner = Own(c) => s.batch \notin call[c].listed

AllReported == ClaimsInv' /\ \A c \in Clients : Reported(c)

LEMMA InitClaims == Init => ClaimsInv
  BY DEF Init, Idle, ClaimsInv

\* A step of one call, that at most sends a molecule.
LEMMA ClaimsCall ==
  ASSUME IInv, ClaimsInv, UNCHANGED <<shadows, verdict>>, flight \subseteq flight',
         NEW c \in Clients, NEW k, call' = [call EXCEPT ![c] = k],
         \A d \in Clients : d # c => result'[d] = result[d],
         k # None => result'[c] = "none" /\ ClaimOK(verdict, shadows, flight', c, k),
         k = None => Reported(c)
  PROVE  AllReported
<1>1. call'[c] = k /\ \A d \in Clients : d # c => call'[d] = call[d]
  BY DEF IInv, CallType
<1>2. ASSUME NEW d \in Clients, call'[d] # None
      PROVE  result'[d] = "none" /\ ClaimOK(verdict, shadows, flight', d, call'[d])
  <2>1. CASE d = c
    BY <1>1, <1>2, <2>1
  <2>2. CASE d # c
    <3>1. /\ call'[d] = call[d] /\ result'[d] = "none"
          /\ ClaimOK(verdict, shadows, flight, d, call[d])
      BY <1>1, <1>2, <2>2 DEF ClaimsInv
    <3> QED
      BY <3>1 DEF ClaimOK, Awaited
  <2> QED
    BY <2>1, <2>2
<1>3. ASSUME NEW d \in Clients PROVE Reported(d)
  BY <1>1 DEF Reported
<1> QED
  BY <1>2, <1>3 DEF ClaimsInv, AllReported

\* A claim ends; when it ends well, its molecule was accepted.
LEMMA FinishClaims ==
  ASSUME IInv, ClaimsInv, UNCHANGED <<ledger, network>>, NEW c \in Clients, call[c] # None,
         NEW res \in {"SUCCESS", "ERROR"}, Finish(c, res),
         res = "SUCCESS" => call[c].step = "sent" /\ verdict[call[c].sent] = "accepted"
  PROVE  AllReported
<1> DEFINE k == call[c]
           ok == k.ok /\ res = "SUCCESS"
<1>1. k \in Calls /\ CallOK(verdict, c, k) /\ ClaimOK(verdict, shadows, flight, c, k)
  BY DEF IInv, CallType, CallsInv, ClaimsInv
<1>2. UNCHANGED <<shadows, verdict, flight>>
  BY DEF ledger, network
<1>3. ASSUME k.op = "claim", ok, NEW b \in k.listed \ k.todo PROVE Gone(shadows, c, b)
  <2>1. k.step = "sent" /\ verdict[k.sent] = "accepted"
    BY <1>3
  <2>2. \A m \in flight : m.id # k.sent
    BY <2>1 DEF IInv, FlightInv
  <2>3. ~Awaited(verdict, flight, c, k, b)
    BY <2>1, <2>2 DEF Awaited
  <2> QED
    BY <1>1, <1>3, <2>1, <2>3 DEF ClaimOK
<1>4. CASE k.todo = {}
  <2>1. /\ call' = [call EXCEPT ![c] = None]
        /\ result' = [result EXCEPT ![c] =
                IF k.all THEN IF ok THEN "SUCCESS" ELSE "ERROR" ELSE res]
    BY <1>4 DEF Finish
  <2>2. result'[c] = "SUCCESS" /\ k.op = "claim" => ok
    BY <1>1, <2>1 DEF IInv, CallType, ClaimOK
  <2>3. Reported(c)
    <3> SUFFICES ASSUME k.op = "claim", result'[c] = "SUCCESS",
                        NEW s \in shadows', s.owner = Own(c), s.batch \in k.listed
                 PROVE  FALSE
      BY DEF Reported
    <3> HIDE DEF k, ok
    <3> QED
      BY <1>2, <1>3, <1>4, <2>2 DEF Gone
  <2> QED
    BY <1>2, <2>1, <2>3, ClaimsCall DEF IInv, CallType
<1>5. CASE k.todo # {}
  <2>1. UNCHANGED result
    BY <1>5 DEF Finish
  <2>2. PICK b \in k.todo : call' = [call EXCEPT ![c] = Again(k, b, ok)]
    BY <1>5 DEF Finish, Again
  <2> DEFINE n == Again(k, b, ok)
  <2>3. /\ n.op = k.op /\ n.step = "user" /\ n.batch = b /\ n.todo = k.todo \ {b}
        /\ n.ok = ok /\ n.listed = k.listed /\ n.all = k.all
    BY <1>1 DEF Again, Calls
  <2>4. result[c] = "none"
    BY DEF ClaimsInv
  <2> HIDE DEF n, k, ok
  <2>5. ClaimOK(verdict, shadows, flight, c, n)
    BY <1>1, <1>3, <1>5, <2>3 DEF ClaimOK
  <2>6. call' = [call EXCEPT ![c] = n]
    BY <2>2 DEF n
  <2>7. n = None => Reported(c)
    BY <2>1, <2>4 DEF Reported
  <2> QED
    BY <1>2, <2>1, <2>4, <2>5, <2>6, <2>7, ClaimsCall
<1> QED
  BY <1>4, <1>5

LEMMA BeginClaims ==
  ASSUME IInv, ClaimsInv, NEW c \in Clients, NEW op \in FundedOps \cup UserOps, NEW to \in Bundles,
         NEW all \in BOOLEAN, NEW n \in Amounts, Begin(c, op, to, n, all)
  PROVE  AllReported
<1> DEFINE k == [op |-> op, to |-> to, amount |-> n, all |-> all, ok |-> TRUE,
                 step |-> CASE op = "claim" -> "list" [] op \in FundedOps -> "balance" [] OTHER -> "user",
                 batch |-> None, todo |-> {}, listed |-> {},
                 user |-> None, asked |-> "none", source |-> {}, stale |-> FALSE, sent |-> 0]
<1>1. call' = [call EXCEPT ![c] = k] /\ UNCHANGED <<shadows, verdict, flight>> /\ call[c] = None
  BY DEF Begin, ledger, network
<1>2. /\ k.op = op /\ k.ok = TRUE /\ k.todo = {} /\ k.listed = {}
      /\ k.step = CASE op = "claim" -> "list" [] op \in FundedOps -> "balance" [] OTHER -> "user"
  OBVIOUS
<1>3. result' = [result EXCEPT ![c] = "none"]
  BY DEF Begin
<1> HIDE DEF k
<1>4. k.op = "claim" => k.step = "list"
  BY <1>2 DEF FundedOps
<1>5. ClaimOK(verdict, shadows, flight, c, k)
  BY <1>2, <1>4 DEF ClaimOK
<1>6. Reported(c)
  BY <1>1 DEF Reported
<1> QED
  BY <1>1, <1>3, <1>5, <1>6, ClaimsCall DEF IInv, CallType

\* Listing: nothing to claim is a success, the whole of it.
LEMMA ListClaims ==
  ASSUME IInv, ClaimsInv, NEW c \in Clients, ListShadows(c)
  PROVE  AllReported
<1> DEFINE mine == {s.batch : s \in {s \in shadows : s.owner = Own(c)}}
           k == call[c]
<1>1. /\ k # None /\ k.step = "list" /\ k \in Calls /\ result[c] = "none"
      /\ ClaimOK(verdict, shadows, flight, c, k) /\ CallOK(verdict, c, k)
  BY DEF ListShadows, At, IInv, CallType, CallsInv, ClaimsInv
<1>2. UNCHANGED <<shadows, verdict, flight>>
  BY DEF ListShadows, ledger, network
<1>3. CASE mine = {}
  <2>1. Ends(c, IF k.all THEN "SUCCESS" ELSE "ERROR")
    BY <1>3 DEF ListShadows
  <2>2. /\ call' = [call EXCEPT ![c] = None]
        /\ \A d \in Clients : d # c => result'[d] = result[d]
    BY <2>1 DEF Ends, IInv, CallType
  <2>3. k.op = "claim" => k.listed = {}
    BY <1>1 DEF ClaimOK
  <2>4. Reported(c)
    BY <2>3 DEF Reported
  <2> QED
    BY <1>2, <2>2, <2>4, ClaimsCall
<1>4. CASE mine # {}
  <2>1. UNCHANGED result
    BY <1>4 DEF ListShadows
  <2>2. PICK b \in mine :
            call' = [call EXCEPT ![c].step = "user", ![c].batch = b,
                        ![c].listed = IF k.all THEN mine ELSE {b},
                        ![c].todo = IF k.all THEN mine \ {b} ELSE {}]
    BY <1>4 DEF ListShadows
  <2> DEFINE next == [k EXCEPT !.step = "user", !.batch = b,
                        !.listed = IF k.all THEN mine ELSE {b},
                        !.todo = IF k.all THEN mine \ {b} ELSE {}]
  <2>3. call' = [call EXCEPT ![c] = next]
    BY <2>2 DEF IInv, CallType
  <2>4. \A a \in mine : Happened(verdict, a)
    BY DEF IInv, LedgerInv, ShadowsInv
  <2> HIDE DEF k, mine
  <2>5. /\ next.op = k.op /\ next.step = "user" /\ next.batch = b /\ next.ok = k.ok
        /\ next.all = k.all
        /\ next.listed = IF k.all THEN mine ELSE {b}
        /\ next.todo = IF k.all THEN mine \ {b} ELSE {}
    BY <1>1 DEF Calls
  <2> HIDE DEF next
  <2>6. ClaimOK(verdict, shadows, flight, c, next)
    BY <1>1, <2>4, <2>5 DEF ClaimOK
  <2>7. result[c] = "none" /\ (next = None => Reported(c))
    BY <1>1, <2>1 DEF Reported
  <2> QED
    BY <1>2, <2>1, <2>3, <2>6, <2>7, ClaimsCall
<1> QED
  BY <1>3, <1>4

LEMMA AskContinuIdClaims ==
  ASSUME IInv, ClaimsInv, NEW c \in Clients, AskContinuId(c)
  PROVE  AllReported
<1> DEFINE k == call[c]
<1>1. /\ k.step = "user" /\ k \in Calls /\ result[c] = "none"
      /\ ClaimOK(verdict, shadows, flight, c, k)
  BY DEF AskContinuId, At, IInv, CallType, ClaimsInv
<1>2. UNCHANGED <<shadows, verdict, flight, result>>
  BY DEF AskContinuId, ledger, network
<1>3. PICK asked \in {"genesis", "found", "failed"} :
        call' = [call EXCEPT ![c].user = SigningPosition(c, asked), ![c].asked = asked,
                ![c].stale = UserKey(c, SigningPosition(c, asked)) \in spent,
                ![c].step = IF k.op = "replenish" THEN "balance" ELSE "propose"]
  BY DEF AskContinuId
<1> DEFINE next == [k EXCEPT !.user = SigningPosition(c, asked), !.asked = asked,
                !.stale = UserKey(c, SigningPosition(c, asked)) \in spent,
                !.step = IF k.op = "replenish" THEN "balance" ELSE "propose"]
<1>4. call' = [call EXCEPT ![c] = next]
  BY <1>3 DEF IInv, CallType
<1> HIDE DEF k
<1>5. /\ next.op = k.op /\ next.batch = k.batch /\ next.ok = k.ok /\ next.all = k.all
      /\ next.listed = k.listed /\ next.todo = k.todo
      /\ next.step = IF k.op = "replenish" THEN "balance" ELSE "propose"
  BY <1>1 DEF Calls
<1> HIDE DEF next
<1>6. ClaimOK(verdict, shadows, flight, c, next)
  BY <1>1, <1>5 DEF ClaimOK, Awaited
<1>7. Reported(c)
  BY <1>1, <1>2 DEF Reported
<1> QED
  BY <1>1, <1>2, <1>4, <1>6, <1>7, ClaimsCall

\* The balance is not asked for a claim.
LEMMA AskBalanceClaims ==
  ASSUME IInv, ClaimsInv, NEW c \in Clients, AskBalance(c)
  PROVE  AllReported
<1> DEFINE k == call[c]
<1>1. /\ k # None /\ k.step = "balance" /\ k \in Calls /\ result[c] = "none"
      /\ CallOK(verdict, c, k)
  BY DEF AskBalance, At, IInv, CallType, CallsInv, ClaimsInv
<1>2. k.op # "claim"
  BY <1>1 DEF CallOK, FundedOps
<1>3. UNCHANGED <<ledger, network>> /\ UNCHANGED <<shadows, verdict, flight>>
  BY DEF AskBalance, ledger, network
<1>4. CASE Finish(c, "ERROR")
  BY <1>1, <1>3, <1>4, FinishClaims
<1>5. ASSUME UNCHANGED result, NEW source, NEW stale,
             call' = [call EXCEPT ![c].step = "propose", ![c].source = source, ![c].stale = stale]
      PROVE  AllReported
  <2> DEFINE next == [k EXCEPT !.step = "propose", !.source = source, !.stale = stale]
  <2>1. call' = [call EXCEPT ![c] = next]
    BY <1>5 DEF IInv, CallType
  <2>2. next.op = k.op
    BY <1>1 DEF Calls
  <2>3. Reported(c)
    BY <1>2 DEF Reported
  <2> HIDE DEF next
  <2>4. ClaimOK(verdict, shadows, flight, c, next)
    BY <1>2, <2>2 DEF ClaimOK
  <2> QED
    BY <1>1, <1>3, <1>5, <2>1, <2>3, <2>4, ClaimsCall
<1>6. ASSUME UNCHANGED result, NEW source,
             call' = [call EXCEPT ![c].step = "propose", ![c].source = source]
      PROVE  AllReported
  <2> DEFINE next == [k EXCEPT !.step = "propose", !.source = source]
  <2>1. call' = [call EXCEPT ![c] = next]
    BY <1>6 DEF IInv, CallType
  <2>2. next.op = k.op
    BY <1>1 DEF Calls
  <2>3. Reported(c)
    BY <1>2 DEF Reported
  <2> HIDE DEF next
  <2>4. ClaimOK(verdict, shadows, flight, c, next)
    BY <1>2, <2>2 DEF ClaimOK
  <2> QED
    BY <1>1, <1>3, <1>6, <2>1, <2>3, <2>4, ClaimsCall
<1> QED
  BY <1>4, <1>5, <1>6 DEF AskBalance

LEMMA FailsClaims ==
  ASSUME IInv, ClaimsInv, NEW c \in Clients, Fails(c)
  PROVE  AllReported
<1>1. UNCHANGED <<ledger, network>> /\ UNCHANGED <<shadows, verdict, flight>> /\ call[c] # None
  BY DEF Fails, At, ledger, network
<1>2. CASE Ends(c, "ERROR")
  <2>1. /\ call' = [call EXCEPT ![c] = None] /\ result'[c] = "ERROR"
        /\ \A d \in Clients : d # c => result'[d] = result[d]
    BY <1>2 DEF Ends, IInv, CallType
  <2>2. Reported(c)
    BY <2>1 DEF Reported
  <2> QED
    BY <1>1, <2>1, <2>2, ClaimsCall
<1>3. CASE Finish(c, "ERROR")
  BY <1>1, <1>3, FinishClaims
<1> QED
  BY <1>2, <1>3 DEF Fails

LEMMA ReportsClaims ==
  ASSUME IInv, ClaimsInv, NEW c \in Clients, Succeeds(c) \/ NotConfirmed(c)
  PROVE  AllReported
<1>1. CASE Succeeds(c)
  BY <1>1, FinishClaims DEF Succeeds, Reports, At, Confirms
<1>2. CASE NotConfirmed(c)
  BY <1>2, FinishClaims DEF NotConfirmed, Reports, At
<1> QED
  BY <1>1, <1>2

LEMMA BuildClaims ==
  ASSUME NEW c, NEW id, call[c].op = "claim"
  PROVE  /\ Build(c, id).id = id /\ Build(c, id).by = Own(c)
         /\ Build(c, id).claims = {call[c].batch}
<1>1. call[c].op \in UserOps
  BY DEF UserOps
<1> QED
  BY <1>1, BuildUses DEF MoleculeOf, Claims

LEMMA ProposeClaims ==
  ASSUME IInv, ClaimsInv, NEW c \in Clients, Propose(c)
  PROVE  AllReported
<1> DEFINE id == count + 1
           m == Build(c, id)
           k == call[c]
           next == [k EXCEPT !.step = "sent", !.sent = id, !.batch = None,
                             !.user = None, !.asked = "none", !.source = {}, !.stale = FALSE]
<1>1. id \in 1..MaxMolecules
  BY MaxMoleculesAssumption DEF Propose, IInv, NetworkType
<1>2. /\ UNCHANGED <<shadows, verdict, result>> /\ flight' = flight \cup {m}
      /\ call' = [call EXCEPT ![c] = next]
  BY DEF Propose, ledger
<1>3. /\ k.step = "propose" /\ k \in Calls /\ result[c] = "none"
      /\ ClaimOK(verdict, shadows, flight, c, k)
  BY DEF Propose, At, IInv, CallType, ClaimsInv
<1>4. k.op = "claim" => m.id = id /\ m.by = Own(c) /\ m.claims = {k.batch}
  BY <1>1, BuildClaims DEF Propose
<1> HIDE DEF k, m, id
<1>5. /\ next.op = k.op /\ next.step = "sent" /\ next.sent = id /\ next.ok = k.ok
      /\ next.all = k.all /\ next.todo = k.todo /\ next.listed = k.listed
  BY <1>3 DEF Calls
<1> HIDE DEF next
<1>6. ASSUME k.op = "claim", NEW b, b = k.batch
      PROVE  Awaited(verdict, flight', c, next, b)
  BY <1>2, <1>4, <1>5, <1>6 DEF Awaited
<1>7. ClaimOK(verdict, shadows, flight', c, next)
  <2> SUFFICES ASSUME k.op = "claim" PROVE ClaimOK(verdict, shadows, flight', c, next)
    BY <1>5 DEF ClaimOK
  <2>1. ASSUME k.ok, NEW b \in k.listed \ k.todo
        PROVE  Gone(shadows, c, b) \/ b = k.batch
    BY <1>3, <2>1 DEF ClaimOK, Awaited
  <2>2. /\ k.all \/ (k.ok /\ k.todo = {})
        /\ \A b \in k.listed : Happened(verdict, b)
    BY <1>3 DEF ClaimOK
  <2> QED
    BY <1>1, <1>5, <1>6, <2>1, <2>2 DEF ClaimOK
<1>8. Reported(c)
  BY <1>2, <1>3 DEF Reported
<1>9. \A d \in Clients : d # c => result'[d] = result[d]
  BY <1>2
<1> QED
  BY <1>2, <1>3, <1>7, <1>8, <1>9, ClaimsCall

\* The validator answers: what is gone stays so, and what was on its way has
\* been taken or refused.
LEMMA VerdictClaims ==
  ASSUME IInv, ClaimsInv, NEW m \in flight, NEW res \in {"accepted", "rejected"},
         flight' = flight \ {m}, verdict' = [verdict EXCEPT ![m.id] = res],
         UNCHANGED <<call, result>>,
         \A s \in shadows' : s \in shadows \/ s \in m.owes,
         res = "accepted" => \A s \in shadows' : s \in Claimed(m) => s \in m.owes
  PROVE  AllReported
<1>1. /\ m.id \in 1..MaxMolecules /\ verdict[m.id] = "none" /\ verdict'[m.id] = res
      /\ \A s \in m.owes : s.batch = m.id
      /\ \A id \in 1..MaxMolecules : id # m.id => verdict'[id] = verdict[id]
  BY DEF IInv, NetworkType, FlightInv, Molecules, MoleculeOK
<1>2. ASSUME NEW b, Happened(verdict, b)
      PROVE  Happened(verdict', b) /\ b # m.id
  BY <1>1, <1>2 DEF Happened
<1>3. ASSUME NEW c \in Clients, NEW b, Happened(verdict, b), Gone(shadows, c, b)
      PROVE  Gone(shadows', c, b)
  BY <1>1, <1>2, <1>3 DEF Gone
<1>4. ASSUME NEW c \in Clients, NEW k, k.sent \in 1..MaxMolecules, NEW b, Happened(verdict, b),
             Awaited(verdict, flight, c, k, b)
      PROVE  Awaited(verdict', flight', c, k, b) \/ Gone(shadows', c, b)
  <2>1. CASE verdict[k.sent] = "rejected"
    BY <1>1, <1>4, <2>1 DEF Awaited
  <2>2. CASE \E n \in flight : n.id = k.sent /\ n.by = Own(c) /\ b \in n.claims
    <3>1. PICK n \in flight : n.id = k.sent /\ n.by = Own(c) /\ b \in n.claims
      BY <2>2
    <3>2. CASE n # m
      BY <1>4, <3>1, <3>2 DEF Awaited
    <3>3. CASE n = m /\ res = "rejected"
      BY <1>1, <1>4, <3>1, <3>3 DEF Awaited
    <3>4. CASE n = m /\ res = "accepted"
      <4> SUFFICES ASSUME NEW s \in shadows', s.owner = Own(c), s.batch = b PROVE FALSE
        BY DEF Gone
      <4>1. s \notin m.owes
        BY <1>1, <1>2, <1>4
      <4>2. s \in Claimed(m)
        BY <3>1, <3>4, <4>1 DEF Claimed
      <4> QED
        BY <3>4, <4>1, <4>2
    <3> QED
      BY <3>2, <3>3, <3>4
  <2> QED
    BY <1>4, <2>1, <2>2 DEF Awaited
<1>5. ASSUME NEW c \in Clients, call[c] # None
      PROVE  ClaimOK(verdict', shadows', flight', c, call[c])
  <2> DEFINE k == call[c]
  <2>1. ClaimOK(verdict, shadows, flight, c, k)
    BY <1>5 DEF ClaimsInv
  <2> HIDE DEF k
  <2> SUFFICES ASSUME k.op = "claim" PROVE ClaimOK(verdict', shadows', flight', c, k)
    BY DEF ClaimOK, k
  <2>2. \A b \in k.listed : Happened(verdict, b) /\ Happened(verdict', b)
    BY <1>2, <2>1 DEF ClaimOK
  <2>3. ASSUME k.ok, NEW b \in k.listed \ k.todo
        PROVE  \/ Gone(shadows', c, b)
               \/ k.step \in {"user", "propose"} /\ b = k.batch
               \/ Awaited(verdict', flight', c, k, b)
    <3>1. CASE Gone(shadows, c, b)
      BY <1>3, <2>2, <2>3, <3>1
    <3>2. CASE Awaited(verdict, flight, c, k, b)
      <4>1. k.sent \in 1..MaxMolecules
        BY <2>1, <3>2 DEF ClaimOK, Awaited
      <4> QED
        BY <1>4, <2>2, <2>3, <3>2, <4>1
    <3> QED
      BY <2>1, <2>3, <3>1, <3>2 DEF ClaimOK
  <2> QED
    BY <2>1, <2>2, <2>3 DEF ClaimOK
<1>6. ClaimsInv'
  BY <1>5 DEF ClaimsInv
<1>7. ASSUME NEW c \in Clients PROVE Reported(c)
  BY DEF Reported
<1> QED
  BY <1>6, <1>7 DEF AllReported

LEMMA EveryClaim == IInv /\ ClaimsInv /\ [Next]_vars => AllReported
<1> SUFFICES ASSUME IInv, ClaimsInv, [Next]_vars PROVE AllReported
  OBVIOUS
<1>1. ASSUME NEW c \in Clients, NEW op \in FundedOps \cup UserOps, NEW to \in Bundles,
             NEW all \in BOOLEAN, NEW n \in Amounts, Begin(c, op, to, n, all)
      PROVE  AllReported
  BY <1>1, BeginClaims, Zenon
<1>2. ASSUME NEW c \in Clients, ClientSteps(c) PROVE AllReported
  BY <1>2, ListClaims, AskContinuIdClaims, AskBalanceClaims, FailsClaims, ProposeClaims,
     ReportsClaims DEF ClientSteps
<1>3. ASSUME NEW m \in flight, Accept(m) PROVE AllReported
  <2>1. /\ flight' = flight \ {m} /\ verdict' = [verdict EXCEPT ![m.id] = "accepted"]
        /\ UNCHANGED <<call, result>> /\ shadows' = (shadows \ Claimed(m)) \cup m.owes
    BY <1>3 DEF Accept
  <2> QED
    BY <2>1, VerdictClaims
<1>4. ASSUME NEW m \in flight, Reject(m) PROVE AllReported
  <2>1. /\ flight' = flight \ {m} /\ verdict' = [verdict EXCEPT ![m.id] = "rejected"]
        /\ UNCHANGED <<call, result>> /\ shadows' = shadows
    BY <1>4 DEF Reject, ledger
  <2> QED
    BY <2>1, VerdictClaims
<1>5. CASE UNCHANGED vars
  <2>1. UNCHANGED <<call, result, shadows, verdict, flight>>
    BY <1>5 DEF vars, ledger, network
  <2> QED
    BY <2>1 DEF AllReported, ClaimsInv, Reported
<1> QED
  BY <1>1, <1>2, <1>3, <1>4, <1>5, Zenon DEF Next

-----------------------------------------------------------------------------
(* Accounts. What a bundle holds and is owed changes by the wallets that come *)
(* and go, one at a time.                                                     *)

Held(R, b, buffer) ==
    SumFunctionOnSet([r \in R |-> r.balance], {r \in R : r.owner = b /\ r.buffer = buffer})

Debt(S, b) == SumFunctionOnSet([s \in S |-> s.amount], {s \in S : s.owner = b})

\* What one wallet is for the account.
Part(r, b, buffer) == IF r.owner = b /\ r.buffer = buffer THEN r.balance ELSE 0
Share(s, b) == IF s.owner = b THEN s.amount ELSE 0

LEMMA HeldType ==
  ASSUME NEW R \in SUBSET Rows, IsFiniteSet(R), NEW b, NEW buffer
  PROVE  Held(R, b, buffer) \in Nat
<1> DEFINE f == [r \in R |-> r.balance]
           S == {r \in R : r.owner = b /\ r.buffer = buffer}
<1>1. IsFiniteSet(S)
  BY FS_Subset
<1>2. \A r \in S : f[r] \in Nat
  BY DEF Rows
<1> HIDE DEF f, S
<1>3. SumFunctionOnSet(f, S) \in Nat
  BY <1>1, <1>2, SumNat
<1> QED
  BY <1>3 DEF Held, f, S

LEMMA HeldMore ==
  ASSUME NEW R \in SUBSET Rows, IsFiniteSet(R), NEW q \in Rows, q \notin R, NEW b, NEW buffer
  PROVE  Held(R \cup {q}, b, buffer) = Held(R, b, buffer) + Part(q, b, buffer)
<1> DEFINE f == [r \in R |-> r.balance]
           g == [r \in R \cup {q} |-> r.balance]
           S == {r \in R : r.owner = b /\ r.buffer = buffer}
           T == {r \in R \cup {q} : r.owner = b /\ r.buffer = buffer}
<1>1. IsFiniteSet(S) /\ q \notin S
  BY FS_Subset
<1>2. /\ \A r \in S \cup {q} : g[r] \in Int
      /\ \A r \in S : f[r] = g[r] /\ f[r] \in Int
      /\ g[q] = q.balance /\ q.balance \in Nat
  BY DEF Rows
<1>3. /\ q.owner = b /\ q.buffer = buffer => T = S \cup {q}
      /\ ~(q.owner = b /\ q.buffer = buffer) => T = S
  OBVIOUS
<1> HIDE DEF f, g, S, T
<1>4. SumFunctionOnSet(g, S) = SumFunctionOnSet(f, S) /\ SumFunctionOnSet(f, S) \in Int
  BY <1>1, <1>2, SumSame, SumInt
<1>5. SumFunctionOnSet(g, S \cup {q}) = g[q] + SumFunctionOnSet(g, S)
  BY <1>1, <1>2, SumAdd
<1>6. SumFunctionOnSet(g, T) = SumFunctionOnSet(f, S) + Part(q, b, buffer)
  <2>1. CASE q.owner = b /\ q.buffer = buffer
    <3>1. Part(q, b, buffer) = q.balance /\ T = S \cup {q}
      BY <1>3, <2>1 DEF Part
    <3> QED
      BY <1>2, <1>4, <1>5, <3>1
  <2>2. CASE ~(q.owner = b /\ q.buffer = buffer)
    <3>1. Part(q, b, buffer) = 0 /\ T = S
      BY <1>3, <2>2 DEF Part
    <3> QED
      BY <1>4, <3>1
  <2> QED
    BY <2>1, <2>2
<1>7. Held(R, b, buffer) = SumFunctionOnSet(f, S)
  BY Zenon DEF Held, f, S
<1>8. Held(R \cup {q}, b, buffer) = SumFunctionOnSet(g, T)
  BY Zenon DEF Held, g, T
<1> QED
  BY <1>6, <1>7, <1>8

LEMMA HeldLess ==
  ASSUME NEW R \in SUBSET Rows, IsFiniteSet(R), NEW q \in R, NEW b, NEW buffer
  PROVE  /\ Held(R, b, buffer) = Held(R \ {q}, b, buffer) + Part(q, b, buffer)
         /\ Held(R \ {q}, b, buffer) \in Nat
<1>1. /\ R \ {q} \in SUBSET Rows /\ IsFiniteSet(R \ {q}) /\ q \notin R \ {q}
      /\ (R \ {q}) \cup {q} = R /\ q \in Rows
  BY FS_RemoveElement
<1> QED
  BY <1>1, HeldMore, HeldType

LEMMA DebtType ==
  ASSUME NEW S \in SUBSET Shadows, IsFiniteSet(S), NEW b
  PROVE  Debt(S, b) \in Nat
<1> DEFINE f == [s \in S |-> s.amount]
           T == {s \in S : s.owner = b}
<1>1. IsFiniteSet(T)
  BY FS_Subset
<1>2. \A s \in T : f[s] \in Nat
  BY DEF Shadows
<1> HIDE DEF f, T
<1>3. SumFunctionOnSet(f, T) \in Nat
  BY <1>1, <1>2, SumNat
<1> QED
  BY <1>3 DEF Debt, f, T

LEMMA DebtMore ==
  ASSUME NEW S \in SUBSET Shadows, IsFiniteSet(S), NEW q \in Shadows, q \notin S, NEW b
  PROVE  Debt(S \cup {q}, b) = Debt(S, b) + Share(q, b)
<1> DEFINE f == [s \in S |-> s.amount]
           g == [s \in S \cup {q} |-> s.amount]
           T == {s \in S : s.owner = b}
           U == {s \in S \cup {q} : s.owner = b}
<1>1. IsFiniteSet(T) /\ q \notin T
  BY FS_Subset
<1>2. /\ \A s \in T \cup {q} : g[s] \in Int
      /\ \A s \in T : f[s] = g[s] /\ f[s] \in Int
      /\ g[q] = q.amount /\ q.amount \in Nat
  BY DEF Shadows
<1>3. (q.owner = b => U = T \cup {q}) /\ (q.owner # b => U = T)
  OBVIOUS
<1> HIDE DEF f, g, T, U
<1>4. SumFunctionOnSet(g, T) = SumFunctionOnSet(f, T) /\ SumFunctionOnSet(f, T) \in Int
  BY <1>1, <1>2, SumSame, SumInt
<1>5. SumFunctionOnSet(g, T \cup {q}) = g[q] + SumFunctionOnSet(g, T)
  BY <1>1, <1>2, SumAdd
<1>6. SumFunctionOnSet(g, U) = SumFunctionOnSet(f, T) + Share(q, b)
  <2>1. CASE q.owner = b
    <3>1. Share(q, b) = q.amount /\ U = T \cup {q}
      BY <1>3, <2>1 DEF Share
    <3> QED
      BY <1>2, <1>4, <1>5, <3>1
  <2>2. CASE q.owner # b
    <3>1. Share(q, b) = 0 /\ U = T
      BY <1>3, <2>2 DEF Share
    <3> QED
      BY <1>4, <3>1
  <2> QED
    BY <2>1, <2>2
<1>7. Debt(S, b) = SumFunctionOnSet(f, T)
  BY Zenon DEF Debt, f, T
<1>8. Debt(S \cup {q}, b) = SumFunctionOnSet(g, U)
  BY Zenon DEF Debt, g, U
<1> QED
  BY <1>6, <1>7, <1>8

LEMMA DebtLess ==
  ASSUME NEW S \in SUBSET Shadows, IsFiniteSet(S), NEW q \in S, NEW b
  PROVE  /\ Debt(S, b) = Debt(S \ {q}, b) + Share(q, b)
         /\ Debt(S \ {q}, b) \in Nat
<1>1. /\ S \ {q} \in SUBSET Shadows /\ IsFiniteSet(S \ {q}) /\ q \notin S \ {q}
      /\ (S \ {q}) \cup {q} = S /\ q \in Shadows
  BY FS_RemoveElement
<1> QED
  BY <1>1, DebtMore, DebtType

\* The same shadow for each of several bundles.
LEMMA DebtEach ==
  ASSUME NEW S \in SUBSET Shadows, IsFiniteSet(S), NEW id \in 0..MaxMolecules, NEW n \in Nat,
         \A s \in S : s.batch # id
  PROVE  /\ IsFiniteSet({Shadow(b, id, n) : b \in Bundles})
         /\ \A b \in Bundles :
                Debt(S \cup {Shadow(d, id, n) : d \in Bundles}, b) = Debt(S, b) + n
<1> DEFINE N == {Shadow(d, id, n) : d \in Bundles}
           f == [s \in S |-> s.amount]
           g == [s \in S \cup N |-> s.amount]
<1>1. IsFiniteSet(N)
  <2> DEFINE h == [d \in Bundles |-> Shadow(d, id, n)]
  <2>1. N = {h[d] : d \in Bundles}
    OBVIOUS
  <2> HIDE DEF h, N
  <2>2. IsFiniteSet({h[d] : d \in Bundles})
    BY BundlesAssumption, FiniteImage
  <2> QED
    BY <2>1, <2>2
<1>2. ASSUME NEW b \in Bundles PROVE Debt(S \cup N, b) = Debt(S, b) + n
  <2> DEFINE T == {s \in S : s.owner = b}
             U == {s \in S \cup N : s.owner = b}
             q == Shadow(b, id, n)
  <2>1. U = T \cup {q} /\ q \notin T /\ q.amount = n /\ q \in N
    BY DEF Shadow
  <2>2. IsFiniteSet(T)
    BY FS_Subset
  <2>3. /\ \A s \in T \cup {q} : g[s] \in Int
        /\ \A s \in T : f[s] = g[s] /\ f[s] \in Int
        /\ g[q] = n
    BY <2>1 DEF Shadows
  <2> HIDE DEF f, g, T, U, q
  <2>4. SumFunctionOnSet(g, T) = SumFunctionOnSet(f, T) /\ SumFunctionOnSet(f, T) \in Int
    BY <2>2, <2>3, SumSame, SumInt
  <2>5. SumFunctionOnSet(g, T \cup {q}) = g[q] + SumFunctionOnSet(g, T)
    BY <2>1, <2>2, <2>3, SumAdd
  <2>6. SumFunctionOnSet(g, U) = SumFunctionOnSet(f, T) + n
    BY <2>1, <2>3, <2>4, <2>5
  <2>7. Debt(S, b) = SumFunctionOnSet(f, T)
    BY Zenon DEF Debt, f, T
  <2>8. Debt(S \cup N, b) = SumFunctionOnSet(g, U)
    BY Zenon DEF Debt, g, U
  <2> QED
    BY <2>6, <2>7, <2>8
<1> QED
  BY <1>1, <1>2

-----------------------------------------------------------------------------
(* Operations on accounts. A molecule takes and gives what its operation      *)
(* says, and the ledger has finitely many wallets.                            *)

\* A call that is about to sign knows one source, of the right kind.
SourceOK(k) ==
    /\ k.step = "propose" /\ k.op \in FundedOps =>
            \A r \in k.source : r.buffer <=> k.op = "withdraw"
    /\ k.step = "propose" /\ k.op = "replenish" => \A r, q \in k.source : r = q
    /\ k.step = "sent" => k.sent \in 1..MaxMolecules

DealOfSpending(m) ==
    /\ m.owes = Owes(m.id, m, m.by) /\ m.credits = {} /\ m.claims = {}
    /\ \E r \in m.debits : /\ m.debits = {r} /\ r.owner = m.by /\ r.balance >= Needs(m)
                           /\ r.buffer <=> m.op = "withdraw"
                           /\ m.gives = SpendingGives(m.id, m, m.by, r)

DealOfUser(m) ==
    /\ m.debits = {} /\ m.owes = {}
    /\ IF m.op = "claim" THEN \E b \in m.claims : m.claims = {b} ELSE m.claims = {}
    /\ m.credits # {} => m.op = "replenish" /\ \E p \in m.credits : m.credits = {p}
    /\ m.gives = IF m.op = "create_wallet" THEN {Made(m.id, m.by, FALSE, 0)}
                 ELSE IF m.op = "create_token" \/ (m.op = "replenish" /\ m.credits = {})
                      THEN {Made(m.id, m.by, FALSE, m.amount)} ELSE {}

Deal(m) ==
    /\ m.op \in FundedOps => DealOfSpending(m)
    /\ m.op \in UserOps => DealOfUser(m)

DealsInv ==
    /\ IsFiniteSet(rows) /\ IsFiniteSet(shadows)
    /\ \A c \in Clients : call[c] # None => SourceOK(call[c])
    /\ \A m \in flight : Deal(m)

\* What a spending molecule adds to the wallets of its bundle, and to what a bundle is owed.
Gain(m, buffer) ==
    IF m.op = "deposit" /\ buffer THEN m.amount
    ELSE IF m.op = "fuse" /\ m.to = m.by /\ ~buffer THEN 1 ELSE 0

Loan(m, b) ==
    IF m.op = "transfer_multi" \/ (m.op \in {"transfer", "withdraw"} /\ b = m.to) THEN m.amount
    ELSE IF m.op = "fuse" /\ m.to # m.by /\ b = m.to THEN 1 ELSE 0

\* A position, or a batch, of a molecule under way is not in the ledger yet.
LEMMA OwnIsNew ==
  ASSUME IInv, NEW m \in flight
  PROVE  /\ m \in Molecules /\ m.id \in 1..MaxMolecules /\ m.id \in 0..MaxMolecules
         /\ \A as \in {"next", "new"} : [of |-> m.id, as |-> as] \in Positions
         /\ \A r \in rows, as \in {"next", "new"} : r.position # [of |-> m.id, as |-> as]
         /\ \A s \in shadows : s.batch # m.id
<1>1. m \in Molecules /\ m.id \in 1..MaxMolecules /\ m.id \in 0..MaxMolecules /\ verdict[m.id] = "none"
  BY MaxMoleculesAssumption DEF IInv, NetworkType, FlightInv, Molecules
<1>2. ASSUME NEW as \in {"next", "new"}
      PROVE  /\ [of |-> m.id, as |-> as] \in Positions
             /\ ~Used(verdict, [of |-> m.id, as |-> as])
  <2> DEFINE p == [of |-> m.id, as |-> as]
  <2>1. p \in Fresh /\ p.of = m.id
    BY <1>1 DEF Fresh
  <2> HIDE DEF p
  <2>2. p \in Positions /\ ~Used(verdict, p)
    BY <1>1, <2>1, FreshIsApart, OwnIsUnused
  <2> QED
    BY <2>2 DEF p
<1>3. \A s \in shadows : s.batch # m.id
  BY <1>1 DEF IInv, LedgerInv, ShadowsInv, Happened
<1>4. \A r \in rows : Used(verdict, r.position)
  BY DEF IInv, LedgerInv, RowsInv
<1> QED
  BY <1>1, <1>2, <1>3, <1>4, Zenon

LEMMA SpendingAccounts ==
  ASSUME IInv, DealsInv, NEW m \in flight, Accept(m), m.op \in FundedOps
  PROVE  /\ IsFiniteSet(rows')
         /\ \A b \in Bundles, buffer \in BOOLEAN :
                IF b = m.by
                THEN LET n == IF buffer <=> m.op = "withdraw" THEN Needs(m) ELSE 0
                     IN  /\ Balance(b, buffer) >= n
                         /\ Balance(b, buffer)' = (Balance(b, buffer) - n) + Gain(m, buffer)
                ELSE Balance(b, buffer)' = Balance(b, buffer)
<1>1. DealOfSpending(m) /\ m.by \in Bundles /\ m.amount \in Nat
  BY DEF DealsInv, Deal, IInv, NetworkType, Molecules
<1>2. PICK r \in m.debits : /\ m.debits = {r} /\ r.owner = m.by /\ r.balance >= Needs(m)
                            /\ r.buffer <=> m.op = "withdraw"
                            /\ m.gives = SpendingGives(m.id, m, m.by, r)
  BY <1>1 DEF DealOfSpending
<1> DEFINE rest == Remainder(m.id, m, m.by, r)
           one(buffer, n) == Made(m.id, m.by, buffer, n)
           A == rows \ {r}
           B == A \cup {rest}
<1>3. /\ rows \in SUBSET Rows /\ IsFiniteSet(rows) /\ r \in rows /\ r \in Rows
      /\ Needs(m) \in Nat
  BY <1>1, <1>2, NeedsType DEF Accept, Acceptable, DealsInv, IInv, LedgerType
<1>4. rows' = A \cup m.gives
  <2>1. m.credits = {} /\ m.claims = {}
    BY <1>1 DEF DealOfSpending
  <2>2. Claimed(m) = {}
    BY <2>1 DEF Claimed
  <2> QED
    BY <1>2, <2>1, <2>2 DEF Accept
<1>5. /\ A \in SUBSET Rows /\ IsFiniteSet(A) /\ rest \notin A /\ rest \in Rows
      /\ rest.owner = m.by /\ rest.buffer = r.buffer /\ rest.balance = r.balance - Needs(m)
  <2>1. /\ rest.owner = m.by /\ rest.buffer = r.buffer /\ rest.balance = r.balance - Needs(m)
        /\ rest.position = [of |-> m.id, as |-> "next"]
    BY DEF Remainder
  <2>2. rest \in Rows
    <3>1. r.balance - Needs(m) \in Nat /\ r.buffer \in BOOLEAN
      BY <1>2, <1>3 DEF Rows
    <3>2. [of |-> m.id, as |-> "next"] \in Positions
      BY OwnIsNew
    <3> QED
      BY <1>1, <3>1, <3>2 DEF Remainder, Rows
  <2>3. rest \notin rows
    BY <2>1, OwnIsNew
  <2>4. A \in SUBSET Rows /\ IsFiniteSet(A)
    BY <1>3, FS_RemoveElement
  <2> QED
    BY <2>1, <2>2, <2>3, <2>4
<1>6. ASSUME NEW buffer \in BOOLEAN, NEW n \in Nat
      PROVE  /\ one(buffer, n) \in Rows /\ one(buffer, n) \notin B
             /\ one(buffer, n).owner = m.by /\ one(buffer, n).buffer = buffer
             /\ one(buffer, n).balance = n
  <2>1. /\ [of |-> m.id, as |-> "new"] \in Positions
        /\ one(buffer, n) = [owner |-> m.by, buffer |-> buffer,
                             position |-> [of |-> m.id, as |-> "new"], balance |-> n]
    BY OwnIsNew DEF Made, NewPosition
  <2>2. one(buffer, n).position # rest.position
    <3>1. rest.position.as = "next" /\ one(buffer, n).position.as = "new"
      BY <2>1 DEF Remainder
    <3> QED
      BY <3>1
  <2>3. one(buffer, n) \notin rows
    <3>1. one(buffer, n).position = [of |-> m.id, as |-> "new"]
      BY <2>1
    <3> HIDE DEF one
    <3> QED
      BY <3>1, OwnIsNew
  <2> QED
    BY <1>1, <2>1, <2>2, <2>3 DEF Rows
<1>7. B \in SUBSET Rows /\ IsFiniteSet(B)
  BY <1>5, FS_AddElement
<1> HIDE DEF A, B, rest, one
<1>8. ASSUME NEW b \in Bundles, NEW buffer \in BOOLEAN
      PROVE  /\ Held(rows, b, buffer) = Held(A, b, buffer) + Part(r, b, buffer)
             /\ Held(A, b, buffer) \in Nat
             /\ Held(B, b, buffer) = Held(A, b, buffer) + Part(rest, b, buffer)
             /\ Held(B, b, buffer) \in Nat
  BY <1>3, <1>5, <1>7, HeldLess, HeldMore, HeldType DEF A, B
<1>9. ASSUME NEW b \in Bundles, NEW buffer \in BOOLEAN
      PROVE  IF b = m.by /\ (buffer <=> m.op = "withdraw")
             THEN /\ Held(rows, b, buffer) >= Needs(m)
                  /\ Held(B, b, buffer) = Held(rows, b, buffer) - Needs(m)
             ELSE Held(B, b, buffer) = Held(rows, b, buffer)
  <2>1. r.buffer \in BOOLEAN /\ r.balance \in Nat
    BY <1>3 DEF Rows
  <2>2. CASE b = m.by /\ (buffer <=> m.op = "withdraw")
    <3>1. Part(r, b, buffer) = r.balance /\ Part(rest, b, buffer) = r.balance - Needs(m)
      BY <1>2, <1>5, <2>1, <2>2 DEF Part
    <3> QED
      BY <1>2, <1>3, <1>8, <2>1, <2>2, <3>1
  <2>3. CASE ~(b = m.by /\ (buffer <=> m.op = "withdraw"))
    <3>1. Part(r, b, buffer) = 0 /\ Part(rest, b, buffer) = 0
      BY <1>2, <1>5, <2>1, <2>3 DEF Part
    <3> QED
      BY <1>8, <2>3, <3>1
  <2> QED
    BY <2>2, <2>3
<1>10. ASSUME NEW n \in Nat, NEW kind \in BOOLEAN, m.gives = {rest} \cup {one(kind, n)}
       PROVE  /\ IsFiniteSet(rows')
              /\ \A b \in Bundles, buffer \in BOOLEAN :
                    Held(rows', b, buffer) = Held(B, b, buffer)
                            + (IF b = m.by /\ buffer = kind THEN n ELSE 0)
  <2> DEFINE q == one(kind, n)
  <2>1. /\ q \in Rows /\ q \notin B /\ q.owner = m.by /\ q.buffer = kind /\ q.balance = n
        /\ rows' = B \cup {q}
    BY <1>4, <1>6, <1>10 DEF B
  <2> HIDE DEF q
  <2>2. IsFiniteSet(rows')
    BY <1>7, <2>1, FS_AddElement
  <2>3. ASSUME NEW b \in Bundles, NEW buffer \in BOOLEAN
        PROVE  Held(rows', b, buffer) = Held(B, b, buffer)
                            + (IF b = m.by /\ buffer = kind THEN n ELSE 0)
    <3>1. Held(rows', b, buffer) = Held(B, b, buffer) + Part(q, b, buffer)
      BY <1>7, <2>1, HeldMore
    <3>2. Part(q, b, buffer) = IF b = m.by /\ buffer = kind THEN n ELSE 0
      BY <2>1 DEF Part
    <3> QED
      BY <3>1, <3>2
  <2> QED
    BY <2>2, <2>3
<1>11. /\ IsFiniteSet(rows')
       /\ \A b \in Bundles, buffer \in BOOLEAN :
            Held(rows', b, buffer) = Held(B, b, buffer) + (IF b = m.by THEN Gain(m, buffer) ELSE 0)
  <2>1. CASE m.op = "deposit"
    <3>1. m.gives = {rest} \cup {one(TRUE, m.amount)}
      BY <1>2, <2>1 DEF SpendingGives, rest, one
    <3>2. \A buffer \in BOOLEAN : Gain(m, buffer) = IF buffer = TRUE THEN m.amount ELSE 0
      BY <2>1 DEF Gain
    <3>3. TRUE \in BOOLEAN
      OBVIOUS
    <3> QED
      BY <1>1, <1>10, <3>1, <3>2, <3>3
  <2>2. CASE m.op = "fuse" /\ m.to = m.by
    <3>1. m.gives = {rest} \cup {one(FALSE, 1)}
      BY <1>2, <2>2 DEF SpendingGives, rest, one
    <3>2. \A buffer \in BOOLEAN : Gain(m, buffer) = IF buffer = FALSE THEN 1 ELSE 0
      BY <2>2 DEF Gain
    <3>3. FALSE \in BOOLEAN /\ 1 \in Nat
      OBVIOUS
    <3> QED
      BY <1>10, <3>1, <3>2, <3>3
  <2>3. CASE m.op # "deposit" /\ ~(m.op = "fuse" /\ m.to = m.by)
    <3>1. m.gives = {rest} /\ rows' = B
      BY <1>2, <1>4, <2>3 DEF SpendingGives, rest, B
    <3>2. \A buffer \in BOOLEAN : Gain(m, buffer) = 0
      BY <2>3 DEF Gain
    <3> QED
      BY <1>7, <1>8, <3>1, <3>2
  <2> QED
    BY <2>1, <2>2, <2>3
<1>12. ASSUME NEW b \in Bundles, NEW buffer \in BOOLEAN
       PROVE  Balance(b, buffer) = Held(rows, b, buffer) /\ Balance(b, buffer)' = Held(rows', b, buffer)
  BY DEF Balance, Held
<1>13. ASSUME NEW b \in Bundles, NEW buffer \in BOOLEAN
       PROVE  IF b = m.by
              THEN LET n == IF buffer <=> m.op = "withdraw" THEN Needs(m) ELSE 0
                   IN  /\ Balance(b, buffer) >= n
                       /\ Balance(b, buffer)' = (Balance(b, buffer) - n) + Gain(m, buffer)
              ELSE Balance(b, buffer)' = Balance(b, buffer)
  <2>1. Held(rows, b, buffer) \in Nat
    BY <1>3, HeldType
  <2>2. CASE b # m.by
    <3>1. Held(rows', b, buffer) = Held(rows, b, buffer)
      BY <1>8, <1>9, <1>11, <2>2
    <3> QED
      BY <1>12, <2>2, <3>1
  <2>3. CASE b = m.by /\ (buffer <=> m.op = "withdraw")
    BY <1>9, <1>11, <1>12, <2>3
  <2>4. CASE b = m.by /\ ~(buffer <=> m.op = "withdraw")
    <3>1. /\ Held(rows, b, buffer) >= 0
          /\ Held(rows', b, buffer) = (Held(rows, b, buffer) - 0) + Gain(m, buffer)
      BY <1>9, <1>11, <2>1, <2>4
    <3> QED
      BY <1>12, <2>4, <3>1
  <2> QED
    BY <2>2, <2>3, <2>4
<1> QED
  BY <1>11, <1>13

LEMMA LendingAccounts ==
  ASSUME IInv, DealsInv, NEW m \in flight, Accept(m), m.op \in FundedOps
  PROVE  /\ IsFiniteSet(shadows')
         /\ \A b \in Bundles : Owed(b)' = Owed(b) + Loan(m, b)
<1>1. /\ m.claims = {} /\ m.owes = Owes(m.id, m, m.by) /\ m.to \in Bundles /\ m.amount \in Nat
      /\ m.id \in 0..MaxMolecules /\ \A s \in shadows : s.batch # m.id
  BY OwnIsNew DEF DealsInv, Deal, DealOfSpending, IInv, NetworkType, Molecules
<1>2. shadows' = shadows \cup m.owes
  <2>1. Claimed(m) = {}
    BY <1>1 DEF Claimed
  <2> QED
    BY <2>1 DEF Accept
<1>3. shadows \in SUBSET Shadows /\ IsFiniteSet(shadows)
  BY DEF IInv, LedgerType, DealsInv
<1>4. \A b \in Bundles : Owed(b) = Debt(shadows, b) /\ Owed(b)' = Debt(shadows', b)
  BY DEF Owed, Debt
<1>5. ASSUME NEW n \in Nat, m.owes = {Shadow(m.to, m.id, n)}
      PROVE  /\ IsFiniteSet(shadows')
             /\ \A b \in Bundles : Owed(b)' = Owed(b) + (IF b = m.to THEN n ELSE 0)
  <2> DEFINE q == Shadow(m.to, m.id, n)
  <2>1. q \in Shadows /\ q \notin shadows /\ q.owner = m.to /\ q.amount = n
    BY <1>1 DEF Shadow, Shadows
  <2>2. shadows' = shadows \cup {q}
    BY <1>2, <1>5
  <2> HIDE DEF q
  <2>3. ASSUME NEW b \in Bundles
        PROVE  Debt(shadows', b) = Debt(shadows, b) + (IF b = m.to THEN n ELSE 0)
    <3>1. Debt(shadows', b) = Debt(shadows, b) + Share(q, b)
      BY <1>3, <2>1, <2>2, DebtMore
    <3>2. Share(q, b) = IF b = m.to THEN n ELSE 0
      BY <2>1 DEF Share
    <3> QED
      BY <3>1, <3>2
  <2>4. IsFiniteSet(shadows')
    BY <1>3, <2>2, FS_AddElement
  <2> QED
    BY <1>4, <2>3, <2>4
<1>6. CASE m.op \in {"transfer", "withdraw"}
  <2>1. m.owes = {Shadow(m.to, m.id, m.amount)}
    BY <1>1, <1>6 DEF Owes
  <2>2. \A b \in Bundles : Loan(m, b) = IF b = m.to THEN m.amount ELSE 0
    BY <1>6 DEF Loan
  <2> QED
    BY <1>1, <1>5, <2>1, <2>2
<1>7. CASE m.op = "transfer_multi"
  <2>1. shadows' = shadows \cup {Shadow(b, m.id, m.amount) : b \in Bundles}
    BY <1>1, <1>2, <1>7 DEF Owes
  <2>2. \A b \in Bundles : Loan(m, b) = m.amount
    BY <1>7 DEF Loan
  <2>3. /\ IsFiniteSet({Shadow(b, m.id, m.amount) : b \in Bundles})
        /\ \A b \in Bundles :
              Debt(shadows \cup {Shadow(d, m.id, m.amount) : d \in Bundles}, b)
                    = Debt(shadows, b) + m.amount
    BY <1>1, <1>3, DebtEach
  <2>4. IsFiniteSet(shadows')
    BY <1>3, <2>1, <2>3, FS_Union
  <2> QED
    BY <1>4, <2>1, <2>2, <2>3, <2>4
<1>8. CASE m.op = "fuse" /\ m.to # m.by
  <2>1. m.owes = {Shadow(m.to, m.id, 1)}
    BY <1>1, <1>8 DEF Owes
  <2>2. \A b \in Bundles : Loan(m, b) = IF b = m.to THEN 1 ELSE 0
    BY <1>8 DEF Loan
  <2> QED
    BY <1>5, <2>1, <2>2
<1>9. CASE m.op \in {"burn", "deposit"} \/ (m.op = "fuse" /\ m.to = m.by)
  <2>1. shadows' = shadows
    BY <1>1, <1>2, <1>9 DEF Owes
  <2>2. \A b \in Bundles : Loan(m, b) = 0
    BY <1>9 DEF Loan
  <2>3. \A b \in Bundles : Debt(shadows, b) \in Nat
    BY <1>3, DebtType
  <2> QED
    BY <1>3, <1>4, <2>1, <2>2, <2>3
<1> QED
  BY <1>6, <1>7, <1>8, <1>9 DEF FundedOps

\* A molecule signed with the USER key and no claim: a new wallet, or more in one.
LEMMA UserAccounts ==
  ASSUME IInv, DealsInv, NEW m \in flight, Accept(m), m.op \in UserOps, m.op # "claim"
  PROVE  /\ IsFiniteSet(rows') /\ UNCHANGED shadows
         /\ \A b \in Bundles, buffer \in BOOLEAN :
                Balance(b, buffer)' = Balance(b, buffer)
                        + (IF /\ b = m.by /\ ~buffer
                              /\ m.op \in {"create_token", "replenish"} THEN m.amount ELSE 0)
<1> DEFINE Credited(r) == IF r.owner = m.by /\ r.position \in m.credits
                          THEN [r EXCEPT !.balance = @ + m.amount] ELSE r
<1>1. /\ m.debits = {} /\ m.owes = {} /\ m.claims = {}
      /\ m.credits # {} => m.op = "replenish" /\ \E p \in m.credits : m.credits = {p}
      /\ m.gives = IF m.op = "create_wallet" THEN {Made(m.id, m.by, FALSE, 0)}
                   ELSE IF m.op = "create_token" \/ (m.op = "replenish" /\ m.credits = {})
                        THEN {Made(m.id, m.by, FALSE, m.amount)} ELSE {}
  BY DEF DealsInv, Deal, DealOfUser
<1>2. /\ m.by \in Bundles /\ m.amount \in Nat /\ rows \in SUBSET Rows /\ IsFiniteSet(rows)
  BY DEF DealsInv, IInv, NetworkType, LedgerType, Molecules
<1>3. Claimed(m) = {}
  BY <1>1 DEF Claimed
<1>4. UNCHANGED shadows
  BY <1>1, <1>3 DEF Accept
<1>5. rows' = {Credited(r) : r \in rows} \cup m.gives
  BY <1>1, <1>3 DEF Accept
<1>6. ASSUME NEW b \in Bundles, NEW buffer \in BOOLEAN
      PROVE  /\ Balance(b, buffer) = Held(rows, b, buffer)
             /\ Balance(b, buffer)' = Held(rows', b, buffer)
             /\ Held(rows, b, buffer) \in Nat
  <2>1. Held(rows, b, buffer) \in Nat
    BY <1>2, HeldType
  <2> QED
    BY <2>1 DEF Balance, Held
<1> DEFINE Added(b, buffer) ==
            IF /\ b = m.by /\ ~buffer
               /\ m.op \in {"create_token", "replenish"} THEN m.amount ELSE 0
<1> SUFFICES /\ IsFiniteSet(rows')
             /\ \A b \in Bundles, buffer \in BOOLEAN :
                    Balance(b, buffer)' = Balance(b, buffer) + Added(b, buffer)
  BY <1>4
<1>7. CASE m.credits = {}
  <2>1. rows' = rows \cup m.gives
    BY <1>5, <1>7
  <2>2. ASSUME NEW n \in Nat, m.gives = {Made(m.id, m.by, FALSE, n)}
        PROVE  /\ IsFiniteSet(rows')
               /\ \A b \in Bundles, buffer \in BOOLEAN :
                    Balance(b, buffer)' = Balance(b, buffer)
                            + (IF b = m.by /\ ~buffer THEN n ELSE 0)
    <3> DEFINE q == Made(m.id, m.by, FALSE, n)
               p == [of |-> m.id, as |-> "new"]
    <3>1. q = [owner |-> m.by, buffer |-> FALSE, position |-> p, balance |-> n] /\ p \in Positions
      BY OwnIsNew DEF Made, NewPosition
    <3> HIDE DEF q, p
    <3>2. q \in Rows /\ q.owner = m.by /\ q.buffer = FALSE /\ q.balance = n /\ q.position = p
      BY <1>2, <3>1 DEF Rows
    <3>3. q \notin rows
      BY <3>2, OwnIsNew DEF p
    <3>4. rows' = rows \cup {q}
      BY <2>1, <2>2 DEF q
    <3>5. IsFiniteSet(rows')
      BY <1>2, <3>4, FS_AddElement
    <3>6. ASSUME NEW b \in Bundles, NEW buffer \in BOOLEAN
          PROVE  Held(rows', b, buffer) = Held(rows, b, buffer)
                            + (IF b = m.by /\ ~buffer THEN n ELSE 0)
      <4>1. Held(rows', b, buffer) = Held(rows, b, buffer) + Part(q, b, buffer)
        BY <1>2, <3>2, <3>3, <3>4, HeldMore
      <4>2. Part(q, b, buffer) = IF b = m.by /\ ~buffer THEN n ELSE 0
        BY <3>2 DEF Part
      <4> QED
        BY <4>1, <4>2
    <3> QED
      BY <1>6, <3>5, <3>6
  <2>3. CASE m.op = "create_wallet"
    <3>1. \A b, buffer : Added(b, buffer) = IF b = m.by /\ ~buffer THEN 0 ELSE 0
      BY <2>3
    <3>2. m.gives = {Made(m.id, m.by, FALSE, 0)}
      BY <1>1, <2>3
    <3> HIDE DEF Added
    <3> QED
      BY <2>2, <3>1, <3>2, 0 \in Nat
  <2>4. CASE m.op \in {"create_token", "replenish"}
    <3>1. \A b, buffer : Added(b, buffer) = IF b = m.by /\ ~buffer THEN m.amount ELSE 0
      BY <2>4
    <3>2. m.gives = {Made(m.id, m.by, FALSE, m.amount)}
      BY <1>1, <1>7, <2>4
    <3> HIDE DEF Added
    <3> QED
      BY <1>2, <2>2, <3>1, <3>2
  <2>5. CASE m.op = "create_meta"
    <3>1. rows' = rows
      BY <1>1, <2>1, <2>5
    <3>2. \A b, buffer : Added(b, buffer) = 0
      BY <2>5
    <3> HIDE DEF Added
    <3> QED
      BY <1>2, <1>6, <3>1, <3>2
  <2> QED
    BY <2>3, <2>4, <2>5 DEF UserOps
<1>8. CASE m.credits # {}
  <2>1. PICK p \in m.credits : m.credits = {p} /\ m.op = "replenish" /\ m.gives = {}
    BY <1>1, <1>8
  <2>2. PICK q \in rows : q.owner = m.by /\ ~q.buffer /\ q.position = p
    BY <2>1 DEF Accept, Acceptable
  <2> DEFINE more == [q EXCEPT !.balance = @ + m.amount]
             A == rows \ {q}
  <2>3. q \in Rows /\ q.buffer = FALSE /\ q.balance \in Nat
    BY <1>2, <2>2 DEF Rows
  <2>4. /\ more \in Rows /\ more.owner = m.by /\ more.buffer = FALSE /\ more.position = p
        /\ more.balance = q.balance + m.amount
    BY <1>2, <2>2, <2>3 DEF Rows
  <2>5. \A r \in rows : r.owner = m.by /\ r.position = p => r = q
    BY <2>2 DEF IInv, LedgerInv, RowsInv
  <2>6. rows' = A \cup {more}
    <3>1. \A r \in A : Credited(r) = r
      BY <2>1, <2>5
    <3>2. Credited(q) = more
      BY <2>1, <2>2
    <3>3. {Credited(r) : r \in rows} = {Credited(r) : r \in A} \cup {Credited(q)}
      BY <2>2
    <3> HIDE DEF Credited, more
    <3> QED
      BY <1>5, <2>1, <3>1, <3>2, <3>3
  <2> HIDE DEF more
  <2>7. more \notin A
    BY <2>4, <2>5
  <2>8. A \in SUBSET Rows /\ IsFiniteSet(A)
    BY <1>2, FS_RemoveElement
  <2>9. IsFiniteSet(rows')
    BY <2>6, <2>8, FS_AddElement
  <2>10. ASSUME NEW b \in Bundles, NEW buffer \in BOOLEAN
         PROVE  Held(rows', b, buffer) = Held(rows, b, buffer)
                            + (IF b = m.by /\ ~buffer THEN m.amount ELSE 0)
    <3>1. Held(rows', b, buffer) = Held(A, b, buffer) + Part(more, b, buffer)
      BY <2>4, <2>6, <2>7, <2>8, HeldMore
    <3>2. /\ Held(rows, b, buffer) = Held(A, b, buffer) + Part(q, b, buffer)
          /\ Held(A, b, buffer) \in Nat
      BY <1>2, <2>2, HeldLess
    <3> HIDE DEF A
    <3>3. CASE b = m.by /\ ~buffer
      <4>1. Part(q, b, buffer) = q.balance /\ Part(more, b, buffer) = q.balance + m.amount
        BY <2>2, <2>3, <2>4, <3>3 DEF Part
      <4> QED
        BY <1>2, <2>3, <3>1, <3>2, <3>3, <4>1
    <3>4. CASE ~(b = m.by /\ ~buffer)
      <4>1. Part(q, b, buffer) = 0 /\ Part(more, b, buffer) = 0
        BY <2>2, <2>3, <2>4, <3>4 DEF Part
      <4> QED
        BY <3>1, <3>2, <3>4, <4>1
    <3> QED
      BY <3>3, <3>4
  <2>11. \A b, buffer : Added(b, buffer) = IF b = m.by /\ ~buffer THEN m.amount ELSE 0
    BY <2>1
  <2> HIDE DEF Added
  <2> QED
    BY <1>6, <2>9, <2>10, <2>11
<1> QED
  BY <1>7, <1>8

\* A claim moves one shadow to a new wallet.
LEMMA ClaimAccounts ==
  ASSUME IInv, DealsInv, NEW m \in flight, Accept(m), m.op = "claim"
  PROVE  /\ IsFiniteSet(rows') /\ IsFiniteSet(shadows')
         /\ \E n \in Nat :
                /\ \A b \in Bundles, buffer \in BOOLEAN :
                      Balance(b, buffer)' = Balance(b, buffer)
                            + (IF b = m.by /\ ~buffer THEN n ELSE 0)
                /\ \A b \in Bundles :
                      IF b = m.by THEN Owed(b) >= n /\ Owed(b)' = Owed(b) - n
                      ELSE Owed(b)' = Owed(b)
<1>1. /\ m.debits = {} /\ m.owes = {} /\ m.credits = {} /\ m.gives = {}
      /\ \E a \in m.claims : m.claims = {a}
  BY DEF DealsInv, Deal, DealOfUser, UserOps
<1>2. /\ m.by \in Bundles /\ rows \in SUBSET Rows /\ IsFiniteSet(rows)
      /\ shadows \in SUBSET Shadows /\ IsFiniteSet(shadows)
  BY DEF DealsInv, IInv, NetworkType, LedgerType, Molecules
<1>3. PICK a \in m.claims : m.claims = {a}
  BY <1>1
<1>4. PICK s \in shadows : s.owner = m.by /\ s.batch = a
  BY <1>3 DEF Accept, Acceptable
<1>5. Claimed(m) = {s}
  <2>1. \A t \in shadows : t.owner = m.by /\ t.batch = a => t = s
    BY <1>4 DEF IInv, LedgerInv, ShadowsInv
  <2> QED
    BY <1>3, <1>4, <2>1 DEF Claimed
<1> DEFINE p == [of |-> m.id, as |-> "new"]
           q == [owner |-> m.by, buffer |-> FALSE, position |-> p, balance |-> s.amount]
<1>6. shadows' = shadows \ {s} /\ rows' = rows \cup {q}
  <2>1. shadows' = (shadows \ Claimed(m)) \cup m.owes
    BY DEF Accept
  <2>2. rows' = {IF r.owner = m.by /\ r.position \in m.credits
                 THEN [r EXCEPT !.balance = @ + m.amount] ELSE r : r \in rows \ m.debits}
               \cup m.gives
               \cup {[owner |-> m.by, buffer |-> FALSE, position |-> NewPosition(m.id),
                      balance |-> x.amount] : x \in Claimed(m)}
    BY DEF Accept
  <2>3. {[owner |-> m.by, buffer |-> FALSE, position |-> NewPosition(m.id),
                      balance |-> x.amount] : x \in Claimed(m)} = {q}
    BY <1>5 DEF NewPosition
  <2> HIDE DEF q
  <2> QED
    BY <1>1, <1>5, <2>1, <2>2, <2>3
<1>7. s.amount \in Nat /\ p \in Positions
  BY <1>2, OwnIsNew DEF Shadows
<1> HIDE DEF p
<1>8. q \in Rows /\ q.owner = m.by /\ q.buffer = FALSE /\ q.position = p /\ q.balance = s.amount
  BY <1>2, <1>7 DEF Rows
<1>9. q \notin rows
  <2>1. \A r \in rows : r.position # p
    BY OwnIsNew DEF p
  <2> QED
    BY <1>8, <2>1
<1> HIDE DEF q
<1>10. IsFiniteSet(rows') /\ IsFiniteSet(shadows')
  BY <1>2, <1>6, FS_AddElement, FS_RemoveElement
<1>11. ASSUME NEW b \in Bundles, NEW buffer \in BOOLEAN
       PROVE  Balance(b, buffer)' = Balance(b, buffer)
                            + (IF b = m.by /\ ~buffer THEN s.amount ELSE 0)
  <2>1. Held(rows', b, buffer) = Held(rows, b, buffer) + Part(q, b, buffer)
    BY <1>2, <1>6, <1>8, <1>9, HeldMore
  <2>2. Part(q, b, buffer) = IF b = m.by /\ ~buffer THEN s.amount ELSE 0
    BY <1>8 DEF Part
  <2> QED
    BY <2>1, <2>2 DEF Balance, Held
<1>12. ASSUME NEW b \in Bundles
       PROVE  IF b = m.by THEN Owed(b) >= s.amount /\ Owed(b)' = Owed(b) - s.amount
              ELSE Owed(b)' = Owed(b)
  <2>1. /\ Debt(shadows, b) = Debt(shadows', b) + Share(s, b)
        /\ Debt(shadows', b) \in Nat
    BY <1>2, <1>6, DebtLess
  <2>2. Share(s, b) = IF b = m.by THEN s.amount ELSE 0
    BY <1>4 DEF Share
  <2>3. Owed(b) = Debt(shadows, b) /\ Owed(b)' = Debt(shadows', b)
    BY DEF Owed, Debt
  <2> QED
    BY <1>7, <2>1, <2>2, <2>3
<1> QED
  BY <1>7, <1>10, <1>11, <1>12

-----------------------------------------------------------------------------
(* The steps of IdealLedger. A call that is not waiting for a result is no    *)
(* operation yet, or none any more.                                           *)

Waits(k) == k # None /\ k.step = "sent"

LEMMA QuietStep ==
  ASSUME IInv, DealsInv, UNCHANGED <<ledger, network, outcome>>, NEW c \in Clients, NEW k,
         call' = [call EXCEPT ![c] = k], k # None => SourceOK(k), ~Waits(k), ~Waits(call[c])
  PROVE  DealsInv' /\ UNCHANGED Ideal!vars
<1>1. UNCHANGED <<rows, shadows, flight, verdict, count, outcome>>
  BY DEF ledger, network
<1>2. DealsInv'
  BY <1>1 DEF DealsInv, IInv, CallType
<1>3. \A b \in Bundles, buffer \in BOOLEAN :
        Balance(b, buffer)' = Balance(b, buffer) /\ Owed(b)' = Owed(b)
  BY <1>1 DEF Balance, Owed
<1>4. ASSUME NEW d \in Clients
      PROVE  (IF At(d, "sent") THEN {WishOf(call[d].sent, call[d], Own(d))} ELSE {})'
                = IF At(d, "sent") THEN {WishOf(call[d].sent, call[d], Own(d))} ELSE {}
  <2>1. CASE d = c
    BY <2>1 DEF At, Waits, IInv, CallType
  <2>2. CASE d # c
    <3>1. call'[d] = call[d]
      BY <2>2 DEF IInv, CallType
    <3> QED
      BY <3>1 DEF At, Own, WishOf
  <2> QED
    BY <2>1, <2>2
<1>5. UNCHANGED Ideal!vars
  BY <1>1, <1>3, <1>4 DEF Ideal!vars, Ideal!accounts, WishOf
<1> QED
  BY <1>2, <1>5

LEMMA FinishCall ==
  ASSUME NEW c, NEW res, call[c] \in Calls, Finish(c, res)
  PROVE  \E k : call' = [call EXCEPT ![c] = k] /\ (k # None => SourceOK(k)) /\ ~Waits(k)
<1>1. CASE call[c].todo = {}
  BY <1>1 DEF Finish, Waits
<1>2. CASE call[c].todo # {}
  <2>1. PICK b \in call[c].todo :
            call' = [call EXCEPT ![c] = [call[c] EXCEPT
                !.step = "user", !.batch = b, !.todo = @ \ {b},
                !.ok = call[c].ok /\ res = "SUCCESS"]]
    BY <1>2 DEF Finish
  <2> DEFINE k == [call[c] EXCEPT !.step = "user", !.batch = b, !.todo = @ \ {b},
                                  !.ok = call[c].ok /\ res = "SUCCESS"]
  <2>2. k.step = "user"
    BY DEF Calls
  <2> HIDE DEF k
  <2>3. SourceOK(k) /\ ~Waits(k)
    BY <2>2 DEF SourceOK, Waits
  <2> QED
    BY <2>1, <2>3 DEF k
<1> QED
  BY <1>1, <1>2

\* Before it proposes, a client changes nothing the accounts or its operation are made of.
LEMMA ReadingStep ==
  ASSUME IInv, DealsInv, NEW c \in Clients,
         ListShadows(c) \/ AskContinuId(c) \/ AskBalance(c) \/ Fails(c)
  PROVE  DealsInv' /\ UNCHANGED Ideal!vars
<1> DEFINE k == call[c]
<1>1. UNCHANGED <<ledger, network, outcome>>
  BY DEF ListShadows, AskContinuId, AskBalance, Fails, network
<1>2. k \in Calls /\ k # None /\ ~Waits(k) /\ CallOK(verdict, c, k)
  BY DEF ListShadows, AskContinuId, AskBalance, Fails, At, Waits, IInv, CallType, CallsInv
<1>3. SUFFICES \E n : call' = [call EXCEPT ![c] = n] /\ (n # None => SourceOK(n)) /\ ~Waits(n)
  BY <1>1, <1>2, QuietStep
<1>4. ASSUME NEW res, Finish(c, res)
      PROVE  \E n : call' = [call EXCEPT ![c] = n] /\ (n # None => SourceOK(n)) /\ ~Waits(n)
  BY <1>2, <1>4, FinishCall
<1>5. ASSUME NEW res, Ends(c, res)
      PROVE  \E n : call' = [call EXCEPT ![c] = n] /\ (n # None => SourceOK(n)) /\ ~Waits(n)
  BY <1>5 DEF Ends, Waits
<1>6. CASE ListShadows(c)
  <2> DEFINE mine == {s.batch : s \in {s \in shadows : s.owner = Own(c)}}
  <2>1. CASE mine = {}
    BY <1>5, <1>6, <2>1 DEF ListShadows
  <2>2. CASE mine # {}
    <3>1. PICK b \in mine :
            call' = [call EXCEPT ![c].step = "user", ![c].batch = b,
                        ![c].listed = IF k.all THEN mine ELSE {b},
                        ![c].todo = IF k.all THEN mine \ {b} ELSE {}]
      BY <1>6, <2>2 DEF ListShadows
    <3> DEFINE next == [k EXCEPT !.step = "user", !.batch = b,
                          !.listed = IF k.all THEN mine ELSE {b},
                          !.todo = IF k.all THEN mine \ {b} ELSE {}]
    <3>2. call' = [call EXCEPT ![c] = next]
      BY <3>1 DEF IInv, CallType
    <3> HIDE DEF k, mine
    <3>3. next.step = "user"
      BY <1>2 DEF Calls
    <3> HIDE DEF next
    <3> QED
      BY <3>2, <3>3 DEF SourceOK, Waits
  <2> QED
    BY <2>1, <2>2
<1>7. CASE AskContinuId(c)
  <2>1. PICK asked :
            call' = [call EXCEPT ![c].user = SigningPosition(c, asked), ![c].asked = asked,
                ![c].stale = UserKey(c, SigningPosition(c, asked)) \in spent,
                ![c].step = IF k.op = "replenish" THEN "balance" ELSE "propose"]
    BY <1>7 DEF AskContinuId
  <2> DEFINE next == [k EXCEPT !.user = SigningPosition(c, asked), !.asked = asked,
                !.stale = UserKey(c, SigningPosition(c, asked)) \in spent,
                !.step = IF k.op = "replenish" THEN "balance" ELSE "propose"]
  <2>2. call' = [call EXCEPT ![c] = next]
    BY <2>1 DEF IInv, CallType
  <2>3. k.op \in UserOps
    BY <1>2, <1>7 DEF CallOK, AskContinuId, At
  <2> HIDE DEF k
  <2>4. next.op = k.op /\ next.step = IF k.op = "replenish" THEN "balance" ELSE "propose"
    BY <1>2 DEF Calls
  <2> HIDE DEF next
  <2> QED
    BY <2>2, <2>3, <2>4 DEF SourceOK, Waits, UserOps, FundedOps
<1>8. CASE AskBalance(c)
  <2>1. CASE \E found \in {{}} \cup {{r} : r \in Answered(c)} :
                /\ k.op = "replenish"
                /\ call' = [call EXCEPT ![c].step = "propose", ![c].source = found]
    <3>1. PICK found \in {{}} \cup {{r} : r \in Answered(c)} :
                /\ k.op = "replenish"
                /\ call' = [call EXCEPT ![c].step = "propose", ![c].source = found]
      BY <2>1
    <3> DEFINE next == [k EXCEPT !.step = "propose", !.source = found]
    <3>2. call' = [call EXCEPT ![c] = next]
      BY <3>1 DEF IInv, CallType
    <3>3. k.op = "replenish" /\ \A r, q \in found : r = q
      BY <3>1
    <3> HIDE DEF k
    <3>4. next.op = k.op /\ next.step = "propose" /\ next.source = found
      BY <1>2 DEF Calls
    <3> HIDE DEF next
    <3> QED
      BY <3>2, <3>3, <3>4 DEF SourceOK, Waits, FundedOps
  <2>2. CASE \E r \in Answered(c) :
                /\ k.op \in FundedOps
                /\ call' = [call EXCEPT ![c].step = "propose", ![c].source = {r},
                                        ![c].stale = RowKey(r) \in spent]
    <3>1. PICK r \in Answered(c) :
                /\ k.op \in FundedOps
                /\ call' = [call EXCEPT ![c].step = "propose", ![c].source = {r},
                                        ![c].stale = RowKey(r) \in spent]
      BY <2>2
    <3> DEFINE next == [k EXCEPT !.step = "propose", !.source = {r},
                                 !.stale = RowKey(r) \in spent]
    <3>2. call' = [call EXCEPT ![c] = next]
      BY <3>1 DEF IInv, CallType
    <3>3. k.op # "replenish" /\ (r.buffer <=> k.op = "withdraw")
      BY <3>1 DEF FundedOps, Answered
    <3> HIDE DEF k
    <3>4. next.op = k.op /\ next.step = "propose" /\ next.source = {r}
      BY <1>2 DEF Calls
    <3> HIDE DEF next
    <3> QED
      BY <3>2, <3>3, <3>4 DEF SourceOK, Waits
  <2> QED
    BY <1>4, <1>8, <2>1, <2>2 DEF AskBalance
<1>9. CASE Fails(c)
  BY <1>4, <1>5, <1>9 DEF Fails
<1> QED
  BY <1>6, <1>7, <1>8, <1>9

Pending(c) == IF At(c, "sent") THEN {WishOf(call[c].sent, call[c], Own(c))} ELSE {}

LEMMA OthersWait ==
  ASSUME IInv, NEW c \in Clients, NEW k, call' = [call EXCEPT ![c] = k]
  PROVE  /\ \A d \in Clients : d # c => Pending(d)' = Pending(d)
         /\ k = None \/ k.step # "sent" => Pending(c)' = {}
         /\ k # None /\ k.step = "sent" => Pending(c)' = {WishOf(k.sent, k, Own(c))}
<1>1. ASSUME NEW d \in Clients, d # c PROVE Pending(d)' = Pending(d)
  <2>1. call'[d] = call[d]
    BY <1>1 DEF IInv, CallType
  <2> QED
    BY <2>1 DEF Pending, At, WishOf, Own
<1>2. call'[c] = k
  BY DEF IInv, CallType
<1> QED
  BY <1>1, <1>2 DEF Pending, At, WishOf, Own

LEMMA BeginForgets ==
  ASSUME IInv, DealsInv, NEW c \in Clients, NEW op \in FundedOps \cup UserOps, NEW to \in Bundles,
         NEW all \in BOOLEAN, NEW n \in Amounts, Begin(c, op, to, n, all)
  PROVE  DealsInv' /\ Ideal!Forget(c)
<1> DEFINE k == [op |-> op, to |-> to, amount |-> n, all |-> all, ok |-> TRUE,
         step |-> CASE op = "claim" -> "list" [] op \in FundedOps -> "balance" [] OTHER -> "user",
         batch |-> None, todo |-> {}, listed |-> {},
         user |-> None, asked |-> "none", source |-> {}, stale |-> FALSE, sent |-> 0]
<1>1. call' = [call EXCEPT ![c] = k] /\ call[c] = None
  BY DEF Begin
<1>2. k.step \in {"list", "balance", "user"}
  <2>1. k.step = CASE op = "claim" -> "list" [] op \in FundedOps -> "balance" [] OTHER -> "user"
    BY Zenon
  <2> HIDE DEF k
  <2> QED
    BY <2>1
<1>3. UNCHANGED <<rows, shadows, flight, verdict, count>> /\ outcome' = [outcome EXCEPT ![c] = "none"]
  BY DEF Begin, ledger, network
<1> HIDE DEF k
<1>4. SourceOK(k) /\ k.step # "sent"
  BY <1>2 DEF SourceOK
<1>5. DealsInv'
  BY <1>1, <1>3, <1>4 DEF DealsInv, IInv, CallType
<1>6. \A b \in Bundles, buffer \in BOOLEAN :
        Balance(b, buffer)' = Balance(b, buffer) /\ Owed(b)' = Owed(b)
  BY <1>3 DEF Balance, Owed
<1>7. Pending(c) = {} /\ \A d \in Clients : Pending(d)' = Pending(d)
  BY <1>1, <1>4, OthersWait DEF Pending, At
<1>8. Ideal!Forget(c)
  BY <1>3, <1>6, <1>7 DEF Ideal!Forget, Ideal!accounts, Pending, WishOf
<1> QED
  BY <1>5, <1>8

LEMMA BuildDeals ==
  ASSUME IInv, DealsInv, NEW c \in Clients, At(c, "propose"), NEW id \in 1..MaxMolecules
  PROVE  Deal(Build(c, id)) /\ WishOf(Build(c, id).id, Build(c, id), Build(c, id).by)
                                    = WishOf(id, call[c], Own(c))
<1> DEFINE k == call[c]
           m == Build(c, id)
<1>1. k \in Calls /\ CallOK(verdict, c, k) /\ SourceOK(k) /\ k.step = "propose"
  BY DEF At, IInv, CallType, CallsInv, DealsInv
<1>2. CASE k.op \in FundedOps
  <2>1. PICK r \in Rows : /\ k.source = {r} /\ r.owner = Own(c) /\ r.balance >= Needs(k)
    BY <1>1, <1>2 DEF CallOK
  <2>2. r.buffer <=> k.op = "withdraw"
    BY <1>1, <1>2, <2>1 DEF SourceOK
  <2>3. m = MoleculeOf(id, k, Own(c), RowKey(r), {r},
                SpendingGives(id, k, Own(c), r), Owes(id, k, Own(c)), {}, {})
    BY <1>2, <2>1, BuildSpends
  <2> HIDE DEF m, k
  <2>4. /\ m.id = id /\ m.by = Own(c) /\ m.op = k.op /\ m.to = k.to /\ m.amount = k.amount
        /\ m.debits = {r} /\ m.gives = SpendingGives(id, k, Own(c), r)
        /\ m.owes = Owes(id, k, Own(c)) /\ m.credits = {} /\ m.claims = {}
    BY <2>3 DEF MoleculeOf
  <2>5. /\ Needs(m) = Needs(k) /\ Owes(id, m, Own(c)) = Owes(id, k, Own(c))
        /\ Remainder(id, m, Own(c), r) = Remainder(id, k, Own(c), r)
    BY <2>4, Zenon DEF Needs, Owes, Remainder
  <2>6. SpendingGives(id, m, Own(c), r) = SpendingGives(id, k, Own(c), r)
    BY <2>4, <2>5, Zenon DEF SpendingGives
  <2>7. DealOfSpending(m)
    BY <2>1, <2>2, <2>4, <2>5, <2>6 DEF DealOfSpending
  <2>8. WishOf(m.id, m, m.by) = WishOf(id, k, Own(c))
    BY <2>4 DEF WishOf
  <2>9. m.op \notin UserOps
    BY <1>2, <2>4 DEF FundedOps, UserOps
  <2> QED
    BY <2>7, <2>8, <2>9 DEF Deal, m, k
<1>3. CASE k.op \in UserOps
  <2>1. m = MoleculeOf(id, k, Own(c), UserKey(c, k.user), {}, UserGives(id, k, Own(c)), {},
                       Credits(k), Claims(k))
    BY <1>3, BuildUses
  <2> HIDE DEF m, k
  <2>2. /\ m.id = id /\ m.by = Own(c) /\ m.op = k.op /\ m.to = k.to /\ m.amount = k.amount
        /\ m.debits = {} /\ m.gives = UserGives(id, k, Own(c))
        /\ m.owes = {} /\ m.credits = Credits(k) /\ m.claims = Claims(k)
    BY <2>1 DEF MoleculeOf
  <2>3. IF m.op = "claim" THEN \E b \in m.claims : m.claims = {b} ELSE m.claims = {}
    BY <2>2 DEF Claims
  <2>4. m.credits # {} => m.op = "replenish" /\ \E p \in m.credits : m.credits = {p}
    <3> SUFFICES ASSUME m.credits # {}
                 PROVE  m.op = "replenish" /\ \E p \in m.credits : m.credits = {p}
      OBVIOUS
    <3>1. k.op = "replenish" /\ m.credits = {r.position : r \in k.source}
      BY <2>2 DEF Credits
    <3>2. \A r, q \in k.source : r = q
      BY <1>1, <3>1 DEF SourceOK
    <3> QED
      BY <2>2, <3>1, <3>2
  <2>5. k.op = "replenish" => (k.source = {} <=> m.credits = {})
    BY <2>2 DEF Credits
  <2>6. m.gives = IF m.op = "create_wallet" THEN {Made(m.id, m.by, FALSE, 0)}
                  ELSE IF m.op = "create_token" \/ (m.op = "replenish" /\ m.credits = {})
                       THEN {Made(m.id, m.by, FALSE, m.amount)} ELSE {}
    BY <2>2, <2>5 DEF UserGives
  <2>7. DealOfUser(m)
    BY <2>2, <2>3, <2>4, <2>6 DEF DealOfUser
  <2>8. WishOf(m.id, m, m.by) = WishOf(id, k, Own(c))
    BY <2>2 DEF WishOf
  <2>9. m.op \notin FundedOps
    BY <1>3, <2>2 DEF FundedOps, UserOps
  <2> QED
    BY <2>7, <2>8, <2>9 DEF Deal, m, k
<1> QED
  BY <1>1, <1>2, <1>3 DEF Calls

LEMMA ProposeSubmits ==
  ASSUME IInv, DealsInv, NEW c \in Clients, Propose(c)
  PROVE  DealsInv' /\ Ideal!Submit(c)
<1> DEFINE id == count + 1
           m == Build(c, id)
           k == call[c]
           next == [k EXCEPT !.step = "sent", !.sent = id, !.batch = None,
                             !.user = None, !.asked = "none", !.source = {}, !.stale = FALSE]
           w == WishOf(id, k, Own(c))
<1>1. id \in 1..MaxMolecules
  BY MaxMoleculesAssumption DEF Propose, IInv, NetworkType
<1>2. /\ UNCHANGED <<rows, shadows, verdict>> /\ flight' = flight \cup {m} /\ count' = id
      /\ call' = [call EXCEPT ![c] = next] /\ outcome' = [outcome EXCEPT ![c] = "none"]
  BY DEF Propose, ledger
<1>3. k \in Calls /\ k # None /\ k.step = "propose"
  BY DEF Propose, At, IInv, CallType
<1>4. Deal(m) /\ WishOf(m.id, m, m.by) = w
  BY <1>1, BuildDeals DEF Propose
<1>5. w \in Ideal!Wishes(id)
  BY <1>3, BundleOfAssumption DEF Ideal!Wishes, WishOf, Calls, Own, FundedOps, UserOps
<1> HIDE DEF k, m, id
<1>6. /\ next.op = k.op /\ next.to = k.to /\ next.amount = k.amount /\ next.step = "sent"
      /\ next.sent = id /\ next # None
  <2>1. next \in Calls
    <3>1. id \in 0..MaxMolecules
      BY <1>1, MaxMoleculesAssumption
    <3> QED
      BY <1>3, <3>1 DEF Calls
  <2>2. next # None
    BY <2>1, NoCallAssumption
  <2> QED
    BY <1>3, <2>2 DEF Calls
<1> HIDE DEF next
<1>7. SourceOK(next) /\ WishOf(next.sent, next, Own(c)) = w
  BY <1>1, <1>6 DEF SourceOK, WishOf
<1>8. DealsInv'
  BY <1>2, <1>4, <1>7 DEF DealsInv, IInv, CallType
<1>9. \A b \in Bundles, buffer \in BOOLEAN :
        Balance(b, buffer)' = Balance(b, buffer) /\ Owed(b)' = Owed(b)
  BY <1>2 DEF Balance, Owed
<1>10. /\ Pending(c) = {} /\ Pending(c)' = {w}
       /\ \A d \in Clients : d # c => Pending(d)' = Pending(d)
  <2>1. Pending(c) = {}
    BY <1>3 DEF Pending, At, k
  <2> QED
    BY <1>2, <1>6, <1>7, <2>1, OthersWait
<1>11. {WishOf(n.id, n, n.by) : n \in flight'} = {WishOf(n.id, n, n.by) : n \in flight} \cup {w}
  BY <1>2, <1>4
<1> HIDE DEF w
<1>12. [d \in Clients |-> Pending(d)'] = [[d \in Clients |-> Pending(d)] EXCEPT ![c] = {w}]
  BY <1>10
<1>13. Ideal!Submit(c)
  BY <1>2, <1>5, <1>9, <1>10, <1>11, <1>12 DEF Ideal!Submit, Ideal!accounts, Pending, WishOf, id
<1> QED
  BY <1>8, <1>13

LEMMA ReportReturns ==
  ASSUME IInv, DealsInv, NEW c \in Clients, Succeeds(c) \/ NotConfirmed(c)
  PROVE  DealsInv' /\ \E res \in {"SUCCESS", "ERROR"} : Ideal!Return(c, res)
<1> DEFINE k == call[c]
<1>1. PICK res \in {"SUCCESS", "ERROR"} :
        /\ At(c, "sent") /\ Reports(c, res)
        /\ res = "SUCCESS" => verdict[k.sent] = "accepted"
  BY DEF Succeeds, NotConfirmed, Confirms
<1>2. k \in Calls /\ SourceOK(k) /\ k # None /\ k.step = "sent"
  BY <1>1 DEF At, IInv, CallType, DealsInv
<1>3. /\ UNCHANGED <<rows, shadows, flight, verdict, count>>
      /\ outcome' = [outcome EXCEPT ![c] = res] /\ Finish(c, res)
  BY <1>1 DEF Reports, ledger, network
<1>4. PICK n : call' = [call EXCEPT ![c] = n] /\ (n # None => SourceOK(n)) /\ ~Waits(n)
  BY <1>2, <1>3, FinishCall
<1>5. DealsInv'
  BY <1>3, <1>4 DEF DealsInv, IInv, CallType
<1>6. \A b \in Bundles, buffer \in BOOLEAN :
        Balance(b, buffer)' = Balance(b, buffer) /\ Owed(b)' = Owed(b)
  BY <1>3 DEF Balance, Owed
<1>7. /\ Pending(c) = {WishOf(k.sent, k, Own(c))} /\ Pending(c)' = {}
      /\ \A d \in Clients : d # c => Pending(d)' = Pending(d)
  BY <1>2, <1>4, OthersWait DEF Pending, At, Waits
<1>8. [d \in Clients |-> Pending(d)'] = [[d \in Clients |-> Pending(d)] EXCEPT ![c] = {}]
  BY <1>7
<1>9. \A w \in Pending(c) : w.id = k.sent /\ k.sent \in 1..MaxMolecules
  BY <1>2, <1>7 DEF WishOf, SourceOK
<1>10. Ideal!Return(c, res)
  <2>1. res = "SUCCESS" => \A w \in Pending(c) : w.id \in {id \in 1..MaxMolecules : verdict[id] = "accepted"}
    BY <1>1, <1>9
  <2>2. Pending(c) # {}
    BY <1>7
  <2> QED
    BY <1>3, <1>6, <1>8, <2>1, <2>2 DEF Ideal!Return, Ideal!accounts, Pending, WishOf
<1> QED
  BY <1>5, <1>10

Done(v) == {id \in 1..MaxMolecules : v[id] = "accepted"}
Loose(F) == {WishOf(m.id, m, m.by) : m \in F}

\* The numbers of molecules under way tell them, and the operations they are, apart.
LEMMA VerdictsTake ==
  ASSUME IInv, NEW m \in flight, NEW res \in {"accepted", "rejected"},
         flight' = flight \ {m}, verdict' = [verdict EXCEPT ![m.id] = res]
  PROVE  /\ WishOf(m.id, m, m.by) \in Loose(flight)
         /\ Loose(flight') = Loose(flight) \ {WishOf(m.id, m, m.by)}
         /\ Done(verdict') = IF res = "accepted" THEN Done(verdict) \cup {m.id} ELSE Done(verdict)
<1>1. m.id \in 1..MaxMolecules /\ verdict[m.id] = "none"
  BY OwnIsNew DEF IInv, FlightInv
<1>2. \A n \in flight : WishOf(n.id, n, n.by) = WishOf(m.id, m, m.by) => n = m
  <2>1. \A n \in flight : WishOf(n.id, n, n.by).id = n.id
    BY DEF WishOf
  <2> QED
    BY <2>1 DEF IInv, FlightInv
<1>3. WishOf(m.id, m, m.by) \in Loose(flight)
  BY DEF Loose
<1>4. Loose(flight') = Loose(flight) \ {WishOf(m.id, m, m.by)}
  BY <1>2 DEF Loose
<1>5. Done(verdict') = IF res = "accepted" THEN Done(verdict) \cup {m.id} ELSE Done(verdict)
  BY <1>1 DEF Done, IInv, NetworkType
<1> QED
  BY <1>3, <1>4, <1>5

LEMMA RejectRefuses ==
  ASSUME IInv, DealsInv, NEW m \in flight, Reject(m)
  PROVE  DealsInv' /\ \E w \in Loose(flight) : Ideal!Refuse(w)
<1> DEFINE w == WishOf(m.id, m, m.by)
<1>1. /\ flight' = flight \ {m} /\ verdict' = [verdict EXCEPT ![m.id] = "rejected"]
      /\ UNCHANGED <<rows, shadows, call, outcome, count>>
  BY DEF Reject, ledger
<1>2. /\ w \in Loose(flight) /\ Loose(flight') = Loose(flight) \ {w}
      /\ Done(verdict') = Done(verdict)
  BY <1>1, VerdictsTake
<1>3. DealsInv'
  BY <1>1 DEF DealsInv
<1>4. \A b \in Bundles, buffer \in BOOLEAN :
        Balance(b, buffer)' = Balance(b, buffer) /\ Owed(b)' = Owed(b)
  BY <1>1 DEF Balance, Owed
<1>5. \A d \in Clients : Pending(d)' = Pending(d)
  BY <1>1 DEF Pending, At, WishOf, Own
<1> HIDE DEF w
<1>6. Ideal!Refuse(w)
  BY <1>1, <1>2, <1>4, <1>5 DEF Ideal!Refuse, Ideal!accounts, Pending, WishOf, Loose, Done
<1> QED
  BY <1>2, <1>3, <1>6

Free == [b \in Bundles |-> Balance(b, FALSE)]
Kept == [b \in Bundles |-> Balance(b, TRUE)]
Owing == [b \in Bundles |-> Owed(b)]

LEMMA MoreOf ==
  ASSUME NEW F, NEW G, F = [b \in Bundles |-> F[b]], G = [b \in Bundles |-> G[b]],
         NEW x \in Bundles, NEW n, G[x] = F[x] + n, \A b \in Bundles : b # x => G[b] = F[b]
  PROVE  G = [F EXCEPT ![x] = @ + n]
  OBVIOUS

LEMMA LessOf ==
  ASSUME NEW F, NEW G, F = [b \in Bundles |-> F[b]], G = [b \in Bundles |-> G[b]],
         NEW x \in Bundles, NEW n, G[x] = F[x] - n, \A b \in Bundles : b # x => G[b] = F[b]
  PROVE  G = [F EXCEPT ![x] = @ - n]
  OBVIOUS

\* What the validator accepts has the effect of the operation it was made for.
LEMMA SpendingHappens ==
  ASSUME IInv, DealsInv, NEW m \in flight, Accept(m), m.op \in FundedOps
  PROVE  Ideal!Effect(WishOf(m.id, m, m.by))
<1> DEFINE w == WishOf(m.id, m, m.by)
<1>1. /\ w.op = m.op /\ w.by = m.by /\ w.to = m.to /\ w.amount = m.amount
      /\ m.by \in Bundles /\ m.to \in Bundles /\ m.amount \in Nat
  BY DEF WishOf, IInv, NetworkType, Molecules
<1> HIDE DEF w
<1>2. \A b \in Bundles : Free[b] \in Nat /\ Kept[b] \in Nat /\ Owing[b] \in Nat
  <2>1. /\ rows \in SUBSET Rows /\ shadows \in SUBSET Shadows
        /\ IsFiniteSet(rows) /\ IsFiniteSet(shadows)
    BY DEF IInv, LedgerType, DealsInv
  <2>2. \A b \in Bundles, buffer \in BOOLEAN : Held(rows, b, buffer) \in Nat /\ Debt(shadows, b) \in Nat
    BY <2>1, HeldType, DebtType
  <2> QED
    BY <2>2 DEF Free, Kept, Owing, Balance, Held, Owed, Debt
<1>3. /\ Free = [b \in Bundles |-> Free[b]] /\ Free' = [b \in Bundles |-> Free'[b]]
      /\ Kept = [b \in Bundles |-> Kept[b]] /\ Kept' = [b \in Bundles |-> Kept'[b]]
      /\ Owing = [b \in Bundles |-> Owing[b]] /\ Owing' = [b \in Bundles |-> Owing'[b]]
  BY DEF Free, Kept, Owing
<1> DEFINE back == Gain(m, FALSE)
           kept == Gain(m, TRUE)
<1>4. Needs(m) \in Nat /\ back \in Nat /\ kept \in Nat
  BY <1>1, NeedsType DEF Gain
<1>5. \A b \in Bundles :
        /\ Owing'[b] = Owing[b] + Loan(m, b)
        /\ b # m.by => Free'[b] = Free[b] /\ Kept'[b] = Kept[b]
  BY SpendingAccounts, LendingAccounts DEF Free, Kept, Owing
<1>6. IF m.op = "withdraw"
      THEN Kept[m.by] >= Needs(m) /\ Kept'[m.by] = (Kept[m.by] - Needs(m)) + kept
      ELSE Kept'[m.by] = (Kept[m.by] - 0) + kept
  BY <1>1, SpendingAccounts DEF Kept
<1>7. IF m.op = "withdraw"
      THEN Free'[m.by] = (Free[m.by] - 0) + back
      ELSE Free[m.by] >= Needs(m) /\ Free'[m.by] = (Free[m.by] - Needs(m)) + back
  BY <1>1, SpendingAccounts DEF Free
<1> HIDE DEF Free, Kept, Owing, back, kept
<1>8. ASSUME NEW n \in Nat, m.op # "withdraw", Needs(m) = n + back
      PROVE  Free[m.by] >= n /\ Free' = [Free EXCEPT ![m.by] = @ - n]
  <2>1. Free[m.by] >= n /\ Free'[m.by] = Free[m.by] - n
    BY <1>1, <1>2, <1>4, <1>7, <1>8
  <2> QED
    BY <1>1, <1>3, <1>5, <2>1, LessOf
<1>9. ASSUME m.op \notin {"withdraw", "deposit"} PROVE Kept' = Kept
  <2>1. kept = 0
    BY <1>9 DEF Gain, back, kept
  <2>2. Kept'[m.by] = Kept[m.by]
    BY <1>1, <1>2, <1>6, <1>9, <2>1
  <2> QED
    BY <1>3, <1>5, <2>2
<1>10. ASSUME NEW n \in Nat, \A b \in Bundles : Loan(m, b) = IF b = m.to THEN n ELSE 0
       PROVE  Owing' = [Owing EXCEPT ![m.to] = @ + n]
  <2>1. Owing'[m.to] = Owing[m.to] + n /\ \A b \in Bundles : b # m.to => Owing'[b] = Owing[b]
    BY <1>1, <1>2, <1>5, <1>10
  <2> QED
    BY <1>1, <1>3, <2>1, MoreOf
<1>11. ASSUME \A b \in Bundles : Loan(m, b) = 0 PROVE Owing' = Owing
  BY <1>2, <1>3, <1>5, <1>11
<1>12. CASE m.op = "transfer"
  <2>1. Needs(m) = m.amount + back
    BY <1>1, <1>12 DEF Needs, Gain, back, kept
  <2>2. \A b \in Bundles : Loan(m, b) = IF b = m.to THEN m.amount ELSE 0
    BY <1>12 DEF Loan
  <2>3. /\ Free[m.by] >= m.amount /\ Free' = [Free EXCEPT ![m.by] = @ - m.amount]
        /\ Kept' = Kept /\ Owing' = [Owing EXCEPT ![m.to] = @ + m.amount]
    BY <1>1, <1>8, <1>9, <1>10, <1>12, <2>1, <2>2
  <2> QED
    BY <1>1, <1>12, <2>3 DEF Ideal!Effect, Ideal!Less, Ideal!More, Free, Kept, Owing, w
<1>13. CASE m.op = "transfer_multi"
  <2> DEFINE n == m.amount * Cardinality(Bundles)
  <2>1. n \in Nat /\ Needs(m) = n + back
    <3>1. back = 0 /\ Needs(m) = n
      BY <1>13 DEF Needs, Gain, back, kept
    <3> QED
      BY <1>4, <3>1
  <2> HIDE DEF n
  <2>2. Owing' = [b \in Bundles |-> Owing[b] + m.amount]
    <3>1. \A b \in Bundles : Loan(m, b) = m.amount
      BY <1>13 DEF Loan
    <3> QED
      BY <1>3, <1>5, <3>1
  <2>3. Free[m.by] >= n /\ Free' = [Free EXCEPT ![m.by] = @ - n] /\ Kept' = Kept
    BY <1>8, <1>9, <1>13, <2>1
  <2>4. Ideal!Cardinality(Bundles) = Cardinality(Bundles)
    BY Zenon DEF Ideal!Cardinality, Cardinality
  <2> QED
    BY <1>1, <1>13, <2>2, <2>3, <2>4
    DEF Ideal!Effect, Ideal!Less, Ideal!More, Free, Kept, Owing, w, n
<1>14. CASE m.op = "burn"
  <2>1. Needs(m) = m.amount + back
    BY <1>1, <1>14 DEF Needs, Gain, back, kept
  <2>2. \A b \in Bundles : Loan(m, b) = 0
    BY <1>14 DEF Loan
  <2>3. /\ Free[m.by] >= m.amount /\ Free' = [Free EXCEPT ![m.by] = @ - m.amount]
        /\ Kept' = Kept /\ Owing' = Owing
    BY <1>1, <1>8, <1>9, <1>11, <1>14, <2>1, <2>2
  <2> QED
    BY <1>1, <1>14, <2>3 DEF Ideal!Effect, Ideal!Less, Ideal!More, Free, Kept, Owing, w
<1>15. CASE m.op = "fuse" /\ m.to = m.by
  <2>1. Needs(m) = m.amount + back
    BY <1>1, <1>15 DEF Needs, Gain, back, kept
  <2>2. \A b \in Bundles : Loan(m, b) = 0
    BY <1>15 DEF Loan
  <2>3. /\ Free[m.by] >= m.amount /\ Free' = [Free EXCEPT ![m.by] = @ - m.amount]
        /\ Kept' = Kept /\ Owing' = Owing
    BY <1>1, <1>8, <1>9, <1>11, <1>15, <2>1, <2>2
  <2> QED
    BY <1>1, <1>15, <2>3 DEF Ideal!Effect, Ideal!Less, Ideal!More, Free, Kept, Owing, w
<1>16. CASE m.op = "fuse" /\ m.to # m.by
  <2>1. m.amount + 1 \in Nat /\ Needs(m) = (m.amount + 1) + back
    BY <1>1, <1>16 DEF Needs, Gain, back, kept
  <2>2. \A b \in Bundles : Loan(m, b) = IF b = m.to THEN 1 ELSE 0
    BY <1>16 DEF Loan
  <2>3. /\ Free[m.by] >= m.amount + 1 /\ Free' = [Free EXCEPT ![m.by] = @ - (m.amount + 1)]
        /\ Kept' = Kept /\ Owing' = [Owing EXCEPT ![m.to] = @ + 1]
    BY <1>8, <1>9, <1>10, <1>16, <2>1, <2>2, 1 \in Nat
  <2> QED
    BY <1>1, <1>16, <2>3 DEF Ideal!Effect, Ideal!Less, Ideal!More, Free, Kept, Owing, w
<1>17. CASE m.op = "deposit"
  <2>1. Needs(m) = m.amount + back /\ kept = m.amount
    BY <1>1, <1>17 DEF Needs, Gain, back, kept
  <2>2. \A b \in Bundles : Loan(m, b) = 0
    BY <1>17 DEF Loan
  <2>3. Kept'[m.by] = Kept[m.by] + m.amount
    BY <1>1, <1>2, <1>6, <1>17, <2>1
  <2>4. Kept' = [Kept EXCEPT ![m.by] = @ + m.amount]
    BY <1>1, <1>3, <1>5, <2>3, MoreOf
  <2>5. /\ Free[m.by] >= m.amount /\ Free' = [Free EXCEPT ![m.by] = @ - m.amount]
        /\ Owing' = Owing
    BY <1>1, <1>8, <1>11, <1>17, <2>1, <2>2
  <2> QED
    BY <1>1, <1>17, <2>4, <2>5 DEF Ideal!Effect, Ideal!Less, Ideal!More, Free, Kept, Owing, w
<1>18. CASE m.op = "withdraw"
  <2>1. Needs(m) = m.amount /\ kept = 0 /\ back = 0
    BY <1>1, <1>18 DEF Needs, Gain, back, kept
  <2>2. \A b \in Bundles : Loan(m, b) = IF b = m.to THEN m.amount ELSE 0
    BY <1>18 DEF Loan
  <2>3. /\ Kept[m.by] >= m.amount /\ Kept'[m.by] = Kept[m.by] - m.amount
        /\ Free'[m.by] = Free[m.by]
    BY <1>1, <1>2, <1>6, <1>7, <1>18, <2>1
  <2>4. /\ Kept' = [Kept EXCEPT ![m.by] = @ - m.amount] /\ Free' = Free
        /\ Owing' = [Owing EXCEPT ![m.to] = @ + m.amount]
    BY <1>1, <1>3, <1>5, <1>10, <2>2, <2>3, LessOf
  <2> QED
    BY <1>1, <1>18, <2>3, <2>4 DEF Ideal!Effect, Ideal!Less, Ideal!More, Free, Kept, Owing, w
<1> QED
  BY <1>12, <1>13, <1>14, <1>15, <1>16, <1>17, <1>18 DEF FundedOps, w

LEMMA UsingHappens ==
  ASSUME IInv, DealsInv, NEW m \in flight, Accept(m), m.op \in UserOps
  PROVE  Ideal!Effect(WishOf(m.id, m, m.by))
<1> DEFINE w == WishOf(m.id, m, m.by)
<1>1. w.op = m.op /\ w.by = m.by /\ w.amount = m.amount /\ m.by \in Bundles /\ m.amount \in Nat
  BY DEF WishOf, IInv, NetworkType, Molecules
<1> HIDE DEF w
<1>2. \A b \in Bundles : Free[b] \in Nat /\ Kept[b] \in Nat /\ Owing[b] \in Nat
  <2>1. /\ rows \in SUBSET Rows /\ shadows \in SUBSET Shadows
        /\ IsFiniteSet(rows) /\ IsFiniteSet(shadows)
    BY DEF IInv, LedgerType, DealsInv
  <2>2. \A b \in Bundles, buffer \in BOOLEAN : Held(rows, b, buffer) \in Nat /\ Debt(shadows, b) \in Nat
    BY <2>1, HeldType, DebtType
  <2> QED
    BY <2>2 DEF Free, Kept, Owing, Balance, Held, Owed, Debt
<1>3. /\ Free = [b \in Bundles |-> Free[b]] /\ Free' = [b \in Bundles |-> Free'[b]]
      /\ Kept = [b \in Bundles |-> Kept[b]] /\ Kept' = [b \in Bundles |-> Kept'[b]]
      /\ Owing = [b \in Bundles |-> Owing[b]] /\ Owing' = [b \in Bundles |-> Owing'[b]]
  BY DEF Free, Kept, Owing
<1>4. CASE m.op = "claim"
  <2>1. PICK n \in Nat :
            /\ \A b \in Bundles, buffer \in BOOLEAN :
                  Balance(b, buffer)' = Balance(b, buffer)
                        + (IF b = m.by /\ ~buffer THEN n ELSE 0)
            /\ \A b \in Bundles :
                  IF b = m.by THEN Owed(b) >= n /\ Owed(b)' = Owed(b) - n
                  ELSE Owed(b)' = Owed(b)
    BY <1>4, ClaimAccounts
  <2>2. \A b \in Bundles :
            /\ Free'[b] = Free[b] + (IF b = m.by THEN n ELSE 0)
            /\ Kept'[b] = Kept[b] + 0
            /\ IF b = m.by THEN Owing[b] >= n /\ Owing'[b] = Owing[b] - n
               ELSE Owing'[b] = Owing[b]
    BY <2>1 DEF Free, Kept, Owing
  <2> HIDE DEF Free, Kept, Owing
  <2>3. /\ Free'[m.by] = Free[m.by] + n
        /\ \A b \in Bundles : b # m.by => Free'[b] = Free[b]
        /\ \A b \in Bundles : Kept'[b] = Kept[b]
    BY <1>1, <1>2, <2>2
  <2>4. Free' = [Free EXCEPT ![m.by] = @ + n] /\ Kept' = Kept
    BY <1>1, <1>3, <2>3, MoreOf
  <2>5. Owing[m.by] >= n /\ Owing' = [Owing EXCEPT ![m.by] = @ - n]
    BY <1>1, <1>3, <2>2, LessOf
  <2>6. n \in 0..Owing[m.by]
    BY <1>1, <1>2, <2>5
  <2> QED
    BY <1>1, <1>4, <2>4, <2>5, <2>6
    DEF Ideal!Effect, Ideal!Less, Ideal!More, Free, Kept, Owing, w
<1>5. CASE m.op # "claim"
  <2> DEFINE n == IF m.op \in {"create_token", "replenish"} THEN m.amount ELSE 0
  <2>1. /\ UNCHANGED shadows
        /\ \A b \in Bundles, buffer \in BOOLEAN :
                Balance(b, buffer)' = Balance(b, buffer)
                        + (IF /\ b = m.by /\ ~buffer
                              /\ m.op \in {"create_token", "replenish"} THEN m.amount ELSE 0)
    BY <1>5, UserAccounts
  <2>2. \A b \in Bundles :
            /\ Free'[b] = Free[b] + (IF b = m.by THEN n ELSE 0)
            /\ Kept'[b] = Kept[b] + 0
            /\ Owing'[b] = Owing[b]
    BY <2>1 DEF Free, Kept, Owing, Owed
  <2>3. /\ m.op \in {"create_token", "replenish"} => n = m.amount
        /\ m.op \in {"create_meta", "create_wallet"} => n = 0
        /\ n \in Nat
    BY <1>1
  <2> HIDE DEF Free, Kept, Owing, n
  <2>4. /\ Free'[m.by] = Free[m.by] + n
        /\ \A b \in Bundles : b # m.by => Free'[b] = Free[b]
        /\ \A b \in Bundles : Kept'[b] = Kept[b]
    BY <1>1, <1>2, <2>2, <2>3
  <2>5. Free' = [Free EXCEPT ![m.by] = @ + n] /\ Kept' = Kept /\ Owing' = Owing
    BY <1>1, <1>3, <2>2, <2>4, MoreOf
  <2>6. CASE m.op \in {"create_token", "replenish"}
    BY <1>1, <2>3, <2>5, <2>6 DEF Ideal!Effect, Ideal!More, Free, Kept, Owing, w
  <2>7. CASE m.op \in {"create_meta", "create_wallet"}
    <3>1. Free' = Free
      BY <1>1, <1>2, <1>3, <2>3, <2>4, <2>7
    <3> QED
      BY <1>1, <2>5, <2>7, <3>1 DEF Ideal!Effect, Ideal!accounts, Free, Kept, Owing, w
  <2> QED
    BY <1>5, <2>6, <2>7 DEF UserOps
<1> QED
  BY <1>4, <1>5 DEF w

LEMMA AcceptCommits ==
  ASSUME IInv, DealsInv, NEW m \in flight, Accept(m)
  PROVE  DealsInv' /\ \E w \in Loose(flight) : Ideal!Commit(w)
<1> DEFINE w == WishOf(m.id, m, m.by)
<1>1. /\ flight' = flight \ {m} /\ verdict' = [verdict EXCEPT ![m.id] = "accepted"]
      /\ UNCHANGED <<call, outcome, count>>
  BY DEF Accept
<1>2. m.op \in FundedOps \cup UserOps /\ w.id = m.id
  BY DEF WishOf, IInv, NetworkType, Molecules
<1>3. /\ w \in Loose(flight) /\ Loose(flight') = Loose(flight) \ {w}
      /\ Done(verdict') = Done(verdict) \cup {w.id}
  BY <1>1, <1>2, VerdictsTake
<1>4. IsFiniteSet(rows') /\ IsFiniteSet(shadows')
  <2>1. CASE m.op \in FundedOps
    BY <2>1, SpendingAccounts, LendingAccounts
  <2>2. CASE m.op \in UserOps
    <3>1. IsFiniteSet(shadows)
      BY DEF DealsInv
    <3> QED
      BY <2>2, <3>1, UserAccounts, ClaimAccounts
  <2> QED
    BY <1>2, <2>1, <2>2
<1>5. DealsInv'
  BY <1>1, <1>4 DEF DealsInv
<1>6. \A d \in Clients : Pending(d)' = Pending(d)
  BY <1>1 DEF Pending, At, WishOf, Own
<1>7. Ideal!Effect(w)
  BY <1>2, SpendingHappens, UsingHappens
<1> HIDE DEF w
<1>8. Ideal!Commit(w)
  BY <1>1, <1>3, <1>6, <1>7 DEF Ideal!Commit, Pending, WishOf, Loose, Done
<1> QED
  BY <1>3, <1>5, <1>8

LEMMA InitAccounts == Init => DealsInv /\ Ideal!Init
<1> SUFFICES ASSUME Init PROVE DealsInv /\ Ideal!Init
  OBVIOUS
<1>1. PICK old \in SUBSET {BundleOf[c] : c \in Clients} :
        /\ rows = [owner : old, buffer : {FALSE}, position : {[of |-> 0, as |-> "new"]},
                   balance : {4}]
                \cup [owner : old, buffer : {TRUE},
                      position : {[of |-> 0, as |-> "next"]}, balance : {2}]
        /\ shadows = [owner : old, batch : {0}, amount : {1}]
  BY DEF Init
<1>2. IsFiniteSet(old)
  <2>1. old \subseteq Bundles
    BY BundleOfAssumption
  <2> QED
    BY <2>1, BundlesAssumption, FS_Subset
<1> DEFINE New == [of |-> 0, as |-> "new"]
          Next0 == [of |-> 0, as |-> "next"]
<1>a. rows = [owner : old, buffer : {FALSE}, position : {New}, balance : {4}]
                \cup [owner : old, buffer : {TRUE}, position : {Next0}, balance : {2}]
  BY <1>1
<1> HIDE DEF New, Next0
<1>3. IsFiniteSet(rows)
  <2> DEFINE f == [b \in old |-> [owner |-> b, buffer |-> FALSE, position |-> New, balance |-> 4]]
             g == [b \in old |-> [owner |-> b, buffer |-> TRUE, position |-> Next0, balance |-> 2]]
             F == {f[b] : b \in old}
             G == {g[b] : b \in old}
             R1 == [owner : old, buffer : {FALSE}, position : {New}, balance : {4}]
             R2 == [owner : old, buffer : {TRUE}, position : {Next0}, balance : {2}]
  <2>1. R1 \subseteq F
    <3>1. ASSUME NEW r \in R1 PROVE r \in F
      <4>1. /\ r = [owner |-> r.owner, buffer |-> r.buffer, position |-> r.position,
                   balance |-> r.balance]
            /\ r.owner \in old /\ r.buffer = FALSE /\ r.position = New /\ r.balance = 4
        BY <3>1, Zenon
      <4>2. r = f[r.owner]
        BY <4>1, Zenon
      <4> HIDE DEF f
      <4> QED
        BY <4>1, <4>2
    <3> QED
      BY <3>1, Zenon
  <2>2. R2 \subseteq G
    <3>1. ASSUME NEW r \in R2 PROVE r \in G
      <4>1. /\ r = [owner |-> r.owner, buffer |-> r.buffer, position |-> r.position,
                   balance |-> r.balance]
            /\ r.owner \in old /\ r.buffer = TRUE /\ r.position = Next0 /\ r.balance = 2
        BY <3>1, Zenon
      <4>2. r = g[r.owner]
        BY <4>1, Zenon
      <4> HIDE DEF g
      <4> QED
        BY <4>1, <4>2
    <3> QED
      BY <3>1, Zenon
  <2> HIDE DEF f, g
  <2>3. IsFiniteSet(F) /\ IsFiniteSet(G)
    BY <1>2, FiniteImage
  <2>4. rows = R1 \cup R2
    BY <1>a
  <2> HIDE DEF F, G, R1, R2
  <2> QED
    BY <2>1, <2>2, <2>3, <2>4, FS_Union, FS_Subset
<1>4. IsFiniteSet(shadows)
  <2> DEFINE f == [b \in old |-> [owner |-> b, batch |-> 0, amount |-> 1]]
             F == {f[b] : b \in old}
  <2>1. shadows \subseteq F
    <3>1. ASSUME NEW s \in shadows PROVE s \in F
      <4>1. /\ s = [owner |-> s.owner, batch |-> s.batch, amount |-> s.amount]
            /\ s.owner \in old /\ s.batch = 0 /\ s.amount = 1
        BY <1>1, <3>1, Zenon
      <4>2. s = f[s.owner]
        BY <4>1, Zenon
      <4> HIDE DEF f
      <4> QED
        BY <4>1, <4>2
    <3> QED
      BY <3>1, Zenon
  <2> HIDE DEF f
  <2>2. IsFiniteSet(F)
    BY <1>2, FiniteImage
  <2> HIDE DEF F
  <2> QED
    BY <2>1, <2>2, FS_Subset
<1>5. call = [c \in Clients |-> None] /\ flight = {}
  BY DEF Init, Idle
<1>6. DealsInv
  BY <1>3, <1>4, <1>5 DEF DealsInv
<1>7. Free \in [Bundles -> Nat] /\ Kept \in [Bundles -> Nat] /\ Owing \in [Bundles -> Nat]
  <2>1. rows \in SUBSET Rows /\ shadows \in SUBSET Shadows
    BY InitIInv DEF IInv, LedgerType
  <2>2. \A b \in Bundles, buffer \in BOOLEAN : Held(rows, b, buffer) \in Nat /\ Debt(shadows, b) \in Nat
    BY <1>3, <1>4, <2>1, HeldType, DebtType
  <2> QED
    BY <2>2 DEF Free, Kept, Owing, Balance, Held, Owed, Debt
<1>8. /\ \A c \in Clients : Pending(c) = {}
      /\ Loose(flight) = {} /\ Done(verdict) = {}
      /\ outcome = [c \in Clients |-> "none"] /\ count = 0
  BY <1>5 DEF Init, Pending, At, Loose, Done
<1>9. Ideal!Init
  BY <1>7, <1>8 DEF Ideal!Init, Pending, WishOf, Loose, Done, Free, Kept, Owing
<1> QED
  BY <1>6, <1>9

LEMMA EveryStepIsIdeal == IInv /\ DealsInv /\ [Next]_vars => DealsInv' /\ [Ideal!Next]_Ideal!vars
<1> SUFFICES ASSUME IInv, DealsInv, [Next]_vars PROVE DealsInv' /\ [Ideal!Next]_Ideal!vars
  OBVIOUS
<1>1. ASSUME NEW c \in Clients, NEW op \in FundedOps \cup UserOps, NEW to \in Bundles,
             NEW all \in BOOLEAN, NEW n \in Amounts, Begin(c, op, to, n, all)
      PROVE  DealsInv' /\ [Ideal!Next]_Ideal!vars
  <2>1. DealsInv' /\ Ideal!Forget(c)
    BY <1>1, BeginForgets, Zenon
  <2> QED
    BY <2>1 DEF Ideal!Next
<1>2. ASSUME NEW c \in Clients, ClientSteps(c) PROVE DealsInv' /\ [Ideal!Next]_Ideal!vars
  <2>1. CASE ListShadows(c) \/ AskContinuId(c) \/ AskBalance(c) \/ Fails(c)
    BY <2>1, ReadingStep
  <2>2. CASE Propose(c)
    BY <2>2, ProposeSubmits DEF Ideal!Next
  <2>3. CASE Succeeds(c) \/ NotConfirmed(c)
    BY <2>3, ReportReturns DEF Ideal!Next
  <2> QED
    BY <1>2, <2>1, <2>2, <2>3 DEF ClientSteps
<1>3. ASSUME NEW m \in flight, Accept(m) PROVE DealsInv' /\ [Ideal!Next]_Ideal!vars
  BY <1>3, AcceptCommits DEF Ideal!Next, Loose
<1>4. ASSUME NEW m \in flight, Reject(m) PROVE DealsInv' /\ [Ideal!Next]_Ideal!vars
  BY <1>4, RejectRefuses DEF Ideal!Next, Loose
<1>5. CASE UNCHANGED vars
  <2>1. UNCHANGED <<rows, shadows, call, outcome, flight, verdict, count>>
    BY <1>5 DEF vars, ledger, network
  <2>2. DealsInv'
    BY <2>1 DEF DealsInv
  <2>3. UNCHANGED Ideal!vars
    BY <2>1 DEF Ideal!vars, Ideal!accounts, Balance, Owed, At, WishOf, Own
  <2> QED
    BY <2>2, <2>3
<1> QED
  BY <1>1, <1>2, <1>3, <1>4, <1>5, Zenon DEF Next

-----------------------------------------------------------------------------

\* The types of ledger, calls and network, for any number of devices, identities and
\* molecules; a call that spends has one source.
THEOREM LedgerIsAlwaysTyped == Spec => []TypeOK
  BY AlwaysIInv, InvImplies, PTL

\* No wallet of the ledger has value behind a key that signed, and a client does not go
\* back to a key that had signed when it asked, whatever other devices do and whichever
\* answers are lost (knishio_client_withdraw_buffer_token, transfer.c:1105; client_ops.c:452).
THEOREM KeysAlwaysSignOnce == Spec => []KeysSignOnce
  BY AlwaysIInv, InvImplies, PTL

\* When knishio_client_claim_shadow_wallets reports success, every wallet it listed has
\* been claimed, whichever devices claimed them and in whatever order the answers came
\* (identity.c:389).
THEOREM ClaimsAlwaysAll == Spec => ClaimsAll
<1>1. Init => ClaimsInv
  BY InitClaims
<1>2. IInv /\ ClaimsInv /\ [Next]_vars => ClaimsInv'
  BY EveryClaim DEF AllReported
<1>3. IInv /\ ClaimsInv /\ [Next]_vars =>
        \A c \in Clients :
            call[c] # None /\ call'[c] = None /\ call[c].op = "claim" /\ result'[c] = "SUCCESS"
            => \A s \in shadows' : s.owner = Own(c) => s.batch \notin call[c].listed
  BY EveryClaim, Zenon DEF AllReported, Reported
<1> QED
  BY <1>1, <1>2, <1>3, AlwaysIInv, PTL DEF Spec, ClaimsAll

\* The operations of any number of devices, on one ledger and over a network that loses and
\* delays, are as good as whole operations on accounts, each at one moment (IdealLedger):
\* what an operation read and another wrote in between is neither lost nor spent twice, and
\* a success has taken effect (transfer.c, token.c, wallet.c, identity.c).
THEOREM LedgerImplementsIdealLedger == Spec => ImplementsIdealLedger
<1>1. Init => DealsInv /\ Ideal!Init
  BY InitAccounts
<1>2. IInv /\ DealsInv /\ [Next]_vars => DealsInv' /\ [Ideal!Next]_Ideal!vars
  BY EveryStepIsIdeal
<1> QED
  BY <1>1, <1>2, AlwaysIInv, PTL DEF Spec, ImplementsIdealLedger, Ideal!Spec

=============================================================================
