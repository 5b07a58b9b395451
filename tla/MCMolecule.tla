----------------------------- MODULE MCMolecule -----------------------------
(***************************************************************************)
(* Instances of Molecule for TLC: wallets of one identity ("me") and of a  *)
(* recipient ("you"), of the USER, AUTH and TOK tokens, with and without a *)
(* batch id, in both OTS versions.                                         *)
(***************************************************************************)
EXTENDS Molecule

MCSigLen == << [hex |-> 6, base64 |-> 4], [hex |-> 8, base64 |-> 5] >>

Wallet(owner, token, pos, ver, balance, batch, units) ==
    [addr |-> [owner |-> owner, token |-> token, pos |-> pos, ver |-> ver],
     token |-> token, bundle |-> owner, ver |-> ver,
     balance |-> balance, batch |-> batch, units |-> units]

Shadow(bundle, token, batch) ==
    [addr |-> NoAddress, token |-> token, bundle |-> bundle, ver |-> 1,
     balance |-> 0, batch |-> batch, units |-> <<>>]

User    == Wallet("me", "USER", "p1", 2, 0, NoBatch, <<>>)
UserV1  == Wallet("me", "USER", "p2", 1, 0, NoBatch, <<>>)
Auth    == Wallet("me", "AUTH", "p3", 2, 0, NoBatch, <<>>)
Funded  == Wallet("me", "TOK", "p4", 1, 3, NoBatch, <<>>)
Batch   == Wallet("me", "TOK", "p5", 2, 2, "b1", <<>>)
Stack   == Wallet("me", "TOK", "p6", 1, 3, "b1", <<"u1", "u2", "u3">>)
Huge    == Wallet("me", "TOK", "p7", 1, 9, NoBatch, <<>>)
Yours   == Wallet("you", "TOK", "p8", 1, 2, NoBatch, <<>>)
Rest    == Wallet("me", "TOK", "p9", 2, 0, NoBatch, <<>>)
RestB   == Wallet("me", "TOK", "p10", 2, 0, "b1", <<>>)
Other   == Wallet("me", "OTHER", "p11", 1, 0, NoBatch, <<>>)
ToYou   == Shadow("you", "TOK", NoBatch)
ToYouB  == Shadow("you", "TOK", "b2")

\* The breadth instance: every pairing, one builder call.
AllSources    == {NoWallet, User, Auth, Funded, Batch, Stack, Huge, Yours}
AllRemainders == {NoWallet, User, Rest, RestB}
AllRecipients == {NoWallet, ToYou, ToYouB, Other}
MCSecrets     == {"me"}
MCAmounts     == {1, 2, 3}
MCMetas       == {{}, {<<"k", "v">>}}
DistinctUnits == {<<>>, <<"u1">>, <<"u1", "u2">>, <<"u3", "u1">>, <<"u9", "u1">>}
MCNewIds      == {"u4", "u1"}
None          == {}
SameOrder     == {"same"}

\* The depth instance: few wallets, several calls, the limit reached.
Loose(iso, v, bundle) ==
    [NewAtom(iso, Funded.addr, "TOK", v, NoBatch) EXCEPT !.bundle = bundle]
DeepSources    == {Funded, Batch}
DeepRemainders == {NoWallet, RestB}
DeepRecipients == {NoWallet, ToYouB}
DeepAmounts    == {2}
DeepMetas      == {{<<"k", "v">>}}
DeepUnits      == {<<>>}
DeepNewIds     == {"u4"}
DeepLoose      == {Loose("B", 2, "me"), Loose("R", 0, "")}
DeepLate       == {<<"late", "1">>}
DeepOrders     == {"same", "reversed"}

\* (int) of an oversize double on x86-64, for IntMax = 7.
X86 == -8

\* For the findings.
StackOnly    == {Stack}
FundedOnly   == {Funded}
RestOnly     == {Rest}
RestBOnly    == {RestB}
ToYouOnly    == {ToYou}
ToYouBOnly   == {ToYouB}
SignedAmounts == {-1, 2}

=============================================================================
