--------------------------- MODULE MCLedgerClient ---------------------------
(***************************************************************************)
(* LedgerClient with two devices of one identity and another identity.     *)
(***************************************************************************)
EXTENDS LedgerClient, TLC

CONSTANTS alice, bob

AnyDevice == Permutations(Clients)

DevicesOfAlice == [c \in Clients |-> alice]

=============================================================================
