--------------------------- MODULE MCClientSecret ---------------------------
(***************************************************************************)
(* An instance of ClientSecret: a client with two secrets.                 *)
(***************************************************************************)
EXTENDS ClientSecret

CONSTANTS b1, b2, s1, s2

TwoBundles == {b1, b2}
MCSecretOf == [b \in TwoBundles |-> IF b = b1 THEN s1 ELSE s2]

=============================================================================
