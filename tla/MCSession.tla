----------------------------- MODULE MCSession -----------------------------
(***************************************************************************)
(* Session with two users and one client; enough positions for a login, a  *)
(* move by another device and another login.                               *)
(***************************************************************************)
EXTENDS Session

=============================================================================
