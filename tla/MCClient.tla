----------------------------- MODULE MCClient ------------------------------
(* Instances of Client for TLC. *)
EXTENDS Client, TLC

CONSTANTS u1, s1

OneUnary  == {u1}
OneStream == {s1}
=============================================================================
