------------------------------ MODULE MCTokens ------------------------------
(* Two corporations that share a structure, and the operator's wallet.       *)
EXTENDS Tokens

CONSTANTS abc, xyz, wallet, ann, bob
=============================================================================
