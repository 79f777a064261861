------------------------------ MODULE MCAccess ------------------------------
(* Two transfers for one corporation, whose worth depends on the price.      *)
EXTENDS Access

CONSTANTS red, first, second, ann, bob

MCAmount == [e \in Entries |-> IF e = second THEN 5 ELSE 2]
OneCorp == [e \in Entries |-> red]
=============================================================================
