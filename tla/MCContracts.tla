---------------------------- MODULE MCContracts ----------------------------
(* One appraisal, two contracts that match it, and one that cites it with other terms *)
(* and was issued by the corporation itself.                                           *)
EXTENDS ContractLinks, TLC

CONSTANTS app, good1, good2, bad, hub

MCCites == [c \in Contracts |-> app]
MCIssuedAt == (good1 :> 1) @@ (bad :> 2) @@ (good2 :> 3)
MCTerms == [c \in Contracts |-> [price |-> IF c = bad THEN 13 ELSE 10, place |-> hub, items |-> 1]]
MCFacts == [a \in Appraisals |-> [total |-> 11, place |-> hub, items |-> 1]]
=============================================================================
