---------------------------- MODULE MCStockTake ----------------------------
(* Two ores that share a material, two units of the first a batch: bought   *)
(* in two lots, one a fraction of a cent a unit and estimated.  The box has   *)
(* no price.                                                                  *)
EXTENDS StockTake

PortionOf == <<2, 1, 1, 1, 1>>
Yields == <<(3 :> 3) @@ (4 :> 1), (4 :> 2), <<>>, <<>>, <<>>>>
Nine == <<9, 10>>
Values == <<5, 7, 3, 11, 0>>
At(t, q) == [x \in Stackable |-> IF x = t THEN q ELSE 0]
AtFirst ==
    {[goods |-> [s \in Spots |-> IF s = "CorpSAG1" THEN [At(1, 3) EXCEPT ![2] = 1]
                                ELSE IF s = "CorpDeliveries" THEN At(4, 2) ELSE At(1, 0)],
      box |-> "CorpSAG1", marks |-> {"CorpSAG1"}]}
Ways == {<<"CorpDeliveries", "CorpSAG1">>, <<"CorpSAG1", "Box">>}
Lot(t, q, at, cost, estimated) ==
    [type |-> t, left |-> q, at |-> at, cost |-> cost, source |-> "buyback",
     estimated |-> estimated]
Bought == <<Lot(1, 1, 1, Cost(5, 2), TRUE), Lot(1, 2, 2, Cost(4, 1), FALSE),
            Lot(2, 1, 2, Cost(7, 1), FALSE)>>
Typed == {(3 :> 1) @@ (4 :> 1)}
=============================================================================
