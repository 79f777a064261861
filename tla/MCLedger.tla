------------------------------ MODULE MCLedger ------------------------------
(* Small books: two types, ore reprocessing into minerals, two stations. *)
EXTENDS Ledger

CONSTANTS ore, mineral, home, hub

MCTypes == {ore, mineral}
MCLocations == {home, hub}

MCLinks ==
    {[appraisal |-> 1, completed_at |-> 2,
      lines |-> <<[type |-> ore, location |-> home, qty |-> 2, unit_cost |-> 2],
                  [type |-> ore, location |-> home, qty |-> 1, unit_cost |-> 3]>>]}

MCManualEntries ==
    {[type |-> ore, location |-> home, qty |-> 2, unit_cost |-> 3,
      acquired_at |-> 3, cost_is_estimated |-> TRUE]}

MCDisposals ==
    {[type |-> ore, location |-> x, qty |-> 3, sold_at |-> 2, deemed_cost |-> 2]
        : x \in {home, hub}}


MCReprocesses ==
    {[type |-> ore, location |-> home, qty |-> 3, outputs |-> [m \in {mineral} |-> 1]],
     [type |-> ore, location |-> home, qty |-> 2, outputs |-> [m \in {mineral} |-> 2]]}

MCMarkets == {[t \in {ore} |-> 1], [t \in {ore, mineral} |-> 2]}
=============================================================================
