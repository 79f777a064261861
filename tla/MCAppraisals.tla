---------------------------- MODULE MCAppraisals ----------------------------
(* An ore with a rule on its group, one on the group above and one of its own *)
(* to come; a mineral, and a module no rule names; a trade hub and a keep.    *)
EXTENDS Appraisals, TLC

CONSTANTS ore, mineral, module, minerals, everything, jita, keep, depot, ann, max, bob

GroupOfType == (ore :> minerals) @@ (mineral :> minerals) @@ (module :> None)
ParentOfGroup == (minerals :> everything) @@ (everything :> None)
PortionOf == [t \in Types |-> IF t = ore THEN 2 ELSE 1]
Yields == [t \in Types |-> IF t = ore THEN (mineral :> 3) ELSE [m \in {} |-> 0]]
Nine == <<9, 10>>

Offer(p, v) == [price |-> p, volume |-> v]
Sides == {<<Offer(7, 1), Offer(3, 2)>>, <<Offer(3, 1), Offer(7, 2)>>}
Alike == Permutations(Managers)
Plain == [buy |-> <<Offer(5, 1)>>, sell |-> <<Offer(11, 2)>>]
Empty == [buy |-> <<>>, sell |-> <<>>]
Markets ==
    {[h \in Hubs |-> [t \in Types |->
        IF h = jita /\ t = module THEN [buy |-> b, sell |-> <<Offer(9, 2), Offer(9, 1)>>]
        ELSE IF h = keep /\ t = mineral THEN Empty ELSE Plain]] : b \in Sides}

Row(hub, basis, percentage, enabled, reprocess, compressed, accepted) ==
    [hub |-> hub, basis |-> basis, percentage |-> percentage, enabled |-> enabled,
     reprocess |-> reprocess, compressed_only |-> compressed, accepted |-> accepted]
Bodies ==
    (TypeTarget(ore) :> {Row(None, "sell", 50, TRUE, FALSE, TRUE, TRUE)}) @@
    (TypeTarget(mineral) :> {}) @@ (TypeTarget(module) :> {}) @@
    (GroupTarget(minerals) :> {Row(keep, None, 90, FALSE, TRUE, FALSE, TRUE),
                               Row(None, None, 95, TRUE, TRUE, FALSE, TRUE)}) @@
    (GroupTarget(everything) :> {Row(None, None, 90, TRUE, FALSE, FALSE, FALSE)}) @@
    (ConfigKey :> {[hub |-> jita, basis |-> "split", percentage |-> 85, agg |-> "median",
                   accepted |-> FALSE]})
Registered == [hub |-> jita, basis |-> "buy", percentage |-> 90, agg |-> "percentile",
               accepted |-> TRUE, division |-> None, id |-> 0]
AtFirst ==
    [k \in Targets |-> IF k = GroupTarget(minerals)
       THEN Row(keep, None, 90, TRUE, TRUE, FALSE, TRUE) @@ [division |-> None, id |-> 0]
       ELSE IF k = GroupTarget(everything)
       THEN Row(None, "sell", 80, TRUE, FALSE, FALSE, TRUE) @@ [division |-> None, id |-> 0]
       ELSE None]
Bearers == [n \in {"ore", "module", "relic"} |->
              IF n = "ore" THEN {ore} ELSE IF n = "module" THEN {module} ELSE {ore, mineral}]
Baskets ==
    {[items |-> <<[type |-> module, quantity |-> 7]>>,
      paste |-> <<[name |-> "ore", quantity |-> 3], [name |-> "module", quantity |-> 2],
                  [name |-> "relic", quantity |-> 1]>>,
      place |-> depot]}
=============================================================================
