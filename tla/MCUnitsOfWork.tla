--------------------------- MODULE MCUnitsOfWork ---------------------------
(* Two item types at one hangar.  The sales job takes the fills by time, the *)
(* contracts job the lines of an outgoing contract by type id; two requests  *)
(* confirm the same sold-stock suggestion.                                   *)
EXTENDS UnitsOfWork

CONSTANTS ingest, contracts, confirm, again, ore, gas, suggestion

MCStock == <<[slot |-> ore, qty |-> 2], [slot |-> gas, qty |-> 1],
             [slot |-> ore, qty |-> 2]>>

Of(slot, qty) == [slot |-> slot, qty |-> qty]

MCAsks ==
    [u \in Units |->
        CASE u = ingest    -> [demands |-> <<Of(gas, 1), Of(ore, 1)>>,
                               key |-> NoKey, job |-> TRUE]
          [] u = contracts -> [demands |-> <<Of(ore, 3), Of(gas, 1)>>,
                               key |-> NoKey, job |-> TRUE]
          [] OTHER         -> [demands |-> <<Of(ore, 1)>>,
                               key |-> suggestion, job |-> FALSE]]
=============================================================================
