-------------------------------- MODULE Lots --------------------------------
(***************************************************************************)
(* The rows of the lot ledger and the operations of the repository and the *)
(* domain on them (ADR-0043, ADR-0047).  A ledger is a sequence of lots;   *)
(* the position of a lot is its id.  Nothing here has state: Ledger and    *)
(* the modules on hangars, moves and shipments apply these operators.      *)
(*                                                                         *)
(* Money is counted in whole grains of a currency, so a cost is a natural  *)
(* number.  unit_cost is unit_purchase_cost + unit_hauling_cost: no        *)
(* operation reads one without the other.                                  *)
(***************************************************************************)
EXTENDS Naturals, Sequences, FiniteSets, Functions

CONSTANTS
    Types,       \* item types
    Locations,   \* stations and structures stock can sit at
    NoFloor      \* written_down_to of a lot no write-down ever touched

ASSUME NoFloorAssumption == NoFloor \notin Nat

Sources == {"buyback", "opening_balance", "manual", "reprocess"}

Lot == [type : Types, location : Locations,
        qty_original : Nat, qty_remaining : Nat,
        unit_cost : Nat, written_down_to : Nat \cup {NoFloor},
        acquired_at : Nat, source : Sources,
        source_lot : Nat,              \* 0: no source_lot_id
        appraisal : Nat,               \* 0: no appraisal_id
        cost_is_estimated : BOOLEAN]

NewLot(type, location, qty, cost, at, source, parent, estimated) ==
    [type |-> type, location |-> location,
     qty_original |-> qty, qty_remaining |-> qty,
     unit_cost |-> cost, written_down_to |-> NoFloor,
     acquired_at |-> at, source |-> source, source_lot |-> parent,
     appraisal |-> 0, cost_is_estimated |-> estimated]

\* landed_unit_cost: what one unit is carried at, floored and never raised by
\* a write-down.
Landed(lot) ==
    IF lot.written_down_to # NoFloor /\ lot.written_down_to < lot.unit_cost
    THEN lot.written_down_to
    ELSE lot.unit_cost

\* write_down_target: a write-down is due only below the carried cost.
WriteDownDue_NotStrict(lot, nrv) == nrv <= Landed(lot)    \* mutant
WriteDownDue(lot, nrv) == nrv < Landed(lot)

\* open_lots of one (type, location) slot, as a set of ids; FifoPlans orders them.
OpenLots(lots, type, location) ==
    {l \in 1..Len(lots) : /\ lots[l].qty_remaining > 0
                          /\ lots[l].type = type
                          /\ lots[l].location = location}

\* idle_by_location_type for one slot.
Idle(lots, type, location) ==
    SumFunction([l \in OpenLots(lots, type, location) |-> lots[l].qty_remaining])

(***************************************************************************)
(* The plans plan_fifo may return for qty units of the lots in open.  The  *)
(* ids that break ties between lots acquired at the same instant are       *)
(* random, so any order among those is possible; whichever it is, at most  *)
(* one lot is left partly consumed, nothing younger is touched while older *)
(* stock remains, and only an exhausted slot leaves a shortfall.           *)
(***************************************************************************)
Plans(open, qty) == [take : [open -> 0..qty], shortfall : 0..qty]

Fits(lots, plan, qty) ==
    /\ \A l \in DOMAIN plan.take : plan.take[l] <= lots[l].qty_remaining
    /\ SumFunction(plan.take) + plan.shortfall = qty

Exhausts(lots, plan) ==
    plan.shortfall > 0 =>
        \A l \in DOMAIN plan.take : plan.take[l] = lots[l].qty_remaining

OldestFirst(lots, plan) ==
    \A k, l \in DOMAIN plan.take :
        lots[k].acquired_at < lots[l].acquired_at /\ plan.take[l] > 0
            => plan.take[k] = lots[k].qty_remaining

OnePartial(lots, plan) ==
    \A k, l \in DOMAIN plan.take :
        /\ plan.take[k] \in 1..(lots[k].qty_remaining - 1)
        /\ plan.take[l] \in 1..(lots[l].qty_remaining - 1)
        => k = l

FifoPlans_Uncapped(lots, open, qty) ==        \* mutant: one lot gives it all
    {plan \in Plans(open, qty) :
        /\ SumFunction(plan.take) + plan.shortfall = qty
        /\ plan.shortfall > 0 => open = {}
        /\ OldestFirst(lots, plan) /\ OnePartial(lots, plan)}
FifoPlans_Unsorted(lots, open, qty) ==        \* mutant: in no particular order
    {plan \in Plans(open, qty) :
        Fits(lots, plan, qty) /\ Exhausts(lots, plan) /\ OnePartial(lots, plan)}
FifoPlans_GivesUpEarly(lots, open, qty) ==    \* mutant: stops before the last lot
    {plan \in Plans(open, qty) :
        Fits(lots, plan, qty) /\ OldestFirst(lots, plan) /\ OnePartial(lots, plan)}
FifoPlans(lots, open, qty) ==
    {plan \in Plans(open, qty) :
        /\ Fits(lots, plan, qty)
        /\ Exhausts(lots, plan)
        /\ OldestFirst(lots, plan)
        /\ OnePartial(lots, plan)}

Taken(take, l) == IF l \in DOMAIN take THEN take[l] ELSE 0

\* The lots an operation draws on.
Drawn(take) == {l \in DOMAIN take : take[l] > 0}

\* consume, write_down and the whole-lot move, on one row.
Consumed(lot, qty) == [lot EXCEPT !.qty_remaining = @ - qty]
WrittenDown(lot, nrv) == [lot EXCEPT !.written_down_to = nrv]
Relocated(lot, to) == [lot EXCEPT !.location = to]

\* consume, for every lot of a plan, then create_lot for every lot of new.
Booked(lots, take, new) ==
    [l \in 1..(Len(lots) + Len(new)) |->
        IF l <= Len(lots)
        THEN Consumed(lots[l], Taken(take, l))
        ELSE new[l - Len(lots)]]

\* The child a partial move_to_location splits off: cost, age, floor and
\* confidence are carried unchanged.
SplitChild_LosesFloor(lots, l, qty, to) ==    \* mutant: written_down_to forgotten
    [lots[l] EXCEPT !.qty_original = qty, !.qty_remaining = qty,
                    !.location = to, !.source_lot = l, !.appraisal = 0,
                    !.written_down_to = NoFloor]
SplitChild_Measured(lots, l, qty, to) ==      \* mutant: confidence forgotten
    [lots[l] EXCEPT !.qty_original = qty, !.qty_remaining = qty,
                    !.location = to, !.source_lot = l, !.appraisal = 0,
                    !.cost_is_estimated = FALSE]
SplitChild(lots, l, qty, to) ==
    [lots[l] EXCEPT !.qty_original = qty, !.qty_remaining = qty,
                    !.location = to, !.source_lot = l, !.appraisal = 0]
=============================================================================
