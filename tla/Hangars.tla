------------------------------ MODULE Hangars ------------------------------
(***************************************************************************)
(* The hangar check, the moves it suggests and the shipments managers      *)
(* declare (ADR-0044, ADR-0049), next to the world they describe: stock    *)
(* that is carried, listed, sold and shipped with or without the books     *)
(* being told.  Each action of the program is one whole unit of work.      *)
(*                                                                         *)
(* One item type: no rule of these files relates two types, except the     *)
(* reprocess hints, and the item here has no yields.                       *)
(***************************************************************************)
EXTENDS Lots, Integers, SequencesExt

CONSTANTS
    Item,          \* the item type everything here is about
    Hangars,       \* the locations marked as buyback hangars
    SellAt,        \* where the corporation lists and sells
    DirectAt,      \* where it sells off the market
    OffDivision,   \* where an order may pay into another wallet division
    Trips,         \* <<origin, destination>>: hauls nobody declares
    Opening,       \* the lots the books, correctly, open with
    Prices,        \* deemed unit costs the market cache may answer, or NoPrice
    NoPrice,
    MaxTrips,      \* bound on undeclared physical events
    MaxHauls,      \* bound on declared shipments
    MaxLots,       \* bounds on rows: lots, and events per location
    MaxEvents

ASSUME HangarsAssumption ==
    /\ Item \in Types
    /\ IsFiniteSet(Locations)
    /\ Hangars \subseteq Locations /\ SellAt \subseteq Locations
    /\ OffDivision \subseteq SellAt /\ DirectAt \subseteq Locations
    /\ Trips \subseteq Locations \X Locations /\ \A trip \in Trips : trip[1] # trip[2]
    /\ Opening \in Seq(Lot)
    /\ \A i \in DOMAIN Opening :
          /\ Opening[i].type = Item /\ Opening[i].location \in Hangars
          /\ Opening[i].qty_remaining = Opening[i].qty_original
          /\ ~Opening[i].cost_is_estimated
    /\ Prices \ {NoPrice} \subseteq Nat /\ NoPrice \notin Nat
    /\ {MaxTrips, MaxHauls, MaxLots, MaxEvents} \subseteq Nat

VARIABLES
    lots, sales, corrections,   \* lot rows, sale rows, the cost_true_up expenses
    log,                        \* reconciliation events, per location
    moves, hauls,               \* move suggestions and shipments
    orders,                     \* snapshot of the sell orders, per location
    held, escrow, fills,        \* world: in hangars, in orders, sold but not polled
    astray,                     \* world: where the orders pay into another division
    cargo,                      \* world: where the goods of each haul are
    trips,                      \* undeclared physical events so far: the world's clock
    settled                     \* the last step was a hangar check that knew a price

books == <<lots, sales, corrections>>
world == <<held, escrow, fills, astray, cargo, trips>>
vars == <<books, log, moves, hauls, orders, world, settled>>

Sale == [lot : Nat, qty : Nat, unit_cost : Nat, cost_is_estimated : BOOLEAN, sold_at : Nat]

AnnotationKinds == {"move_dismissed", "move_withdrawn",
                    "shipment_recorded", "shipment_arrived"}
SlotKinds == {"excess", "shortfall", "unmatched_sale", "unexpected_division",
              "move_confirmed"}
Event == [kind : AnnotationKinds \cup SlotKinds, qty : Nat, lot : Nat]   \* lot 0: none

\* event is the position of the shortfall flag in the log of the origin.
Move == [origin : Locations, destination : Locations, qty : Nat,
         qty_listed : Nat, qty_sold : Nat, event : Nat, lot : Nat,
         status : {"pending", "confirmed", "dismissed", "withdrawn"},
         qty_retired : Nat]
Haul == [origin : Locations, destination : Locations, qty : Nat,
         status : {"open", "arrived"}]
Fill == [location : Locations, qty : Nat, at : Nat]

Least(a, b) == IF a < b THEN a ELSE b
Minus(a, b) == IF a > b THEN a - b ELSE 0

Init ==
    /\ lots = Opening /\ sales = <<>> /\ corrections = 0
    /\ log = [l \in Locations |-> <<>>]
    /\ moves = <<>> /\ hauls = <<>>
    /\ orders = [l \in Locations |-> 0]
    /\ held = [l \in Locations |-> Idle(Opening, Item, l)]
    /\ escrow = [l \in Locations |-> 0]
    /\ fills = <<>> /\ astray = {} /\ cargo = <<>> /\ trips = 0
    /\ settled = FALSE

-----------------------------------------------------------------------------
(* The log *)

Entry(kind, qty, lot) == [kind |-> kind, qty |-> qty, lot |-> lot]

\* latest_by_slot: the position of the last event that is not an annotation.
LatestAt_AnyKind(l) == Len(log[l])      \* mutant: annotations hide the flag
LatestAt(l) == SelectLastInSeq(log[l], LAMBDA e : e.kind \notin AnnotationKinds)

AlreadyLogged(l, kind, qty) ==
    LatestAt(l) # 0 /\ log[l][LatestAt(l)].kind = kind /\ log[l][LatestAt(l)].qty = qty

\* Appends added[l], at most a few events, to the log of every location l.
Logged(added) == log' = [l \in Locations |-> log[l] \o added[l]]
LoggedAt(l, events) == Logged([x \in Locations |-> IF x = l THEN events ELSE <<>>])

RoomInLog == \A l \in Locations : Len(log'[l]) <= MaxEvents
RoomInBooks == Len(lots') <= MaxLots

-----------------------------------------------------------------------------
(* What a pass reads *)

OpenHauls == {i \in DOMAIN hauls : hauls[i].status = "open"}
OpenFrom(l) == SumFunction([i \in {x \in OpenHauls : hauls[x].origin = l} |-> hauls[i].qty])
OpenTo(l) == SumFunction([i \in {x \in OpenHauls : hauls[x].destination = l} |-> hauls[i].qty])

Stock(l) == Idle(lots, Item, l)

\* Rows of estimated_sales_oldest_first at l: the place of a sale is where the
\* lot it consumed is now.
EstimatedSales(ledger, l) ==
    {i \in DOMAIN sales : sales[i].cost_is_estimated /\ ledger[sales[i].lot].location = l}
EstimatedSold(l) == SumFunction([i \in EstimatedSales(lots, l) |-> sales[i].qty])

\* sold_retired_by_destination_type
Retired_Nothing(l) == 0                 \* mutant: retirement is not remembered
Retired(l) ==
    SumFunction([i \in {x \in DOMAIN moves : /\ moves[x].status = "confirmed"
                                             /\ moves[x].destination = l}
                    |-> moves[i].qty_retired])

\* unexplained_listed and unretired_sold.
Listed(l) == Minus(orders[l], Stock(l))
Unretired(l) == Minus(EstimatedSold(l), Retired(l))

\* Expected stock: idle lots less escrow and declared hauls.
Expected_Measured(h) ==                 \* mutant: found lots do not count
    Minus(Minus(SumFunction([l \in {x \in OpenLots(lots, Item, h) : ~lots[x].cost_is_estimated}
                                |-> lots[l].qty_remaining]), orders[h]), OpenFrom(h))
Expected(h) == Minus(Minus(Stock(h), orders[h]), OpenFrom(h))

Shortfall(h) == Minus(Expected(h), held[h])

\* reconcile, then absorb_open_shipments at both ends of the open hauls.
Excess_OriginOnly(h) == Minus(Minus(held[h], Expected(h)), OpenFrom(h))   \* mutant
Excess(h) == Minus(Minus(held[h], Expected(h)), OpenFrom(h) + OpenTo(h))

Short == {h \in Hangars : Shortfall(h) > 0}
Over == {h \in Hangars : Excess(h) > 0}

-----------------------------------------------------------------------------
(* reconcile_hangars *)

Found(h, price) ==
    NewLot(Item, h, Excess(h), price, Len(lots) + 1, "opening_balance", 0, TRUE)

\* The flag a short slot stands behind: the latest event, or one logged now.
StandingFlag(h) ==
    IF AlreadyLogged(h, "shortfall", Shortfall(h)) THEN LatestAt(h) ELSE Len(log[h]) + 1

\* match_move_pairs: the evidence must sit at one location that is not short.
Evidence(l) == (IF l \in Hangars THEN Excess(l) ELSE 0) + Listed(l) + Unretired(l)
Destinations == {l \in Locations \ Short : Evidence(l) > 0}

Pair(o, d, qty, counted, listed) ==
    [origin |-> o, destination |-> d, qty |-> qty, qty_listed |-> listed,
     qty_sold |-> qty - counted - listed, event |-> StandingFlag(o)]

\* The escrow fills what the counted units leave of the pair.
ListedShare_Uncapped(d, left) == Listed(d)     \* mutant
ListedShare(d, left) == Least(Listed(d), left)

MovePairs ==
    {p \in UNION {
        LET counted == IF d \in Hangars THEN Excess(d) ELSE 0
            qty(o) == Least(Shortfall(o), Evidence(d))
            share(o) == Least(counted, qty(o))
        IN  IF Cardinality(Short) = 1
            THEN {Pair(o, d, qty(o), share(o), ListedShare(d, qty(o) - share(o))) : o \in Short}
            ELSE {Pair(o, d, Least(Shortfall(o), counted), Least(Shortfall(o), counted), 0)
                    : o \in Short}
        : d \in Destinations} :
     Cardinality(Destinations) = 1 /\ p.qty > 0}

Counted(m) == m.qty - m.qty_listed - m.qty_sold

\* _withdraw_reason
Stale_AnyFlag(m) ==                     \* mutant: the flag it decorates may be gone
    \/ Counted(m) > 0 /\ m.destination \in Short
    \/ m.qty_listed > 0 /\ Listed(m.destination) < m.qty_listed
    \/ m.qty_sold > 0 /\ Unretired(m.destination) < m.qty_sold
Stale(m) ==
    \/ Counted(m) > 0 /\ m.destination \in Short
    \/ m.qty_listed > 0 /\ Listed(m.destination) < m.qty_listed
    \/ m.qty_sold > 0 /\ Unretired(m.destination) < m.qty_sold
    \/ m.origin \notin Short
    \/ m.event # StandingFlag(m.origin)

Pending == {i \in DOMAIN moves : moves[i].status = "pending"}
Withdrawn == {i \in Pending : Stale(moves[i])}

PendingExists(p) ==
    \E i \in Pending \ Withdrawn :
        moves[i].origin = p.origin /\ moves[i].event = p.event
        /\ moves[i].destination = p.destination
DismissedExists_Withdrawn(p) ==         \* mutant: looks for the wrong status
    \E i \in DOMAIN moves : /\ moves[i].status = "withdrawn" /\ moves[i].origin = p.origin
                            /\ moves[i].event = p.event /\ moves[i].qty = p.qty
DismissedExists(p) ==
    \E i \in DOMAIN moves : /\ moves[i].status = "dismissed" /\ moves[i].origin = p.origin
                            /\ moves[i].event = p.event /\ moves[i].qty = p.qty

Suggestion(p, lot) ==
    [origin |-> p.origin, destination |-> p.destination, qty |-> p.qty,
     qty_listed |-> p.qty_listed, qty_sold |-> p.qty_sold, event |-> p.event,
     lot |-> IF Counted(p) > 0 THEN lot ELSE 0, status |-> "pending", qty_retired |-> 0]

SetStatus(rows, ids, status) ==
    [i \in DOMAIN rows |-> IF i \in ids THEN [rows[i] EXCEPT !.status = status] ELSE rows[i]]

\* One move_withdrawn at the origin of each, in any order.
WithdrawNotes(ids, l) ==
    LET here == SetToSeq({i \in ids : moves[i].origin = l})
    IN  [k \in DOMAIN here |-> Entry("move_withdrawn", moves[here[k]].qty, 0)]

\* A whole pass: found stock enters at the deemed price, every difference is
\* logged unless the slot's latest event says it already, pending suggestions
\* that stopped holding are withdrawn and new ones proposed.
ReconcileHangars(price) ==
    LET booked == SetToSeq(IF price = NoPrice THEN {} ELSE Over)
        lotOf(h) == IF \E i \in DOMAIN booked : booked[i] = h
                    THEN Len(lots) + (CHOOSE i \in DOMAIN booked : booked[i] = h) ELSE 0
        unpriced(h) == /\ AlreadyLogged(h, "excess", Excess(h))
                       /\ log[h][LatestAt(h)].lot = 0
        observed(h) ==
            CASE h \in Over /\ (lotOf(h) # 0 \/ ~unpriced(h)) ->
                    <<Entry("excess", Excess(h), lotOf(h))>>
              [] h \in Short /\ StandingFlag(h) > Len(log[h]) ->
                    <<Entry("shortfall", Shortfall(h), 0)>>
              [] OTHER -> <<>>
        proposed == SetToSeq({p \in MovePairs :
                        /\ Counted(p) > 0 => lotOf(p.destination) # 0
                        /\ ~PendingExists(p) /\ ~DismissedExists(p)})
    IN  /\ lots' = lots \o [i \in DOMAIN booked |-> Found(booked[i], price)]
        /\ Logged([l \in Locations |-> observed(l) \o WithdrawNotes(Withdrawn, l)])
        /\ moves' = SetStatus(moves, Withdrawn, "withdrawn")
                      \o [k \in DOMAIN proposed |->
                            Suggestion(proposed[k], lotOf(proposed[k].destination))]
        /\ settled' = (price # NoPrice)
        /\ RoomInLog /\ RoomInBooks
        /\ UNCHANGED <<sales, corrections, hauls, orders, world>>

-----------------------------------------------------------------------------
(* confirm_move and dismiss_move_suggestion *)

Capped(take) == [l \in DOMAIN lots |-> [lots[l] EXCEPT !.qty_remaining = Taken(take, l)]]

\* Which units of a FIFO plan the sold portion retires: the first ones.
Retirements(take, qty) ==
    {out.take : out \in {x \in FifoPlans(Capped(take), Drawn(take), qty) :
        \A k, l \in Drawn(take) :
            take[l] < lots[l].qty_remaining /\ x.take[l] > 0 /\ k # l => x.take[k] = take[k]}}

\* consume retires out[l] units of lot l, move_to_location carries the rest of
\* take[l] to a place: the whole lot changes place when nothing else is left in
\* it, otherwise a child is split off.
Carried(ledger, take, out, to) ==
    LET carry(l) == Taken(take, l) - Taken(out, l)
        left(l) == ledger[l].qty_remaining - Taken(out, l)
        split == SetToSeq({l \in Drawn(take) : 0 < carry(l) /\ carry(l) < left(l)})
    IN  [l \in DOMAIN ledger |->
            IF 0 < carry(l) /\ carry(l) = left(l)
            THEN Relocated(Consumed(ledger[l], Taken(out, l)), to)
            ELSE Consumed(ledger[l], Taken(take, l))]
        \o [k \in DOMAIN split |-> SplitChild(ledger, split[k], carry(split[k]), to)]

\* The order of estimated_sales_oldest_first: when it sold, then when it was booked.
OlderSale(r, i) == \/ sales[r].sold_at < sales[i].sold_at
                   \/ sales[r].sold_at = sales[i].sold_at /\ r < i

\* sold_cost_estimate: qty units of the estimated sales at l, past the units
\* that earlier confirms retired.
SoldCostEstimate_NoSkip(ledger, l, skip, qty) ==    \* mutant: always the oldest rows
    LET rows == EstimatedSales(ledger, l)
        before(i) == SumFunctionOnSet([r \in DOMAIN sales |-> sales[r].qty],
                                      {r \in rows : OlderSale(r, i)})
    IN  SumFunction([i \in rows |->
            Minus(Least(before(i) + sales[i].qty, qty), before(i)) * sales[i].unit_cost])
SoldCostEstimate(ledger, l, skip, qty) ==
    LET rows == EstimatedSales(ledger, l)
        before(i) == SumFunctionOnSet([r \in DOMAIN sales |-> sales[r].qty],
                                      {r \in rows : OlderSale(r, i)})
        overlap(i) == Minus(Least(before(i) + sales[i].qty, skip + qty),
                            IF before(i) > skip THEN before(i) ELSE skip)
    IN  SumFunction([i \in rows |-> overlap(i) * sales[i].unit_cost])

\* _withdraw_claimed_siblings: the candidates that share the spent lot.
Siblings_Never(i, left) == {}           \* mutant: candidates are left pending
Siblings(i, left) ==
    IF left > 0 THEN {} ELSE {j \in Pending \ {i} : moves[j].lot = moves[i].lot}

\* The ledger after the reversing entry.
Reversed(ledger, lot, qty) ==
    [l \in DOMAIN ledger |-> IF l = lot THEN Consumed(ledger[l], qty) ELSE ledger[l]]

\* The found lot as the confirm reads it, before anything moves.
DeemedLeft(m) == IF m.lot = 0 THEN 0 ELSE lots[m.lot].qty_remaining

ConfirmMove(i) ==
    LET m == moves[i]
        convertible == Least(Counted(m), DeemedLeft(m))
        target == m.qty_sold + convertible + m.qty_listed
    IN  /\ m.status = "pending"
        /\ \E plan \in FifoPlans(lots, OpenLots(lots, Item, m.origin), target) :
           LET consumed == target - plan.shortfall
               retired == Least(m.qty_sold, consumed)
               reversal == Least(convertible, consumed - retired)
               claimed == IF reversal = 0 THEN {} ELSE Siblings(i, DeemedLeft(m) - reversal)
           IN  \E out \in Retirements(plan.take, retired) :
               LET ledger == Carried(lots, plan.take, out, m.destination)
               IN  /\ reversal > 0 => ledger[m.lot].qty_remaining >= reversal
                   /\ lots' = Reversed(ledger, m.lot, reversal)
                   /\ corrections' = corrections
                        + SumFunction([l \in DOMAIN out |-> out[l] * Landed(lots[l])])
                        - SoldCostEstimate(lots', m.destination,
                                           Retired(m.destination), retired)
                   /\ moves' = SetStatus([moves EXCEPT ![i].status = "confirmed",
                                                       ![i].qty_retired = retired],
                                         claimed, "withdrawn")
                   /\ Logged([l \in Locations |->
                        (IF l = m.origin
                         THEN <<Entry("move_confirmed", consumed, 0)>> ELSE <<>>)
                        \o WithdrawNotes(claimed, l)])
        /\ settled' = FALSE
        /\ RoomInLog /\ RoomInBooks
        /\ UNCHANGED <<sales, hauls, orders, world>>

DismissMove(i) ==
    /\ moves[i].status = "pending"
    /\ moves' = [moves EXCEPT ![i].status = "dismissed"]
    /\ LoggedAt(moves[i].origin, <<Entry("move_dismissed", moves[i].qty, 0)>>)
    /\ settled' = FALSE
    /\ RoomInLog
    /\ UNCHANGED <<books, hauls, orders, world>>

-----------------------------------------------------------------------------
(* Shipments *)

\* qty_idle is not clamped: a slot with more escrow than stock offers nothing.
QtyIdle(h) == Stock(h) - orders[h] - OpenFrom(h)

RecordShipment(o, d, qty) ==
    /\ o # d
    /\ Len(hauls) < MaxHauls
    /\ qty <= QtyIdle(o)
    /\ hauls' = Append(hauls, [origin |-> o, destination |-> d, qty |-> qty,
                               status |-> "open"])
    /\ cargo' = Append(cargo, "origin")
    /\ LoggedAt(o, <<Entry("shipment_recorded", qty, 0)>>)
    /\ settled' = FALSE
    /\ RoomInLog
    /\ UNCHANGED <<books, moves, orders, held, escrow, fills, astray, trips>>

\* The button is pressed once the goods are there.
MarkArrived(i) ==
    /\ hauls[i].status = "open"
    /\ cargo[i] = "destination"
    /\ \E plan \in FifoPlans(lots, OpenLots(lots, Item, hauls[i].origin), hauls[i].qty) :
          /\ lots' = Carried(lots, plan.take, <<>>, hauls[i].destination)
          /\ LoggedAt(hauls[i].destination,
                      <<Entry("shipment_arrived", hauls[i].qty - plan.shortfall, 0)>>)
    /\ hauls' = [hauls EXCEPT ![i].status = "arrived"]
    /\ settled' = FALSE
    /\ RoomInLog /\ RoomInBooks
    /\ UNCHANGED <<sales, corrections, moves, orders, world>>

-----------------------------------------------------------------------------
(* ingest_market_sales and record_manual_sale *)

DeemedLot(l, qty, cost) ==
    NewLot(Item, l, qty, cost, Len(lots) + 1, "opening_balance", 0, TRUE)

SaleRow_AnyDeemed(ledger, l, qty, at) ==      \* mutant: any deemed lot marks the sale
    [lot |-> l, qty |-> qty, unit_cost |-> Landed(ledger[l]),
     cost_is_estimated |-> \E x \in DOMAIN ledger : ledger[x].cost_is_estimated, sold_at |-> at]
SaleRow(ledger, l, qty, at) ==
    [lot |-> l, qty |-> qty, unit_cost |-> Landed(ledger[l]),
     cost_is_estimated |-> ledger[l].cost_is_estimated, sold_at |-> at]

\* consume_and_record_sale, with the event it logs for stock the books lack.  The
\* rows of one transaction bear one time and sort by random ids: any order.
Consume(l, qty, cost, at, events) ==
    \E plan \in FifoPlans(lots, OpenLots(lots, Item, l), qty) :
        LET missing == plan.shortfall
            known == IF missing = 0 THEN lots
                     ELSE Append(lots, DeemedLot(l, missing, cost))
            take == IF missing = 0 THEN plan.take
                    ELSE [x \in Drawn(plan.take) \cup {Len(known)} |->
                             IF x = Len(known) THEN missing ELSE plan.take[x]]
            unmatched(x) == IF x = l /\ missing > 0
                            THEN <<Entry("unmatched_sale", missing, Len(known))>> ELSE <<>>
        IN  /\ lots' = Booked(known, take, <<>>)
            /\ \E rows \in SetToSeqs(Drawn(take)) :
                  sales' = sales \o [k \in DOMAIN rows |->
                                       SaleRow(known, rows[k], take[rows[k]], at)]
            /\ \/ Logged([x \in Locations |-> events[x] \o unmatched(x)])
               \/ Logged([x \in Locations |-> unmatched(x) \o events[x]])

\* _flag_off_division_orders, on the snapshot just taken.
OffDivisionFlags ==
    [l \in Locations |->
        IF /\ l \in astray /\ escrow[l] > 0
           /\ ~AlreadyLogged(l, "unexpected_division", escrow[l])
        THEN <<Entry("unexpected_division", escrow[l], 0)>> ELSE <<>>]

\* One poll: the snapshot, the guard, the fill of the wallet journal if any.  A
\* fill no cached price can value is deemed at its proceeds, one of Prices.
IngestMarketSales(cost) ==
    /\ orders' = escrow
    /\ \/ /\ fills = <<>>
          /\ Logged(OffDivisionFlags)
          /\ UNCHANGED <<books, fills>>
       \/ /\ fills # <<>>
          /\ Consume(fills[1].location, fills[1].qty, cost, fills[1].at, OffDivisionFlags)
          /\ fills' = Tail(fills)
          /\ UNCHANGED corrections
    /\ settled' = FALSE
    /\ RoomInLog /\ RoomInBooks
    /\ UNCHANGED <<moves, hauls, held, escrow, astray, cargo, trips>>

\* A direct sale: goods change hands and the manager enters it.
RecordManualSale(l, qty, cost) ==
    /\ trips < MaxTrips /\ trips' = trips + 1
    /\ held[l] >= qty
    /\ held' = [held EXCEPT ![l] = @ - qty]
    /\ Consume(l, qty, cost, trips', [x \in Locations |-> <<>>])
    /\ settled' = FALSE
    /\ RoomInLog /\ RoomInBooks
    /\ UNCHANGED <<corrections, moves, hauls, orders, escrow, fills, astray, cargo>>

-----------------------------------------------------------------------------
(* The world *)

Undeclared == /\ trips < MaxTrips /\ trips' = trips + 1
              /\ settled' = FALSE
              /\ UNCHANGED <<books, log, moves, hauls, orders, cargo>>

Carry(a, b, qty) ==
    /\ Undeclared
    /\ qty <= held[a]
    /\ held' = [held EXCEPT ![a] = @ - qty, ![b] = @ + qty]
    /\ UNCHANGED <<escrow, fills, astray>>

\* All orders of a place pay into one division, chosen with the first of them.
ListForSale(l, qty) ==
    /\ Undeclared
    /\ \/ UNCHANGED astray
       \/ escrow[l] = 0 /\ l \in OffDivision /\ astray' = astray \cup {l}
    /\ qty <= held[l]
    /\ held' = [held EXCEPT ![l] = @ - qty]
    /\ escrow' = [escrow EXCEPT ![l] = @ + qty]
    /\ UNCHANGED fills

CancelOrder(l) ==
    /\ Undeclared
    /\ escrow[l] > 0
    /\ held' = [held EXCEPT ![l] = @ + escrow[l]]
    /\ escrow' = [escrow EXCEPT ![l] = 0]
    /\ astray' = astray \ {l}
    /\ UNCHANGED fills

\* One fill at a time is waiting for a poll; those of another division never reach it.
FillOrder(l, qty) ==
    /\ Undeclared
    /\ fills = <<>>
    /\ qty <= escrow[l]
    /\ escrow' = [escrow EXCEPT ![l] = @ - qty]
    /\ fills' = IF l \in astray THEN fills
                ELSE <<[location |-> l, qty |-> qty, at |-> trips']>>
    /\ astray' = IF qty = escrow[l] THEN astray \ {l} ELSE astray
    /\ UNCHANGED held

PickUp(i) ==
    /\ cargo[i] = "origin" /\ held[hauls[i].origin] >= hauls[i].qty
    /\ cargo' = [cargo EXCEPT ![i] = "road"]
    /\ held' = [held EXCEPT ![hauls[i].origin] = @ - hauls[i].qty]
    /\ settled' = FALSE
    /\ UNCHANGED <<books, log, moves, hauls, orders, escrow, fills, astray, trips>>

Land(i) ==
    /\ cargo[i] = "road"
    /\ cargo' = [cargo EXCEPT ![i] = "destination"]
    /\ held' = [held EXCEPT ![hauls[i].destination] = @ + hauls[i].qty]
    /\ settled' = FALSE
    /\ UNCHANGED <<books, log, moves, hauls, orders, escrow, fills, astray, trips>>

Quantities(n) == 1..n

Next ==
    \/ \E price \in Prices : ReconcileHangars(price)
    \/ \E i \in DOMAIN moves : ConfirmMove(i) \/ DismissMove(i)
    \/ \E o, d \in Hangars : \E qty \in Quantities(Stock(o)) : RecordShipment(o, d, qty)
    \/ \E i \in DOMAIN hauls : MarkArrived(i) \/ PickUp(i) \/ Land(i)
    \/ \E cost \in Prices \ {NoPrice} : IngestMarketSales(cost)
    \/ \E l \in DirectAt, cost \in Prices \ {NoPrice} : \E qty \in Quantities(held[l]) :
          RecordManualSale(l, qty, cost)
    \/ \E trip \in Trips : \E qty \in Quantities(held[trip[1]]) : Carry(trip[1], trip[2], qty)
    \/ \E l \in SellAt : \/ \E qty \in Quantities(held[l]) : ListForSale(l, qty)
                         \/ \E qty \in Quantities(escrow[l]) : FillOrder(l, qty)
                         \/ CancelOrder(l)

Spec == Init /\ [][Next]_vars

-----------------------------------------------------------------------------
(* Properties *)

TypeOK ==
    /\ lots \in Seq(Lot) /\ sales \in Seq(Sale) /\ corrections \in Int
    /\ log \in [Locations -> Seq(Event)]
    /\ moves \in Seq(Move) /\ hauls \in Seq(Haul)
    /\ orders \in [Locations -> Nat]
    /\ held \in [Locations -> Nat] /\ escrow \in [Locations -> Nat]
    /\ fills \in Seq(Fill) /\ astray \subseteq OffDivision
    /\ cargo \in [DOMAIN hauls -> {"origin", "road", "destination"}]
    /\ trips \in 0..MaxTrips /\ settled \in BOOLEAN

InBooks == SumFunction([l \in Locations |-> Stock(l)])
OnTheRoad == SumFunction([i \in {x \in DOMAIN cargo : cargo[x] = "road"} |-> hauls[i].qty])
InWorld == SumFunction([l \in Locations |-> held[l] + escrow[l]]) + OnTheRoad
              + SumFunction([i \in DOMAIN fills |-> fills[i].qty])

MeasuredStock ==
    SumFunction([l \in {x \in DOMAIN lots : ~lots[x].cost_is_estimated}
                     |-> lots[l].qty_remaining])
SoldAtEstimate ==
    SumFunction([i \in {x \in DOMAIN sales : sales[x].cost_is_estimated} |-> sales[i].qty])
RetiredUnits == SumFunction([i \in DOMAIN moves |-> moves[i].qty_retired])

\* Deeming adds units to the books, a sale may take those or the bought ones, and a
\* confirmed move takes bought ones out by retirement and deemed ones by reversal.
\* Whatever was sold, hauled, found and confirmed in whatever order: each unit there
\* is, and each unit sold at an estimated cost, has a bought unit behind it, still in
\* the books or retired.
UnitsBacked == MeasuredStock + RetiredUnits >= InWorld + SoldAtEstimate

\* Of a docstring, and not kept by the code: "quantity a prior confirmation already
\* trued-up drops out of future pairings", no more units are retired than were sold at
\* an estimated cost.
RetiredOnce == RetiredUnits <= SoldAtEstimate

\* While that is so the books never know of less stock than there is.
BooksCoverStock == RetiredOnce => InBooks >= InWorld

OpenedWith == SumFunction([l \in DOMAIN Opening |-> Opening[l].qty_original * Landed(Opening[l])])
CarriedCost == SumFunction([l \in DOMAIN lots |-> lots[l].qty_remaining * Landed(lots[l])])
RealizedCost == SumFunction([i \in DOMAIN sales |-> sales[i].qty * sales[i].unit_cost])

\* "Total realized profit comes out exact": once every deemed unit is converted
\* again, carried cost, COGS and true-ups add up to what was paid for the stock.
ProfitExact == InBooks = InWorld => CarriedCost + RealizedCost + corrections = OpenedWith

\* After a pass every pending suggestion decorates the standing flag of its origin,
\* for no more than is missing there.
PendingAnchored ==
    settled => \A i \in Pending :
        /\ moves[i].origin \in Short
        /\ moves[i].event = LatestAt(moves[i].origin)
        /\ log[moves[i].origin][moves[i].event].kind = "shortfall"
        /\ moves[i].qty <= Shortfall(moves[i].origin)

\* A shortfall is flagged again only after something else became the latest event of
\* its hangar: a decorated flag stands, and a pass does not repeat it.
FlaggedOnce ==
    \A l \in Locations : \A i, j \in DOMAIN log[l] :
        /\ i < j
        /\ log[l][i].kind = "shortfall" /\ log[l][j].kind = "shortfall"
        /\ log[l][i].qty = log[l][j].qty
        => \E k \in i..j : /\ log[l][k].kind \notin AnnotationKinds
                           /\ log[l][k] # log[l][i]

\* "Not a move" stands: no pass asks again about the same units from and to the same
\* places while the log says nothing new about the shortfall they were taken from.
DismissalStands ==
    [][\A i \in DOMAIN moves : \A j \in (DOMAIN moves') \ DOMAIN moves :
          LET m == moves[i]
              since == (m.event + 1)..Len(log'[m.origin])
          IN  /\ m.status = "dismissed" /\ m.qty = moves'[j].qty
              /\ m.origin = moves'[j].origin /\ m.destination = moves'[j].destination
              => \E k \in since : /\ log'[m.origin][k].kind \notin AnnotationKinds
                                 /\ log'[m.origin][k] # log'[m.origin][m.event]]_vars

\* Found stock is booked once: a pass right after a pass finds nothing.
BookedOnce == [][settled /\ settled' => lots' = lots]_vars

\* Confirming one of several candidate origins settles the matter: no candidate for
\* the found stock it used up stays pending.  A lot a haul has since brought to the
\* origin itself is the exception: the carried units may be its own.
SiblingsArbitrated ==
    [][\A i \in DOMAIN moves :
          LET m == moves[i] IN
          /\ m.status = "pending" /\ moves'[i].status = "confirmed"
          /\ m.lot # 0 /\ lots[m.lot].location # m.origin
          /\ lots[m.lot].qty_remaining > 0 /\ lots'[m.lot].qty_remaining = 0
          => \A j \in DOMAIN moves' : moves'[j].lot = m.lot
                                          => moves'[j].status # "pending"]_vars

\* While every haul is declared and nothing is sold, a check never finds or
\* misses anything, whenever it runs between the recording of a shipment, its
\* departure, its landing and its arrival.
HaulsAreQuiet ==
    trips = 0 =>
        /\ moves = <<>>
        /\ \A l \in Locations : \A i \in DOMAIN log[l] : log[l][i].kind \in AnnotationKinds

\* The books are well formed, and every unit there is or was sold is backed in them.
BooksSound == TypeOK /\ UnitsBacked /\ BooksCoverStock

\* What a pass leaves in the log is current: suggestions decorate a standing flag, and
\* a flag stands once.
FlagsSound == PendingAnchored /\ FlaggedOnce
=============================================================================
