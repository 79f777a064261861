------------------------------ MODULE StockTake ------------------------------
(***************************************************************************)
(* A hangar check step by step (ADR-0044, ADR-0047, ADR-0050): the         *)
(* scheduled one and a manager's, over one station whose divisions are     *)
(* marked and unmarked meanwhile, where players refine, deliver, stow and  *)
(* take away stock, and where the ledger sells and records refines.        *)
(*                                                                         *)
(* A check reads marks and assets over the network (Fetch), then reads the *)
(* books (Look) and writes (Book).  From the snapshot it replaces first,   *)
(* it holds the row of hangar_sync until it ends.  Orders, shipments and   *)
(* moves between places are in Hangars.                                    *)
(***************************************************************************)
EXTENDS Refining

CONSTANTS
    Checks,        \* hangar checks that may run at once
    Box,           \* type of the station container
    Spots,         \* where goods can be: divisions, inside the box, deliveries
    Start,         \* what lies where, and which divisions are marked, at first
    Docks, Routes, \* spots goods come to, and <<from, to>> they are stowed along
    OpeningLots,   \* and the lots the books open with
    Value,         \* market value of a unit, in cents, once it is priced
    Edits,         \* outputs a manager may type into the dialog
    MaxDelivery, MaxRecorded, MaxChanges    \* bounds

\* Rows of lots; a cost is what one unit cost.
LotRow == [type : Types, left : Nat, at : Nat, cost : [num : Nat, den : Nat \ {0}],
           source : {"buyback", "opening_balance", "reprocess"}, estimated : BOOLEAN]

ASSUME StockTakeAssumption ==
    /\ Spots = Divisions \cup {"Box", "CorpDeliveries"}
    /\ Divisions \cap {"Box", "CorpDeliveries", "OfficeFolder"} = {}
    /\ Docks \subseteq Spots /\ Routes \subseteq Spots \X Spots
    /\ Box \in Types /\ Value \in [Types -> Nat]
    /\ {MaxDelivery, MaxRecorded, MaxChanges} \subseteq Nat
    /\ \A o \in Edits : DOMAIN o \subseteq Types /\ o \in [DOMAIN o -> Nat \ {0}]
    /\ Start \subseteq [goods : [Spots -> [Types \ {Box} -> Nat]],
                        box : Divisions, marks : SUBSET Divisions]
    /\ OpeningLots \in Seq(LotRow)

VARIABLES
    goods, boxAt,      \* world: units per spot and type, and the division the box is in
    marks, stock,      \* buyback_hangars; hangar_stock, or NoStock
    lots, latest,      \* lot rows; what latest_by_slot gives for each type
    priced,            \* types a price is cached for
    check,             \* the checks under way
    changes, settled   \* changes so far; the last step was a check nothing disturbed

world == <<goods, boxAt>>
books == <<lots, latest, stock>>
stockTakeVars == <<world, marks, books, priced, check, changes, settled>>

NoStock == [t \in {} |-> 0]
None == [t \in Types |-> 0]
Stackable == Types \ {Box}
NoEvent == [kind |-> "none", qty |-> 0, lot |-> FALSE]
Idle == [step |-> "idle", counted |-> None, delta |-> None, since |-> {}]

StockTakeInit ==
    /\ \E s \in Start : goods = s.goods /\ boxAt = s.box /\ marks = s.marks
    /\ stock = NoStock
    /\ lots = OpeningLots /\ latest = [t \in Types |-> NoEvent]
    /\ priced = {t \in Types : Value[t] > 0}
    /\ check = [c \in Checks |-> Idle]
    /\ changes = 0 /\ settled = FALSE

-----------------------------------------------------------------------------
(* The asset list and the books *)

Office == <<"office", 0>>
TheBox == <<"box", 0>>
Row(item, type, qty, at, flag) ==
    [item |-> item, type |-> type, qty |-> qty, at |-> at, flag |-> flag]
Parent(s) == IF s \in Divisions THEN Office ELSE IF s = "Box" THEN TheBox ELSE Station

Assets ==
    {Row(Office, 0, 1, Station, "OfficeFolder"), Row(TheBox, Box, 1, Office, boxAt)}
    \cup {Row(p, p[2], goods[p[1]][p[2]], Parent(p[1]), p[1]) :
            p \in {q \in Spots \X Stackable : goods[q[1]][q[2]] > 0}}

\* idle_by_location_type and open_lots of the station.
OpenLots(t) == {l \in DOMAIN lots : lots[l].type = t /\ lots[l].left > 0}
Expected_Bought(t) ==                       \* mutant: what was refined does not count
    SumFunction([l \in {x \in OpenLots(t) : lots[x].source # "reprocess"} |-> lots[l].left])
Expected(t) == SumFunction([l \in OpenLots(t) |-> lots[l].left])

\* The ways plan-like code draws qty from the open lots: oldest first, random
\* ids between lots of one instant.
Drawings(t, qty) ==
    LET queues == {q \in SetToSeqs(OpenLots(t)) :
                    \A i, j \in DOMAIN q : i < j => lots[q[i]].at <= lots[q[j]].at}
        before(q, i) == SumFunction([j \in 1 .. i - 1 |-> lots[q[j]].left])
        touched(q) == Cardinality({i \in DOMAIN q : before(q, i) < qty})
    IN  {[i \in 1 .. touched(q) |->
            [lot |-> q[i], qty |-> Least(lots[q[i]].left, qty - before(q, i))]] : q \in queues}

Consumed(draws) ==
    [l \in DOMAIN lots |->
        [lots[l] EXCEPT !.left = @ - SumFunction([d \in {x \in draws : x.lot = l} |-> d.qty])]]

Worth == [t \in Types |-> IF t \in priced THEN Value[t] ELSE 0]

\* _create_children_at_cost, per type: age and doubt of lot, the cost handed out.
Children_Fresh(lot, cost, outputs) ==       \* mutant: bought when it was refined
    LET cents == AllocateSourceCost(cost, outputs, Worth)
    IN  [t \in DOMAIN outputs |->
            [type |-> t, left |-> outputs[t], at |-> Len(lots) + 1,
             cost |-> Cost(cents[t], outputs[t]), source |-> "reprocess", estimated |-> lot.estimated]]
Children(lot, cost, outputs) ==
    LET cents == AllocateSourceCost(cost, outputs, Worth)
    IN  [t \in DOMAIN outputs |->
            [type |-> t, left |-> outputs[t], at |-> lot.at,
             cost |-> Cost(cents[t], outputs[t]), source |-> "reprocess", estimated |-> lot.estimated]]

Paid(d) == Times(d.qty, lots[d.lot].cost)

\* The entries of several tables, by <<table, key>>.
Flat(tables) ==
    [k \in UNION {{i} \X DOMAIN tables[i] : i \in DOMAIN tables} |-> tables[k[1]][k[2]]]

\* record_observed_reprocess, in batches of children: each lot's cost and age into
\* its own, or all into one when a lot's share would be empty.
Observed(draws, outputs) ==
    LET shares == ApportionOutputs([i \in DOMAIN draws |-> draws[i].qty], outputs)
        blend == [lots[draws[1].lot] EXCEPT
                    !.estimated = \E i \in DOMAIN draws : lots[draws[i].lot].estimated]
        total == Total([i \in DOMAIN draws |-> Paid(draws[i])])
    IN  Flat(IF shares = NoShares THEN <<Children(blend, total, outputs)>>
             ELSE [i \in DOMAIN draws |->
                     Children(lots[draws[i].lot], Paid(draws[i]), shares[i])])

\* New lots as rows: ids are random, so that any order will do.
Listed(new) == LET keys == SetToSeq(DOMAIN new) IN [i \in DOMAIN keys |-> new[keys[i]]]

-----------------------------------------------------------------------------
(* What happens around a check *)

Bounded == changes < MaxChanges /\ changes' = changes + 1 /\ settled' = FALSE

\* Something a check under way did not see when it took its photograph.
Disturb(checks, what) ==
    check' = [c \in Checks |->
        IF c \in checks /\ check[c].step # "idle"
        THEN [check[c] EXCEPT !.since = @ \cup {what}] ELSE check[c]]
Change(what) == Bounded /\ Disturb(Checks, what)

Refine(s, t) ==
    \E n \in 1..(goods[s][t] \div Portion[t]), good \in BOOLEAN :
       LET made(m) == IF m \notin DOMAIN Materials[t] THEN 0
                      ELSE IF good THEN n * Materials[t][m]
                      ELSE (n * Materials[t][m] * Yield[1]) \div Yield[2]
       IN  /\ DOMAIN Materials[t] # {}
           /\ goods' = [goods EXCEPT ![s] = [m \in Stackable |->
                            @[m] + made(m) - IF m = t THEN n * Portion[t] ELSE 0]]
           /\ Change("world") /\ UNCHANGED <<boxAt, marks, books, priced>>

Deliver(s, t) ==
    \E q \in 1..MaxDelivery :
       /\ goods' = [goods EXCEPT ![s][t] = @ + q]
       /\ Change("world") /\ UNCHANGED <<boxAt, marks, books, priced>>

TakeAway(s, t) ==
    /\ goods[s][t] > 0
    /\ goods' = [goods EXCEPT ![s][t] = @ - 1]
    /\ Change("world") /\ UNCHANGED <<boxAt, marks, books, priced>>

Stow(from, to, t) ==
    /\ goods[from][t] > 0
    /\ goods' = [[goods EXCEPT ![from][t] = 0] EXCEPT ![to][t] = @ + goods[from][t]]
    /\ Change("world") /\ UNCHANGED <<boxAt, marks, books, priced>>

MoveBox(d) ==
    /\ d # boxAt /\ boxAt' = d
    /\ Change("world") /\ UNCHANGED <<goods, marks, books, priced>>

PriceChanges(t) ==
    /\ Value[t] > 0
    /\ priced' = IF t \in priced THEN priced \ {t} ELSE priced \cup {t}
    /\ Change("world") /\ UNCHANGED <<world, marks, books>>

Mark(d) ==
    /\ d \notin marks /\ marks' = marks \cup {d}
    /\ Change("world") /\ UNCHANGED <<world, books, priced>>

\* remove_hangar: the snapshot goes with the last mark.
Unmark(d) ==
    /\ d \in marks /\ marks' = marks \ {d}
    /\ stock' = IF marks' = {} THEN NoStock ELSE stock
    /\ Change("world") /\ UNCHANGED <<world, lots, latest, priced>>

Sell(t) ==
    /\ \E draws \in Drawings(t, 1) : draws # <<>> /\ lots' = Consumed(Range(draws))
    /\ Change("world") /\ UNCHANGED <<world, marks, latest, stock, priced>>

\* record_reprocess, with the outputs the dialog opened with or others.
RecordReprocess_Unchecked(l, qty) ==        \* mutant: any quantity
    \E outputs \in Edits \cup {BaseYieldOutputs(lots[l].type, qty)} :
       /\ DOMAIN outputs # {}
       /\ LET draw == [lot |-> l, qty |-> qty]
          IN  lots' = Consumed({draw}) \o Listed(Children(lots[l], Paid(draw), outputs))
       /\ Change("books") /\ UNCHANGED <<world, marks, latest, stock, priced>>
RecordReprocess(l, qty) ==
    \E outputs \in Edits \cup {BaseYieldOutputs(lots[l].type, qty)} :
       /\ qty <= lots[l].left /\ DOMAIN outputs # {}
       /\ LET draw == [lot |-> l, qty |-> qty]
          IN  lots' = Consumed({draw}) \o Listed(Children(lots[l], Paid(draw), outputs))
       /\ Change("books") /\ UNCHANGED <<world, marks, latest, stock, priced>>

-----------------------------------------------------------------------------
(* reconcile_hangars *)

\* fetch_hangar_counts; without marks nothing is asked of EVE.
Fetch(c) ==
    /\ check[c].step = "idle"
    /\ \E counted \in {IF marks = {} THEN None ELSE HangarCounts(Assets, marks)} :
          check' = [check EXCEPT ![c] = [Idle EXCEPT !.step = "fetched", !.counted = counted]]
    /\ settled' = FALSE
    /\ UNCHANGED <<world, marks, books, priced, changes>>

\* The marks are read again.  replace_for_corp updates the row of hangar_sync,
\* so that a second check waits here for the first to end.
Look_NoWait(c) ==                           \* mutant: the snapshot is written at the end
    /\ check[c].step = "fetched"
    /\ check' = [check EXCEPT ![c] =
            IF marks = {} THEN Idle
            ELSE [@ EXCEPT !.step = "looked",
                           !.delta = [t \in Types |-> check[c].counted[t] - Expected(t)]]]
    /\ UNCHANGED <<world, marks, books, priced, changes, settled>>
Look(c) ==
    /\ check[c].step = "fetched"
    /\ marks # {} => \A d \in Checks : check[d].step # "looked"
    /\ check' = [check EXCEPT ![c] =
            IF marks = {} THEN Idle
            ELSE [@ EXCEPT !.step = "looked",
                           !.delta = [t \in Types |-> check[c].counted[t] - Expected(t)]]]
    /\ UNCHANGED <<world, marks, books, priced, changes, settled>>

\* It waited, and the rows it inserts are there already: the check fails.
Clash(c) ==
    /\ check[c].step = "fetched"
    /\ \E d \in Checks : check[d].step = "looked"
    /\ check' = [check EXCEPT ![c] = Idle]
    /\ UNCHANGED <<world, marks, books, priced, changes, settled>>

Found(t, qty) ==
    [type |-> t, left |-> qty, at |-> Len(lots) + 1, cost |-> Cost(Value[t], 1),
     source |-> "opening_balance", estimated |-> TRUE]

Event(kind, qty, lot) == [kind |-> kind, qty |-> qty, lot |-> lot]
Logged(t, kind, qty) == latest[t].kind = kind /\ latest[t].qty = qty

\* An excess is booked as soon as it can be valued, flagged before or not.
Bookable_Once(t, qty) == t \in priced /\ ~Logged(t, "excess", qty)    \* mutant
Bookable(t, qty) == t \in priced

\* One pass: refines that explain a shortage and an excess are recorded, when
\* open lots still cover them; any other excess is booked if it has a price.
Book(c) ==
    LET delta == check[c].delta
        claims == Claims(delta)
        sources == {s[1] : s \in claims}
        outputs(s) == [m \in {x[2] : x \in {y \in claims : y[1] = s}} |-> delta[m]]
        recorded == {s \in sources : Expected(s) >= QtyRecordable(s, delta)}
        hinted == {s[2] : s \in claims}
        found == {t \in Types : delta[t] > 0 /\ t \notin hinted /\ Bookable(t, delta[t])}
        remainder(s) == -delta[s] - QtyRecordable(s, delta)
        leftover == {s \in recorded : remainder(s) > 0 /\ ~Logged(s, "shortfall", remainder(s))}
        seen(t) == IF t \in recorded THEN Event("reprocess_recorded", QtyRecordable(t, delta), FALSE)
                   ELSE IF t \in sources THEN Event("reprocess_hint", -delta[t], FALSE)
                   ELSE IF t \in hinted \/ delta[t] = 0 THEN latest[t]
                   ELSE IF delta[t] < 0 THEN Event("shortfall", -delta[t], FALSE)
                   ELSE Event("excess", delta[t], t \in found)
    IN  /\ check[c].step = "looked"
        /\ \E draw \in [recorded -> UNION {Drawings(s, QtyRecordable(s, delta)) : s \in recorded}] :
              /\ \A s \in recorded : draw[s] \in Drawings(s, QtyRecordable(s, delta))
              /\ lots' = Consumed(UNION {Range(draw[s]) : s \in recorded})
                    \o Listed(Flat([s \in recorded |-> Observed(draw[s], outputs(s))]))
                    \o Listed([t \in found |-> Found(t, delta[t])])
        \* Both events of a refine carry one instant: either may come out the latest.
        /\ \E last \in SUBSET leftover :
              latest' = [t \in Types |-> IF t \in last
                                         THEN Event("shortfall", remainder(t), FALSE) ELSE seen(t)]
        /\ stock' = Positive(check[c].counted)
        /\ check' = [d \in Checks |->
                        IF d = c THEN Idle
                        ELSE IF check[d].step = "idle" THEN check[d]
                        ELSE [check[d] EXCEPT !.since = @ \cup {"check"}]]
        /\ settled' = (check[c].since = {})
        /\ UNCHANGED <<world, marks, priced, changes>>

Check(c) == Fetch(c) \/ Look(c) \/ Clash(c) \/ Book(c)

StockTakeNext ==
    \/ \E s \in Spots, t \in Stackable : Refine(s, t) \/ TakeAway(s, t)
    \/ \E s \in Docks, t \in Stackable : Deliver(s, t)
    \/ \E r \in Routes, t \in Stackable : Stow(r[1], r[2], t)
    \/ \E d \in Divisions : MoveBox(d) \/ Mark(d) \/ Unmark(d)
    \/ \E t \in Types : PriceChanges(t) \/ Sell(t)
    \/ \E l \in DOMAIN lots, qty \in 1..MaxRecorded : RecordReprocess(l, qty)
    \/ \E c \in Checks : Check(c)

\* Weak fairness of Check(c): some step of a check is always enabled, so that
\* the fairness is that a check goes on for ever, from one step to the next.
GoesOn(c) == []<><<check'[c].step # check[c].step>>_stockTakeVars

StockTakeSpec == StockTakeInit /\ [][StockTakeNext]_stockTakeVars /\ \A c \in Checks : GoesOn(c)
-----------------------------------------------------------------------------
(* Properties *)

Entry == [kind : {"none", "excess", "shortfall", "reprocess_hint", "reprocess_recorded"},
          qty : Nat, lot : BOOLEAN]
StockTakeTypeOK ==
    /\ goods \in [Spots -> [Stackable -> Nat]] /\ boxAt \in Divisions
    /\ marks \subseteq Divisions /\ priced \subseteq Types
    /\ DOMAIN stock \subseteq Types /\ \A t \in DOMAIN stock : stock[t] \in Nat \ {0}
    /\ lots \in Seq(LotRow)
    /\ latest \in [Types -> Entry]
    /\ check \in [Checks -> [step : {"idle", "fetched", "looked"}, counted : [Types -> Nat],
                             delta : [Types -> Int], since : SUBSET {"world", "books", "check"}]]
    /\ changes \in 0..MaxChanges /\ settled \in BOOLEAN

\* What is inside a marked division, said without the asset list: what lies in
\* it, the box if it stands there, and with the box what is in the box.
Inventory(t) ==
    IF t = Box THEN IF boxAt \in marks THEN 1 ELSE 0
    ELSE SumFunction([s \in marks |-> goods[s][t]]) + IF boxAt \in marks THEN goods["Box"][t] ELSE 0

\* The stock-take counts exactly that: nothing in a container is missed, and
\* nothing of another division, of an unmarked box or of the deliveries leaks in.
CountedTruly == HangarCounts(Assets, marks) = [t \in Types |-> Inventory(t)]

New == Len(lots) + 1 .. Len(lots')
Drawn == {l \in DOMAIN lots : lots'[l].left < lots[l].left}
Refined == {l \in New : lots'[l].source = "reprocess"}
NewUnits(t) == SumFunction([l \in {x \in New : lots'[x].type = t} |-> lots'[l].left])
UsedUnits(t) == SumFunction([l \in {x \in Drawn : lots[x].type = t} |-> lots[l].left - lots'[l].left])

\* Amounts a and b differ by at most n half cents.
WithinHalfCents(a, b, n) ==
    LET d == a.num * b.den - b.num * a.den IN 2 * (IF d < 0 THEN -d ELSE d) <= n * a.den * b.den

\* A refine, recorded by a manager or by a check, hands on what its sources
\* cost to the cent: each source lot's cost is off by half a cent at most.
CostToTheCent ==
    [][Refined # {} =>
        WithinHalfCents(Total([l \in Refined |-> Times(lots'[l].left, lots'[l].cost)]),
                        Total([l \in Drawn |-> Times(lots[l].left - lots'[l].left, lots[l].cost)]),
                        Cardinality(Drawn))]_stockTakeVars

\* A child is as old as one of the lots refined, and an output of doubtful
\* stock stays doubtful; nothing a check refines becomes younger or surer.
AgeInherited ==
    [][\A l \in Refined : \E d \in Drawn :
          /\ lots'[l].at = lots[d].at
          /\ lots[d].estimated => lots'[l].estimated]_stockTakeVars

Booking(c) == check[c].step = "looked" /\ check'[c].step = "idle"

\* An excess enters the books once: as outputs of a refine or as found stock,
\* by exactly what was too much, and what was not too much does not enter.
ExcessBookedOnce ==
    [][\A c \in Checks : Booking(c) =>
        \A t \in Types : NewUnits(t) = 0 \/ NewUnits(t) = check[c].delta[t]]_stockTakeVars

\* A check refines whole batches of what is missing, and never into more of a
\* material than those batches can give.
OnlyWhatItCouldYield ==
    [][\A c \in Checks : Booking(c) =>
        /\ \A t \in Types : UsedUnits(t) % Portion[t] = 0
        /\ \A m \in Types :
              SumFunction([l \in {x \in Refined : lots'[x].type = m} |-> lots'[l].left]) <=
              SumFunction([t \in {x \in Types : m \in DOMAIN Materials[x]} |->
                               (UsedUnits(t) \div Portion[t]) * Materials[t][m]])]_stockTakeVars

\* However two checks overlap, one does not book on top of the other: without
\* a refine recorded by hand meanwhile, no check lifts the books of a type
\* above what it counted.
ChecksDoNotStack ==
    [][\A c \in Checks : Booking(c) /\ "books" \notin check[c].since =>
        \A t \in Types : NewUnits(t) > 0 => Expected(t)' <= check[c].counted[t]]_stockTakeVars

\* After a check that nothing disturbed, the books hold all there is that has
\* a price, what has none is flagged, and every shortage was logged.
ChecksSettle ==
    settled /\ marks # {} =>
        \A t \in Types :
            /\ Expected(t) < Inventory(t) => t \notin priced /\ Logged(t, "excess", Inventory(t) - Expected(t))
            /\ Expected(t) > Inventory(t) => \/ Logged(t, "shortfall", Expected(t) - Inventory(t))
                                             \/ latest[t].kind = "reprocess_recorded"

\* Once the world rests, everything in a marked division that has a price is
\* on the books, whatever the checks saw before.
BooksCatchUp ==
    <>[](marks # {} => \A t \in priced : Inventory(t) <= Expected(t))

\* The stock-take counts what is there, in rows that stay well formed.
CountsSound == StockTakeTypeOK /\ CountedTruly

\* What a refine hands on: its sources' cost, their age and their doubt.
HandedOn == CostToTheCent /\ AgeInherited

\* Whatever a check books was really found, could be made of what is missing, and was
\* not booked by another one.
BookedTruly == ExcessBookedOnce /\ OnlyWhatItCouldYield /\ ChecksDoNotStack


-----------------------------------------------------------------------------
(* Sentences of the documentation that do not hold *)

\* remove_hangar, ADR-0050: with no marks there is nothing the snapshot describes.
SnapshotGoesWithTheMarks == marks = {} => stock = NoStock

\* reconcile_hangars: an unchanged shortfall is not logged again, so after an
\* undisturbed check the latest event of a short type is that shortfall.
UnchangedIsNotRelogged ==
    settled /\ marks # {} =>
        \A t \in Types : Expected(t) > Inventory(t) => Logged(t, "shortfall", Expected(t) - Inventory(t))

\* record_reprocess, ADR-0047 and ADR-0050: the outputs cost together "exactly the
\* source cost consumed".
CostExact ==
    [][Refined # {} =>
        WithinHalfCents(Total([l \in Refined |-> Times(lots'[l].left, lots'[l].cost)]),
                        Total([l \in Drawn |-> Times(lots[l].left - lots'[l].left, lots[l].cost)]),
                        0)]_stockTakeVars
=============================================================================
