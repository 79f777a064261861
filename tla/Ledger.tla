------------------------------- MODULE Ledger -------------------------------
(***************************************************************************)
(* The lot ledger of one corporation as its units of work change it: a     *)
(* completed buyback contract and a manual entry create lots, a disposal   *)
(* consumes them FIFO (deeming stock the books never had), the sweep       *)
(* floors carried values, a reprocess turns one lot into others, a move    *)
(* relocates or splits one.  Every action is one whole unit of work:       *)
(* what two of them do to each other is the subject of other modules.      *)
(*                                                                         *)
(* book[l] is what the rows that reference lot l add up to: sale rows,     *)
(* transformation rows, write_down expenses, and the children carved from  *)
(* it.  book[l].entry is the cost the lot entered the books with.          *)
(***************************************************************************)
EXTENDS Lots

CONSTANTS
    Links,           \* completed contract links the watcher may observe
    ManualEntries,   \* known-cost lots a manager may enter
    Disposals,       \* fills, contract lines and direct sales
    Reprocesses,     \* [type, location, qty, outputs] a hangar pass or a manager records
    Markets,         \* cached net realizable values: partial functions on Types
    MaxLots          \* bound on the rows of the ledger

Line == [type : Types, location : Locations, qty : Nat, unit_cost : Nat]
Link == [appraisal : Nat, completed_at : Nat, lines : Seq(Line)]
ManualEntry == [type : Types, location : Locations, qty : Nat,
                unit_cost : Nat, acquired_at : Nat, cost_is_estimated : BOOLEAN]
Disposal == [type : Types, location : Locations, qty : Nat,
             sold_at : Nat, deemed_cost : Nat]

\* A quantity or a price for some of the types.
PerType(f) == DOMAIN f \subseteq Types /\ f \in [DOMAIN f -> Nat]

\* Quantities are positive, as the request schemas and the domain require; one
\* appraisal has one link.
ASSUME InputsAssumption ==
    /\ IsFiniteSet(Types)
    /\ Links \subseteq Link
    /\ \A x, y \in Links : x.appraisal = y.appraisal => x = y
    /\ \A x \in Links : x.appraisal > 0 /\ \A i \in DOMAIN x.lines : x.lines[i].qty > 0
    /\ ManualEntries \subseteq ManualEntry
    /\ Disposals \subseteq Disposal
    /\ \A x \in ManualEntries \cup Disposals \cup Reprocesses : x.qty > 0
    /\ \A x \in Reprocesses :
          /\ x.type \in Types /\ x.location \in Locations /\ x.qty \in Nat
          /\ PerType(x.outputs)
          /\ DOMAIN x.outputs # {}
          /\ \A m \in DOMAIN x.outputs : x.outputs[m] > 0
    /\ \A nrv \in Markets : PerType(nrv)
    /\ MaxLots \in Nat

VARIABLES lots, book

vars == <<lots, book>>

Entry == [entry : Nat, sold : Nat, cogs : Nat, split : Nat,
          reprocessed : Nat, carried : Nat, loss : Nat]

Opened(lot) ==
    [entry |-> lot.qty_original * Landed(lot), sold |-> 0, cogs |-> 0,
     split |-> 0, reprocessed |-> 0, carried |-> 0, loss |-> 0]

\* Lots an operation creates next to rows of other lots it posts.
Posted(posted, new) ==
    [l \in 1..(Len(lots) + Len(new)) |->
        IF l <= Len(lots) THEN posted[l] ELSE Opened(new[l - Len(lots)])]

Room(n) == Len(lots) + n <= MaxLots

Init == lots = <<>> /\ book = <<>>

-----------------------------------------------------------------------------
(* create_lot *)

\* exists_for_appraisal: consumed lots count, so the guard never expires.
ExistsForAppraisal_OpenOnly(id) ==      \* mutant: looks among open lots
    \E l \in DOMAIN lots : lots[l].appraisal = id /\ lots[l].qty_remaining > 0
ExistsForAppraisal(id) == \E l \in DOMAIN lots : lots[l].appraisal = id

BuybackLot(link, line) ==
    [NewLot(line.type, line.location, line.qty, line.unit_cost,
            link.completed_at, "buyback", 0, FALSE)
       EXCEPT !.appraisal = link.appraisal]

\* materialize_buyback_lots for one completed link: one lot per accepted line,
\* unless a lot already names the appraisal.  A pass with several links is a
\* sequence of these.
MaterializeBuybackLots(link) ==
    LET new == [i \in 1..Len(link.lines) |-> BuybackLot(link, link.lines[i])]
    IN  /\ ~ExistsForAppraisal(link.appraisal)
        /\ Room(Len(new))
        /\ lots' = Booked(lots, <<>>, new)
        /\ book' = Posted(book, new)

ManualLot(e) == NewLot(e.type, e.location, e.qty, e.unit_cost, e.acquired_at,
                       "manual", 0, e.cost_is_estimated)

RecordManualLot(e) ==
    /\ Room(1)
    /\ lots' = Booked(lots, <<>>, <<ManualLot(e)>>)
    /\ book' = Posted(book, <<ManualLot(e)>>)

-----------------------------------------------------------------------------
(* consume_and_record_sale: the slot's lots FIFO, one sale row per lot at its *)
(* landed cost now; a shortfall enters as a deemed lot, sold the same moment. *)

DeemedLot(d, qty) == NewLot(d.type, d.location, qty, d.deemed_cost, d.sold_at,
                            "opening_balance", 0, TRUE)

Sold(b, lot, qty) ==
    [b EXCEPT !.sold = @ + qty, !.cogs = @ + qty * Landed(lot)]

Dispose(d, plan) ==
    LET deemed == IF plan.shortfall > 0
                  THEN <<DeemedLot(d, plan.shortfall)>> ELSE <<>>
        known == lots \o deemed
        take == [l \in 1..Len(known) |-> IF l <= Len(lots) THEN Taken(plan.take, l)
                                                          ELSE plan.shortfall]
    IN  /\ Room(Len(deemed))
        /\ lots' = Booked(known, take, <<>>)
        /\ book' = [l \in 1..Len(known) |->
                       Sold(IF l <= Len(lots) THEN book[l] ELSE Opened(known[l]),
                            known[l], take[l])]

ConsumeAndRecordSale(d) ==
    \E plan \in FifoPlans(lots, OpenLots(lots, d.type, d.location), d.qty) :
        Dispose(d, plan)

-----------------------------------------------------------------------------
(* apply_write_downs: every open lot the market values below its carried cost *)
(* is floored, and the loss on the units it still holds is expensed.          *)

DueLots(nrv) ==
    {l \in DOMAIN lots : /\ lots[l].qty_remaining > 0
                         /\ lots[l].type \in DOMAIN nrv
                         /\ WriteDownDue(lots[l], nrv[lots[l].type])}

WriteDownLoss_AllUnits(lot, nrv) ==     \* mutant: expenses sold units again
    (Landed(lot) - nrv) * lot.qty_original
WriteDownLoss(lot, nrv) == (Landed(lot) - nrv) * lot.qty_remaining

Expensed(b, lot, nrv) == [b EXCEPT !.loss = @ + WriteDownLoss(lot, nrv)]

ApplyWriteDowns(nrv) ==
    /\ DueLots(nrv) # {}
    /\ lots' = [l \in DOMAIN lots |->
                   IF l \in DueLots(nrv)
                   THEN WrittenDown(lots[l], nrv[lots[l].type])
                   ELSE lots[l]]
    /\ book' = [l \in DOMAIN book |->
                   IF l \in DueLots(nrv)
                   THEN Expensed(book[l], lots[l], nrv[lots[l].type])
                   ELSE book[l]]

-----------------------------------------------------------------------------
(* Reprocessing: portion[h][m] units of material m come out under the head   *)
(* lot h, which passes cost[h] on to them.                                    *)

Children(portion) == {c \in (DOMAIN portion) \X Types : c[2] \in DOMAIN portion[c[1]]}

\* What allocate_source_cost may return under every head: the whole cost, split
\* over the outputs.  The market weights are the environment's; unit costs are
\* whole grains.
Allocations(cost, portion) ==
    {total \in [Children(portion) -> 0..SumFunction(cost)] :
        /\ \A h \in DOMAIN portion :
             SumFunctionOnSet(total, {c \in Children(portion) : c[1] = h}) = cost[h]
        /\ \A c \in Children(portion) :
             total[c] = (total[c] \div portion[c[1]][c[2]]) * portion[c[1]][c[2]]}

\* The ids of the rows one unit of work adds come in no particular order.
Orderings(S) == {f \in [1..Cardinality(S) -> S] :
                    \A i, j \in 1..Cardinality(S) : f[i] = f[j] => i = j}

Reprocessed(b, lot, qty) ==
    [b EXCEPT !.reprocessed = @ + qty, !.carried = @ + qty * Landed(lot)]

\* _create_children: one lot with the age and the place of its head h.
Child(h, m, qty, total, estimated) ==
    NewLot(m, lots[h].location, qty, total \div qty, lots[h].acquired_at,
           "reprocess", h, estimated)

\* consume the source lots, then one child per output under its head.
Transform(take, portion, cost, estimated) ==
    LET kids == Children(portion)
        n == Cardinality(kids)
    IN  /\ Room(n)
        /\ \E total \in Allocations(cost, portion), order \in Orderings(kids) :
             LET child(c) == Child(c[1], c[2], portion[c[1]][c[2]], total[c],
                                   estimated[c[1]])
                 new == [i \in 1..n |-> child(order[i])]
             IN  /\ lots' = Booked(lots, take, new)
                 /\ book' = Posted([l \in DOMAIN book |->
                                      Reprocessed(book[l], lots[l], Taken(take, l))],
                                   new)

\* record_reprocess: the manager names the lot, the units and the outputs.
RecordReprocess(l, qty, outputs) ==
    /\ qty \in 1..lots[l].qty_remaining
    /\ Transform([h \in {l} |-> qty], [h \in {l} |-> outputs],
                 [h \in {l} |-> qty * Landed(lots[l])],
                 [h \in {l} |-> lots[l].cost_is_estimated])

\* apportion_outputs: largest remainder per output over the consumed portions;
\* an older portion wins a tie, ids decide among equally old ones.
Apportionments(take, drawn, outputs) ==
    LET total == SumFunctionOnSet(take, drawn)
        floor(l, m) == (outputs[m] * take[l]) \div total
        rest(l, m) == (outputs[m] * take[l]) % total
        wins(l, k, m) == \/ rest(l, m) > rest(k, m)
                         \/ /\ rest(l, m) = rest(k, m)
                            /\ lots[l].acquired_at <= lots[k].acquired_at
    IN  {share \in [drawn -> [DOMAIN outputs -> 0..SumFunction(outputs)]] :
            \A m \in DOMAIN outputs :
               /\ \A l \in drawn : share[l][m] \in {floor(l, m), floor(l, m) + 1}
               /\ SumFunction([l \in drawn |-> share[l][m]]) = outputs[m]
               /\ \A l, k \in drawn : /\ share[l][m] = floor(l, m) + 1
                                      /\ share[k][m] = floor(k, m)
                                      => wins(l, k, m)}

\* The first lot of a FIFO plan: no older one, and none as old left partly full.
FirstOf(take, drawn) ==
    {l \in drawn : /\ \A k \in drawn : lots[l].acquired_at <= lots[k].acquired_at
                   /\ take[l] = lots[l].qty_remaining \/ drawn = {l}}

\* The confidence of a folded batch.
BlendEstimated_Oldest(drawn) ==         \* mutant: the oldest lot speaks for all
    \E l \in drawn : /\ \A k \in drawn : lots[l].acquired_at <= lots[k].acquired_at
                     /\ lots[l].cost_is_estimated
BlendEstimated(drawn) == \E l \in drawn : lots[l].cost_is_estimated

\* record_observed_reprocess: refuses when the slot cannot cover qty; otherwise
\* every source lot passes its own cost to its own children, or, when some
\* portion would get no output, all of them under the oldest.
RecordObservedReprocess(r) ==
    \E plan \in FifoPlans(lots, OpenLots(lots, r.type, r.location), r.qty) :
        LET drawn == Drawn(plan.take)
            cost == [l \in drawn |-> plan.take[l] * Landed(lots[l])]
            some(share) == [l \in drawn |->
                              [m \in {x \in DOMAIN r.outputs : share[l][x] > 0} |->
                                 share[l][m]]]
        IN  /\ plan.shortfall = 0
            /\ \E share \in Apportionments(plan.take, drawn, r.outputs) :
                 \/ /\ \A l \in drawn : DOMAIN some(share)[l] # {}
                    /\ Transform(plan.take, some(share), cost,
                                 [l \in drawn |-> lots[l].cost_is_estimated])
                 \/ /\ \E l \in drawn : DOMAIN some(share)[l] = {}
                    /\ \E h \in FirstOf(plan.take, drawn) :
                         Transform(plan.take, [x \in {h} |-> r.outputs],
                                   [x \in {h} |-> SumFunction(cost)],
                                   [x \in {h} |-> BlendEstimated(drawn)])

-----------------------------------------------------------------------------
(* move_to_location *)

SplitOff(b, lot, qty) ==
    [b EXCEPT !.split = @ + qty, !.carried = @ + qty * Landed(lot)]

MoveToLocation_KeepsParent(l, qty, to) ==     \* mutant: the split copies units
    /\ qty \in 1..(lots[l].qty_remaining - 1)
    /\ Room(1)
    /\ lots' = Append(lots, SplitChild(lots, l, qty, to))
    /\ book' = Posted([book EXCEPT ![l] = SplitOff(@, lots[l], qty)],
                      <<SplitChild(lots, l, qty, to)>>)

MoveToLocation(l, qty, to) ==
    /\ qty \in 1..lots[l].qty_remaining
    /\ \/ /\ qty = lots[l].qty_remaining
          /\ lots' = [lots EXCEPT ![l] = Relocated(@, to)]
          /\ UNCHANGED book
       \/ /\ qty < lots[l].qty_remaining
          /\ Room(1)
          /\ LET new == <<SplitChild(lots, l, qty, to)>>
             IN  /\ lots' = Booked(lots, [h \in {l} |-> qty], new)
                 /\ book' = Posted([book EXCEPT ![l] = SplitOff(@, lots[l], qty)], new)

-----------------------------------------------------------------------------

Next ==
    \/ \E link \in Links : MaterializeBuybackLots(link)
    \/ \E e \in ManualEntries : RecordManualLot(e)
    \/ \E d \in Disposals : ConsumeAndRecordSale(d)
    \/ \E nrv \in Markets : ApplyWriteDowns(nrv)
    \/ \E l \in DOMAIN lots, r \in Reprocesses :
          /\ lots[l].type = r.type /\ lots[l].location = r.location
          /\ RecordReprocess(l, r.qty, r.outputs)
    \/ \E r \in Reprocesses : RecordObservedReprocess(r)
    \/ \E l \in DOMAIN lots, to \in Locations :
          /\ to # lots[l].location
          /\ \E qty \in 1..lots[l].qty_remaining : MoveToLocation(l, qty, to)

Spec == Init /\ [][Next]_vars

-----------------------------------------------------------------------------
(* Properties *)

\* Both sequences hold one well-formed row per lot.
TypeOK ==
    /\ lots \in Seq(Lot)
    /\ book \in Seq(Entry)
    /\ Len(book) = Len(lots)

\* No unit of a lot is lost or used twice: what a lot was booked with is what is
\* left of it, what its sale and transformation rows took and what was split off
\* it by moves.
UnitsConserved ==
    \A l \in DOMAIN lots :
        lots[l].qty_original =
            lots[l].qty_remaining + book[l].sold + book[l].split + book[l].reprocessed

\* The cost a lot entered with is, at any time, the carried cost of its remainder
\* plus the frozen COGS of its sale rows, the cost handed to its children and the
\* write-down losses expensed against it: a write-down after a sale neither
\* restates the sale nor expenses units that are gone.
CostConserved ==
    \A l \in DOMAIN lots :
        book[l].entry = lots[l].qty_remaining * Landed(lots[l])
                            + book[l].cogs + book[l].carried + book[l].loss

\* ADR-0047 across the whole ledger: capital paid in by lots with no source lot is
\* what is still carried, plus COGS, plus losses; a reprocess or a move neither
\* writes capital up nor loses any, blended batches included.
CapitalConserved ==
    LET roots == {l \in DOMAIN lots : lots[l].source_lot = 0}
    IN  SumFunction([l \in roots |-> book[l].entry]) =
        SumFunction([l \in DOMAIN lots |-> lots[l].qty_remaining * Landed(lots[l])
                                              + book[l].cogs + book[l].loss])

\* The floor of a written-down lot is below its own cost, whatever splits and
\* sweeps it has been through; with the strict test of the sweep this is why
\* write_down never meets a floor it would raise.
FloorsBind ==
    \A l \in DOMAIN lots :
        lots[l].written_down_to # NoFloor => lots[l].written_down_to < lots[l].unit_cost

\* A lot carved from another one is booked after it, is the same capital (same
\* acquisition time, so FIFO and aging are kept) and is never more certain of its
\* cost; a deemed cost is marked estimated however often it is moved or reprocessed.
LineageHonest ==
    \A l \in DOMAIN lots :
        /\ lots[l].source = "opening_balance" => lots[l].cost_is_estimated
        /\ LET p == lots[l].source_lot
           IN  p # 0 => /\ p < l
                        /\ lots[l].acquired_at = lots[p].acquired_at
                        /\ lots[p].cost_is_estimated => lots[l].cost_is_estimated

\* However often the watcher reports a completed contract, its appraisal owns all
\* of its lots exactly once.
MaterializedOnce ==
    \A link \in Links :
        Cardinality({l \in DOMAIN lots : lots[l].appraisal = link.appraisal})
            \in {0, Len(link.lines)}

\* A sale reaches a lot only after every older open lot of the slot is exhausted.
FifoRespected ==
    [][\A k, l \in DOMAIN lots :
          /\ book'[l].sold > book[l].sold
          /\ lots[k].type = lots[l].type /\ lots[k].location = lots[l].location
          /\ lots[k].acquired_at < lots[l].acquired_at
          => lots'[k].qty_remaining = 0]_vars

\* Stock is deemed only when the slot had too little of it: the sale that creates a
\* deemed lot leaves nothing else open at that type and location.
DeemedOnlyWhenDry ==
    [][\A l \in (DOMAIN lots') \ DOMAIN lots :
          lots'[l].source = "opening_balance" /\ lots'[l].source_lot = 0
              => OpenLots(lots', lots'[l].type, lots'[l].location) = {}]_vars

EstimatedCapital ==
    SumFunction([l \in {x \in DOMAIN lots : lots[x].cost_is_estimated} |->
                    lots[l].qty_remaining * Landed(lots[l])
                        + book[l].cogs + book[l].loss])

\* Estimated cost never turns into measured cost: no step, not even a reprocess
\* that blends several lots, shrinks the capital the books mark as estimated.
EstimatesNeverLaundered == [][EstimatedCapital' >= EstimatedCapital]_vars

\* The rows of the lot table stay sound through any sequence of the operations that
\* write it: well formed, balanced in units and in cost, floored and descended as the
\* bookings say.
LotsSound == TypeOK /\ UnitsConserved /\ CostConserved /\ FloorsBind /\ LineageHonest

\* Capital enters once, with the contract or the entry that paid for it, and none is
\* written up or lost on its way through splits, refines, floors and sales.
CapitalKept == MaterializedOnce /\ CapitalConserved

\* consume_and_record_sale takes the oldest units first, and deems a cost only for what
\* no lot covers.
SoldInOrder == FifoRespected /\ DeemedOnlyWhenDry
=============================================================================
