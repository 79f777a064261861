---------------------------- MODULE SalesIngest ----------------------------
(***************************************************************************)
(* The sales ingestion of one corporation, for one item at one station: a  *)
(* pass fetches the live orders, then the latest page of the configured    *)
(* division's fills, then the latest page of its journal, and commits what *)
(* it drafted from all three.  Between the three answers traders and EVE   *)
(* go on, so they do not fit together; every pass sees most of the last    *)
(* one's answers again; and a pass that fails leaves nothing behind.       *)
(*                                                                         *)
(* Lot 0 stands for the lots deemed for units the books did not have.      *)
(***************************************************************************)
EXTENDS Integers, SequencesExt

CONSTANTS
    Orders,        \* sell orders that may be placed
    Size,          \* units of an order
    Division,      \* the wallet division an order pays into
    Divisions,     \* divisions a manager configures
    Stock,         \* units per lot, oldest first
    Extra,         \* units in the hangar that no lot covers
    Tax,           \* sales tax on any fill
    Page,          \* fills, and journal entries, on the latest page of ESI
    Nil,
    MaxFills, MaxSwitches, MaxFailures   \* bounds

ASSUME SizesAssumption == Size \in [Orders -> Nat \ {0}]
ASSUME NumbersAssumption ==
    /\ Stock \in Seq(Nat \ {0}) /\ {Extra, Tax, MaxFills, MaxSwitches, MaxFailures} \subseteq Nat
    /\ Page \in Nat \ {0} /\ Nil \notin Divisions

Lots == 1 .. Len(Stock)
OrderFees == Orders                       \* the broker fee of an order, by its order

VARIABLES
    hangar,     \* units in the hangar
    orders,     \* units left on an order; Nil before it is placed
    fills,      \* every fill, oldest first: its order and quantity
    journal,    \* every journal entry, oldest first: a fee's order or a tax's fill
    division,   \* corp_buyback_config.wallet_division, or Nil
    db,         \* what is committed
    pc, of,     \* where the pass is, and the division it read
    draft,      \* what the pass would commit
    todo,       \* fills fetched and still to be booked
    switches, failures

eve == <<hangar, orders, fills, journal>>
pass == <<pc, of, draft, todo>>
salesVars == <<eve, division, db, pass, switches, failures>>

NoRows == [l \in {} |-> 0]

Books == [lots    |-> Stock,                               \* qty_remaining
          sales   |-> [f \in 1 .. MaxFills |-> [took |-> NoRows, lead |-> 0, tax |-> NoRows]],
          fees    |-> [o \in OrderFees |-> 0],             \* expenses of kind broker_fee
          listed  |-> [o \in {} |-> 0],                    \* corp_market_orders
          flagged |-> <<>>]                                \* unexpected_division events

SalesInit ==
    /\ hangar = SumFunction(Stock) + Extra /\ orders = [o \in Orders |-> Nil]
    /\ fills = <<>> /\ journal = <<>>
    /\ division \in Divisions
    /\ db = Books /\ pc = "idle" /\ of = Nil /\ draft = Books /\ todo = {}
    /\ switches = 0 /\ failures = 0

-----------------------------------------------------------------------------
(* The market, EVE's books, and the manager *)

Place(o) ==
    /\ orders[o] = Nil /\ Size[o] <= hangar
    /\ orders' = [orders EXCEPT ![o] = Size[o]] /\ hangar' = hangar - Size[o]
    /\ journal' = Append(journal, [fee |-> o])
    /\ UNCHANGED fills

Live == {o \in Orders : orders[o] # Nil /\ orders[o] > 0}

Fill(o) ==
    /\ o \in Live /\ Len(fills) < MaxFills
    /\ \E q \in 1 .. orders[o] :
         /\ orders' = [orders EXCEPT ![o] = @ - q]
         /\ fills' = Append(fills, [order |-> o, qty |-> q])
    /\ UNCHANGED <<hangar, journal>>

Cancel(o) ==
    /\ o \in Live
    /\ orders' = [orders EXCEPT ![o] = 0] /\ hangar' = hangar + orders[o]
    /\ UNCHANGED <<fills, journal>>

\* The tax of a fill shows in the journal some time after the fill itself.
Levy(f) ==
    /\ [tax |-> f] \notin Range(journal)
    /\ journal' = Append(journal, [tax |-> f])
    /\ UNCHANGED <<hangar, orders, fills>>

Trade ==
    /\ (\E o \in Orders : Place(o) \/ Fill(o) \/ Cancel(o)) \/ (\E f \in DOMAIN fills : Levy(f))
    /\ UNCHANGED <<division, db, pass, switches, failures>>

SetWalletDivision(d) ==
    /\ d # division /\ division' = d
    /\ switches < MaxSwitches /\ switches' = switches + 1
    /\ UNCHANGED <<eve, db, pass, failures>>

FillDivision(f) == Division[fills[f].order]
EntryDivision(e) == IF "fee" \in DOMAIN e THEN Division[e.fee] ELSE FillDivision(e.tax)

\* The latest Page of those indexes of a history that belong to division d.
Latest(indexes) == {i \in indexes : Cardinality({j \in indexes : j > i}) < Page}
WalletPage(d) == Latest({f \in DOMAIN fills : FillDivision(f) = d})
JournalPage(d) == {journal[i] : i \in Latest({i \in DOMAIN journal : EntryDivision(journal[i]) = d})}

-----------------------------------------------------------------------------
(* Sales, and the tax on them *)

IsBooked(books, f) == books.sales[f].took # NoRows

\* plan_fifo over the open lots, and a lot deemed for what they lack.
Before(lots, l) == SumFunctionOnSet(lots, 1 .. (l - 1))
FromLot(lots, l, q) == LET left == q - Before(lots, l) IN Max({0, Min({left, lots[l]})})
Plan(lots, q) ==
    LET took == [l \in Lots |-> FromLot(lots, l, q)]
        short == q - SumFunction(took)
    IN  [l \in {m \in Lots : took[m] > 0} \cup (IF short > 0 THEN {0} ELSE {}) |->
            IF l = 0 THEN short ELSE took[l]]

\* lead: the row that sorts first, all rows of a fill having one created_at and random ids.
WithSale(books, f, took, lead) ==
    [books EXCEPT
       !.lots = [l \in Lots |-> @[l] - (IF l \in DOMAIN took THEN took[l] ELSE 0)],
       !.sales[f] = [took |-> took, lead |-> lead, tax |-> [l \in DOMAIN took |-> 0]]]

TaxSet_EachRow(sale) ==                    \* mutant: on every row of the fill
    [sale EXCEPT !.tax = [l \in DOMAIN sale.took |-> Tax]]
TaxSet(sale) ==
    [sale EXCEPT !.tax = [l \in DOMAIN sale.took |-> IF l = sale.lead THEN Tax ELSE 0]]

Taxed_NewOnly(books, entries) ==           \* mutant: only on the fills this pass booked
    [f \in 1 .. MaxFills |->
        IF [tax |-> f] \in entries /\ IsBooked(books, f) /\ ~IsBooked(db, f)
          THEN TaxSet(books.sales[f]) ELSE books.sales[f]]
Taxed(books, entries) ==
    [f \in 1 .. MaxFills |->
        IF [tax |-> f] \in entries /\ IsBooked(books, f)
          THEN TaxSet(books.sales[f]) ELSE books.sales[f]]

Charged_Again(books, entries) ==           \* mutant: fees are not looked up
    [o \in OrderFees |-> books.fees[o] + (IF [fee |-> o] \in entries THEN 1 ELSE 0)]
Charged(books, entries) ==
    [o \in OrderFees |-> IF [fee |-> o] \in entries THEN 1 ELSE books.fees[o]]

-----------------------------------------------------------------------------
(* The pass: ingest_market_sales *)

Start ==
    /\ pc = "idle" /\ division # Nil
    /\ of' = division /\ draft' = db /\ pc' = "orders"
    /\ UNCHANGED <<eve, division, db, todo, switches, failures>>

Snapshot_Merge == [o \in DOMAIN db.listed \cup Live |->    \* mutant: vanished orders stay
                     IF o \in Live THEN orders[o] ELSE db.listed[o]]
Snapshot == [o \in Live |-> orders[o]]

\* Sell orders that pay elsewhere are flagged, unless the slot's latest event says the same.
OffDivision == {o \in Live : Division[o] # of}
News(o) == db.flagged = <<>> \/ Last(db.flagged).qty # orders[o]

FetchOrders ==
    /\ pc = "orders" /\ pc' = "fills"
    /\ \E news \in SetToSeqs({o \in OffDivision : News(o)}) :
         draft' = [draft EXCEPT !.listed = Snapshot,
                                !.flagged = @ \o [i \in DOMAIN news |-> [order |-> news[i], qty |-> orders[news[i]]]]]
    /\ UNCHANGED <<eve, division, db, of, todo, switches, failures>>

Unseen_All(f) == TRUE                      \* mutant: what was booked is not looked up
Unseen(f) == ~IsBooked(db, f)

FetchFills ==
    /\ pc = "fills" /\ pc' = "book" /\ todo' = {f \in WalletPage(of) : Unseen(f)}
    /\ UNCHANGED <<eve, division, db, of, draft, switches, failures>>

NextFill_Newest == Max(todo)                  \* mutant: in the order of the page
NextFill == Min(todo)

Open_Committed == db.lots                  \* mutant: as they were before this pass
Open == draft.lots

Book ==
    /\ pc = "book" /\ todo # {}
    /\ LET f == NextFill took == Plan(Open, fills[f].qty) IN
         /\ \E lead \in DOMAIN took : draft' = WithSale(draft, f, took, lead)
         /\ todo' = todo \ {f}
    /\ UNCHANGED <<eve, division, db, pc, of, switches, failures>>

FetchJournal ==
    /\ pc = "book" /\ todo = {} /\ pc' = "commit"
    /\ LET entries == JournalPage(of) IN
         draft' = [draft EXCEPT !.sales = Taxed(draft, entries), !.fees = Charged(draft, entries)]
    /\ UNCHANGED <<eve, division, db, of, todo, switches, failures>>

Rest == pc' = "idle" /\ of' = Nil /\ draft' = Books /\ todo' = {}

Commit ==
    /\ pc = "commit" /\ db' = draft /\ Rest
    /\ UNCHANGED <<eve, division, switches, failures>>

\* No token, no answer, a refused scope, a database error, a stop of the process.
Fail ==
    /\ pc # "idle" /\ failures < MaxFailures /\ failures' = failures + 1 /\ Rest
    /\ UNCHANGED <<eve, division, db, switches>>

Ingest == Start \/ FetchOrders \/ FetchFills \/ Book \/ FetchJournal \/ Commit

SalesNext == Ingest \/ Fail \/ Trade \/ (\E d \in Divisions \cup {Nil} : SetWalletDivision(d))

\* The scheduler fires the job for ever and a pass runs to its end.
SalesSpec == SalesInit /\ [][SalesNext]_salesVars /\ WF_salesVars(Ingest)

-----------------------------------------------------------------------------
(* Properties *)

Quantity(f) == fills[f].qty
Took(f, l) == LET took == db.sales[f].took IN IF l \in DOMAIN took THEN took[l] ELSE 0
Committed == {f \in DOMAIN fills : IsBooked(db, f)}

\* The sets the variables range over; no lot is overdrawn.
SalesTypeOK ==
    /\ hangar \in Nat /\ orders \in [Orders -> Nat \cup {Nil}]
    /\ \A f \in DOMAIN fills : fills[f].order \in Orders /\ fills[f].qty > 0
    /\ division \in Divisions \cup {Nil} /\ of \in Divisions \cup {Nil}
    /\ pc \in {"idle", "orders", "fills", "book", "commit"} /\ todo \subseteq DOMAIN fills
    /\ \A books \in {db, draft} :
         /\ books.lots \in [Lots -> Nat] /\ books.fees \in [OrderFees -> Nat]
         /\ DOMAIN books.listed \subseteq Orders
         /\ \A f \in 1 .. MaxFills : DOMAIN books.sales[f].took \subseteq Lots \cup {0}
    /\ switches \in 0 .. MaxSwitches /\ failures \in 0 .. MaxFailures

\* However often a fill is seen, over passes that fail or not, what left a lot is what the
\* committed sale rows say, and a fill is booked whole (dedupe on transaction_id).
FillsBookedWhole ==
    /\ \A l \in Lots : Stock[l] = db.lots[l] + SumFunction([f \in 1 .. MaxFills |-> Took(f, l)])
    /\ \A f \in Committed : SumFunction(db.sales[f].took) = Quantity(f)

\* A fill pays its tax once, also when it was split over lots and the journal is read
\* again: the rows of a fill together show the whole tax or none of it.
TaxedOnce == \A f \in Committed : SumFunction(db.sales[f].tax) \in {0, Tax}

\* Tax that was attached stays, and so does a fee; a fee is booked once.
FeesBookedOnce == [][/\ \A o \in OrderFees : db.fees[o] <= db'.fees[o] /\ db'.fees[o] <= 1
                     /\ \A f \in Committed : SumFunction(db.sales[f].tax) <= SumFunction(db'.sales[f].tax)]_salesVars

\* The cost of goods follows the order of events: of two fills of one division the older
\* one took the older lots.
OldestLotsFirst == \A f, g \in Committed :
    f < g /\ FillDivision(f) = FillDivision(g) =>
        \A k, l \in Lots : Took(f, l) > 0 /\ Took(g, k) > 0 => l <= k

\* Trading ends and the division comes to rest.  By then every fill and every fee that its
\* pages still show is booked, and every tax on them is attached, in whatever order the
\* pages and the failures came.
WalletCatchesUp == <>[](division # Nil =>
    /\ WalletPage(division) \subseteq Committed
    /\ \A e \in JournalPage(division) :
         IF "fee" \in DOMAIN e THEN db.fees[e.fee] = 1
         ELSE e.tax \in Committed => SumFunction(db.sales[e.tax].tax) = Tax)

\* What the hangar check expects, units on the books less units listed, comes to agree
\* with the hangar once every fill is booked, though a fill between two of the answers
\* puts them apart for a while (listed_by_location_type).
Deemed == SumFunction([f \in 1 .. MaxFills |-> Took(f, 0)])
IdleSettles == <>[](division # Nil /\ Committed = DOMAIN fills =>
    SumFunction(db.lots) + Extra - Deemed - SumFunction(db.listed) = hangar)

\* Fills are booked once, whole, and in the order they happened.
FillsBooked == SalesTypeOK /\ FillsBookedWhole /\ OldestLotsFirst

\* Taxes and broker fees are charged once and stay charged.
ChargesOnce == []TaxedOnce /\ FeesBookedOnce


-----------------------------------------------------------------------------
(* A sentence of the code that does not hold *)

\* "test_off_division_sell_order_is_flagged_once" (test_sales_ingest.py): an order that
\* pays elsewhere is flagged once for each volume.  Two of them take turns in being the
\* latest event of their slot.
FlaggedOnce == \A i, j \in DOMAIN db.flagged : i # j => db.flagged[i] # db.flagged[j]
=============================================================================
