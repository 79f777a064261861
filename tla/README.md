# Verification of EVE Buyback

EVE Buyback is a FastAPI service on PostgreSQL that appraises items for player corporations,
watches the contracts that come of it, and keeps lot-based books of the stock the
corporations buy and sell. This directory holds TLA+ models of its core, the TLC
configurations that check them, and theorems about them that TLAPS proves.

Modelled are the accounting core (the lot ledger, sales, reprocessing, the hangar check with the moves
it suggests and the shipments managers declare, and the interleavings of the units of work that
share the lot table), the contract watcher, the access that corporations pay for, the tokens the
service holds, the market price cache, and appraisals with their pricing rules.

All source paths are relative to `src/backend/app/`.

## 1. Running it

    tlasany Ledger.tla
    tlc -workers 2 -config MCLedger.cfg MCLedger
    tlapm LedgerProofs.tla

| module | what it is | lines of state |
|---|---|---|
| `Lots` | the lot row and the repository and domain operations on it; no state | – |
| `Ledger` | every operation that writes lots, one action per unit of work | `lots`, `book` |
| `LedgerProofs` | theorems about `Ledger` and `SalesIngest` | – |
| `UnitsOfWork` | units of work interleaved at their awaits under READ COMMITTED | committed table, one session per unit |
| `UnitsOfWorkProofs` | theorems about `UnitsOfWork`, and about `StockTake` and `Refining` | – |
| `Hangars` | check, suggestions, shipments and sales next to the world they describe | books, log, suggestions, world |
| `HangarsProofs` | theorems about `Hangars` | – |
| `SumLaws` | laws of finite sums, which the proofs about totals rest on | – |
| `Access` | paid access: the payment pass and admin requests interleaved at their awaits | committed rows, one session per unit |
| `AccessProofs` | theorems about `Access` | – |
| `Refining` | pure rules of a stock-take: contents of hangars, hints, shares of cost and outputs | – |
| `StockTake` | hangar checks cut at their awaits, many types, one station that changes | world, books, one session per check |
| `SalesIngest` | one corporation's poll of orders, fills and journal | EVE's side, committed books, draft |
| `BestLinks` | what the contract watcher promises | contracts reported, links, purchases |
| `ContractLinks` | the contract watcher, page by page; implements `BestLinks` | EVE's contracts, the pass, tables |
| `ContractLinksProofs` | theorems about `ContractLinks`, the refinement among them, and about `Appraisals` and `Pricing` | – |
| `Tokens` | refresh tokens of corporations and of the operator's wallet | rows, EVE's grants, sessions |
| `TokensProofs` | theorems about `Tokens` | – |
| `MarketPrices` | ages of prices in both tiers, readers and the refresh cycle | tiers, clock, sessions |
| `MarketPricesProofs` | theorems about `MarketPrices` | – |
| `Pricing` | pure rules of what is paid: rules, books, lines | – |
| `Appraisals` | appraisals while managers edit rules and configuration | rows, edits, requests, appraisals |
| `MC...` | constants for TLC | – |

How they hang together. `Ledger` and `Hangars` both extend `Lots`, so both apply the same translation
of `plan_fifo`, `consume` and `move_to_location`. `Hangars` does not compose `Ledger`'s actions: it
needs only consumption, relocation and deeming, with the log entries and the true-up that go with
them in the same unit of work. `UnitsOfWork` is `Lots` cut open at its awaits: there the steps of `consume` are
separate, and only quantities are kept. The hangar check appears twice, because its two difficulties
do not fit one state space: `Hangars` runs a pass as one step, for one type, over several places with
orders, shipments and suggestions; `StockTake` cuts it in three, for five types at one place, with
containers, refines and a second check inside the first, and takes its arithmetic from `Refining`.
`Appraisals` takes its arithmetic from `Pricing` and lets edits and requests overlap around it.
`ContractLinks` composes the two things one commit of the watcher does besides the links: the lots
of bought appraisals (in detail in `Ledger`) and the sales of outgoing contracts.

## 2. Inventory

For every component: its state, its operations, whom it interacts with, what is hard about it,
and what makes it correct.

### Accounting

* **Lot ledger** (`data/repositories/lots.py`, `domain/lots.py`, `application/lots.py`). State: the
  `lots` table. Operations: create (from completed buyback contracts, manual entry, deemed stock,
  reprocess outputs), `consume`, `move_to_location`, `write_down`, FIFO planning. Every other
  accounting component calls it. Hard: long sequences of legal calls. Correct when no unit and no
  cost is lost or counted twice, FIFO order survives moves and splits, floors only lower, estimated
  cost stays marked. *Modelled:* `Lots`, `Ledger`.
* **Sales** (`application/sales.py`, `data/repositories/sales.py`). State: sale rows, the snapshot of
  sell orders, expense rows for fees. Operations: poll of market fills and journal, outgoing
  contracts as sales, manual sale. Hard: fills seen again on every poll, tax entries ahead of their fills,
  failures half way, unknown stock. *Modelled:* consumption in `Ledger`, its overlaps in `UnitsOfWork`, the
  poll in `SalesIngest` (and, with the hangars, in `Hangars`), outgoing contracts in `ContractLinks`.
* **Reprocessing** (`application/transformations.py`, `domain/transformations.py`). State:
  transformation rows, child lots. Operations: record a reprocess of a lot, record one the hangar
  check hinted at, hand the source's cost to the outputs by market weight. Hard: exactness of the split,
  blending several lots. *Modelled:* `Ledger` for any split, `Refining` and `StockTake` for the code's.
* **Hangar check** (`application/reconciliation.py`, `domain/reconciliation.py`, `domain/hangar.py`).
  State: an append-only event log per (location, type). Operation: compare what EVE counts in the
  marked hangars with what the books expect, book excess as deemed lots, flag shortfalls, hint at
  reprocesses, sweep and propose move suggestions. Interacts with all of the above and with
  shipments. Hard: it must be idempotent over a world that does not change while its own bookings change
  what it reads, and a manager may start a second one inside it. *Modelled:* `Hangars` and `StockTake`.
* **Move suggestions** (`application/moves.py`, `domain/moves.py`). State: suggestion rows. Operations:
  propose, withdraw, dismiss, confirm (relocate real lots, reverse the deemed ones, retire origin lots for
  what already sold, book one cost true-up). *Modelled:* `Hangars`; concurrent confirms in `UnitsOfWork`.
* **Shipments** (`application/shipments.py`, `domain/shipments.py`). State: shipment rows. Operations:
  record, mark arrived. Hard: a check may run at any point of the journey. *Modelled:* `Hangars`.
* **Manual entries, expenses, receivables** (`application/manual_entries.py`). Manual lots and sales
  are modelled; expenses and receivables are independent rows and are not.
* **Profit report** (`application/profit.py`). Pure sums. *Not modelled.*

### Contracts, access and tokens

* **Contract watcher** (`application/corp_contracts.py`, `domain/contracts.py`). State: one link per
  appraisal. Each poll derives a status per contract, keeps the best one per appraisal, materialises
  lots for completed ones, records outgoing contracts as sales, in one commit. Hard: several contracts for one
  appraisal, statuses and pages that move while they are read. *Modelled:* `ContractLinks`; the lots in `Ledger`.
* **Entitlements and payments** (`application/entitlements.py`, `application/payments.py`). State: one
  row per (corporation, feature), one per journal entry. Operations: grant, revoke, payment pass,
  admin match, price setting. Hard: read-check-write races, stacking of time, perpetual grants, a pass
  that fails half way. *Modelled:* `Access`.
* **Corporation ESI token, operator wallet token.** State: one encrypted refresh token each. Hard:
  rotation, crash between EVE's answer and the commit, two sessions refreshing, one token serving a
  structure for several corporations in turn. *Modelled:* `Tokens`.
* **Login, sessions, roles, corporations, managers, roster.** Roles are a function of the roster,
  the managers table and the session. *Not modelled.*

### Prices

* **Market cache and background refresh** (`application/market.py`, `application/market_refresh.py`,
  `plugins/cache.py`). Three tiers with ages; a job renews what would lapse before its next run.
  Hard: ages add up over the tiers, outages, requests that overlap the job. *Modelled:* `MarketPrices`.
* **Order aggregates, pricing rules, appraisals** (`domain/aggregates.py`, `domain/pricing.py`,
  `application/appraisals.py`, `application/pricing.py`). Pure computations over rows that managers edit.
  Hard: rounding and ties, rules that shadow each other, overlapping edits, two implementations of one
  price. *Modelled:* `Pricing`, `Appraisals`.

### Around it

* **Scheduler** (`interface/jobs.py`): seven jobs in the server's own event loop, each with
  `max_instances=1` and one session per corporation, failures logged and swallowed. Concurrency is
  therefore job against job, job against request and request against request, never a job against
  itself. *Modelled* with the component each job belongs to.
* Locations and divisions (as far as appraisals and checks read them), ESI and SSO clients (paging,
  rotation and errors, in the modules of the jobs they answer): *partly modelled.*
* Static data, cipher, REST layer, paste parser, frontend, migrations: configuration, I/O or text.
  *Not modelled.*

`PROJECT.json` lists each of these with its status, and under `hazards` the places where this code
can go wrong in ways a test would hardly reach, with the properties that cover them.

## 3. The models and the code

### `Lots` and `Ledger`

A ledger is a sequence of lot rows; the position is the id. One action per unit of work:

| action | code |
|---|---|
| `MaterializeBuybackLots` | `application/lots.py` `materialize_buyback_lots` |
| `RecordManualLot` | `application/lots.py`, manual stock |
| `ConsumeAndRecordSale` | `application/sales.py` `consume_and_record_sale` |
| `ApplyWriteDowns` | `application/lots.py` `apply_write_downs` |
| `RecordReprocess`, `RecordObservedReprocess` | `application/transformations.py` |
| `MoveToLocation` | `data/repositories/lots.py` `move_to_location` |

`book` is a running sum of the rows that reference a lot (sale, transformation and expense rows,
children split off), which is what its conservation laws are about.

`FifoPlans` gives the plans `plan_fifo` may return, by what characterises them (oldest first, at
most one lot partly used, shortfall only when all lots are used up) and not by its loop; lots of
equal age may be taken in either order, as random ids break such ties in the code.

Abstractions. Money is counted in whole grains, and a reprocess may divide the cost of its
source among its outputs in any way that adds up in whole grains per unit; the code's weights and
cent rounding are one such way when it is exact. Purchase and hauling cost are one number,
because no operation reads one without the other. Net realizable values are any of a small set.

### `UnitsOfWork`

Sessions with their reads, drafts and locks over a committed table, one step per await:
`Begin` (guard on a status), `Plan` (FIFO plan of the next demand), `Select` and `Update` (the two
statements of `consume`), `EsiAnswers`, `Commit`, `Fail` (any error: rollback), `BreakDeadlock`
(the database picks a victim). `data/db.py` sets no isolation level, so PostgreSQL's default
applies: a SELECT sees the last commit, an UPDATE waits for the row lock and then writes the value
computed from the earlier SELECT.

Fairness. `WF(Step)`: the event loop runs every task that can run, and a lock wait ends when the
holder ends. `WF(BreakDeadlock)`: PostgreSQL's deadlock detector. A failed job is scheduled again,
because APScheduler fires by interval; `Reschedule` waits until no unit is active, because
the interval is minutes and a unit takes seconds. Errors are bounded by `MaxFailures`: with
unboundedly many, nothing could be promised.

### `Hangars`

The books on one side, the world on the other. The world is where the goods are: in hangars, in sell
orders (escrow), sold but not polled yet, on a declared haul, or carried somewhere nobody
declared. World actions (`Carry`, `ListForSale`, `CancelOrder`, `FillOrder`, `PickUp`, `Land`) change
only the world; program actions read from the world only what EVE would answer at that moment (asset
counts, orders, fills) and change only the books, except that a direct sale is entered as it happens.

| action | code |
|---|---|
| `ReconcileHangars` | `application/reconciliation.py` `reconcile_hangars`, with bookings, log, withdrawals and proposals |
| `ConfirmMove`, `DismissMove` | `application/moves.py` `confirm_move`; `reconciliation.py` `dismiss_move_suggestion` |
| `RecordShipment`, `MarkArrived` | `application/shipments.py` |
| `IngestMarketSales` | `application/sales.py` `ingest_market_sales`: snapshot, off-division flags, fill |
| `RecordManualSale` | `application/manual_entries.py` `record_manual_sale` |

Each program action is a whole unit of work; their interleaving at awaits is `UnitsOfWork`'s subject.

Abstractions. One item type: apart from reprocess hints no rule relates two types. A suggestion
refers to its flag by the position in the origin's log. Deemed prices are drawn from `Prices`
(`NoPrice`: no tier knows one). At most one fill waits for a poll, so the fills of one poll are not
sorted; fills and direct sales carry the time they happened, since the true-up walks sales by that
time. The arrival of a shipment is marked once the goods are there. The hauling cost a manager may add
to a confirm is left out. Lots open at marked hangars, measured, as the books would be when the feature is
switched on. Sell orders may pay into another wallet division (`astray`): their fills never reach the
poll, and the poll flags what disappears. Rows that one poll fetches are in any order.

### `Access`

The entitlement row of a corporation is the date its access ends, `Never` for a perpetual grant or
`NoAccess` for no row. The scheduled pass and every admin request are sessions with drafts and locks, as
in `UnitsOfWork`.

| action | code |
|---|---|
| `BeginPass`, `PickEntry` | `application/payments.py` `reconcile_payments`: fetch, leave out what is recorded, match by reference and amount |
| `BeginMatch` | `match_payment`: guards on the row and on a whole period's worth |
| `ReadAccess`, `Upsert` | `_extend_access`: the row read, the date computed, the UPDATE that waits for the row |
| `Mark` | the payment row, added by the pass or updated by `set_match` |
| `BeginGrant`, `BeginRevoke`, `Delete` | `application/entitlements.py` `grant_access`, `revoke_access` |
| `SetPrice` | `set_price_isk` |
| `Commit`, `Fail` | the one commit of each unit; any error or restart rolls it back |

`seen`, `granted`, `applied` and `owed` are history: what a unit computes from and what has been bought.

Abstractions. A day is the unit of time. The SELECT inside `upsert` and its flush are one step; a conflict
that can fall between them (a row inserted or deleted meanwhile) is an error, which is `Fail`. The reads
that begin a unit are one step. Sources, grantors and sender names are data no rule reads.

Fairness. `WF` of reading and committing and of the pass: the event loop runs what is ready and the
scheduler fires the pass by interval. `SF` of writes: whoever waits for a row stands in the database's
queue for its lock, which later arrivals do not overtake. Failures are bounded, as before.

### `MarketPrices`

A price is the time its request began; nothing in this component looks at the number. Per hub there is
the table (`rows`), the first tier (`l1`, any entry of which may be missed at any time), and for a
structure the marker of its last full refresh. Readers and the job are sessions that yield between reads, the
source's answer, the commit and the promotion.

| action | code |
|---|---|
| `Ask`, `ReadRows`, `Return` | `application/market.py` `get_market_prices`: first tier, table, answer |
| `Fetch`, `FetchSome` | the source answers, wholly or in part (`_fetch_aggregates`, `plugins/esi_market.py`) |
| `Persist`, `Promote` | `persist_market_rows`: upsert and commit, then the first tier |
| `StartCycle`, `PickHub`, `EndCycle` | `application/market_refresh.py` `refresh_due_prices`, one hub at a time |
| `DropRun` | `main.py` `_start_scheduler`, `max_instances=1`: a run that falls due while the last one is busy is not made up for |
| `DatabaseError` | an error inside the cycle's one session, after which its other hubs fail too |

`hit`, `starved` and `full` are history: whose source failed, whom a cycle passed over, when a book was
really fetched. Time is bounded: a request or a cycle takes at most `Patience`. The scheduler is external: it wakes on
time, so a run starts at its point of the grid or is dropped there (a cycle that ends at that very instant may go either way),
and `coalesce` has nothing to collapse. Fuzzwork's hubs, which have no refresh, are left out. No fairness: all properties are about what is served, not that something is.

### `Tokens`

A refresh token is a grant and how often EVE rotated it; EVE's side is which grants live. The
rows of corporations (at most one each, by a unique column) and of the wallet (nothing keeps a second one out)
are sets. Each flow (connect, refresh, disconnect) is a session that reads a row, calls EVE, and
writes in a commit of its own.

| action | code |
|---|---|
| `BeginRefresh`, `EveRefreshes`, `Save`, `Flag` | `get_corp_esi_access_token`, `get_wallet_access_token`: exchange, persist a rotated token, mark as failed |
| `Exchange`, `Existing`, `SignOut`, `Upsert`, `Clear`, `Insert` | `complete_corp_esi_authorize`, `complete_wallet_authorize`: new grant, old one signed out at EVE, row replaced |
| `BeginRevoke`, `SignOut`, `Delete` | `revoke` of either |
| `ListCorps`, `TryNext`, `Fetch`, `Stamp` | `market_refresh.py` `_fetch_structure_book`: corporations by health and use |
| `Fail` | an outage at EVE, a failed statement, a restart; between EVE's answer and the commit too |

`connected`, `broken` and `leaked` are history: what a manager last asked for, whose stored token a failure or an
overlapping write has spoilt, which grants nobody holds. Timestamps of use are kept as an order.

Fairness. Every session that has begun goes on, and the job is fired again by its interval. Users
owe nothing.

### `BestLinks` and `ContractLinks`

`BestLinks` is the promise: some answer is reported, and in one step all appraisals show a most meaningful
contract of it, what is shown completed being bought for good. `ContractLinks` is the code: pages are listed
while EVE goes on, contracts are observed one at a time and each observation may replace the best so
far, and one commit writes links, lots and sales.

| action | code |
|---|---|
| `Start`, `ListPage` | `application/corp_contracts.py` `refresh_contracts`; `plugins/esi.py` `get_corporation_contracts` |
| `Observe` | `_observe` and one turn of `domain/contracts.py` `resolve_best_links` |
| `Commit` | `reconcile_for_corp`, `materialize_buyback_lots`, `record_outgoing_contract_sales`, and the commit |
| `Fail` | any error: the pass leaves nothing and the job is run again |
| `Eve` | the life of a contract: issued, accepted, voided, overdue, reversed, delisted |

The refinement maps `answer` to what this pass has observed, and `bought` to the appraisals with lots.
What has been observed is kept in `seen`, a history variable. Abstractions: statuses are kept up to what the code
tells apart; terms of a contract (price, place, items) are values that are compared, within one ISK for the price;
lots of an appraisal are one fact here (their rows are `Ledger`'s). Outgoing contracts have items: those for ISK alone dispose of
nothing (`sales.py:454`) and are left out. A contract listed twice is sold twice here; in the code the second sale fails
where it draws on a lot of the first (`models/sale.py:41`), and the pass with it. Contracts are issued in the order of their dates.

Fairness. `WF(Watch)`: the job is fired for ever and a pass runs to its end. A contract's statuses form no cycle,
so EVE stands still in the end, which is what the liveness properties wait for.

### `SalesIngest`

One item, one station. EVE's side is the hangar, the orders, and the histories of fills and of the journal, of
which a request sees the latest `Page` entries of one division.

| action | code |
|---|---|
| `Start`, `FetchOrders`, `FetchFills`, `Book`, `FetchJournal`, `Commit` | `application/sales.py` `ingest_market_sales`, in that order, with its reads of the database where it makes them |
| `SetWalletDivision` | `set_wallet_division` |
| `Fail` | an error at any of the three requests or in between; everything drafted is lost |
| `Trade` | `Place`, `Fill`, `Cancel` and `Levy` (a tax shows in the journal, after the fill) |

`db` is what is committed, `draft` what the pass would commit. Abstractions: the cost per unit is left to
`Ledger` and `Hangars`; lot 0 stands for deemed stock; the rows of one fill all have one creation time, so
which of them sorts first is any choice, made once (`lead`).

Fairness. `WF(Ingest)`, as before; traders owe nothing but are bounded.

### `Pricing` and `Appraisals`

`Pricing` translates the rules on values: `Resolve` (type, then groups upwards, disabled rules passed over),
`AggregateSide` (best, average, median, the weighted top of a book), `ReprocessLine`, rounding half to even.
ISK are cents, and market values exact fractions of them. `Appraisals` has the rows they read and those who
change them: a manager's edit loads a row and later writes the columns whose new value differs from the
loaded one, which is what the ORM's UPDATE does.

| action | code |
|---|---|
| `SetRule`, `UpdateConfig`, `SetDivision`, `DeleteRule` begin an edit, `Finish` writes it | `application/pricing.py`, `data/repositories/pricing_rules.py`, `buyback_config.py` |
| `CreateConfig`, `Ask`, `ReadRules`, `Price` | `application/appraisals.py` `create_appraisal`, cut where it waits for the database |
| `EditPlaces`, `TokenLost` | `application/locations.py`; a structure token is lost, so its hub resolves no longer |

Also here: `DeemedUnitCost`, the price `application/reconciliation.py` gives found stock. The market stands
still in this model (`MarketPrices` has its ages); a hub is one value for its four columns.

### `Refining` and `StockTake`

`Refining` translates the rules on values: `HangarCounts` (what is inside the marked divisions, containers included),
`AllocateSourceCost` (largest remainders of floored cents, by market weight), `ApportionOutputs`, `Claims` (which shortages
explain which excesses) and `QtyRecordable`. `StockTake` cuts a check into three steps and lets everything else
happen between them. New lots are rows in any order (`Listed`), since ids are random and FIFO looks at the age first.

| action | code |
|---|---|
| `Fetch` | `application/hangar.py` `fetch_hangar_counts`: marks and assets |
| `Look` | `reconcile_hangars` up to the differences; from `replace_for_corp` on it holds a row of the snapshot |
| `Book` | hinted refines, found stock, log entries, commit |
| `Clash` | the second check finds the snapshot's rows written by the first, and fails |
| `Mark`, `Unmark`, `PriceChanges`, `Sell`, `RecordReprocess` | `application/hangar.py`, `repositories/prices.py`, `sales.py`, `transformations.py` |
| `Refine`, `Deliver`, `TakeAway`, `Stow`, `MoveBox` | the players |

`since` and `settled` are history: what happened after a check's photograph, and whether the last step was a check that
nothing disturbed. One station, no orders and no shipments: those are in `Hangars`.

Fairness. Each check goes on for ever from one step to the next (`GoesOn`): the scheduled one by its interval, and the
manual one stands for any number of requests. Some step of a check is always enabled, so this is weak fairness of it.

## 4. Runs that pass

A run's properties are named groups: `LotsSound == TypeOK /\ UnitsConserved /\ ...`. Each part has
its own definition and comment, and every part has a mutant of the code that breaks it.

| run | instance | shows |
|---|---|---|
| `ledger` | 2 types, 2 places, 4 lots; 121k states | units, cost and capital are conserved, floors bind, lineage and doubt are inherited, FIFO holds, deeming is a last resort, an appraisal's lots are made once |
| `units_of_work` | 4 units on 3 lots, 1 failure; 24k states | no unit of stock vanishes, units are all-or-nothing, all end, jobs catch up |
| `hangars` | 2 hangars and a market that is no hangar, 3 undeclared events, 1 shipment; 156k states | every unit there is or was sold is backed in the books, profit is exact, pending suggestions are anchored, flags and bookings are not repeated, dismissals stand |
| `candidates` | 3 hangars, several candidate origins, 1 shipment; 98k states | one confirm arbitrates; while every haul is declared no check finds or misses anything |
| `access` | 1 corporation, 2 payments, 2 admins with 1 request, 2 prices, 2 days, 1 failure; 141k states | bought time is stacked exactly, races give none away, the pass applies a payment once, every unit ends, every transfer is recorded |
| `stock_take` | 2 ores with a common mineral, another mineral and a container; 2 divisions, 2 checks, 2 changes; 232k states | what is counted is what is there, cost, age and doubt are handed on, nothing is booked twice, the books catch up |
| `sales` | 2 orders in 2 divisions, 2 fills, 2 lots, pages of 2, 1 switch, 1 failure; 810k states | fills, taxes and fees are booked once and whole, oldest lots first; books and snapshot catch up |
| `contracts` | 3 contracts for one appraisal (two that match, one outgoing that does not), pages of 2, 1 failure; 1.1M states | the watcher implements `BestLinks`; only what was truly accepted is bought, once; everything is caught up with |
| `tokens` | 2 corporations that share a structure, the wallet, 2 users and the job, 3 grants, 1 failure; 1.2M states | the stored token is the one EVE accepts, old grants are signed out, use rotates, flags heal |
| `market` | a station with 2 types and a structure, 1 reader with 2 requests and the job, 5 ticks, 1 failure; 4.6M states | how old a price may get in each tier and in an answer; hubs stay warm although runs are dropped; no book is fetched twice |
| `appraisals` | 3 types, 2 groups, 2 hubs, 2 managers with 3 edits, 1 appraisal of 4 items; 424k states | rules, books and lines say what their references say, lots match the contract, edits keep apart |

Those worth knowing:

* `CapitalConserved`: what the corporation paid for stock equals what is carried plus COGS plus
  losses, across blended reprocesses and splits of written-down lots.
* `NothingVanishes`: a race may leave phantom units on the books but never destroys real ones. It is
  what remains true although `NeverOversold` is not.
* `UnitsBacked`: deeming invents units, and a confirm takes units out in three ways. Every unit there is, and every unit
  sold at an estimated cost, still has a measured one behind it, in the books or retired. `BooksCoverStock` follows
  where no more was retired than was sold at an estimate; section 5 has the case where more is (`RetiredOnce`).
* `ProfitExact`: ADR-0049's promise. Whenever the books hold exactly the stock there is, carried
  cost + COGS + true-ups equal what was paid, deemed costs having cancelled out.
* `DismissalStands`: "not a move" is not asked again while the log says nothing new.
* `NeverOvergranted`, `StacksExactly`: a race over an entitlement can lose paid time, it can never give any
  away; and a unit whose row nobody changed since it read it adds its periods, all of them and no more.
* `FollowsBest`: the refinement. Whatever the order of observation, of pages and of failures, what is committed is
  the best of what was reported.
* `PurchaseRecorded`: a matching contract that stays accepted becomes stock, unless another matching one is still
  open, which outranks it.
* `StoredTokenWorks`: what is left of "persists a rotated refresh token" between failures and overlapping writes.
* `CacheNotPoisoned`, `StaleOnlyInOutage`: nothing lapsed enters the first tier, and nothing lapsed is taken from the table but in an
  outage. An entry then stays for its own lifetime whatever its age, so hits are bounded by both lifetimes only; the
  documents promise one (`HitsAreFresh`, section 5).
* `RegionsStayWarm`: a cycle that takes longer than the interval drops runs, and each puts renewal off by an interval
  (`Overrun`, which is nothing for shorter cycles).
* `LotsMatchTheContract`: the three readings of one appraisal (its total, the items the contract must hold, the lots'
  cost) agree in spite of rounding and repeated lines.
* `BookFiguresTrue`: percentile and median against a book that is laid out slice by slice.
* `ChecksDoNotStack`, `BooksCatchUp`: two checks that overlap do not book on top of each other, and what the world's
  changes make them miss does not last.

Bounds. Four lots let a lot be bought, split by a move, reprocessed and sold short in one
behaviour; two units per lot make partial takes. Three undeclared events are the shortest
full haul-to-hub loop (carry, list, fill), with a shipment and any number of checks, polls and
confirms between; `MaxEvents` and `MaxLots` stop a slot from being flagged for ever. In `access` two
payments, a request and one price change let the pass overlap an admin in every order; two days with a period of
two let a grant lapse, be stacked on and be extended on its last day; what two admins do to each other is in the
theorems, which hold for any number. In `sales` a page of two is shorter than the history, so that an entry can
leave it. In `contracts` pages of two shift under three contracts. In `tokens` the third grant replaces a corporation's or is
the wallet's first, while the others are in use. In `market` five ticks see an entry through both lifetimes and past an outage; a cycle may take the whole
interval, so that a run is dropped, and a row then reaches the greatest age `RegionsStayWarm` allows (4) one tick before the end. In
`stock_take` two changes fall into any gaps of two checks. Deadlock checking is off where bounds stop the system; in the
runs whose job goes on for ever it is on.

The `hangars` run assumes that the corporation sells at a station that is not a marked
hangar, that orders of another wallet division are not at a hangar either, and that direct sales do
not mix with market fills in one place. Each of these assumptions is there because dropping it breaks a
property; the next section shows how.

## 5. Where the code and its documents disagree

One disagreement has a run of its own that finds the counterexample:

| run | sentence | what happens |
|---|---|---|
| `booked_twice` | `reconciliation.py:109` "idempotent on the delta" | at a hangar that is also the market with more listed than idle, expected stock is clamped at zero, and each pass books the same units again |

For the following the modules hold the sentence as a definition. None of the runs lists it; adding it to the configuration
with the constants given here shows the counterexample.

| sentence | definition | constants | what happens |
|---|---|---|---|
| `repositories/lots.py:79` "never goes below zero" | `UnitsOfWork!NeverOversold` | `Units = {ingest, contracts}` | two jobs interleave between the SELECT and the UPDATE of `consume`; the later one overwrites the earlier, and more is sold than the lot held |
| `moves.py:85` "a double confirm is a no-op" | `UnitsOfWork!ConfirmedOnce` | `Units = {confirm, again}` | two confirms both read the suggestion pending and both convert it |
| `domain/moves.py:176` "drops out of future pairings" | `Hangars!RetiredOnce` | all three places hangars, `OffDivision = {}`, `SellAt = DirectAt = {hub}`, one lot of 2 at home, trips from home to the hub, `MaxTrips = 2` | sales are placed where their lot is now; hauling the rest of the lot moves the evidence away from where it was retired. With a declared haul and a second confirm the books then hold less than there is |
| `moves.py:21` "total realized profit comes out exact" | `Hangars!ProfitExact` | `SellAt = DirectAt = {far}`, `MaxTrips = 4`, `MaxHauls = 0` | a fill polled after the confirm but sold before the trued-up sale shifts the walk; one sale is corrected twice |
| `corp_contracts.py:131` "idempotent on contract_id" | `ContractLinks!OneSaleEach` | `PageSize = 1` | a contract is listed twice when the page boundary moves between two requests, and what was recorded is read once per pass |
| `tests/test_sales_ingest.py:316` "is flagged once" | `SalesIngest!FlaggedOnce` | one division none of the orders pays into, `Extra = 2`, `MaxFills = 0` | two such orders take turns in being the latest event of their slot, and each poll flags both again |
| `models/operator_wallet_token.py:14` "at most one row per instance" | `Tokens!OneWallet` | `MaxGrants = 4` | two connects delete what each of them sees and insert a row each; from then on every read of the table raises |
| `repositories/corp_esi_token.py:117` a flag "self-heals" | `Tokens!FlagsHeal` | as in `tokens` | unflagged tokens are tried first and one that works ends the search: a flagged token whose rights came back is not tried while another serves. `FlagClears` is what holds |
| `repositories/prices.py:95` "its freshest row dates the last full refresh" | `MarketPrices!FreshestRowIsFullRefresh` | as in `market` | a reader's fetch of single types writes newer rows |
| `market.py:190` and ADR-0033 "hits are fresh by construction"; ADR-0033 "an L1 entry can't outlive the DB freshness window"; `config.py:312` "must not outlive the durable DB freshness window" | `MarketPrices!HitsAreFresh` | as in `market`; without slow requests: `Ttl = 3`, `L1Ttl = 2`, `Patience = 0`, `MaxRequests = 3` | a row that is still fresh is promoted for a whole L1 lifetime (`market.py:217`), and a hit is not looked at again: it may be as old as both lifetimes together. The validator `L1Ttl <= Ttl` bounds each lifetime, not their sum. `CacheNotPoisoned` and `StaleOnlyInOutage` are what holds |
| `market_refresh.py:121` "one hub must never abort the whole cycle" | `MarketPrices!HubsIndependent` | as in `market` | after a database error the one session of the cycle is in a failed transaction, and the next hubs fail in it |
| `repositories/pricing_rules.py:97` "PUT is full-replacement" | `Appraisals!RulesAsAsked` | as in `appraisals` | two overlapping PUTs write the columns each of them changed: the row is one nobody asked for. `AloneReplacesAll` is what holds |
| ADR-0050, the snapshot goes with the last mark | `StockTake!SnapshotGoesWithTheMarks` | as in `stock_take` | a check that read the marks before the last one went writes its snapshot after |
| `transformations.py:94` "equals exactly the source cost consumed", `:162` "conserved exactly either way", ADR-0047 and ADR-0050 alike | `StockTake!CostExact` | as in `stock_take` | whole cents are handed out, while a lot may cost a fraction of a cent a unit: up to half a cent a lot is lost or gained. `CostToTheCent` is what holds |
| `reconciliation.py:111` "an unchanged shortfall is not re-logged" | `StockTake!UnchangedIsNotRelogged` | as in `stock_take` | a recorded refine leaves `reprocess_recorded` as the latest event of a slot that is still short by the rest, and the next check logs that rest anew |

Consequences and races without a definition.

* An off-division flag of the sales poll is the latest entry of its slot and hides the standing
  shortfall flag, so the next check logs the unchanged shortfall again (`reconciliation.py:111`), and the next poll its
  own flag. `FlaggedOnce` asks therefore that something else was logged in between, and not that something changed;
  `hangars` keeps orders of other divisions away from marked hangars.
* The card of a suggestion shows more than a confirm would convert when the origin's stock was sold
  meanwhile (`reconciliation.py:778`, "the same caps `confirm_move` applies").
* A pass that read a dated grant before an admin made it perpetual writes its date over it
  (`payments.py:257` reads, the entitlements repository writes an absolute date), although a perpetual grant
  is "left untouched". `StacksExactly` is what holds.
* Two admins who match one payment at once both find it unmatched and both apply it.
  `NeverOvergranted` counts both, since both are committed; `AutomaticOnce` says the pass is free of it.
* `booked_twice` needs no listing: a declared haul of more than lies idle at its origin clamps the expected stock in the
  same way.
* Where `booked_twice` applies, the pass's own booking also explains a listing, so the next pass withdraws the
  suggestion it just made, as "sold or taken down" (`reconciliation.py:572`).
* Evidence at two places makes a pass propose nothing, because the destination is in doubt; but the pass books the
  counted part, so the next pass sees the other place only and proposes it, which no document rules out.
* A found lot that a declared haul has brought to the origin itself is among the lots a confirm there relocates: it is
  used up by the relocation, before the reversal looks at it, and its other candidates stay pending
  (`moves.py:268`). `SiblingsArbitrated` excepts that place; `DirectAt = {home}` in `candidates` shows why.
* A check reads the marks before it asks EVE and again after. A division marked in between is expected but was not
  counted: one pass logs a shortfall that is not there.
* Two write-down passes, two shipments recorded at once, or two arrivals of one shipment both act on what they read first;
  none of the three takes a lock before it reads. `UnitsOfWork` models the mechanism, not these units.
* An appraisal reads configuration and rules in two statements: an edit committed in between gives a price no
  manager ever set, for that one appraisal.
* After a switch of the wallet division, fills of the old one that no poll had seen are never booked: the poll asks for
  the new one only. `WalletCatchesUp` speaks of the configured division for that reason.

## 6. What is proved

Every theorem holds for all values of the constants that its module's assumptions allow; each of them states a
property that a run checks on its instance, or is the invariant such a theorem rests on. The invariants were checked by
TLC before they were proved.

`SumLaws` holds what the other proofs need of totals: what a sum over a finite set does when an element is taken out, when
the set grows or is split, when a term changes, when terms are renamed, grouped, compared or come in runs of one value, and when
the same values are weighed in two ways. It also holds what ranks in a strict order are. The provers cannot do induction
over data. The laws go without: if one failed for a set it would fail for a least subset of it, and taking one element out
of that subset contradicts its choice. The fold takes its elements out in an order no one knows, so the law that any
element may be taken first (`SumOnRemove`) comes before all others. `LeastNumber`, that a set of naturals has a least
element, does the same for steps that are counted.

`LedgerProofs`, for any set of types, places, inputs and any number of lots: `TypeCorrect`,
`UnitsAreConserved`, `CostIsConserved`, `FloorsAlwaysBind`, `LineageIsHonest`, together `LotsStaySound`; and
`FifoIsRespected`, `DeemedIsLastResort`, together `SalesAreInOrder`. Assumptions: `NoFloorAssumption` and
`InputsAssumption` (inputs are well formed,
quantities positive, one link per appraisal). The argument: conservation is a fact about one row
and its book entry (`RowOK`), so each operation on a row (opening, drawing, writing down, relocating)
has a lemma that it keeps `RowOK`; lineage is a fact about a row and its parent (`LineOK`). The
inductive invariant `IInv` is `TypeOK` with both for every row. It strengthens `CostConserved`, which alone is
not inductive, because the carried cost after a draw depends on the floor lying below the cost and on units
adding up. `FifoRespected` and `DeemedOnlyWhenDry` follow from the plan lemma (`FifoPlans`
exhausts older lots) and `IInv`.

`CapitalIsKept` and `EstimatesAreNeverLaundered` are about all rows at once. What a lot pays for is its own
(`CostConserved`); what is left to show is that the cost handed on by lots is the cost with which the lots carved from
them entered (`Balanced`). `Moved(g)` says of one unit of work that it hands on `g[l]` of each old lot `l` and that its new lots enter
with the same in total, estimated ones with at least what estimated ones lost. Each operation is shown to be such a step, and
both properties follow from that alone. The hard case is a reprocess of several lots, whose outputs blend their costs.
`MaterializedOnce` goes along: an appraisal's lots are appended in one step and no other operation makes a lot with an appraisal.

The second half is about `SalesIngest`, for any stock, orders, divisions, tax, page and numbers of fills and failures:
`FillsAreBooked` and `ChargesAreOnce`. `FillsBooked` compares committed books with EVE's history, which a pass reads at three
moments. `SalesInv` says it of the draft too: both are sound (`SoundBooks`: each booked fill has rows for all its units and all or none of
its tax, what left the lots is in the rows, older lots went dry first), the draft only adds to what is committed (`Drafted`),
and what is left to book is newer than everything booked of its division (`Ahead`). That no fill is lost is `NoneSkipped`: as long as a fill
is on its wallet page, no newer fill of the division is booked before it. It is what remains true when the division is switched under a pass.
`TakenSoFar`, what `plan_fifo` takes of the first n lots, is proved with the sums of `SumLaws` where the code runs a loop.

`UnitsOfWorkProofs`, for any units, demands, stock and number of failures: `TypeCorrect` and
`NothingEverVanishes`, together `StockIsKept`. `NothingVanishes` speaks of committed rows only and is not inductive. `IInv`
adds what sessions hold: a draft never undercuts the stock less what is sold committed and
uncommitted (`DraftCovers`), the same for a value read but not yet written (`ReadCovers`), and a unit
that plans has a demand left (`HasDemand`). A commit by another session can only lower the
committed side by what it sold, which keeps both.

`UnitsAreAllOrNothing` counts what is sold and unmet against what committed units asked for. Neither side says
anything of a running unit. `BInv` does: what it has booked, what its plan still has to book and what it found no lot for are
the demands before its present one (`InHand`), a unit that is about to commit has all its demands behind it, and one that is not
running has nothing in hand. So a failure drops exactly what a commit would have added. A lock held or a value read long
ago plays no part: an overwritten row loses units of stock, never of what was sold.

The second half of `UnitsOfWorkProofs` is about `StockTake` and `Refining`, for any number of types, materials, divisions,
opening lots, prices, batches and checks: `TheCountIsTrue`, `AnUndisturbedCheckSettles`, `ChecksBookTruly`, `RefinesHandOn`.
Assumptions: `RefiningAssumption` (finitely many types and divisions, batches of at least one unit, materials in whole units) and
`StockTakeAssumption` (lots and goods are well formed at first, no division has the name of another spot, what a manager types is positive).

* The count. The rows inside the marked divisions are a fixpoint of containment, taken in as many rounds as there are rows. With one
  container at the station all is found after the first round and later ones add nothing (`InsideIs`); totals by type are then
  regrouped by spot.
* A step and the lots. The books are a sequence that one step draws from in several places and appends to in several tables. `Turns`
  says of a step, by hand or by a check: so much it takes of each lot (`After`), these rows it makes by refining, these it finds. `Turned`
  reads every quantity the properties speak of (`NewUnits`, `UsedUnits`, `Expected`, `Drawn`, `Refined`) off those three, and each
  property is shown from them.
* Cost. Largest remainders hand out every whole cent they are given (`SharesAddUp`: ranks in a strict order are 0, 1, 2 and so on, so
  as many shares are rounded up as cents are left over). Costs of lots are fractions with denominators of their own; `CentsBack` compares them on any
  common scale, which divides out in the end. Half a cent is lost or gained per lot drawn from at most. When portions without outputs
  fold the refine into one, it is half a cent altogether.
* What a check books. `Booked` says by type what was refined, what came of it and what was found, from the claims (`ClaimsBy`): a
  material is claimed by one source only, and a source is never claimed itself.
* The overlap. `ChecksSettle` compares books with goods right after a check and is not inductive. `StockTakeInv` adds what a
  check holds: at most one has looked (`OneLooks`, which is the lock of the snapshot's row); undisturbed, what it counted is there still
  (`Seen`) and the difference it computed is still the difference (`Exact`); and disturbed by anything but a refine recorded by hand, the
  books and that difference together stay at or below what it counted (`NotAbove`), because sales only lower the books. `ChecksDoNotStack`
  rests on the last. The fallback for refines whose lots are gone is never needed undisturbed (`EveryClaimRecorded`).

`AccessProofs`, for any corporations, journal, prices, days, failures and number of admins:
`TypeCorrect`, `NoTimeGivenAway`, `MatchedOnce`, together `GrantsAreSound`, and the action property `StackedExactly`. Assumptions:
`MarksAssumption` (the marks are told apart), `JournalAssumption` (amounts are positive),
`SettingsAssumption` (prices, period and terms are positive). `NeverOvergranted` speaks of committed dates
only; what makes it inductive is what a unit in progress knows: its drafts are what its periods make of
the dates it read (`Stacks`), those dates were no later than what was owed (`Honest`, stable because
`owed` only grows), and an entry the pass works on is unrecorded while one an admin works on was never
matched by the pass (`Targets`, stable because the pass writes unrecorded entries only and admins
recorded ones only). `Frame` says that a session at rest keeps its part; `Moves` and `Step` reduce each
action to its own session. The arithmetic of dates is four lemmas, of which `ExtendDue` is the one that
matters: extending an extended date is extending once for both.

`ContractLinksProofs`, for any contracts, dates, terms, appraisals, page size and number of failures:
`Inductive`; `PurchasesStayTrue` (lots come only from a contract that cites the appraisal, has its terms and
was accepted, and what was booked stays); and `WatcherFollowsBest`, the refinement: every step of the watcher is a step
of `BestLinks` or changes nothing of it. Assumptions: `ContractsAssumption` (finitely many contracts, and `Nil` is
none of the values), `CitesAssumption`, `IssuedAssumption` (dates are numbers), `PagesAssumption`. What a commit buys
rests on what a pass listed a while ago, so the invariant adds what a pass knows: a contract listed as finished
can have been reversed or delisted since, but was accepted (`ListedOK`, stable because `AcceptedStays`); an observation that
says completed carries matching terms (`SeenOK`); and the link kept so far is a best one of the links seen so far
(`BestOK`). The last is the loop invariant of `resolve_best_links`: `BestKept` says that one comparison is enough to keep it,
which needs `StrictOrder`, that incomparable links are equals.

The second half is about `Appraisals` and `Pricing`, for any rows, books, hubs, items, managers and members, and any tree of groups:
`RulesAlwaysResolve`, `LotsAndContractAgree`, `FoundStockIsPricedAlike`, `OverlappingEditsKeepApart`, `BookFiguresAreTrue`. Assumptions:
`GroupsAssumption` (finitely many groups, each with one parent or none; cycles are allowed), `HubsAssumption`,
`RowsAssumption`, `BooksAssumption` and `RequestsAssumption` (rows, order books and requests are well formed, quantities asked for
positive; volumes of orders may be 0), `NumbersAssumption` (the fraction of the percentile is 1 over a whole number) and
`BoundsAssumption`. `AppraisalInv` says that an edit in
flight fits the row it loaded, even when the row has changed or gone since, and that a request holds what its phase needs.
`RulesResolve` compares the code's walk up the groups, which stops after as many steps as there are groups, with the nearest
enabled rule above the type, which is defined by reachability. `Climb` is the way up as a function on the naturals; it exists because the
first n steps of it do for every n, which is shown from a least counterexample (`IterationExists`). `MetSoon` is the pigeonhole
argument that a group met at all is met within the number of groups, and `WinnerIsNearest` puts the two together.

`BookFiguresTrue` compares two loops over a sorted list with a book of any length laid out in slices of 1/`Window` unit. The market stands still in
`Appraisals`, so all of it is about operators. The stable sort is a permutation (`BestFirstIs`, by ranks), which moves volume from place to place
(`SortedVolume`). A slice has the price of the order whose stretch of the cumulative volume it lies in (`NthIs`), though the order of the
slices knows prices only and several orders can share one. The loop takes of each order what of its stretch is
among the best slices (`TakeIs`), hence `SlicesAddUp`, run by run, and `MarkIsMiddle`. That the percentile is no worse than the volume-weighted average
follows from where the last of those slices lies (`TakesLean`): orders ahead of it count for at least their volume, orders behind it for nothing.

`TokensProofs`, for any corporations, wallets, users and bounds: `TokensStaySound` and `CredentialsAreGivenUp`.
`StoredTokenWorks` speaks of owners nobody works on, so it is not inductive: the row of an owner can be behind EVE while a
session carries the rotated token to it, and can hold a dead grant while a session is about to replace it. `Mended` says that
whatever a row lacks, some session is about to put right. For its write to do so, no one else may have as late a token of the same grant
(`Newest`), and a grant just exchanged must be in its connector's hand alone (`Fresh`); `Accounted` says who holds
a living grant. Assumptions: `BoundsAssumption` and `NilAssumption`; that there are at most `MaxGrants`
corporations is about the bound of the model only, since each of them opens with a grant.

`MarketPricesProofs`, for any hubs, types, readers, outages and lifetimes: `PricesStayFresh`, `AnswersStayTrue`,
`BooksAreFetchedOnce`. What is served and promoted was read a while ago, so the invariant says of each session how old what it holds can
be, and of the cycle which prices it has still to look at; all others last until its next run. Two of the theorems have
a hypothesis on the settings. `PricesStayFresh` needs `Prompt`: an interval and a request fit into the lifetime of a row
(`Interval + Patience <= Ttl`). `AnswersStayTrue` needs `0 < Ttl`. By default the lifetime is an hour and the interval ten
minutes, but `config.py` accepts any pair: TLC finds a region that lapses without an outage for `(Patience, Interval, Ttl)` = (1, 2, 2) and
(2, 1, 2). Cycles may take longer than the interval. The invariant then knows when the next one starts at the latest (`Latest`): the next run
is a whole number of intervals after the start of the cycle (`OnTime`), and as many as fit into the cycle's patience are dropped
(`OverrunBounds`). The bound is sharp: TLC finds a row of just that age for (1, 1, 2), (2, 1, 3), (1, 2, 3) and (2, 2, 4).

`HangarsProofs`, for any hangars, places of sale, opening lots, hauls, prices and bounds: `FlagsStaySound`,
`DismissalsAreHonoured`, `CandidatesAreSettled`, `BooksStaySound`, `HaulsStayQuiet`. Assumptions: `HangarsAssumption` (the opening lots are measured,
whole and in hangars; a trip has two ends). That a pending suggestion decorates a standing flag is not inductive,
because the pass, the confirm and the poll all append to logs the suggestion does not name; `MovesAnchored` says of every
suggestion, of any status, which flag it stands on and that the flag covers it (`SuggestionsDecorateFlags`). A pass touches
every hangar; its log is the old one with at most three entries added, of kinds known beforehand, and the lemmas say of such
a growth what the latest flag then is. `BooksStaySound` adds up units over lots, sales, suggestions, hauls and places.
`BackInv` is `UnitsBacked` with what each step's account needs: all rows are of one item, found stock is deemed as long as a suggestion
points to it, a pending suggestion has retired nothing, and at most one fill waits for a poll. Carrying, listing, filling
and landing move units inside the world; relocating and splitting move them inside the books; a sale takes a measured unit out of both, or a
deemed one out of the world only, which `SoldAtEstimate` counts; and a confirm retires at the origin
what it could not relocate, which `RetiredUnits` counts. `HaulsStayQuiet` is about single places, for any number of
hauls under way at once, where the run has one: `Level` says that what a hangar holds is what its books hold, less what has left with an open haul and
plus what has come with one, and that the open hauls of an origin claim no more than its books hold. The second part is what makes the
first inductive: an arrival then finds all its units in the books of the origin, so books and goods move by the same number. A check
reads the hauls that are open, not where their goods are, and tolerates the difference at both ends.

Only model-checked, and why:

* Liveness: outside the prover. `BooksCatchUp` is all of `StockTake` that is not proved.
* `ProfitExact` is no theorem: it fails for other constants (section 5), and which instances keep it is not a simple condition.
* `BookedOnce` fails where expected stock is clamped (`booked_twice`), so it needs the hypothesis that it is not.

## 7. Not modelled, and what could come next

Not modelled: the profit report and the inventory view (sums over rows that are), expenses and receivables (rows nothing
else reads), login, sessions and roles (a function of three tables), the paste parser (text), static data and its seed,
ESI paging beyond what `ContractLinks` and `SalesIngest` say of it, the cipher, the REST layer, the frontend, migrations and
deployment.

Next, in this order:

1. `UnitsOfWork` with more kinds of units (write-downs, shipments, arrivals), and a refinement to atomic units where it
   holds, which is one unit per slot at a time.
2. `BookedOnce` under the hypothesis that no expected stock is clamped.
