----------------------------- MODULE Appraisals -----------------------------
(***************************************************************************)
(* Appraisals of one corporation while its managers edit what they depend  *)
(* on.  A request reads the configuration, then the rules and drop-off     *)
(* places, then prices the lines and stores the appraisal.  An edit loads  *)
(* a row and, a moment later, writes the columns whose new value differs   *)
(* from what it loaded: the ORM's UPDATE.                                  *)
(*                                                                         *)
(* The market stands still; MarketPrices models its cache.  A hub is one   *)
(* value for the four columns of its descriptor.  Folders, names, notes    *)
(* and the breakdown of a reprocessed line are left out.                   *)
(***************************************************************************)
EXTENDS Pricing

CONSTANTS
    Managers, Members,
    Hubs,            \* market hubs; those in EsiHubs are read type by type
    EsiHubs,
    Structures,      \* hubs that need the corporation's structure token
    Books,           \* the order books the market may hold: [Hubs -> [Types -> book]]
    Places,          \* stations and structures a corporation may accept
    Edits,           \* per row: the bodies its PUT may carry
    Divisions,       \* wallet divisions
    Jita,            \* the hub of the fallback price
    TypesNamed,      \* per name: the types of the export that bear it
    Requests,        \* what a member may ask: items by type, pasted names, a place
    FirstConfig,     \* the configuration a registration writes; it may be missing
    FirstRules,
    MaxItems,        \* MAX_APPRAISAL_ITEMS
    MaxEsiTypes,     \* max_esi_types_per_appraisal
    MaxEdits,        \* bound: edits begun
    MaxAppraisals    \* bound: appraisals asked for

ConfigKey == [kind |-> "config", id |-> None]
Keys == Targets \cup {ConfigKey}

\* What a PUT of the configuration and one of a rule carry, and their stored rows; a
\* rule's column for the division stays empty.
ConfigBody == [hub : Hubs, basis : Bases, percentage : Nat, agg : AggregateField, accepted : BOOLEAN]
ConfigRow == [hub : Hubs, basis : Bases, percentage : Nat, agg : AggregateField, accepted : BOOLEAN,
              division : Divisions \cup {None}, id : Nat]
RuleBody == [hub : Hubs \cup {None}, basis : Bases \cup {None}, percentage : Nat,
             enabled : BOOLEAN, reprocess : BOOLEAN, compressed_only : BOOLEAN, accepted : BOOLEAN]
RuleRow == [hub : Hubs \cup {None}, basis : Bases \cup {None}, percentage : Nat,
            enabled : BOOLEAN, reprocess : BOOLEAN, compressed_only : BOOLEAN, accepted : BOOLEAN,
            division : {None}, id : Nat]
Stored(k) == IF k = ConfigKey THEN ConfigRow ELSE RuleRow

ASSUME HubsAssumption ==
    /\ EsiHubs \subseteq Hubs /\ Structures \subseteq EsiHubs /\ Hubs \ EsiHubs # {}
    /\ None \notin Hubs \cup Places
ASSUME BoundsAssumption == {MaxItems, MaxEsiTypes, MaxEdits, MaxAppraisals} \subseteq Nat
ASSUME RowsAssumption ==
    /\ None \notin ConfigRow /\ None \notin RuleRow
    /\ \A k \in Targets : /\ Edits[k] \subseteq RuleBody
                          /\ FirstRules[k] = None \/ FirstRules[k] \in RuleRow
    /\ Edits[ConfigKey] \subseteq ConfigBody /\ FirstConfig \in ConfigRow
ASSUME BooksAssumption ==
    Books \subseteq [Hubs -> [Types -> [buy : Seq(Order), sell : Seq(Order)]]]
ASSUME RequestsAssumption ==
    Requests \subseteq [items : Seq([type : Types \cup {None}, quantity : Nat \ {0}]),
                       paste : Seq([name : DOMAIN TypesNamed, quantity : Nat \ {0}]),
                       place : Places \cup {None}]

VARIABLES
    rows,     \* buyback_configs (ConfigKey) and pricing_rules, by key; None where absent
    places,   \* buyback_locations
    token,    \* the structure token: "none", "works" or "failing"
    books,    \* orders at each hub
    prices,   \* market_prices: what the books come to
    unit,     \* per manager: the edit in flight, or None
    ask,      \* per member: the request in flight, or None
    saved,    \* appraisals, in the order they were stored
    edits, asked

market == <<books, prices, token>>
appraisalVars == <<rows, places, market, unit, ask, saved, edits, asked>>

Config == rows[ConfigKey]

\* The closure resolve over the rules and the configuration a request has read.
Resolver(rules, config) == [t \in Types |-> Resolve(rules, config, t)]

\* DEFAULT_BASIS and its companions, at the instance's default hub.
Default == [hub |-> CHOOSE h \in Hubs \ EsiHubs : TRUE, basis |-> "buy", percentage |-> 90,
            agg |-> "percentile", accepted |-> TRUE]

AppraisalInit ==
    /\ \E config \in {FirstConfig, None} :
         rows = [k \in Keys |-> IF k = ConfigKey THEN config ELSE FirstRules[k]]
    /\ places = {} /\ token = "works" /\ books \in Books
    /\ prices = [h \in Hubs |-> [t \in Types |-> AggregateOrders(books[h][t])]]
    /\ unit = [m \in Managers |-> None] /\ ask = [u \in Members |-> None]
    /\ saved = <<>> /\ edits = 0 /\ asked = 0

-----------------------------------------------------------------------------
(* Rows: load, then write what changed *)

\* A new row's remaining columns: no switch set yet, and its own identity.
Fresh_NoSwitch(want) ==                  \* mutant: a column forgotten
    [c \in DOMAIN want \cup {"id"} |-> IF c = "id" THEN edits ELSE want[c]]
Fresh(want) ==
    [c \in DOMAIN want \cup {"division", "id"} |->
        IF c = "id" THEN edits ELSE IF c = "division" THEN None ELSE want[c]]

Merged_KeepHub(row, loaded, want) ==   \* mutant: a body without a hub leaves the old one
    [c \in DOMAIN row |-> IF c \in DOMAIN want /\ want[c] # loaded[c] /\ want[c] # None
                          THEN want[c] ELSE row[c]]
Merged_Whole(row, loaded, want) ==     \* mutant: the whole row is written back
    [c \in DOMAIN row |-> IF c \in DOMAIN want THEN want[c] ELSE loaded[c]]
Merged(row, loaded, want) ==
    [c \in DOMAIN row |-> IF c \in DOMAIN want /\ want[c] # loaded[c]
                          THEN want[c] ELSE row[c]]

\* An INSERT fails on the unique key, an UPDATE when its row is gone.
CanWrite(k, loaded) == IF loaded = None THEN rows[k] = None
                       ELSE rows[k] # None /\ rows[k].id = loaded.id
Write(k, loaded, want) ==
    rows' = [rows EXCEPT ![k] = IF loaded = None THEN Fresh(want)
                                ELSE Merged(rows[k], loaded, want)]

-----------------------------------------------------------------------------
(* Managers *)

Begin(m, op, k, want) ==
    /\ unit[m] = None /\ edits < MaxEdits /\ edits' = edits + 1
    /\ unit' = [unit EXCEPT ![m] = [op |-> op, key |-> k, want |-> want, loaded |-> rows[k]]]
    /\ UNCHANGED <<rows, places, market, ask, saved, asked>>

\* _resolve_hub: a structure needs a token, working or not.
HubResolves(want) == want.hub \in Structures => token # "none"

SetRule(m, k) == \E want \in Edits[k] : HubResolves(want) /\ Begin(m, "set_rule", k, want)
UpdateConfig(m) ==
    \E want \in Edits[ConfigKey] : HubResolves(want) /\ Begin(m, "update_config", ConfigKey, want)
SetDivision(m, d) ==
    /\ Config # None
    /\ Begin(m, "set_division", ConfigKey, [division |-> d])
DeleteRule(m, k) == rows[k] # None /\ Begin(m, "delete_rule", k, <<>>)

Finish(m) ==
    /\ unit[m] # None
    /\ LET e == unit[m] IN
       IF e.op = "delete_rule"
       THEN rows' = [rows EXCEPT ![e.key] =
                       IF @ # None /\ @.id = e.loaded.id THEN None ELSE @]
       ELSE IF CanWrite(e.key, e.loaded) THEN Write(e.key, e.loaded, e.want)
       ELSE UNCHANGED rows                        \* IntegrityError, StaleDataError
    /\ unit' = [unit EXCEPT ![m] = None]
    /\ UNCHANGED <<places, market, ask, saved, edits, asked>>

\* Single statements: nothing is read before them that they depend on.
EditPlaces ==
    /\ edits < MaxEdits /\ edits' = edits + 1
    /\ \E p \in Places : places' = IF p \in places THEN places \ {p} ELSE places \cup {p}
    /\ UNCHANGED <<rows, market, unit, ask, saved, asked>>

\* A refresh fails; a manager disconnects it.
TokenLost ==
    /\ token = "works" /\ token' \in {"failing", "none"}
    /\ UNCHANGED <<rows, places, books, prices, unit, ask, saved, edits, asked>>

-----------------------------------------------------------------------------
(* Pricing one line, with everything the request has read *)

HubOf(rule, config) == IF rule.hub = None THEN config.hub ELSE rule.hub

\* deemed_unit_costs: what found stock is booked at; None if nothing prices it.
DeemedUnitCost_Buy(t) ==                \* mutant: the rule's basis is not looked at
    LET rule == Resolve(rows, Config, t)
        value == BasisValue(prices[Config.hub][t], Config.agg, "buy")
        trade == BasisValue(prices[Jita][t], "percentile", "buy")
    IN  IF rule.accepted /\ value # None THEN UnitPrice(value, rule.percentage)
        ELSE IF trade # None THEN UnitPrice(trade, 90) ELSE None
DeemedUnitCost(t) ==
    LET rule == Resolve(rows, Config, t)
        value == BasisValue(prices[Config.hub][t], Config.agg, rule.basis)
        trade == BasisValue(prices[Jita][t], "percentile", "buy")
    IN  IF rule.accepted /\ value # None THEN UnitPrice(value, rule.percentage)
        ELSE IF trade # None THEN UnitPrice(trade, 90) ELSE None

RejectedLine(w, reason) == [type |-> w.type, quantity |-> w.quantity, status |-> "rejected",
                        unit_price |-> None, line_total |-> 0, reason |-> reason]
AcceptedLine(w, value, rule) ==
    LET up == UnitPrice(value, rule.percentage) IN
    [type |-> w.type, quantity |-> w.quantity, status |-> "accepted",
     unit_price |-> up, line_total |-> LineTotal(up, w.quantity), reason |-> None]

\* answered: hubs whose prices came; a type the export does not know has no rule.
ComputeLine(w, resolve, config, answered) ==
    LET rule == resolve[w.type]
        h == HubOf(rule, config)
        value(t) == IF h \in answered THEN BasisValue(prices[h][t], config.agg, rule.basis) ELSE None
        refined == rule.reprocess /\ w.type \in Ores /\ DOMAIN Materials[w.type] # {}
        total == ReprocessLine(w.quantity, w.type, [t \in Types |-> value(t)])
    IN  CASE w.type \notin Types -> RejectedLine(w, "Unknown item")
          [] w.type \in Types /\ ~rule.accepted -> RejectedLine(w, "Not accepted")
          [] w.type \in Types /\ rule.accepted /\ rule.compressed_only
             /\ w.type \in Ores \ Compressed -> RejectedLine(w, "Compressed only")
          [] OTHER ->
             IF refined
             THEN IF total[1] <= 0 THEN RejectedLine(w, "No market data")
                  ELSE AcceptedLine(w, <<total[1], total[2] * w.quantity>>, rule)
             ELSE IF h \notin answered THEN RejectedLine(w, "No market data")
             ELSE IF value(w.type) = None \/ value(w.type)[1] <= 0 THEN RejectedLine(w, "No orders")
             ELSE AcceptedLine(w, value(w.type), rule)

-----------------------------------------------------------------------------
(* An appraisal: create_appraisal *)

\* A pasted name nobody or several types bear is an unknown item.
Gathered(r) ==
    r.items \o [i \in DOMAIN r.paste |->
                  LET named == TypesNamed[r.paste[i].name] IN
                  [type |-> IF Cardinality(named) = 1 THEN CHOOSE t \in named : TRUE ELSE None,
                   quantity |-> r.paste[i].quantity]]

Idle(u) == ask[u] = None
Step(u, phase) == ask[u] # None /\ ask[u].phase = phase

Ask(u) ==
    /\ Idle(u) /\ asked < MaxAppraisals /\ asked' = asked + 1
    /\ \E r \in Requests :
         ask' = [ask EXCEPT ![u] = [phase |-> IF Config = None THEN "absent" ELSE "rules",
                                    request |-> r, config |-> Config, resolve |-> None]]
    /\ UNCHANGED <<rows, places, market, unit, saved, edits>>

\* get_config found none; upsert_config looks again before it writes the defaults.
Reload(u) ==
    /\ Step(u, "absent")
    /\ ask' = [ask EXCEPT ![u].phase = "create", ![u].config = Config]
    /\ UNCHANGED <<rows, places, market, unit, saved, edits, asked>>
CreateConfig(u) ==
    /\ Step(u, "create")
    /\ IF CanWrite(ConfigKey, ask[u].config)
       THEN /\ Write(ConfigKey, ask[u].config, Default)
            /\ ask' = [ask EXCEPT ![u].phase = "rules", ![u].config = rows'[ConfigKey]]
       ELSE UNCHANGED rows /\ ask' = [ask EXCEPT ![u] = None]
    /\ UNCHANGED <<places, market, unit, saved, edits, asked>>

\* A member picks an accepted place; without any, the hub's own station is used.
Delivery(r, config) ==
    IF places = {} THEN config.hub ELSE IF r.place \in places THEN r.place ELSE None

Asked(r) == {Gathered(r)[i].type : i \in DOMAIN Gathered(r)} \cap Types
\* The types to price at a hub: what resolves to it, and what its ores refine into.
Bucket(r, config, resolve, h) ==
    LET at == {t \in Asked(r) : HubOf(resolve[t], config) = h}
        ores == {t \in at \cap Ores : resolve[t].reprocess}
    IN  at \cup UNION {DOMAIN Materials[t] : t \in ores}
Needed(r, config, resolve) == {h \in Hubs : Bucket(r, config, resolve, h) # {}}

\* EmptyAppraisal, AppraisalTooLarge, DeliveryLocationInvalid, AppraisalTooManyEsiTypes,
\* StructureMarketUnavailable
Refused(r, config, resolve) ==
    \/ Len(Gathered(r)) = 0 \/ Len(Gathered(r)) > MaxItems
    \/ Delivery(r, config) = None
    \/ MapThenSumSet(LAMBDA h : Cardinality(Bucket(r, config, resolve, h)), EsiHubs) > MaxEsiTypes
    \/ Needed(r, config, resolve) \cap Structures # {} /\ token # "works"

ReadRules(u) ==
    /\ Step(u, "rules")
    /\ \E resolve \in {Resolver(rows, ask[u].config)} :
         LET a == ask[u] IN
         ask' = [ask EXCEPT ![u] = IF Refused(a.request, a.config, resolve) THEN None
                   ELSE [a EXCEPT !.phase = "price", !.resolve = resolve,
                                  !.request = [a.request EXCEPT !.place = Delivery(a.request, a.config)]]]
    /\ UNCHANGED <<rows, places, market, unit, saved, edits, asked>>

Price(u) ==
    /\ Step(u, "price")
    /\ LET a == ask[u] IN
       \E answered \in SUBSET Needed(a.request, a.config, a.resolve) :
         LET work == Gathered(a.request)
             lines == [i \in DOMAIN work |-> ComputeLine(work[i], a.resolve, a.config, answered)]
             accepted == {i \in DOMAIN lines : lines[i].status = "accepted"}
         IN  saved' = Append(saved,
               [market_hub |-> a.config.hub, delivery |-> a.request.place, lines |-> lines,
                accepted_total |-> SumFunction([i \in accepted |-> lines[i].line_total]),
                rejected_count |-> Cardinality(DOMAIN lines \ accepted)])
    /\ ask' = [ask EXCEPT ![u] = None]
    /\ UNCHANGED <<rows, places, market, unit, edits, asked>>

\* What the rest of the system reads of an appraisal.
Bought(a) == {i \in DOMAIN a.lines : a.lines[i].status = "accepted"}
AcceptedLineItems_Last(a) ==              \* mutant: a repeated type counts once
    [t \in {a.lines[i].type : i \in Bought(a)} |->
       a.lines[Max({i \in Bought(a) : a.lines[i].type = t})].quantity]
AcceptedLineItems(a) ==
    [t \in {a.lines[i].type : i \in Bought(a)} |->
       SumFunction([i \in {j \in Bought(a) : a.lines[j].type = t} |-> a.lines[i].quantity])]
AcceptedLinesForLots(a) == [i \in Bought(a) |-> a.lines[i]]

Manage(m) ==
    \/ \E k \in Targets : SetRule(m, k) \/ DeleteRule(m, k)
    \/ UpdateConfig(m)
    \/ \E d \in Divisions \cup {None} : SetDivision(m, d)
    \/ Finish(m)
Request(u) == Ask(u) \/ Reload(u) \/ CreateConfig(u) \/ ReadRules(u) \/ Price(u)

AppraisalNext ==
    \/ \E m \in Managers : Manage(m)
    \/ EditPlaces \/ TokenLost
    \/ \E u \in Members : Request(u)

AppraisalSpec == AppraisalInit /\ [][AppraisalNext]_appraisalVars

-----------------------------------------------------------------------------
(* Properties *)

\* Rows hold every column, edits and requests are as their step left
\* them, and an appraisal's lines are its request's, in order.
AppraisalTypeOK ==
    /\ \A k \in Keys : rows[k] # None => rows[k] \in Stored(k)
    /\ places \subseteq Places /\ token \in {"none", "works", "failing"} /\ books \in Books
    /\ \A m \in Managers : unit[m] # None => unit[m].key \in Keys
    /\ \A u \in Members : ask[u] # None =>
         /\ ask[u].phase \in {"absent", "create", "rules", "price"}
         /\ ask[u].phase \in {"rules", "price"} => ask[u].config # None
    /\ \A i \in DOMAIN saved : /\ saved[i].rejected_count \in 0 .. MaxItems
                              /\ saved[i].delivery \in Places \cup Hubs

\* The groups above g: the least set that holds its parent and with a group its parent.
Higher == [g \in Groups |->
             {h \in Groups : \A A \in SUBSET Groups :
                               (\A a \in A \cup {g} : ParentOf[a] \in A \cup {None}) => h \in A}]

\* The rule that wins is a type's own or that of its nearest group with an enabled
\* rule: every other such group lies above it.  Disabled rules never shadow.
NearestRuleWins ==
    \A t \in Types :
      LET w == Winner(rows, t)
          ruled == {g \in Groups : /\ g = GroupOf[t] \/ (GroupOf[t] # None /\ g \in Higher[GroupOf[t]])
                                   /\ Enabled(rows, GroupTarget(g))}
      IN  IF Enabled(rows, TypeTarget(t)) THEN w = TypeTarget(t)
          ELSE IF ruled = {} THEN w = None
          ELSE \E g \in ruled : /\ w = GroupTarget(g)
                                 /\ ruled \ {g} \subseteq Higher[g]

\* The price of slice k when orders are cut into slices of 1/Window unit and laid
\* out best price first.
Ahead(orders, isBuy, p) == Volume(orders, {i \in DOMAIN orders : Better(isBuy, orders[i].price, p)})
UpTo(orders, isBuy, p) == Volume(orders, {i \in DOMAIN orders : ~Better(isBuy, p, orders[i].price)})
Nth(orders, isBuy, k) ==
    CHOOSE p \in Prices(orders) :
        Window * Ahead(orders, isBuy, p) < k /\ k <= Window * UpTo(orders, isBuy, p)

FiguresTrue(orders, side, isBuy) ==
    LET total == Volume(orders, DOMAIN orders)
        best == IF isBuy THEN side.max ELSE side.min
        leq(x, y) == x[1] * y[2] <= y[1] * x[2]
        atMost(x, y) == IF isBuy THEN leq(x, y) ELSE leq(y, x)
    IN  total > 0 =>
          /\ side.percentile[1] * total
               = side.percentile[2] * SumFunction([k \in 1 .. total |-> Nth(orders, isBuy, k)])
          /\ side.median = <<Nth(orders, isBuy, (Window * total + 1) \div 2), 1>>
          /\ atMost(side.weighted_average, side.percentile) /\ atMost(side.percentile, best)

\* The percentile and the median are what a book laid out in slices says: the mean
\* of the first slices, as many as there are units, and the middle one.  The
\* percentile lies between the volume-weighted average and the best price.
BookFiguresTrue == \A h \in Hubs, t \in Types :
    /\ FiguresTrue(books[h][t].buy, prices[h][t].buy, TRUE)
    /\ FiguresTrue(books[h][t].sell, prices[h][t].sell, FALSE)

\* The lots of an appraisal hold, per type, what its contract must contain, and
\* together cost what the contract must be priced at: neither repeated types nor
\* the rounding of unit prices and totals open a gap between the three readings.
LotsMatchTheContract ==
    \A i \in DOMAIN saved :
      LET a == saved[i]  lots == AcceptedLinesForLots(a)  items == AcceptedLineItems(a) IN
      /\ a.accepted_total = SumFunction([n \in DOMAIN lots |-> lots[n].unit_price * lots[n].quantity])
      /\ \A t \in DOMAIN items :
           items[t] = SumFunction([n \in {m \in DOMAIN lots : lots[m].type = t} |-> lots[n].quantity])

\* Found stock is booked at what the buyback would pay for it now, wherever the two
\* code paths answer the same question: the hub is the corporation's own and the
\* line is not refined.
DeemedIsBuybackPrice ==
    Config # None => \A resolve \in {Resolver(rows, Config)} : \A t \in Types :
      resolve[t].hub = None /\ ~resolve[t].reprocess =>
        \A line \in {ComputeLine([type |-> t, quantity |-> 1], resolve, Config, Hubs)} :
          line.status = "accepted" => DeemedUnitCost(t) = line.unit_price

\* The accounting switch survives every pricing edit that overlaps it: only setting
\* it changes the division.
SwitchKept ==
    [][ Config # None /\ Config'.division # Config.division
          => \E m \in Managers : unit[m] # None /\ unit[m].op = "set_division" /\ unit'[m] = None ]_appraisalVars

\* A PUT replaces the whole rule or configuration, unless somebody else wrote the row
\* after it was loaded.
AloneReplacesAll ==
    [][ \A m \in Managers :
          unit[m] # None /\ unit'[m] = None /\ unit[m].op \in {"set_rule", "update_config"}
            /\ rows[unit[m].key] = unit[m].loaded
          => \A c \in DOMAIN unit[m].want : rows'[unit[m].key][c] = unit[m].want[c] ]_appraisalVars

\* Rows and requests are well formed, and rules resolve to the nearest enabled one.
RulesResolve == AppraisalTypeOK /\ NearestRuleWins

\* Edits that overlap leave each other's columns alone, and a lone one is carried out.
EditsKeepApart == SwitchKept /\ AloneReplacesAll


-----------------------------------------------------------------------------
(* A sentence of the code that does not hold *)

\* Claimed by "PUT is full-replacement" (data/repositories/pricing_rules.py): a rule is
\* one somebody asked for.  Two overlapping PUTs leave one that nobody did.
RulesAsAsked ==
    \A k \in Targets : rows[k] # None /\ rows[k] # FirstRules[k] =>
      \E want \in Edits[k] : \A c \in DOMAIN want : rows[k][c] = want[c]
=============================================================================
