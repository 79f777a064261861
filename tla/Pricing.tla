------------------------------- MODULE Pricing -------------------------------
(***************************************************************************)
(* The pure rules of what the buyback pays: which rule applies to a type,  *)
(* what an order book is worth, what a line comes to.                      *)
(*                                                                         *)
(* ISK are counted in cents.  A market value is an exact fraction          *)
(* <<cents, units>>; the code's Decimal keeps 28 digits of it.             *)
(***************************************************************************)
EXTENDS Integers, FiniteSets, Sequences, FiniteSetsExt, Functions

CONSTANTS
    Types,        \* types of the static data export
    Groups,       \* its market groups
    GroupOf,      \* a type's group, or None
    ParentOf,     \* a group's parent, or None
    Ores,         \* types of category 25
    Compressed,   \* types whose name starts with "Compressed "
    Portion,      \* portion_size
    Materials,    \* per type: units of each material one portion yields
    RefineYield,  \* ORE_REFINE_YIELD, as <<numerator, denominator>>
    Window,       \* 1 / PERCENTILE_FRACTION
    None

Bases == {"buy", "sell", "split"}
AggregateField == {"weighted_average", "max", "min", "median", "percentile"}

ASSUME GroupsAssumption ==
    /\ IsFiniteSet(Groups)
    /\ GroupOf \in [Types -> Groups \cup {None}]
    /\ ParentOf \in [Groups -> Groups \cup {None}]
    /\ None \notin Types \cup Groups
ASSUME OresAssumption ==
    /\ Ores \subseteq Types /\ Compressed \subseteq Ores
    /\ Portion \in [Types -> Nat]
    /\ \A t \in Types : DOMAIN Materials[t] \subseteq Types
ASSUME NumbersAssumption == Window \in Nat \ {0} /\ RefineYield[2] > 0

-----------------------------------------------------------------------------
(* Which rule applies *)

TypeTarget(t) == [kind |-> "type", id |-> t]
GroupTarget(g) == [kind |-> "market_group", id |-> g]
Targets == {TypeTarget(t) : t \in Types} \cup {GroupTarget(g) : g \in Groups}

\* The groups from the type's own up to a root, each once: a cycle ends the walk.
Above(t) ==
    LET up[n \in Nat] == IF n = 0 THEN GroupOf[t]
                         ELSE IF up[n - 1] = None THEN None ELSE ParentOf[up[n - 1]]
    IN  [n \in 0 .. Cardinality(Groups) |-> up[n]]

Enabled(rules, target) == rules[target] # None /\ rules[target].enabled

\* The target of the rule that wins, or None for the corporation's default.
Winner_AnyRule(rules, t) ==             \* mutant: a disabled rule still shadows
    LET chain == Above(t)
        hits == {n \in DOMAIN chain : chain[n] # None /\ rules[GroupTarget(chain[n])] # None}
    IN  IF Enabled(rules, TypeTarget(t)) THEN TypeTarget(t)
        ELSE IF hits = {} \/ ~Enabled(rules, GroupTarget(chain[Min(hits)])) THEN None
        ELSE GroupTarget(chain[Min(hits)])
Winner(rules, t) ==
    LET chain == Above(t)
        hits == {n \in DOMAIN chain : chain[n] # None /\ Enabled(rules, GroupTarget(chain[n]))}
    IN  IF Enabled(rules, TypeTarget(t)) THEN TypeTarget(t)
        ELSE IF hits = {} THEN None ELSE GroupTarget(chain[Min(hits)])

Resolve(rules, config, t) ==
    LET w == Winner(rules, t) IN
    IF w = None
    THEN [basis |-> config.basis, percentage |-> config.percentage, reprocess |-> FALSE,
          compressed_only |-> FALSE, accepted |-> config.accepted, hub |-> None]
    ELSE [basis |-> IF rules[w].basis = None THEN config.basis ELSE rules[w].basis,
          percentage |-> rules[w].percentage, reprocess |-> rules[w].reprocess,
          compressed_only |-> rules[w].compressed_only, accepted |-> rules[w].accepted,
          hub |-> IF rules[w].hub \in {None, config.hub} THEN None ELSE rules[w].hub]

-----------------------------------------------------------------------------
(* What a side of an order book is worth.  A book lists orders [price, volume]. *)

Order == [price : Nat, volume : Nat]
Volume(book, I) == SumFunctionOnSet([i \in DOMAIN book |-> book[i].volume], I)
Prices(book) == {book[i].price : i \in DOMAIN book}
Better(isBuy, p, q) == IF isBuy THEN p > q ELSE p < q

\* Best prices first; orders at one price stay in the order they came in.
BestFirst(book, isBuy) ==
    LET first(i, j) == \/ Better(isBuy, book[i].price, book[j].price)
                       \/ book[i].price = book[j].price /\ i < j
        place(i) == Cardinality({j \in DOMAIN book : first(j, i)}) + 1
    IN  [m \in DOMAIN book |-> book[CHOOSE i \in DOMAIN book : place(i) = m]]

\* The first order at which the cumulative volume reaches half of it.
VolumeMark(book, total) ==
    book[Min({i \in DOMAIN book : 2 * Volume(book, 1 .. i) >= total})].price

\* The mean price of the best 1/Window of the volume, in Window-ths of a unit; the
\* order that straddles the boundary counts for the part inside.
VolumeWeightedTop_Whole(book, total) ==        \* mutant: it counts in full
    LET last == Min({i \in DOMAIN book : Window * Volume(book, 1 .. i) >= total})
    IN  <<SumFunction([i \in 1 .. last |-> book[i].price * book[i].volume]),
          Volume(book, 1 .. last)>>
VolumeWeightedTop(book, total) ==
    LET room(i) == total - Window * Volume(book, 1 .. (i - 1))
        take(i) == Max({0, Min({Window * book[i].volume, room(i)})})
    IN  <<SumFunction([i \in DOMAIN book |-> book[i].price * take(i)]), total>>

AggregateSide(orders, isBuy) ==
    LET book == BestFirst(orders, isBuy)
        total == Volume(book, DOMAIN book)
        mean == <<SumFunction([i \in DOMAIN book |-> book[i].price]), Len(book)>>
    IN  IF orders = <<>> THEN [order_count |-> 0]
        ELSE [order_count |-> Len(orders), volume |-> total,
              max |-> <<Max(Prices(book)), 1>>, min |-> <<Min(Prices(book)), 1>>,
              weighted_average |-> IF total = 0 THEN mean
                ELSE <<SumFunction([i \in DOMAIN book |-> book[i].price * book[i].volume]), total>>,
              median |-> IF total = 0 THEN mean ELSE <<VolumeMark(book, total), 1>>,
              percentile |-> IF total = 0 THEN mean ELSE VolumeWeightedTop(book, total)]

AggregateOrders(book) ==
    [buy |-> AggregateSide(book.buy, TRUE), sell |-> AggregateSide(book.sell, FALSE)]

-----------------------------------------------------------------------------
(* What a line comes to *)

Zero == <<0, 1>>
Plus(p, q) == <<p[1] * q[2] + q[1] * p[2], p[2] * q[2]>>
Scaled(n, p) == <<n * p[1], p[2]>>

\* A side without orders has no value; "split" needs both.
SelectAggregate(buy, sell, basis) ==
    CASE basis = "buy" -> buy
      [] basis = "sell" -> sell
      [] basis = "split" -> IF None \in {buy, sell} THEN None
                            ELSE <<Plus(buy, sell)[1], 2 * Plus(buy, sell)[2]>>

Side(figures, field) == IF figures.order_count = 0 THEN None ELSE figures[field]
BasisValue(price, field, basis) ==
    IF price = None THEN None
    ELSE SelectAggregate(Side(price.buy, field), Side(price.sell, field), basis)

\* Whole batches are worth their minerals, the leftover what the ore is worth.
ReprocessLine(quantity, t, value) ==
    LET batches == IF Portion[t] > 0 THEN quantity \div Portion[t] ELSE 0
        leftover == quantity - batches * Portion[t]
        priced(m) == IF value[m] = None THEN Zero
                     ELSE Scaled(batches * Materials[t][m] * RefineYield[1],
                                <<value[m][1], value[m][2] * RefineYield[2]>>)
        refined == MapThenFoldSet(Plus, Zero, priced, LAMBDA S : CHOOSE x \in S : TRUE,
                                  DOMAIN Materials[t])
        rest == IF leftover = 0 \/ value[t] = None THEN Zero ELSE Scaled(leftover, value[t])
    IN  Plus(refined, rest)

\* Banker's rounding to the cent.
RoundIsk(p) ==
    LET q == p[1] \div p[2]  r == p[1] % p[2] IN
    IF 2 * r > p[2] \/ (2 * r = p[2] /\ q % 2 = 1) THEN q + 1 ELSE q

UnitPrice(value, percentage) == RoundIsk(<<value[1] * percentage, value[2] * 100>>)

LineTotal_WholeIsk(unitPrice, quantity) ==       \* mutant: rounded to the ISK
    100 * RoundIsk(<<unitPrice * quantity, 100>>)
LineTotal(unitPrice, quantity) == unitPrice * quantity
=============================================================================
