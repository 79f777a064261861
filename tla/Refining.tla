------------------------------ MODULE Refining ------------------------------
(***************************************************************************)
(* The pure rules of a stock-take: what is physically inside the marked    *)
(* divisions (ADR-0044), which differences look like a refine nobody       *)
(* recorded, and how cost and outputs are handed out to the lots it makes  *)
(* (ADR-0047).                                                             *)
(*                                                                         *)
(* Money is in cents; an amount is an exact fraction [num, den] of them,   *)
(* where the code's Decimal keeps 28 digits.                               *)
(***************************************************************************)
EXTENDS Integers, Sequences, FiniteSets, Functions, SequencesExt

CONSTANTS
    Types,       \* type ids: an initial segment of the positive integers
    Portion,     \* units one refine batch takes
    Materials,   \* per type: units of each material a batch gives at most
    Yield,       \* ORE_REFINE_YIELD, as <<numerator, denominator>>
    Divisions    \* flags of the hangar divisions of the one station

ASSUME RefiningAssumption ==
    /\ IsFiniteSet(Types) /\ Types = 1..Cardinality(Types)
    /\ Portion \in [Types -> Nat \ {0}]
    /\ \A t \in Types : /\ DOMAIN Materials[t] \subseteq Types
                          /\ Materials[t] \in [DOMAIN Materials[t] -> Nat]
    /\ Yield[1] \in Nat /\ Yield[2] \in Nat \ {0}
    /\ IsFiniteSet(Divisions)

Cost(num, den) == [num |-> num, den |-> den]
Plus(a, b) == Cost(a.num * b.den + b.num * a.den, a.den * b.den)
Times(n, a) == Cost(n * a.num, a.den)
Total(costs) == FoldFunction(Plus, Cost(0, 1), costs)

Least(a, b) == IF a < b THEN a ELSE b
Positive(f) == Restrict(f, {x \in DOMAIN f : f[x] > 0})

\* Units of t in a set of rows.
UnitsOf(rows, t) == SumFunction([r \in {x \in rows : x.type = t} |-> r.qty])

-----------------------------------------------------------------------------
(* The stock-take: rows [item, type, qty, at, flag] of the asset list *)

Station == <<"station", 0>>

\* Rows inside the marked divisions: the rows flagged with one, under whatever
\* sits at the station, and what those contain, level by level.
Inside_OneLevel(assets, marked) ==          \* mutant: what containers hold is not looked at
    LET anchors == {a.item : a \in {b \in assets : b.at = Station}} \cup {Station}
    IN  {a \in assets : a.at \in anchors /\ a.flag \in marked}
Inside(assets, marked) ==
    LET anchors == {a.item : a \in {b \in assets : b.at = Station}} \cup {Station}
        flagged == {a \in assets : a.at \in anchors /\ a.flag \in marked}
        down[n \in Nat] ==
            IF n = 0 THEN flagged
            ELSE LET above == down[n - 1]
                 IN  above \cup {a \in assets : \E b \in above : a.at = b.item}
    IN  down[Cardinality(assets)]

HangarCounts(assets, marked) ==
    LET inside == Inside(assets, marked) IN [t \in Types |-> UnitsOf(inside, t)]

-----------------------------------------------------------------------------
(* Handing out in proportion *)

\* Nearest integer to num/den, the even one of two, for num >= 0.
Nearest(num, den) ==
    LET down == num \div den
        rest == 2 * (num % den)
    IN  IF rest > den \/ (rest = den /\ down % 2 = 1) THEN down + 1 ELSE down

\* amount shared out by weight, in whole units: rounded down, and the units
\* left over go to the largest remainders, the first of equals.
LargestRemainder_Floor(amount, weights) ==  \* mutant: what rounding leaves is dropped
    LET whole == amount.den * SumFunction(weights)
    IN  [i \in DOMAIN weights |-> (amount.num * weights[i]) \div whole]
LargestRemainder(amount, weights) ==
    LET whole == amount.den * SumFunction(weights)
        down == [i \in DOMAIN weights |-> (amount.num * weights[i]) \div whole]
        rest == [i \in DOMAIN weights |-> (amount.num * weights[i]) % whole]
        before(i) == {j \in DOMAIN weights : rest[j] > rest[i] \/ (rest[j] = rest[i] /\ j < i)}
        left == Nearest(amount.num - amount.den * SumFunction(down), amount.den)
    IN  [i \in DOMAIN weights |-> down[i] + IF Cardinality(before(i)) < left THEN 1 ELSE 0]

\* Cents of the cost each output carries, by market value, or by quantity
\* when no output has one.
AllocateSourceCost(cost, outputs, worth) ==
    LET value == [t \in DOMAIN outputs |-> worth[t] * outputs[t]]
    IN  LargestRemainder(cost, IF \A t \in DOMAIN value : value[t] = 0 THEN outputs ELSE value)

NoShares == <<>>

\* What each consumed portion gets of the outputs; NoShares when one gets none.
ApportionOutputs(takes, outputs) ==
    LET parts == [t \in DOMAIN outputs |-> LargestRemainder(Cost(outputs[t], 1), takes)]
        shares == [i \in DOMAIN takes |-> Positive([t \in DOMAIN outputs |-> parts[t][i]])]
    IN  IF \E i \in DOMAIN takes : DOMAIN shares[i] = {} THEN NoShares ELSE shares

\* The outputs the dialog of a manual record opens with.
BaseYieldOutputs(type, qty) ==
    LET batches == qty \div Portion[type]
    IN  Positive([m \in DOMAIN Materials[type] |->
            (batches * Materials[type][m] * Yield[1]) \div Yield[2]])

-----------------------------------------------------------------------------
(* match_reprocess_hints *)

Batches(t, delta) == IF delta[t] < 0 THEN (-delta[t]) \div Portion[t] ELSE 0

\* Source s is short of batches that could have given all the excess of m.
Explains_Unbounded(s, m, delta) ==          \* mutant: any excess of a material will do
    m \in DOMAIN Materials[s] /\ delta[m] > 0 /\ Batches(s, delta) > 0
Explains(s, m, delta) ==
    /\ m \in DOMAIN Materials[s] /\ delta[m] > 0
    /\ delta[m] <= Batches(s, delta) * Materials[s][m]

\* <<source, material>>: the first source that explains an excess claims it.
Claims_Shared(delta) ==                     \* mutant: two sources claim one excess
    {c \in Types \X Types : Explains(c[1], c[2], delta)}
Claims(delta) ==
    {c \in Types \X Types : /\ Explains(c[1], c[2], delta)
                            /\ \A s \in 1 .. c[1] - 1 : ~Explains(s, c[2], delta)}

\* qty_recordable: whole batches only.
QtyRecordable_All(s, delta) == -delta[s]    \* mutant: the odd units too
QtyRecordable(s, delta) == Batches(s, delta) * Portion[s]
=============================================================================
