---------------------------- MODULE HangarsProofs ----------------------------
(***************************************************************************)
(* For any hangars, lots, prices and bounds: the log and the suggestions   *)
(* stay sound, a dismissal stands, a confirm settles its candidates, the   *)
(* books hold no less than was ever measured, and declared hauls raise no  *)
(* flag.                                                                   *)
(*                                                                         *)
(* The flags need to know of each suggestion which flag it stands on       *)
(* (MovesAnchored): a pass that withdraws and proposes changes the slots   *)
(* of flags it does not read.  The backing of units needs to know of       *)
(* every row and every suggestion where its units came from (BackInv):     *)
(* rows are of one item, found stock is deemed until a confirm, a pending  *)
(* suggestion has retired nothing, and at most one fill waits for a poll.  *)
(* That hauls raise no flag needs a balance at each place (Level) and that *)
(* no place has promised away more than its books hold.                    *)
(***************************************************************************)
EXTENDS Hangars, SumLaws, SequenceTheorems, TLAPS

\* What a suggestion explains by escrow and by sales is part of its units.
Whole(m) == m.qty_listed + m.qty_sold <= m.qty

\* A suggestion stands on a shortfall flag in the log of its origin, for no more
\* units than the flag names, and points to a lot that exists.
MovesAnchored ==
    \A i \in DOMAIN moves :
        LET m == moves[i] IN
        /\ m.event \in DOMAIN log[m.origin]
        /\ log[m.origin][m.event].kind = "shortfall"
        /\ m.qty <= log[m.origin][m.event].qty
        /\ m.lot \in 0..Len(lots)
        /\ Whole(m)

IInv == TypeOK /\ MovesAnchored /\ FlaggedOnce

-----------------------------------------------------------------------------
(* Numbers, sets and sequences *)

LEMMA LeastType == ASSUME NEW a \in Nat, NEW b \in Nat
                   PROVE  Least(a, b) \in Nat /\ Least(a, b) <= a /\ Least(a, b) <= b
  BY DEF Least

LEMMA MinusType == ASSUME NEW a \in Nat, NEW b \in Nat
                   PROVE  Minus(a, b) \in Nat /\ Minus(a, b) >= a - b /\ Minus(a, b) <= a
  BY DEF Minus

\* A set written as a sequence: every element once.
LEMMA Listing ==
    ASSUME NEW S, IsFiniteSet(S)
    PROVE  /\ SetToSeq(S) \in Seq(S)
           /\ Len(SetToSeq(S)) = Cardinality(S)
           /\ \A x \in S : \E k \in 1..Len(SetToSeq(S)) : SetToSeq(S)[k] = x
           /\ \A j, k \in 1..Len(SetToSeq(S)) : SetToSeq(S)[j] = SetToSeq(S)[k] => j = k
<1> DEFINE n == Cardinality(S)
           s == SetToSeq(S)
<1>1. n \in Nat BY FS_CardinalityType
<1>2. \E f \in [1..n -> S] : IsInjective(f)
  <2>1. PICK f : f \in Bijection(1..n, S) BY FS_CardinalityType, Zenon DEF ExistsBijection
  <2>2. f \in [1..n -> S] /\ IsInjective(f)
    BY <2>1 DEF Bijection, Injection
  <2> QED BY <2>2
<1>3. s \in [1..n -> S] /\ IsInjective(s)
  BY <1>2 DEF SetToSeq
<1> HIDE DEF s
<1>4. s \in Injection(1..n, S) BY <1>3 DEF Injection
<1>5. Cardinality(1..n) = n
  <2>1. Cardinality(1..n) = IF 1 > n THEN 0 ELSE n - 1 + 1 BY <1>1, FS_Interval
  <2> HIDE DEF n
  <2> QED BY <1>1, <2>1
<1>6. s \in Surjection(1..n, S) BY <1>4, <1>5, FS_Injection
<1>7. s \in Seq(S) /\ Len(s) = n
  <2> HIDE DEF n
  <2> QED BY <1>1, <1>3
<1>8. \A x \in S : \E k \in 1..n : s[k] = x BY <1>6 DEF Surjection
<1>9. \A j, k \in 1..n : s[j] = s[k] => j = k BY <1>3 DEF IsInjective
<1> HIDE DEF n
<1> QED BY <1>7, <1>8, <1>9 DEF s, n

\* Places of a sequence have a last one.
LEMMA LastPlace ==
    ASSUME NEW n \in Nat, NEW I \in SUBSET (1..n), I # {}
    PROVE  Max(I) \in I /\ \A i \in I : i <= Max(I)
<1> DEFINE Bad == {i..n : i \in I}
<1>1. IsFiniteSet(1..n) BY FS_Interval
<1>2. PICK s \in Bad : \A t \in SUBSET s : t # s => t \notin Bad
  <2>1. \A i \in I : i..n \in Bad /\ i..n \in SUBSET (1..n) OBVIOUS
  <2>2. Bad # {} BY <2>1
  <2>3. Bad \in SUBSET SUBSET (1..n) OBVIOUS
  <2> HIDE DEF Bad
  <2> QED BY <1>1, <2>2, <2>3, LeastSubset
<1>3. PICK m \in I : s = m..n BY <1>2
<1>4. \A i \in I : i <= m
  <2> SUFFICES ASSUME NEW i \in I, i > m PROVE FALSE
    OBVIOUS
  <2>1. i..n \in SUBSET (m..n) /\ m \notin i..n /\ m \in m..n OBVIOUS
  <2> QED BY <1>2, <1>3, <2>1
<1> QED BY <1>4 DEF Max

\* Totals of quantities are quantities.
LEMMA TotalType ==
    ASSUME NEW f, IsFiniteSet(DOMAIN f), \A x \in DOMAIN f : f[x] \in Nat
    PROVE  SumFunction(f) \in Nat
  BY SumOnNat DEF SumFunction

\* A sequence after another.
LEMMA Concat ==
    ASSUME NEW T, NEW s \in Seq(T), NEW t \in Seq(T), NEW r, r = s \o t
    PROVE  /\ r \in Seq(T) /\ Len(s) \in Nat /\ Len(t) \in Nat
           /\ Len(r) = Len(s) + Len(t) /\ Len(s) <= Len(r)
           /\ DOMAIN s = 1..Len(s) /\ DOMAIN t = 1..Len(t) /\ DOMAIN r = 1..Len(r)
           /\ \A k \in 1..Len(s) : r[k] = s[k]
           /\ \A k \in 1..Len(t) : r[Len(s) + k] = t[k]
           /\ \A k \in 1..Len(r) : k > Len(s) =>
                 k - Len(s) \in 1..Len(t) /\ r[k] = t[k - Len(s)]
<1>1. r \in Seq(T) /\ Len(s) \in Nat /\ Len(t) \in Nat OBVIOUS
<1>2. Len(r) = Len(s) + Len(t) /\ Len(s) <= Len(r) OBVIOUS
<1>3. \A k \in 1..Len(s) : r[k] = s[k] OBVIOUS
<1>4. \A k \in 1..Len(t) : r[Len(s) + k] = t[k] OBVIOUS
<1>5. ASSUME NEW k \in 1..Len(r), k > Len(s)
      PROVE  k - Len(s) \in 1..Len(t) /\ r[k] = t[k - Len(s)]
  <2>1. k - Len(s) \in 1..Len(t) /\ k = Len(s) + (k - Len(s)) BY <1>1, <1>2, <1>5
  <2> QED BY <2>1, <1>4
<1>6. DOMAIN s = 1..Len(s) /\ DOMAIN t = 1..Len(t) /\ DOMAIN r = 1..Len(r) BY <1>1
<1> QED BY <1>1, <1>2, <1>3, <1>4, <1>5, <1>6

LEMMA PlacesFinite ==
    ASSUME NEW s, NEW T, s \in Seq(T), NEW P \in SUBSET DOMAIN s
    PROVE  IsFiniteSet(P) /\ Cardinality(P) \in Nat
<1>1. DOMAIN s = 1..Len(s) /\ Len(s) \in Nat OBVIOUS
<1>2. IsFiniteSet(1..Len(s)) BY <1>1, FS_Interval
<1> QED BY <1>1, <1>2, FS_Subset, FS_CardinalityType

-----------------------------------------------------------------------------
(* The log *)

\* latest_by_slot, on any log.
Latest(s) == SelectLastInSeq(s, LAMBDA e : e.kind \notin AnnotationKinds)

LEMMA LatestIs ==
    ASSUME NEW s \in Seq(Event)
    PROVE  /\ Latest(s) \in 0..Len(s)
           /\ Latest(s) # 0 => s[Latest(s)].kind \notin AnnotationKinds
           /\ \A k \in 1..Len(s) : k > Latest(s) => s[k].kind \in AnnotationKinds
<1> DEFINE I == {i \in 1..Len(s) : s[i].kind \notin AnnotationKinds}
<1>1. Latest(s) = IF I # {} THEN Max(I) ELSE 0
  BY DEF Latest, SelectLastInSeq
<1>2. Len(s) \in Nat OBVIOUS
<1>3. I \in SUBSET (1..Len(s)) OBVIOUS
<1>4. \A k \in 1..Len(s) : k \notin I => s[k].kind \in AnnotationKinds OBVIOUS
<1>5. \A k \in I : s[k].kind \notin AnnotationKinds OBVIOUS
<1> HIDE DEF I
<1>6. CASE I = {} BY <1>1, <1>2, <1>4, <1>6
<1>7. CASE I # {}
  <2>1. Max(I) \in I /\ \A i \in I : i <= Max(I) BY <1>2, <1>3, <1>7, LastPlace
  <2>2. Max(I) \in 1..Len(s) BY <2>1, <1>3
  <2> QED BY <1>1, <1>2, <1>3, <1>4, <1>5, <1>7, <2>1, <2>2
<1> QED BY <1>6, <1>7

\* The latest event that is no annotation is the one such event nothing but
\* annotations follow.
LEMMA LatestUnique ==
    ASSUME NEW s \in Seq(Event), NEW n \in 1..Len(s), s[n].kind \notin AnnotationKinds,
           \A k \in 1..Len(s) : k > n => s[k].kind \in AnnotationKinds
    PROVE  Latest(s) = n
<1>1. Latest(s) \in 0..Len(s) BY LatestIs
<1>2. ~ (n > Latest(s)) BY LatestIs
<1>3. ~ (Latest(s) > n) BY LatestIs, <1>1
<1> QED BY <1>1, <1>2, <1>3

LEMMA LatestAtIs == \A l : LatestAt(l) = Latest(log[l])
  BY DEF LatestAt, Latest

\* Every log keeps what it holds, and grows by events.
LogGrows ==
    /\ log' \in [Locations -> Seq(Event)]
    /\ \A l \in Locations : /\ Len(log[l]) <= Len(log'[l])
                            /\ \A k \in 1..Len(log[l]) : log'[l][k] = log[l][k]

\* None of the events added is a shortfall flag.
NoNewFlag ==
    \A l \in Locations : \A k \in 1..Len(log'[l]) :
        k > Len(log[l]) => log'[l][k].kind # "shortfall"

LEMMA LoggedGrows ==
    ASSUME TypeOK, NEW added, Logged(added), \A l \in Locations : added[l] \in Seq(Event)
    PROVE  /\ LogGrows
           /\ \A l \in Locations :
                /\ Len(log'[l]) = Len(log[l]) + Len(added[l])
                /\ \A k \in 1..Len(added[l]) : log'[l][Len(log[l]) + k] = added[l][k]
<1>1. \A l \in Locations : log[l] \in Seq(Event) BY DEF TypeOK
<1>2. log' = [l \in Locations |-> log[l] \o added[l]] BY DEF Logged
<1>3. ASSUME NEW l \in Locations
      PROVE  /\ log'[l] \in Seq(Event)
             /\ Len(log'[l]) = Len(log[l]) + Len(added[l])
             /\ Len(log[l]) <= Len(log'[l])
             /\ \A k \in 1..Len(log[l]) : log'[l][k] = log[l][k]
             /\ \A k \in 1..Len(added[l]) : log'[l][Len(log[l]) + k] = added[l][k]
  <2>1. log[l] \in Seq(Event) /\ added[l] \in Seq(Event) BY <1>1
  <2>2. log'[l] = log[l] \o added[l] BY <1>2
  <2> DEFINE old == log[l]
             new == log'[l]
             add == added[l]
  <2>3. old \in Seq(Event) /\ add \in Seq(Event) /\ new = old \o add BY <2>1, <2>2
  <2> HIDE DEF old, new, add
  <2>4. /\ new \in Seq(Event) /\ Len(new) = Len(old) + Len(add) /\ Len(old) <= Len(new)
        /\ \A k \in 1..Len(old) : new[k] = old[k]
        /\ \A k \in 1..Len(add) : new[Len(old) + k] = add[k]
    BY <2>3, Concat
  <2> QED BY <2>4 DEF old, new, add
<1> QED BY <1>2, <1>3 DEF LogGrows

LEMMA LoggedNoFlag ==
    ASSUME TypeOK, NEW added, Logged(added), \A l \in Locations : added[l] \in Seq(Event),
           \A l \in Locations : \A k \in 1..Len(added[l]) : added[l][k].kind # "shortfall"
    PROVE  NoNewFlag
<1> SUFFICES ASSUME NEW l \in Locations, NEW k \in 1..Len(log'[l]), k > Len(log[l])
             PROVE  log'[l][k].kind # "shortfall"
  BY DEF NoNewFlag
<1>1. log[l] \in Seq(Event) /\ added[l] \in Seq(Event) BY DEF TypeOK
<1>2. log'[l] = log[l] \o added[l] BY DEF Logged
<1> DEFINE old == log[l]
           new == log'[l]
           add == added[l]
<1>3. /\ old \in Seq(Event) /\ add \in Seq(Event) /\ new = old \o add
      /\ k \in 1..Len(new) /\ k > Len(old)
      /\ \A j \in 1..Len(add) : add[j].kind # "shortfall"
  BY <1>1, <1>2
<1> HIDE DEF old, new, add
<1>4. k - Len(old) \in 1..Len(add) /\ new[k] = add[k - Len(old)] BY <1>3, Concat
<1>5. new[k].kind # "shortfall" BY <1>3, <1>4
<1> QED BY <1>5 DEF new

\* Without new flags, every flag still stands once.
LEMMA NoFlagFlaggedOnce ==
    ASSUME TypeOK, FlaggedOnce, LogGrows, NoNewFlag
    PROVE  FlaggedOnce'
<1> SUFFICES ASSUME NEW l \in Locations, NEW i \in DOMAIN log'[l], NEW j \in DOMAIN log'[l],
                    i < j,
                    log'[l][i].kind = "shortfall", log'[l][j].kind = "shortfall",
                    log'[l][i].qty = log'[l][j].qty
             PROVE  \E k \in i..j : /\ log'[l][k].kind \notin AnnotationKinds
                                    /\ log'[l][k] # log'[l][i]
  BY DEF FlaggedOnce
<1>1. log[l] \in Seq(Event) /\ log'[l] \in Seq(Event) BY DEF TypeOK, LogGrows
<1>2. DOMAIN log[l] = 1..Len(log[l]) /\ DOMAIN log'[l] = 1..Len(log'[l]) BY <1>1
<1>3. i \in 1..Len(log[l]) /\ j \in 1..Len(log[l]) BY <1>1, <1>2 DEF NoNewFlag
<1>4. \A k \in 1..Len(log[l]) : log'[l][k] = log[l][k] BY DEF LogGrows
<1>5. PICK k \in i..j : log[l][k].kind \notin AnnotationKinds /\ log[l][k] # log[l][i]
  BY <1>2, <1>3, <1>4 DEF FlaggedOnce
<1>6. k \in 1..Len(log[l]) BY <1>3
<1> QED BY <1>3, <1>4, <1>5, <1>6

-----------------------------------------------------------------------------
(* Rows and plans *)

LEMMA LandedType == ASSUME NEW lot \in Lot PROVE Landed(lot) \in Nat
  BY NoFloorAssumption DEF Landed, Lot

LEMMA RowUpdates ==
    ASSUME NEW lot \in Lot, NEW t \in 0..lot.qty_remaining, NEW to \in Locations
    PROVE  /\ lot.qty_remaining \in Nat
           /\ Consumed(lot, t) \in Lot
           /\ Consumed(lot, t).qty_remaining = lot.qty_remaining - t
           /\ Consumed(lot, t).location = lot.location
           /\ Consumed(lot, t).type = lot.type
           /\ Relocated(lot, to) \in Lot
           /\ Relocated(lot, to).qty_remaining = lot.qty_remaining
           /\ Relocated(lot, to).location = to
           /\ Relocated(lot, to).type = lot.type
  BY DEF Lot, Consumed, Relocated

\* Drawing nothing from a row leaves it as it is.
LEMMA NothingDrawn == ASSUME NEW lot \in Lot PROVE Consumed(lot, 0) = lot
<1>1. lot.qty_remaining - 0 = lot.qty_remaining BY DEF Lot
<1> QED BY <1>1 DEF Lot, Consumed

LEMMA ChildType ==
    ASSUME NEW s \in Seq(Lot), NEW l \in 1..Len(s), NEW qty \in Nat, NEW to \in Locations
    PROVE  LET child == SplitChild(s, l, qty, to)
           IN  /\ child \in Lot /\ child.qty_remaining = qty
               /\ child.location = to /\ child.type = s[l].type
<1>1. s[l] \in Lot /\ l \in Nat OBVIOUS
<1> QED BY <1>1 DEF SplitChild, Lot

\* A plan takes from open lots only, and from none more than it holds.
LEMMA PlanIs ==
    ASSUME NEW s \in Seq(Lot), NEW open \in SUBSET (1..Len(s)), NEW qty \in Nat,
           NEW plan \in FifoPlans(s, open, qty)
    PROVE  /\ plan.shortfall \in 0..qty
           /\ plan.take \in [open -> Nat]
           /\ \A l \in 1..Len(s) : Taken(plan.take, l) \in 0..s[l].qty_remaining
           /\ SumFunction(plan.take) + plan.shortfall = qty
           /\ plan.shortfall > 0 => \A l \in open : plan.take[l] = s[l].qty_remaining
<1>1. /\ plan \in Plans(open, qty) /\ Fits(s, plan, qty) /\ Exhausts(s, plan)
  BY DEF FifoPlans
<1>2. plan.take \in [open -> 0..qty] /\ plan.shortfall \in 0..qty
  BY <1>1 DEF Plans
<1>3. ASSUME NEW l \in 1..Len(s) PROVE Taken(plan.take, l) \in 0..s[l].qty_remaining
  <2>1. s[l] \in Lot OBVIOUS
  <2>2. s[l].qty_remaining \in Nat BY <2>1 DEF Lot
  <2>3. CASE l \in open
    <3>1. plan.take[l] \in 0..qty /\ plan.take[l] <= s[l].qty_remaining
      BY <1>1, <1>2, <2>3 DEF Fits
    <3> QED BY <3>1, <2>2, <2>3, <1>2 DEF Taken
  <2>4. CASE l \notin open BY <1>2, <2>2, <2>4 DEF Taken
  <2> QED BY <2>3, <2>4
<1>4. plan.take \in [open -> Nat] BY <1>2
<1> QED BY <1>1, <1>2, <1>3, <1>4 DEF Fits, Exhausts

\* What a hand-over leaves: take says which units of each lot it draws, out which of
\* those are sold units that are retired instead of carried.
Handed(s, take, out) ==
    /\ s \in Seq(Lot)
    /\ DOMAIN take \subseteq 1..Len(s)
    /\ \A l \in 1..Len(s) : /\ Taken(take, l) \in 0..s[l].qty_remaining
                            /\ Taken(out, l) \in 0..Taken(take, l)

\* The units of a row that go on the way, the rows that keep some, and what becomes of
\* a row.
Carrying(take, out, l) == Taken(take, l) - Taken(out, l)
SplitRows(s, take, out) ==
    {l \in Drawn(take) : /\ 0 < Carrying(take, out, l)
                         /\ Carrying(take, out, l) < s[l].qty_remaining - Taken(out, l)}
CarriedRow(s, take, out, to, l) ==
    IF /\ 0 < Carrying(take, out, l)
       /\ Carrying(take, out, l) = s[l].qty_remaining - Taken(out, l)
    THEN Relocated(Consumed(s[l], Taken(out, l)), to)
    ELSE Consumed(s[l], Taken(take, l))

LEMMA CarriedIs ==
    ASSUME NEW s, NEW take, NEW out, Handed(s, take, out), NEW to \in Locations
    PROVE  LET r == Carried(s, take, out, to)
               split == SplitRows(s, take, out)
           IN  /\ r \in Seq(Lot)
               /\ IsFiniteSet(split) /\ split \in SUBSET (1..Len(s))
               /\ Len(r) = Len(s) + Cardinality(split)
               /\ \A l \in 1..Len(s) : r[l] = CarriedRow(s, take, out, to, l)
               /\ \A k \in 1..Cardinality(split) :
                     r[Len(s) + k]
                       = SplitChild(s, SetToSeq(split)[k], Carrying(take, out, SetToSeq(split)[k]), to)
<1> DEFINE carry(l) == Taken(take, l) - Taken(out, l)
           left(l) == s[l].qty_remaining - Taken(out, l)
           split == {l \in Drawn(take) : 0 < carry(l) /\ carry(l) < left(l)}
           list == SetToSeq(split)
           rows == [l \in DOMAIN s |->
                      IF 0 < carry(l) /\ carry(l) = left(l)
                      THEN Relocated(Consumed(s[l], Taken(out, l)), to)
                      ELSE Consumed(s[l], Taken(take, l))]
           kids == [k \in DOMAIN list |-> SplitChild(s, list[k], carry(list[k]), to)]
           r == Carried(s, take, out, to)
<1>1. r = rows \o kids BY DEF Carried
<1>2. s \in Seq(Lot) /\ Len(s) \in Nat /\ DOMAIN s = 1..Len(s) BY DEF Handed
<1>3. split \in SUBSET (1..Len(s)) /\ IsFiniteSet(split)
  <2>1. split \in SUBSET (1..Len(s)) BY DEF Handed, Drawn
  <2>2. IsFiniteSet(1..Len(s)) BY <1>2, FS_Interval
  <2> HIDE DEF split
  <2> QED BY <2>1, <2>2, FS_Subset
<1>4. /\ list \in Seq(split) /\ Len(list) = Cardinality(split)
      /\ DOMAIN list = 1..Len(list) /\ Len(list) \in Nat
  <2> HIDE DEF split
  <2>1. list \in Seq(split) /\ Len(list) = Cardinality(split) BY <1>3, Listing
  <2> QED BY <2>1
<1>5. \A l \in 1..Len(s) :
         /\ s[l] \in Lot /\ s[l].qty_remaining \in Nat
         /\ Taken(take, l) \in 0..s[l].qty_remaining
         /\ Taken(out, l) \in 0..Taken(take, l)
         /\ Taken(out, l) \in 0..s[l].qty_remaining
         /\ carry(l) \in Nat
  <2> TAKE l \in 1..Len(s)
  <2>1. s[l] \in Lot BY <1>2
  <2>2. s[l].qty_remaining \in Nat BY <2>1 DEF Lot
  <2>3. Taken(take, l) \in 0..s[l].qty_remaining /\ Taken(out, l) \in 0..Taken(take, l)
    BY DEF Handed
  <2> QED BY <2>1, <2>2, <2>3
<1>6. rows \in Seq(Lot) /\ Len(rows) = Len(s)
  <2>1. ASSUME NEW l \in 1..Len(s) PROVE rows[l] \in Lot
    <3>1. /\ s[l] \in Lot /\ Taken(take, l) \in 0..s[l].qty_remaining
          /\ Taken(out, l) \in 0..s[l].qty_remaining
      BY <1>5
    <3>2. Consumed(s[l], Taken(take, l)) \in Lot /\ Consumed(s[l], Taken(out, l)) \in Lot
      BY <3>1, RowUpdates
    <3>3. Relocated(Consumed(s[l], Taken(out, l)), to) \in Lot
      <4>1. 0 \in 0..Consumed(s[l], Taken(out, l)).qty_remaining BY <3>2 DEF Lot
      <4> QED BY <4>1, <3>2, RowUpdates
    <3> QED BY <1>2, <3>2, <3>3
  <2>2. rows \in [1..Len(s) -> Lot] BY <1>2, <2>1
  <2> HIDE DEF rows
  <2> QED BY <1>2, <2>2
<1>7. kids \in Seq(Lot) /\ Len(kids) = Cardinality(split)
  <2>1. ASSUME NEW k \in 1..Len(list) PROVE SplitChild(s, list[k], carry(list[k]), to) \in Lot
    <3> HIDE DEF list
    <3>1. list[k] \in 1..Len(s) /\ carry(list[k]) \in Nat
      <4>1. list[k] \in split BY <1>4
      <4> HIDE DEF split, carry
      <4> QED BY <4>1, <1>3, <1>5
    <3> HIDE DEF carry
    <3> QED BY <1>2, <3>1, ChildType
  <2>2. kids \in [1..Len(list) -> Lot] BY <1>4, <2>1
  <2> HIDE DEF kids, list, split
  <2> QED BY <1>4, <2>2
<1>8. /\ r \in Seq(Lot) /\ Len(r) = Len(s) + Cardinality(split)
      /\ \A l \in 1..Len(s) : r[l] = rows[l]
      /\ \A k \in 1..Cardinality(split) : r[Len(s) + k] = kids[k]
  <2> HIDE DEF r, rows, kids, split
  <2>1. rows \in Seq(Lot) /\ kids \in Seq(Lot) BY <1>6, <1>7
  <2>2. /\ r \in Seq(Lot) /\ Len(r) = Len(rows) + Len(kids)
        /\ \A l \in 1..Len(rows) : r[l] = rows[l]
        /\ \A k \in 1..Len(kids) : r[Len(rows) + k] = kids[k]
    BY <1>1, <2>1, Concat
  <2> QED BY <1>6, <1>7, <2>2
<1>9. \A k \in 1..Cardinality(split) :
         r[Len(s) + k] = SplitChild(s, list[k], carry(list[k]), to)
  <2> HIDE DEF r, list
  <2> QED BY <1>4, <1>8
<1>10. \A l \in 1..Len(s) :
          r[l] = IF 0 < carry(l) /\ carry(l) = left(l)
                 THEN Relocated(Consumed(s[l], Taken(out, l)), to)
                 ELSE Consumed(s[l], Taken(take, l))
  <2> HIDE DEF r
  <2> QED BY <1>2, <1>8
<1>11. split = SplitRows(s, take, out) BY DEF SplitRows, Carrying
<1>12. \A l : carry(l) = Carrying(take, out, l) BY DEF Carrying
<1>13. \A l \in 1..Len(s) : r[l] = CarriedRow(s, take, out, to, l)
  <2> HIDE DEF r
  <2> QED BY <1>10 DEF CarriedRow, Carrying
<1> HIDE DEF r, split, carry
<1> QED BY <1>3, <1>8, <1>9, <1>11, <1>12, <1>13 DEF r, list

-----------------------------------------------------------------------------
(* What a pass reads *)

LEMMA IdleType == ASSUME NEW s \in Seq(Lot), NEW l PROVE Idle(s, Item, l) \in Nat
<1> DEFINE open == OpenLots(s, Item, l)
           f == [x \in open |-> s[x].qty_remaining]
<1>1. open \in SUBSET DOMAIN s BY DEF OpenLots
<1>2. IsFiniteSet(open)
  <2> HIDE DEF open
  <2> QED BY <1>1, PlacesFinite
<1>3. \A x \in open : f[x] \in Nat
  <2> TAKE x \in open
  <2>1. s[x] \in Lot BY <1>1
  <2> QED BY <2>1 DEF Lot
<1>4. SumFunction(f) \in Nat
  <2>1. DOMAIN f = open OBVIOUS
  <2> HIDE DEF f, open
  <2> QED BY <2>1, <1>2, <1>3, TotalType
<1> QED BY <1>4 DEF Idle

\* Rows elsewhere do not change what a place holds.
LEMMA IdleAppended ==
    ASSUME NEW s \in Seq(Lot), NEW r \in Seq(Lot), NEW l, Len(s) <= Len(r),
           \A k \in 1..Len(s) : r[k] = s[k],
           \A k \in 1..Len(r) : k > Len(s) => r[k].location # l
    PROVE  Idle(r, Item, l) = Idle(s, Item, l)
<1>1. Len(s) \in Nat /\ Len(r) \in Nat OBVIOUS
<1>2. ASSUME NEW k \in OpenLots(r, Item, l) PROVE k \in 1..Len(s)
  <2>1. k \in 1..Len(r) /\ r[k].location = l BY DEF OpenLots
  <2>2. ~ (k > Len(s)) BY <2>1
  <2> QED BY <2>1, <2>2, <1>1
<1>3. \A k \in 1..Len(s) : k \in 1..Len(r) BY <1>1
<1>4. OpenLots(r, Item, l) = OpenLots(s, Item, l) BY <1>1, <1>2, <1>3 DEF OpenLots
<1>5. \A k \in OpenLots(s, Item, l) : r[k] = s[k] BY <1>1 DEF OpenLots
<1> QED BY <1>4, <1>5 DEF Idle

LEMMA Measures ==
    ASSUME TypeOK, NEW l \in Locations
    PROVE  /\ Stock(l) \in Nat /\ OpenFrom(l) \in Nat /\ OpenTo(l) \in Nat
           /\ EstimatedSold(l) \in Nat /\ Retired(l) \in Nat
           /\ orders[l] \in Nat /\ held[l] \in Nat /\ escrow[l] \in Nat
           /\ Expected(l) \in Nat /\ Shortfall(l) \in Nat /\ Excess(l) \in Nat
           /\ Listed(l) \in Nat /\ Unretired(l) \in Nat /\ Evidence(l) \in Nat
<1>1. orders[l] \in Nat /\ held[l] \in Nat /\ escrow[l] \in Nat BY DEF TypeOK
<1>2. Stock(l) \in Nat BY IdleType DEF Stock, TypeOK
<1>3. ASSUME NEW P \in SUBSET DOMAIN hauls
      PROVE  SumFunction([i \in P |-> hauls[i].qty]) \in Nat
  <2> DEFINE f == [i \in P |-> hauls[i].qty]
  <2>1. hauls \in Seq(Haul) BY DEF TypeOK
  <2>2. IsFiniteSet(P) BY <2>1, PlacesFinite
  <2>3. \A i \in P : f[i] \in Nat
    <3> TAKE i \in P
    <3>1. hauls[i] \in Haul BY <2>1
    <3> QED BY <3>1 DEF Haul
  <2>4. DOMAIN f = P OBVIOUS
  <2> HIDE DEF f
  <2>5. SumFunction(f) \in Nat BY <2>2, <2>3, <2>4, TotalType
  <2> QED BY <2>5 DEF f
<1>4. OpenFrom(l) \in Nat /\ OpenTo(l) \in Nat
  <2>1. /\ {x \in OpenHauls : hauls[x].origin = l} \in SUBSET DOMAIN hauls
        /\ {x \in OpenHauls : hauls[x].destination = l} \in SUBSET DOMAIN hauls
    BY DEF OpenHauls
  <2> QED BY <1>3, <2>1 DEF OpenFrom, OpenTo
<1>5. EstimatedSold(l) \in Nat
  <2> DEFINE P == EstimatedSales(lots, l)
             f == [i \in P |-> sales[i].qty]
  <2>1. sales \in Seq(Sale) /\ P \in SUBSET DOMAIN sales BY DEF TypeOK, EstimatedSales
  <2>2. IsFiniteSet(P)
    <3> HIDE DEF P
    <3> QED BY <2>1, PlacesFinite
  <2>3. \A i \in P : f[i] \in Nat
    <3> TAKE i \in P
    <3>1. sales[i] \in Sale BY <2>1
    <3> QED BY <3>1 DEF Sale
  <2>4. DOMAIN f = P OBVIOUS
  <2> HIDE DEF f, P
  <2>5. SumFunction(f) \in Nat BY <2>2, <2>3, <2>4, TotalType
  <2> QED BY <2>5 DEF f, P, EstimatedSold
<1>6. Retired(l) \in Nat
  <2> DEFINE P == {x \in DOMAIN moves : moves[x].status = "confirmed" /\ moves[x].destination = l}
             f == [i \in P |-> moves[i].qty_retired]
  <2>1. moves \in Seq(Move) /\ P \in SUBSET DOMAIN moves BY DEF TypeOK
  <2>2. IsFiniteSet(P)
    <3> HIDE DEF P
    <3> QED BY <2>1, PlacesFinite
  <2>3. \A i \in P : f[i] \in Nat
    <3> TAKE i \in P
    <3>1. moves[i] \in Move BY <2>1
    <3> QED BY <3>1 DEF Move
  <2>4. DOMAIN f = P OBVIOUS
  <2> HIDE DEF f, P
  <2>5. SumFunction(f) \in Nat BY <2>2, <2>3, <2>4, TotalType
  <2> QED BY <2>5 DEF f, P, Retired
<1>7. Expected(l) \in Nat
  <2>1. Minus(Stock(l), orders[l]) \in Nat BY <1>1, <1>2, MinusType
  <2> QED BY <2>1, <1>4, MinusType DEF Expected
<1>8. Shortfall(l) \in Nat BY <1>1, <1>7, MinusType DEF Shortfall
<1>9. Excess(l) \in Nat
  <2>1. Minus(held[l], Expected(l)) \in Nat BY <1>1, <1>7, MinusType
  <2>2. OpenFrom(l) + OpenTo(l) \in Nat BY <1>4
  <2> QED BY <2>1, <2>2, MinusType DEF Excess
<1>10. Listed(l) \in Nat BY <1>1, <1>2, MinusType DEF Listed
<1>11. Unretired(l) \in Nat BY <1>5, <1>6, MinusType DEF Unretired
<1>12. Evidence(l) \in Nat BY <1>9, <1>10, <1>11 DEF Evidence
<1> QED BY <1>1, <1>2, <1>4, <1>5, <1>6, <1>7, <1>8, <1>9, <1>10, <1>11, <1>12

\* No hangar has too much and too little at once.
LEMMA ShortIsNotOver == TypeOK => Short \cap Over = {}
<1> SUFFICES ASSUME TypeOK, NEW h \in Short \cap Over PROVE FALSE
  OBVIOUS
<1>1. h \in Locations /\ Shortfall(h) > 0 /\ Excess(h) > 0
  BY HangarsAssumption DEF Short, Over
<1>2. /\ held[h] \in Nat /\ Expected(h) \in Nat
      /\ OpenFrom(h) \in Nat /\ OpenTo(h) \in Nat
  BY <1>1, Measures
<1>3. Expected(h) > held[h] BY <1>1, <1>2 DEF Shortfall, Minus
<1>4. Minus(held[h], Expected(h)) = 0 BY <1>2, <1>3 DEF Minus
<1>5. Excess(h) = 0 BY <1>2, <1>4 DEF Excess, Minus
<1> QED BY <1>1, <1>5

\* Every pair takes from a short hangar, behind its standing flag, no more than is
\* missing there.
LEMMA PairsAre ==
    ASSUME TypeOK
    PROVE  /\ IsFiniteSet(MovePairs)
           /\ \A p \in MovePairs :
                /\ p.origin \in Short /\ p.destination \in Locations \ Short
                /\ p.event = StandingFlag(p.origin)
                /\ p.qty \in Nat /\ p.qty <= Shortfall(p.origin)
                /\ p.qty_listed \in Nat /\ p.qty_sold \in Nat
                /\ Counted(p) \in Nat /\ p.qty = Counted(p) + p.qty_listed + p.qty_sold
                /\ Counted(p) > 0 => p.destination \in Over
<1> DEFINE counted(d) == IF d \in Hangars THEN Excess(d) ELSE 0
           qty(d, o) == Least(Shortfall(o), Evidence(d))
           share(d, o) == Least(counted(d), qty(d, o))
           Ones(d) == {Pair(o, d, qty(d, o), share(d, o), ListedShare(d, qty(d, o) - share(d, o)))
                         : o \in Short}
           Many(d) == {Pair(o, d, Least(Shortfall(o), counted(d)), Least(Shortfall(o), counted(d)), 0)
                         : o \in Short}
           At(d) == IF Cardinality(Short) = 1 THEN Ones(d) ELSE Many(d)
           All == UNION {At(d) : d \in Destinations}
<1>1. MovePairs = {p \in All : Cardinality(Destinations) = 1 /\ p.qty > 0}
  BY DEF MovePairs
<1>2. IsFiniteSet(Short) /\ IsFiniteSet(Destinations)
  BY HangarsAssumption, FS_Subset DEF Short, Destinations
<1>3. \A d \in Destinations : IsFiniteSet(At(d))
  <2> TAKE d \in Destinations
  <2>1. IsFiniteSet(Ones(d))
    <3> DEFINE f == [o \in Short |-> Pair(o, d, qty(d, o), share(d, o), ListedShare(d, qty(d, o) - share(d, o)))]
    <3>1. f \in Surjection(Short, Ones(d)) BY DEF Surjection
    <3> HIDE DEF f, Ones
    <3> QED BY <3>1, <1>2, FS_Surjection
  <2>2. IsFiniteSet(Many(d))
    <3> DEFINE f == [o \in Short |-> Pair(o, d, Least(Shortfall(o), counted(d)), Least(Shortfall(o), counted(d)), 0)]
    <3>1. f \in Surjection(Short, Many(d)) BY DEF Surjection
    <3> HIDE DEF f, Many
    <3> QED BY <3>1, <1>2, FS_Surjection
  <2> QED BY <2>1, <2>2
<1>4. IsFiniteSet(All)
  <2> DEFINE Parts == {At(d) : d \in Destinations}
             f == [d \in Destinations |-> At(d)]
  <2>1. f \in Surjection(Destinations, Parts) BY DEF Surjection
  <2>2. IsFiniteSet(Parts)
    <3> HIDE DEF f, Parts
    <3> QED BY <2>1, <1>2, FS_Surjection
  <2>3. \A P \in Parts : IsFiniteSet(P) BY <1>3
  <2>4. IsFiniteSet(UNION Parts)
    <3> HIDE DEF Parts
    <3> QED BY <2>2, <2>3, FS_UNION
  <2> QED BY <2>4
<1>5. IsFiniteSet(MovePairs)
  <2> HIDE DEF All
  <2> QED BY <1>1, <1>4, FS_Subset
<1>6. ASSUME NEW p \in MovePairs
      PROVE  /\ p.origin \in Short /\ p.destination \in Locations \ Short
             /\ p.event = StandingFlag(p.origin)
             /\ p.qty \in Nat /\ p.qty <= Shortfall(p.origin)
             /\ p.qty_listed \in Nat /\ p.qty_sold \in Nat
             /\ Counted(p) \in Nat /\ p.qty = Counted(p) + p.qty_listed + p.qty_sold
             /\ Counted(p) > 0 => p.destination \in Over
  <2>1. PICK d \in Destinations : p \in At(d) BY <1>1
  <2>2. \E o \in Short : \E q, c, g \in Nat :
           /\ p = Pair(o, d, q, c, g) /\ q <= Shortfall(o) /\ c + g <= q
           /\ c <= counted(d)
    <3>0. d \in Locations BY DEF Destinations
    <3>1. counted(d) \in Nat /\ Evidence(d) \in Nat /\ Listed(d) \in Nat
      BY <3>0, Measures
    <3>2. \A o \in Short : Shortfall(o) \in Nat
      BY HangarsAssumption, Measures DEF Short
    <3>3. CASE Cardinality(Short) = 1
      <4>1. PICK o \in Short :
               p = Pair(o, d, qty(d, o), share(d, o), ListedShare(d, qty(d, o) - share(d, o)))
        BY <2>1, <3>3
      <4> DEFINE q == qty(d, o)
                 c == share(d, o)
                 g == ListedShare(d, q - c)
      <4>2. q \in Nat /\ q <= Shortfall(o) BY <3>1, <3>2, LeastType
      <4>3. c \in Nat /\ c <= q /\ c <= counted(d)
        <5>1. qty(d, o) \in Nat BY <4>2
        <5> HIDE DEF qty, counted
        <5>2. share(d, o) \in Nat /\ share(d, o) <= qty(d, o) /\ share(d, o) <= counted(d)
          BY <5>1, <3>1, LeastType
        <5> QED BY <5>2
      <4>4. g \in Nat /\ g <= q - c
        <5> HIDE DEF q, c
        <5>1. q - c \in Nat BY <4>2, <4>3
        <5> QED BY <5>1, <3>1, LeastType DEF ListedShare
      <4>5. p = Pair(o, d, q, c, g) BY <4>1
      <4> HIDE DEF q, c, g, counted
      <4>6. c + g <= q BY <4>2, <4>3, <4>4
      <4> QED BY <4>2, <4>3, <4>4, <4>5, <4>6
    <3>4. CASE Cardinality(Short) # 1
      <4>1. PICK o \in Short :
               p = Pair(o, d, Least(Shortfall(o), counted(d)), Least(Shortfall(o), counted(d)), 0)
        BY <2>1, <3>4
      <4> DEFINE q == Least(Shortfall(o), counted(d))
      <4>2. q \in Nat /\ q <= Shortfall(o) /\ q <= counted(d)
        <5> HIDE DEF counted
        <5> QED BY <3>1, <3>2, LeastType
      <4>3. p = Pair(o, d, q, q, 0) BY <4>1
      <4> HIDE DEF q, counted
      <4>4. 0 \in Nat /\ q + 0 <= q BY <4>2
      <4> QED BY <4>2, <4>3, <4>4
    <3> QED BY <3>3, <3>4
  <2>3. PICK o \in Short, q \in Nat, c \in Nat, g \in Nat :
           /\ p = Pair(o, d, q, c, g) /\ q <= Shortfall(o) /\ c + g <= q
           /\ c <= counted(d)
    BY <2>2
  <2>4. /\ p.origin = o /\ p.destination = d /\ p.qty = q /\ p.qty_listed = g
        /\ p.qty_sold = q - c - g /\ p.event = StandingFlag(o)
    BY <2>3 DEF Pair
  <2>5. Counted(p) = c BY <2>3, <2>4 DEF Counted
  <2>6. d \in Locations \ Short BY DEF Destinations
  <2>7. c > 0 => d \in Over
    <3>1. Excess(d) \in Nat BY <2>6, Measures
    <3>2. c > 0 => d \in Hangars /\ Excess(d) > 0 BY <2>3, <3>1
    <3> QED BY <3>2 DEF Over
  <2> HIDE DEF counted
  <2> QED BY <2>3, <2>4, <2>5, <2>6, <2>7
<1> QED BY <1>5, <1>6

-----------------------------------------------------------------------------
(* A pass *)

\* A pass decorates the latest event when that already is the flag, and a new one
\* otherwise.
LEMMA StandingIs ==
    ASSUME TypeOK, NEW h \in Locations
    PROVE  LET n == Len(log[h])
               e == Latest(log[h])
           IN  /\ n \in Nat /\ StandingFlag(h) \in 1..(n + 1)
               /\ StandingFlag(h) <= n =>
                    /\ StandingFlag(h) = e /\ log[h][e].kind = "shortfall"
                    /\ log[h][e].qty = Shortfall(h)
               /\ StandingFlag(h) > n /\ e # 0 =>
                    log[h][e].kind # "shortfall" \/ log[h][e].qty # Shortfall(h)
<1> DEFINE n == Len(log[h])
           e == Latest(log[h])
<1>1. log[h] \in Seq(Event) BY DEF TypeOK
<1>2. n \in Nat /\ e \in 0..n BY <1>1, LatestIs
<1>3. LatestAt(h) = e BY LatestAtIs
<1>4. AlreadyLogged(h, "shortfall", Shortfall(h))
        <=> e # 0 /\ log[h][e].kind = "shortfall" /\ log[h][e].qty = Shortfall(h)
  BY <1>3 DEF AlreadyLogged
<1>5. StandingFlag(h) = IF AlreadyLogged(h, "shortfall", Shortfall(h)) THEN e ELSE n + 1
  BY <1>3 DEF StandingFlag
<1> HIDE DEF n, e
<1>6. CASE AlreadyLogged(h, "shortfall", Shortfall(h))
  BY <1>2, <1>4, <1>5, <1>6 DEF n, e
<1>7. CASE ~AlreadyLogged(h, "shortfall", Shortfall(h))
  BY <1>2, <1>4, <1>5, <1>7 DEF n, e
<1> QED BY <1>6, <1>7

\* Withdrawals are logged as annotations.
LEMMA NotesAre ==
    ASSUME TypeOK, NEW ids \in SUBSET DOMAIN moves, NEW l
    PROVE  /\ WithdrawNotes(ids, l) \in Seq(Event)
           /\ \A k \in 1..Len(WithdrawNotes(ids, l)) :
                 WithdrawNotes(ids, l)[k].kind = "move_withdrawn"
<1> DEFINE S == {i \in ids : moves[i].origin = l}
           here == SetToSeq(S)
           notes == [k \in DOMAIN here |-> Entry("move_withdrawn", moves[here[k]].qty, 0)]
<1>1. notes = WithdrawNotes(ids, l) BY DEF WithdrawNotes
<1>2. moves \in Seq(Move) BY DEF TypeOK
<1>3. S \in SUBSET DOMAIN moves OBVIOUS
<1>4. here \in Seq(S)
  <2> HIDE DEF S
  <2>1. IsFiniteSet(S) BY <1>2, <1>3, PlacesFinite
  <2> QED BY <2>1, Listing
<1>5. DOMAIN here = 1..Len(here) /\ Len(here) \in Nat
  <2> HIDE DEF here
  <2> QED BY <1>4
<1>6. \A k \in 1..Len(here) : notes[k] \in Event /\ notes[k].kind = "move_withdrawn"
  <2> TAKE k \in 1..Len(here)
  <2>1. here[k] \in DOMAIN moves
    <3> HIDE DEF here, S
    <3> QED BY <1>3, <1>4
  <2>2. moves[here[k]].qty \in Nat
    <3> HIDE DEF here
    <3>1. moves[here[k]] \in Move BY <2>1, <1>2
    <3> QED BY <3>1 DEF Move
  <2>3. notes[k] = Entry("move_withdrawn", moves[here[k]].qty, 0)
    <3> HIDE DEF here
    <3> QED BY <1>5
  <2> HIDE DEF notes, here
  <2> QED BY <2>2, <2>3 DEF Entry, Event, AnnotationKinds
<1>7. notes \in [1..Len(here) -> Event]
  <2> HIDE DEF here
  <2> QED BY <1>5, <1>6
<1>8. notes \in Seq(Event) /\ Len(notes) = Len(here)
  <2> HIDE DEF notes, here
  <2> QED BY <1>5, <1>7
<1> HIDE DEF notes, here
<1> QED BY <1>1, <1>6, <1>8

LEMMA StatusSet ==
    ASSUME NEW rows \in Seq(Move), NEW ids,
           NEW status \in {"pending", "confirmed", "dismissed", "withdrawn"}
    PROVE  LET r == SetStatus(rows, ids, status)
           IN  /\ r \in Seq(Move) /\ Len(r) = Len(rows) /\ DOMAIN r = DOMAIN rows
               /\ \A i \in 1..Len(rows) :
                    /\ r[i].origin = rows[i].origin /\ r[i].destination = rows[i].destination
                    /\ r[i].event = rows[i].event /\ r[i].qty = rows[i].qty
                    /\ r[i].lot = rows[i].lot /\ (Whole(rows[i]) => Whole(r[i]))
                    /\ r[i].qty_retired = rows[i].qty_retired
                    /\ r[i].status = IF i \in ids THEN status ELSE rows[i].status
<1> DEFINE r == SetStatus(rows, ids, status)
<1>1. r = [i \in 1..Len(rows) |-> IF i \in ids THEN [rows[i] EXCEPT !.status = status]
                                               ELSE rows[i]]
  BY DEF SetStatus
<1>2. ASSUME NEW i \in 1..Len(rows)
      PROVE  /\ r[i] \in Move
             /\ r[i].origin = rows[i].origin /\ r[i].destination = rows[i].destination
             /\ r[i].event = rows[i].event /\ r[i].qty = rows[i].qty
             /\ r[i].lot = rows[i].lot /\ (Whole(rows[i]) => Whole(r[i]))
             /\ r[i].qty_retired = rows[i].qty_retired
             /\ r[i].status = IF i \in ids THEN status ELSE rows[i].status
  <2>1. rows[i] \in Move OBVIOUS
  <2>2. r[i] = IF i \in ids THEN [rows[i] EXCEPT !.status = status] ELSE rows[i] BY <1>1
  <2> HIDE DEF r
  <2> QED BY <2>1, <2>2 DEF Move, Whole
<1>3. r \in [1..Len(rows) -> Move] BY <1>1, <1>2
<1>4. r \in Seq(Move) /\ Len(r) = Len(rows) /\ DOMAIN r = DOMAIN rows
  <2> HIDE DEF r
  <2>1. Len(rows) \in Nat OBVIOUS
  <2> QED BY <2>1, <1>3
<1> HIDE DEF r
<1> QED BY <1>2, <1>4 DEF r

\* A row entered for stock of unknown origin.
DeemedOf(lot) == lot.cost_is_estimated /\ lot.type = Item

\* What a pass does: found stock enters at hangars that have too much, a short hangar
\* gets a flag unless one stands, suggestions are withdrawn and others proposed.
PassShape ==
    /\ lots' \in Seq(Lot) /\ Len(lots) <= Len(lots')
    /\ \A l \in 1..Len(lots) : lots'[l] = lots[l]
    /\ \A l \in 1..Len(lots') : l > Len(lots) => DeemedOf(lots'[l])
    /\ \A h \in Locations \ Over : Idle(lots', Item, h) = Stock(h)
    /\ LogGrows
    /\ \A h \in Locations : \A k \in 1..Len(log'[h]) :
          /\ k > Len(log[h]) /\ log'[h][k].kind = "shortfall"
          => /\ k = Len(log[h]) + 1 /\ h \in Short /\ StandingFlag(h) = k
             /\ log'[h][k].qty = Shortfall(h)
    /\ \A h \in Short :
          /\ StandingFlag(h) \in 1..Len(log'[h]) /\ Latest(log'[h]) = StandingFlag(h)
          /\ log'[h][StandingFlag(h)].kind = "shortfall"
          /\ log'[h][StandingFlag(h)].qty = Shortfall(h)
    /\ moves' \in Seq(Move) /\ Len(moves) <= Len(moves')
    /\ \A i \in 1..Len(moves) :
          /\ moves'[i].origin = moves[i].origin /\ moves'[i].destination = moves[i].destination
          /\ moves'[i].event = moves[i].event /\ moves'[i].qty = moves[i].qty
          /\ moves'[i].lot = moves[i].lot /\ (Whole(moves[i]) => Whole(moves'[i]))
          /\ moves'[i].qty_retired = moves[i].qty_retired
          /\ moves'[i].status = IF i \in Withdrawn THEN "withdrawn" ELSE moves[i].status
    /\ \A i \in 1..Len(moves') : i > Len(moves) =>
          /\ moves'[i].lot \in 0..Len(lots') /\ Whole(moves'[i])
          /\ moves'[i].lot # 0 => moves'[i].lot > Len(lots)
          /\ moves'[i].qty_retired = 0
          /\ \E p \in MovePairs :
                /\ ~DismissedExists(p)
                /\ moves'[i].origin = p.origin /\ moves'[i].destination = p.destination
                /\ moves'[i].qty = p.qty /\ moves'[i].event = p.event

LEMMA PassLots ==
    ASSUME TypeOK, NEW price \in Prices, NEW booked,
           booked = SetToSeq(IF price = NoPrice THEN {} ELSE Over),
           lots' = lots \o [i \in DOMAIN booked |-> Found(booked[i], price)]
    PROVE  /\ lots' \in Seq(Lot) /\ Len(lots') = Len(lots) + Len(booked)
           /\ Len(booked) \in Nat /\ Len(lots) \in Nat /\ DOMAIN booked = 1..Len(booked)
           /\ \A l \in 1..Len(lots) : lots'[l] = lots[l]
           /\ \A l \in 1..Len(lots') : l > Len(lots) => DeemedOf(lots'[l])
           /\ \A h \in Locations \ Over : Idle(lots', Item, h) = Stock(h)
<1> DEFINE S == IF price = NoPrice THEN {} ELSE Over
           new == [i \in DOMAIN booked |-> Found(booked[i], price)]
<1>1. IsFiniteSet(S) /\ S \subseteq Over /\ S \subseteq Locations
  BY HangarsAssumption, FS_Subset, FS_EmptySet DEF Over
<1>2. booked \in Seq(S)
  <2> HIDE DEF S
  <2> QED BY <1>1, Listing DEF S
<1>3. DOMAIN booked = 1..Len(booked) /\ Len(booked) \in Nat BY <1>2
<1>4. lots \in Seq(Lot) /\ Len(lots) \in Nat BY DEF TypeOK
<1>5. ASSUME NEW i \in 1..Len(booked)
      PROVE  new[i] \in Lot /\ new[i].location \in Over /\ DeemedOf(new[i])
  <2>1. booked[i] \in S
    <3> HIDE DEF S
    <3> QED BY <1>2
  <2>2. price \in Nat /\ booked[i] \in Locations /\ booked[i] \in Over
    BY <2>1, <1>1, HangarsAssumption
  <2>3. Excess(booked[i]) \in Nat BY <2>2, Measures
  <2>4. Len(lots) + 1 \in Nat BY <1>4
  <2>5. new[i] = Found(booked[i], price) BY <1>3
  <2> HIDE DEF new
  <2> DEFINE h == booked[i]
             q == Excess(h)
             n == Len(lots) + 1
  <2>6. /\ Found(booked[i], price) \in Lot
        /\ Found(booked[i], price).location = booked[i]
        /\ DeemedOf(Found(booked[i], price))
    <3>1. h \in Locations /\ q \in Nat /\ n \in Nat /\ price \in Nat BY <2>2, <2>3, <2>4
    <3>2. Found(h, price) = NewLot(Item, h, q, price, n, "opening_balance", 0, TRUE) BY DEF Found
    <3> HIDE DEF h, q, n
    <3>3. PICK lot : lot = NewLot(Item, h, q, price, n, "opening_balance", 0, TRUE) OBVIOUS
    <3>5. /\ lot \in Lot /\ lot.location = h /\ lot.type = Item /\ lot.cost_is_estimated
      BY <3>1, <3>3, HangarsAssumption DEF NewLot, Lot, Sources
    <3>4. /\ Found(h, price) \in Lot /\ Found(h, price).location = h
          /\ DeemedOf(Found(h, price))
      BY <3>2, <3>3, <3>5 DEF DeemedOf
    <3> QED BY <3>4 DEF h
  <2> QED BY <2>2, <2>5, <2>6
<1>6. new \in [1..Len(booked) -> Lot] BY <1>3, <1>5
<1>7. new \in Seq(Lot) /\ Len(new) = Len(booked)
  <2> HIDE DEF new
  <2> QED BY <1>3, <1>6
<1>8. lots' = lots \o new OBVIOUS
<1> HIDE DEF new
<1>9. lots' \in Seq(Lot) /\ Len(lots') = Len(lots) + Len(booked)
  <2> DEFINE r == lots'
  <2>1. r = lots \o new BY <1>8
  <2> HIDE DEF r
  <2>3. lots \in Seq(Lot) /\ new \in Seq(Lot) BY <1>4, <1>7
  <2>4. r \in Seq(Lot) BY <2>3, <2>1, Concat
  <2>5. Len(r) = Len(lots) + Len(new) BY <2>3, <2>1, Concat
  <2>2. r \in Seq(Lot) /\ Len(r) = Len(lots) + Len(new) BY <2>4, <2>5
  <2> QED BY <2>2, <1>7 DEF r
<1>11. /\ \A l \in 1..Len(lots) : lots'[l] = lots[l]
       /\ \A l \in 1..Len(lots') : l > Len(lots) => DeemedOf(lots'[l])
  <2>1. PICK r, s, t : r = lots' /\ s = lots /\ t = new OBVIOUS
  <2>2. s \in Seq(Lot) /\ t \in Seq(Lot) /\ r = s \o t BY <2>1, <1>4, <1>7, <1>8
  <2>3. \A k \in 1..Len(t) : DeemedOf(t[k]) BY <1>5, <1>7, <2>1
  <2>4. \A k \in 1..Len(s) : r[k] = s[k] BY <2>2, Concat
  <2>5. \A k \in 1..Len(r) : k > Len(s) =>
           k - Len(s) \in 1..Len(t) /\ r[k] = t[k - Len(s)]
    BY <2>2, Concat
  <2>6. \A k \in 1..Len(r) : k > Len(s) => DeemedOf(r[k]) BY <2>3, <2>5
  <2> QED BY <2>1, <2>4, <2>6
<1>10. ASSUME NEW h \in Locations \ Over PROVE Idle(lots', Item, h) = Stock(h)
  <2>1. PICK r : r = lots' OBVIOUS
  <2>2. PICK s : s = lots OBVIOUS
  <2>3. PICK t : t = new OBVIOUS
  <2>4. s \in Seq(Lot) /\ t \in Seq(Lot) /\ r = s \o t BY <2>1, <2>2, <2>3, <1>4, <1>7, <1>8
  <2>5. \A k \in 1..Len(t) : t[k].location # h BY <1>5, <1>7, <2>3
  <2>6. Len(s) <= Len(r) /\ r \in Seq(Lot) BY <2>4, Concat
  <2>7. \A k \in 1..Len(s) : r[k] = s[k] BY <2>4, Concat
  <2>8. \A k \in 1..Len(r) : k > Len(s) =>
           k - Len(s) \in 1..Len(t) /\ r[k] = t[k - Len(s)]
    BY <2>4, Concat
  <2>9. \A k \in 1..Len(r) : k > Len(s) => r[k].location # h BY <2>5, <2>8
  <2>10. Idle(r, Item, h) = Idle(s, Item, h) BY <2>4, <2>6, <2>7, <2>9, IdleAppended
  <2> QED BY <2>1, <2>2, <2>10 DEF Stock
<1> QED BY <1>3, <1>4, <1>9, <1>10, <1>11

\* What a pass observes at a place: at most one event, and a shortfall flag only where a
\* short hangar has none standing.
Observation(obs, l) ==
    /\ obs \in Seq(Event) /\ Len(obs) <= 1
    /\ Len(obs) = 1 /\ obs[1].kind = "shortfall" =>
          l \in Short /\ StandingFlag(l) = Len(log[l]) + 1 /\ obs[1].qty = Shortfall(l)
    /\ l \in Short => IF StandingFlag(l) > Len(log[l])
                      THEN Len(obs) = 1 /\ obs[1].kind = "shortfall"
                      ELSE obs = <<>>

LEMMA PassLog ==
    ASSUME TypeOK, NEW l \in Locations, NEW obs, Observation(obs, l), NEW notes \in Seq(Event),
           \A k \in 1..Len(notes) : notes[k].kind = "move_withdrawn",
           log'[l] = log[l] \o (obs \o notes)
    PROVE  /\ \A k \in 1..Len(log'[l]) :
                /\ k > Len(log[l]) /\ log'[l][k].kind = "shortfall"
                => /\ k = Len(log[l]) + 1 /\ l \in Short /\ StandingFlag(l) = k
                   /\ log'[l][k].qty = Shortfall(l)
           /\ l \in Short =>
                /\ StandingFlag(l) \in 1..Len(log'[l]) /\ Latest(log'[l]) = StandingFlag(l)
                /\ log'[l][StandingFlag(l)].kind = "shortfall"
                /\ log'[l][StandingFlag(l)].qty = Shortfall(l)
<1>1. PICK old : old = log[l] OBVIOUS
<1>2. PICK new : new = log'[l] OBVIOUS
<1>3. PICK add : add = obs \o notes OBVIOUS
<1>4. PICK flag : flag = StandingFlag(l) OBVIOUS
<1>5. PICK lack : lack = Shortfall(l) OBVIOUS
<1>6. old \in Seq(Event) /\ obs \in Seq(Event) /\ new = old \o add
  BY <1>1, <1>2, <1>3 DEF TypeOK, Observation
<1>7. add \in Seq(Event) BY <1>3, <1>6, Concat
<1>8. /\ Len(old) \in Nat /\ Len(obs) \in {0, 1} /\ Len(notes) \in Nat /\ new \in Seq(Event)
  <2>1. Len(old) \in Nat /\ new \in Seq(Event) BY <1>6, <1>7, Concat
  <2>2. Len(obs) \in Nat /\ Len(notes) \in Nat BY <1>6, Concat
  <2>3. Len(obs) <= 1 BY DEF Observation
  <2>4. Len(obs) \in {0, 1}
    <3>1. PICK n : n = Len(obs) OBVIOUS
    <3>2. n \in Nat /\ n <= 1 BY <2>2, <2>3, <3>1
    <3>3. n \in {0, 1} BY <3>2
    <3> QED BY <3>1, <3>3
  <2> QED BY <2>1, <2>2, <2>4
<1>9. Len(new) = Len(old) + Len(obs) + Len(notes)
  <2>1. Len(new) = Len(old) + Len(add) BY <1>6, <1>7, Concat
  <2>2. Len(add) = Len(obs) + Len(notes) BY <1>3, <1>6, Concat
  <2> QED BY <2>1, <2>2, <1>8
<1>10. \A k \in 1..Len(old) : new[k] = old[k] BY <1>6, <1>7, Concat
<1>11. \A k \in 1..Len(new) : k > Len(old) =>
          k - Len(old) \in 1..Len(add) /\ new[k] = add[k - Len(old)]
  BY <1>6, <1>7, Concat
<1>12. \A k \in 1..Len(add) : k > Len(obs) =>
          k - Len(obs) \in 1..Len(notes) /\ add[k] = notes[k - Len(obs)]
  BY <1>3, <1>6, Concat
<1>13. \A k \in 1..Len(obs) : add[k] = obs[k] BY <1>3, <1>6, Concat
<1>14. \A k \in 1..Len(new) : k > Len(old) + Len(obs) => new[k].kind = "move_withdrawn"
  <2> SUFFICES ASSUME NEW k \in 1..Len(new), k > Len(old) + Len(obs)
               PROVE  new[k].kind = "move_withdrawn"
    OBVIOUS
  <2>0. k > Len(old) BY <1>8
  <2>1. k - Len(old) \in 1..Len(add) /\ new[k] = add[k - Len(old)] BY <1>11, <2>0
  <2>2. k - Len(old) > Len(obs) BY <1>8
  <2>3. PICK j \in 1..Len(notes) : add[k - Len(old)] = notes[j] BY <1>12, <2>1, <2>2
  <2> QED BY <2>1, <2>3
<1>15. Len(obs) = 1 => Len(old) + 1 \in 1..Len(new) /\ new[Len(old) + 1] = obs[1]
  <2> SUFFICES ASSUME Len(obs) = 1
               PROVE  Len(old) + 1 \in 1..Len(new) /\ new[Len(old) + 1] = obs[1]
    OBVIOUS
  <2>1. Len(old) + 1 \in 1..Len(new) /\ Len(old) + 1 > Len(old) /\ (Len(old) + 1) - Len(old) = 1
    BY <1>8, <1>9
  <2>2. new[Len(old) + 1] = add[1] BY <1>11, <2>1
  <2> QED BY <2>1, <2>2, <1>13
<1>16. /\ Len(obs) = 1 /\ obs[1].kind = "shortfall" =>
             l \in Short /\ flag = Len(old) + 1 /\ obs[1].qty = lack
       /\ l \in Short => IF flag > Len(old)
                         THEN Len(obs) = 1 /\ obs[1].kind = "shortfall"
                         ELSE obs = <<>>
  BY <1>1, <1>4, <1>5 DEF Observation
<1>17. ASSUME NEW k \in 1..Len(new), k > Len(old), new[k].kind = "shortfall"
       PROVE  k = Len(old) + 1 /\ l \in Short /\ flag = k /\ new[k].qty = lack
  <2>1. ~ (k > Len(old) + Len(obs)) BY <1>14, <1>17
  <2>2. k \in Nat /\ Len(new) \in Nat BY <1>8
  <2>3. Len(obs) # 0 BY <2>1, <2>2, <1>8, <1>17
  <2>4. Len(obs) = 1 BY <2>3, <1>8
  <2>5. k = Len(old) + 1 BY <2>1, <2>2, <2>4, <1>8, <1>17
  <2> QED BY <2>4, <2>5, <1>15, <1>16, <1>17
<1>18. ASSUME l \in Short
       PROVE  /\ flag \in 1..Len(new) /\ Latest(new) = flag
              /\ new[flag].kind = "shortfall" /\ new[flag].qty = lack
  <2>1. /\ flag \in 1..(Len(old) + 1)
        /\ flag <= Len(old) => /\ flag = Latest(old) /\ old[flag].kind = "shortfall"
                               /\ old[flag].qty = lack
    BY <1>1, <1>4, <1>5, StandingIs
  <2>2. flag \in 1..Len(new) /\ new[flag].kind = "shortfall" /\ new[flag].qty = lack
    <3>1. CASE flag > Len(old)
      <4>1. flag = Len(old) + 1 /\ Len(obs) = 1 BY <1>8, <1>16, <1>18, <2>1, <3>1
      <4> QED BY <4>1, <1>15, <1>16, <1>18, <3>1
    <3>2. CASE flag <= Len(old) BY <1>8, <1>9, <1>10, <2>1, <3>2
    <3> QED BY <3>1, <3>2, <2>1, <1>8
  <2>3. \A k \in 1..Len(new) : k > flag => new[k].kind \in AnnotationKinds
    <3> SUFFICES ASSUME NEW k \in 1..Len(new), k > flag PROVE new[k].kind \in AnnotationKinds
      OBVIOUS
    <3>1. CASE k > Len(old) + Len(obs) BY <3>1, <1>14 DEF AnnotationKinds
    <3>2. CASE ~ (k > Len(old) + Len(obs))
      <4>1. ~ (flag > Len(old)) /\ obs = <<>> BY <3>2, <2>1, <1>8, <1>16, <1>18
      <4>2. flag <= Len(old) /\ k \in 1..Len(old) BY <4>1, <3>2, <2>1, <1>8
      <4>3. old[k].kind \in AnnotationKinds BY <4>2, <2>1, <1>6, LatestIs
      <4> QED BY <4>2, <4>3, <1>10
    <3> QED BY <3>1, <3>2
  <2>4. new[flag].kind \notin AnnotationKinds BY <2>2 DEF AnnotationKinds
  <2>5. Latest(new) = flag BY <2>2, <2>3, <2>4, <1>8, LatestUnique
  <2> QED BY <2>2, <2>5
<1> QED BY <1>1, <1>2, <1>4, <1>5, <1>17, <1>18

LEMMA SuggestionType ==
    ASSUME TypeOK, NEW p \in MovePairs, NEW lot \in Nat
    PROVE  LET m == Suggestion(p, lot)
           IN  /\ m \in Move /\ m.lot \in {0, lot} /\ Whole(m) /\ m.qty_retired = 0
               /\ m.origin = p.origin /\ m.destination = p.destination
               /\ m.qty = p.qty /\ m.event = p.event
<1>1. /\ p.origin \in Locations /\ p.destination \in Locations
      /\ p.qty \in Nat /\ p.qty_listed \in Nat /\ p.qty_sold \in Nat
      /\ p.event = StandingFlag(p.origin)
  BY PairsAre, HangarsAssumption DEF Short
<1>2. p.event \in Nat
  <2>1. PICK o : o = p.origin OBVIOUS
  <2>2. Len(log[o]) \in Nat /\ StandingFlag(o) \in 1..(Len(log[o]) + 1) BY <1>1, <2>1, StandingIs
  <2> QED BY <1>1, <2>1, <2>2
<1>3. Suggestion(p, lot).lot \in {0, lot} BY DEF Suggestion
<1>4. Suggestion(p, lot).lot \in Nat BY <1>3
<1>5. Whole(Suggestion(p, lot))
  <2>1. p.qty_listed + p.qty_sold <= p.qty BY <1>1, PairsAre
  <2> QED BY <2>1 DEF Suggestion, Whole
<1> QED BY <1>1, <1>2, <1>3, <1>4, <1>5 DEF Suggestion, Move

LEMMA PassIs ==
    ASSUME TypeOK, NEW price \in Prices, ReconcileHangars(price)
    PROVE  PassShape
<1> DEFINE booked == SetToSeq(IF price = NoPrice THEN {} ELSE Over)
           lotOf(h) == IF \E i \in DOMAIN booked : booked[i] = h
                       THEN Len(lots) + (CHOOSE i \in DOMAIN booked : booked[i] = h) ELSE 0
           unpriced(h) == /\ AlreadyLogged(h, "excess", Excess(h))
                          /\ log[h][LatestAt(h)].lot = 0
           observed(h) ==
             CASE h \in Over /\ (lotOf(h) # 0 \/ ~unpriced(h)) ->
                     <<Entry("excess", Excess(h), lotOf(h))>>
               [] h \in Short /\ StandingFlag(h) > Len(log[h]) ->
                     <<Entry("shortfall", Shortfall(h), 0)>>
               [] OTHER -> <<>>
           wanted == {p \in MovePairs :
                        /\ Counted(p) > 0 => lotOf(p.destination) # 0
                        /\ ~PendingExists(p) /\ ~DismissedExists(p)}
           proposed == SetToSeq(wanted)
           added == [l \in Locations |-> observed(l) \o WithdrawNotes(Withdrawn, l)]
           kept == SetStatus(moves, Withdrawn, "withdrawn")
           new == [k \in DOMAIN proposed |-> Suggestion(proposed[k], lotOf(proposed[k].destination))]
<1>1. /\ lots' = lots \o [i \in DOMAIN booked |-> Found(booked[i], price)]
      /\ log' = [l \in Locations |-> log[l] \o added[l]]
      /\ moves' = kept \o new
  BY Zenon DEF ReconcileHangars, Logged
<1>2. /\ lots' \in Seq(Lot) /\ Len(lots') = Len(lots) + Len(booked)
      /\ Len(booked) \in Nat /\ Len(lots) \in Nat /\ DOMAIN booked = 1..Len(booked)
      /\ \A l \in 1..Len(lots) : lots'[l] = lots[l]
      /\ \A l \in 1..Len(lots') : l > Len(lots) => DeemedOf(lots'[l])
      /\ \A h \in Locations \ Over : Idle(lots', Item, h) = Stock(h)
  <2>1. lots' = lots \o [i \in DOMAIN booked |-> Found(booked[i], price)] BY <1>1
  <2> HIDE DEF booked
  <2> QED BY <2>1, PassLots, Zenon DEF booked
<1>3. ASSUME NEW h PROVE lotOf(h) \in 0..Len(lots') /\ (lotOf(h) # 0 => lotOf(h) > Len(lots))
  <2>1. CASE \E i \in DOMAIN booked : booked[i] = h
    <3> DEFINE i == CHOOSE i \in DOMAIN booked : booked[i] = h
    <3>1. i \in DOMAIN booked BY <2>1
    <3>2. lotOf(h) = Len(lots) + i BY <2>1
    <3> HIDE DEF i, booked, lotOf
    <3>3. i \in 1..Len(booked) BY <3>1, <1>2
    <3> QED BY <3>2, <3>3, <1>2
  <2>2. CASE ~ \E i \in DOMAIN booked : booked[i] = h
    <3>1. lotOf(h) = 0 BY <2>2
    <3> HIDE DEF booked, lotOf
    <3> QED BY <3>1, <1>2
  <2> QED BY <2>1, <2>2
<1>4. ASSUME NEW l \in Locations PROVE Observation(observed(l), l)
  <2>1. Excess(l) \in Nat /\ Shortfall(l) \in Nat BY Measures
  <2>2. lotOf(l) \in Nat BY <1>2, <1>3
  <2>3. ~ (l \in Short /\ l \in Over) BY ShortIsNotOver
  <2>4. l \in Short => /\ Len(log[l]) \in Nat /\ StandingFlag(l) \in 1..(Len(log[l]) + 1)
    BY StandingIs
  <2>5. CASE l \in Over /\ (lotOf(l) # 0 \/ ~unpriced(l))
    <3>1. observed(l) = <<Entry("excess", Excess(l), lotOf(l))>> BY <2>3, <2>5
    <3> HIDE DEF observed, lotOf, unpriced
    <3>2. Entry("excess", Excess(l), lotOf(l)) \in Event
      BY <2>1, <2>2 DEF Entry, Event, SlotKinds
    <3>3. Entry("excess", Excess(l), lotOf(l)).kind = "excess" BY DEF Entry
    <3> QED BY <3>1, <3>2, <3>3, <2>3, <2>5 DEF Observation
  <2>6. CASE l \in Short /\ StandingFlag(l) > Len(log[l])
    <3>1. observed(l) = <<Entry("shortfall", Shortfall(l), 0)>> BY <2>3, <2>6
    <3> HIDE DEF observed
    <3>2. Entry("shortfall", Shortfall(l), 0) \in Event
      BY <2>1 DEF Entry, Event, SlotKinds
    <3>3. /\ Entry("shortfall", Shortfall(l), 0).kind = "shortfall"
          /\ Entry("shortfall", Shortfall(l), 0).qty = Shortfall(l)
      BY DEF Entry
    <3>4. StandingFlag(l) = Len(log[l]) + 1 BY <2>4, <2>6
    <3> QED BY <3>1, <3>2, <3>3, <3>4, <2>6 DEF Observation
  <2>7. CASE /\ ~ (l \in Over /\ (lotOf(l) # 0 \/ ~unpriced(l)))
             /\ ~ (l \in Short /\ StandingFlag(l) > Len(log[l]))
    <3>1. observed(l) = <<>> BY <2>7
    <3> HIDE DEF observed
    <3> QED BY <3>1, <2>7 DEF Observation
  <2> QED BY <2>5, <2>6, <2>7
<1>5. Withdrawn \in SUBSET DOMAIN moves BY DEF Withdrawn, Pending
<1>6. ASSUME NEW l \in Locations
      PROVE  /\ observed(l) \in Seq(Event)
             /\ WithdrawNotes(Withdrawn, l) \in Seq(Event)
             /\ \A k \in 1..Len(WithdrawNotes(Withdrawn, l)) :
                   WithdrawNotes(Withdrawn, l)[k].kind = "move_withdrawn"
             /\ added[l] \in Seq(Event)
             /\ log'[l] = log[l] \o (observed(l) \o WithdrawNotes(Withdrawn, l))
  <2>1. observed(l) \in Seq(Event)
    <3>1. Observation(observed(l), l) BY <1>4
    <3> HIDE DEF observed
    <3> QED BY <3>1 DEF Observation
  <2>2. /\ WithdrawNotes(Withdrawn, l) \in Seq(Event)
        /\ \A k \in 1..Len(WithdrawNotes(Withdrawn, l)) :
              WithdrawNotes(Withdrawn, l)[k].kind = "move_withdrawn"
    BY <1>5, NotesAre
  <2>3. added[l] = observed(l) \o WithdrawNotes(Withdrawn, l) BY Zenon
  <2>4. log'[l] = log[l] \o added[l]
    <3> HIDE DEF added
    <3> QED BY <1>1
  <2>5. added[l] \in Seq(Event)
    <3> HIDE DEF observed, added
    <3> QED BY <2>1, <2>2, <2>3
  <2> HIDE DEF observed, added
  <2> QED BY <2>1, <2>2, <2>3, <2>4, <2>5
<1>7. LogGrows
  <2>1. Logged(added)
    <3> HIDE DEF added
    <3> QED BY <1>1 DEF Logged
  <2>2. \A l \in Locations : added[l] \in Seq(Event) BY <1>6
  <2> HIDE DEF added
  <2> QED BY <2>1, <2>2, LoggedGrows
<1>8. ASSUME NEW l \in Locations
      PROVE  /\ \A k \in 1..Len(log'[l]) :
                  /\ k > Len(log[l]) /\ log'[l][k].kind = "shortfall"
                  => /\ k = Len(log[l]) + 1 /\ l \in Short /\ StandingFlag(l) = k
                     /\ log'[l][k].qty = Shortfall(l)
             /\ l \in Short =>
                  /\ StandingFlag(l) \in 1..Len(log'[l]) /\ Latest(log'[l]) = StandingFlag(l)
                  /\ log'[l][StandingFlag(l)].kind = "shortfall"
                  /\ log'[l][StandingFlag(l)].qty = Shortfall(l)
  <2> DEFINE obs == observed(l)
             notes == WithdrawNotes(Withdrawn, l)
  <2>1. /\ Observation(obs, l) /\ notes \in Seq(Event)
        /\ \A k \in 1..Len(notes) : notes[k].kind = "move_withdrawn"
        /\ log'[l] = log[l] \o (obs \o notes)
    BY <1>4, <1>6, Zenon
  <2> HIDE DEF obs, notes
  <2> QED BY <2>1, PassLog
<1>9. /\ kept \in Seq(Move) /\ Len(kept) = Len(moves)
      /\ \A i \in 1..Len(moves) :
          /\ kept[i].origin = moves[i].origin /\ kept[i].destination = moves[i].destination
          /\ kept[i].event = moves[i].event /\ kept[i].qty = moves[i].qty
          /\ kept[i].lot = moves[i].lot /\ (Whole(moves[i]) => Whole(kept[i]))
          /\ kept[i].qty_retired = moves[i].qty_retired
          /\ kept[i].status = IF i \in Withdrawn THEN "withdrawn" ELSE moves[i].status
  BY StatusSet DEF TypeOK
<1>10. /\ proposed \in Seq(wanted) /\ DOMAIN proposed = 1..Len(proposed) /\ Len(proposed) \in Nat
  <2>1. IsFiniteSet(wanted)
    <3>1. wanted \in SUBSET MovePairs OBVIOUS
    <3> HIDE DEF wanted
    <3> QED BY <3>1, PairsAre, FS_Subset
  <2> HIDE DEF wanted
  <2>2. proposed \in Seq(wanted) BY <2>1, Listing
  <2> QED BY <2>2
<1>11. ASSUME NEW k \in 1..Len(proposed)
       PROVE  /\ new[k] \in Move /\ new[k].lot \in 0..Len(lots') /\ Whole(new[k])
              /\ new[k].lot # 0 => new[k].lot > Len(lots)
              /\ new[k].qty_retired = 0
              /\ \E p \in MovePairs :
                    /\ ~DismissedExists(p)
                    /\ new[k].origin = p.origin /\ new[k].destination = p.destination
                    /\ new[k].qty = p.qty /\ new[k].event = p.event
  <2>1. PICK p : p = proposed[k] OBVIOUS
  <2>2. p \in wanted
    <3> HIDE DEF wanted, proposed
    <3> QED BY <2>1, <1>10
  <2>3. p \in MovePairs /\ ~DismissedExists(p)
    <3> HIDE DEF lotOf
    <3> QED BY <2>2
  <2>4. PICK lot : lot = lotOf(p.destination) OBVIOUS
  <2>5. lot \in 0..Len(lots') /\ (lot # 0 => lot > Len(lots))
    <3> HIDE DEF lotOf
    <3> QED BY <2>4, <1>3
  <2>6. new[k] = Suggestion(p, lot)
    <3> HIDE DEF proposed, lotOf
    <3> QED BY <2>1, <2>4, <1>10
  <2> HIDE DEF new, lotOf, proposed, wanted, booked
  <2>7. lot \in Nat /\ 0 \in 0..Len(lots') BY <2>5, <1>2
  <2>8. /\ new[k] \in Move /\ new[k].lot \in {0, lot} /\ Whole(new[k])
        /\ new[k].qty_retired = 0
        /\ new[k].origin = p.origin /\ new[k].destination = p.destination
        /\ new[k].qty = p.qty /\ new[k].event = p.event
    BY <2>3, <2>6, <2>7, SuggestionType
  <2>9. new[k].lot \in 0..Len(lots') BY <2>5, <2>7, <2>8
  <2>10. new[k].lot # 0 => new[k].lot > Len(lots)
    <3>1. new[k].lot \in {0, lot} BY <2>8
    <3> QED BY <3>1, <2>5
  <2>11. \E q \in MovePairs :
           /\ ~DismissedExists(q)
           /\ new[k].origin = q.origin /\ new[k].destination = q.destination
           /\ new[k].qty = q.qty /\ new[k].event = q.event
    BY <2>3, <2>8
  <2> QED BY <2>8, <2>9, <2>10, <2>11
<1>12. new \in Seq(Move) /\ Len(new) = Len(proposed)
  <2> HIDE DEF proposed, lotOf
  <2>1. new \in [1..Len(proposed) -> Move] BY <1>10, <1>11
  <2> HIDE DEF new
  <2> QED BY <2>1, <1>10
<1>13. /\ moves' \in Seq(Move) /\ Len(moves) <= Len(moves')
       /\ \A i \in 1..Len(moves) : moves'[i] = kept[i]
       /\ \A i \in 1..Len(moves') : i > Len(moves) =>
             i - Len(moves) \in 1..Len(proposed) /\ moves'[i] = new[i - Len(moves)]
  <2>1. PICK a : a = kept OBVIOUS
  <2>2. PICK b : b = new OBVIOUS
  <2>3. PICK r : r = moves' OBVIOUS
  <2>4. a \in Seq(Move) /\ b \in Seq(Move) /\ r = a \o b
    <3> HIDE DEF kept, new
    <3> QED BY <2>1, <2>2, <2>3, <1>1, <1>9, <1>12
  <2>5. r \in Seq(Move) /\ Len(a) <= Len(r) BY <2>4, Concat
  <2>6. \A i \in 1..Len(a) : r[i] = a[i] BY <2>4, Concat
  <2>7. \A i \in 1..Len(r) : i > Len(a) => i - Len(a) \in 1..Len(b) /\ r[i] = b[i - Len(a)]
    BY <2>4, Concat
  <2>8. Len(a) = Len(moves) /\ Len(b) = Len(proposed)
    <3> HIDE DEF kept, new, proposed
    <3> QED BY <2>1, <2>2, <1>9, <1>12
  <2> HIDE DEF kept, new, proposed
  <2> QED BY <2>1, <2>2, <2>3, <2>5, <2>6, <2>7, <2>8
<1> HIDE DEF booked, lotOf, unpriced, observed, wanted, proposed, added, kept, new
<1>14. /\ lots' \in Seq(Lot) /\ Len(lots) <= Len(lots')
       /\ \A l \in 1..Len(lots) : lots'[l] = lots[l]
       /\ \A l \in 1..Len(lots') : l > Len(lots) => DeemedOf(lots'[l])
       /\ \A h \in Locations \ Over : Idle(lots', Item, h) = Stock(h)
  BY <1>2
<1>15. Short \subseteq Locations BY HangarsAssumption DEF Short
<1>16. \A i \in 1..Len(moves) :
          /\ moves'[i].origin = moves[i].origin /\ moves'[i].destination = moves[i].destination
          /\ moves'[i].event = moves[i].event /\ moves'[i].qty = moves[i].qty
          /\ moves'[i].lot = moves[i].lot /\ (Whole(moves[i]) => Whole(moves'[i]))
          /\ moves'[i].qty_retired = moves[i].qty_retired
          /\ moves'[i].status = IF i \in Withdrawn THEN "withdrawn" ELSE moves[i].status
  BY <1>9, <1>13
<1>17. \A i \in 1..Len(moves') : i > Len(moves) =>
          /\ moves'[i].lot \in 0..Len(lots') /\ Whole(moves'[i])
          /\ moves'[i].lot # 0 => moves'[i].lot > Len(lots)
          /\ moves'[i].qty_retired = 0
          /\ \E p \in MovePairs :
                /\ ~DismissedExists(p)
                /\ moves'[i].origin = p.origin /\ moves'[i].destination = p.destination
                /\ moves'[i].qty = p.qty /\ moves'[i].event = p.event
  <2> TAKE i \in 1..Len(moves')
  <2> HAVE i > Len(moves)
  <2>1. PICK k : k = i - Len(moves) OBVIOUS
  <2>2. PICK m : m = moves'[i] OBVIOUS
  <2>3. k \in 1..Len(proposed) /\ m = new[k] BY <1>13, <2>1, <2>2
  <2>4. /\ m.lot \in 0..Len(lots') /\ Whole(m)
        /\ m.lot # 0 => m.lot > Len(lots)
        /\ m.qty_retired = 0
        /\ \E p \in MovePairs :
              /\ ~DismissedExists(p)
              /\ m.origin = p.origin /\ m.destination = p.destination
              /\ m.qty = p.qty /\ m.event = p.event
    BY <2>3, <1>11
  <2> QED BY <2>2, <2>4
<1> QED BY <1>7, <1>8, <1>13, <1>14, <1>15, <1>16, <1>17 DEF PassShape

\* A pass flags what no flag stands for.
LEMMA PassFlagged ==
    ASSUME TypeOK, FlaggedOnce, PassShape
    PROVE  FlaggedOnce'
<1> SUFFICES ASSUME NEW l \in Locations, NEW i \in DOMAIN log'[l], NEW j \in DOMAIN log'[l],
                    i < j,
                    log'[l][i].kind = "shortfall", log'[l][j].kind = "shortfall",
                    log'[l][i].qty = log'[l][j].qty
             PROVE  \E k \in i..j : /\ log'[l][k].kind \notin AnnotationKinds
                                    /\ log'[l][k] # log'[l][i]
  BY DEF FlaggedOnce
<1>1. PICK old : old = log[l] OBVIOUS
<1>2. PICK new : new = log'[l] OBVIOUS
<1>3. /\ old \in Seq(Event) /\ new \in Seq(Event) /\ Len(old) <= Len(new)
      /\ \A k \in 1..Len(old) : new[k] = old[k]
  BY <1>1, <1>2 DEF TypeOK, PassShape, LogGrows
<1>4. /\ Len(old) \in Nat /\ Len(new) \in Nat
      /\ DOMAIN old = 1..Len(old) /\ DOMAIN new = 1..Len(new)
  BY <1>3
<1>5. /\ i \in 1..Len(new) /\ j \in 1..Len(new) /\ i < j
      /\ new[i].kind = "shortfall" /\ new[j].kind = "shortfall" /\ new[i].qty = new[j].qty
  BY <1>2, <1>4
<1>6. \A k \in 1..Len(new) :
         k > Len(old) /\ new[k].kind = "shortfall"
         => /\ k = Len(old) + 1 /\ l \in Short /\ StandingFlag(l) = k
            /\ new[k].qty = Shortfall(l)
  BY <1>1, <1>2 DEF PassShape
<1>7. i \in 1..Len(old) BY <1>3, <1>4, <1>5, <1>6
<1>8. CASE j \in 1..Len(old)
  <2>1. old[i].kind = "shortfall" /\ old[j].kind = "shortfall" /\ old[i].qty = old[j].qty
    BY <1>3, <1>5, <1>7, <1>8
  <2>2. PICK k \in i..j : old[k].kind \notin AnnotationKinds /\ old[k] # old[i]
    BY <1>1, <1>4, <1>5, <1>7, <1>8, <2>1 DEF FlaggedOnce
  <2>3. k \in 1..Len(old) BY <1>7, <1>8
  <2> QED BY <1>2, <1>3, <1>7, <2>2, <2>3
<1>9. CASE j \notin 1..Len(old)
  <2>1. j > Len(old) BY <1>4, <1>5, <1>9
  <2>2. l \in Short /\ StandingFlag(l) = j /\ new[j].qty = Shortfall(l) BY <1>5, <1>6, <2>1
  <2>3. PICK k : k = Latest(old) OBVIOUS
  <2>4. /\ k \in 0..Len(old)
        /\ k # 0 => old[k].kind \notin AnnotationKinds
        /\ \A x \in 1..Len(old) : x > k => old[x].kind \in AnnotationKinds
    BY <1>3, <2>3, LatestIs
  <2>5. old[i].kind = "shortfall" /\ old[i].kind \notin AnnotationKinds
    BY <1>3, <1>5, <1>7 DEF AnnotationKinds
  <2>6. ~ (i > k) BY <1>7, <2>4, <2>5
  <2>7. k \in i..j /\ k # 0 /\ k \in 1..Len(old) BY <1>4, <1>5, <1>7, <2>1, <2>4, <2>6
  <2>8. old[k].kind # "shortfall" \/ old[k].qty # Shortfall(l)
    BY <1>1, <2>1, <2>2, <2>3, <2>7, StandingIs
  <2>9. old[k] # old[i] BY <1>3, <1>5, <1>7, <2>2, <2>5, <2>8
  <2> QED BY <1>2, <1>3, <1>7, <2>4, <2>7, <2>9
<1> QED BY <1>8, <1>9

\* A pass anchors what it proposes.
LEMMA PassAnchored ==
    ASSUME TypeOK, MovesAnchored, PassShape
    PROVE  MovesAnchored'
<1> SUFFICES ASSUME NEW i \in DOMAIN moves'
             PROVE  LET m == moves'[i] IN
                    /\ m.event \in DOMAIN log'[m.origin]
                    /\ log'[m.origin][m.event].kind = "shortfall"
                    /\ m.qty <= log'[m.origin][m.event].qty
                    /\ m.lot \in 0..Len(lots')
                    /\ Whole(m)
  BY DEF MovesAnchored
<1>1. PICK m : m = moves'[i] OBVIOUS
<1>2. moves \in Seq(Move) /\ moves' \in Seq(Move) BY DEF TypeOK, PassShape
<1>3. /\ DOMAIN moves' = 1..Len(moves') /\ DOMAIN moves = 1..Len(moves)
      /\ Len(moves) \in Nat /\ Len(moves') \in Nat /\ m \in Move
  BY <1>1, <1>2
<1>4. Len(lots) \in Nat /\ Len(lots') \in Nat /\ Len(lots) <= Len(lots')
  BY DEF TypeOK, PassShape
<1>5. PICK new : new = log'[m.origin] OBVIOUS
<1>6. m.origin \in Locations BY <1>3 DEF Move
<1>7. new \in Seq(Event) BY <1>5, <1>6 DEF PassShape, LogGrows
<1>8. DOMAIN new = 1..Len(new) BY <1>7
<1>9. CASE i \in 1..Len(moves)
  <2>1. PICK old : old = log[m.origin] OBVIOUS
  <2>2. /\ old \in Seq(Event) /\ Len(old) <= Len(new)
        /\ \A k \in 1..Len(old) : new[k] = old[k]
    BY <1>5, <1>6, <2>1 DEF TypeOK, PassShape, LogGrows
  <2>3. DOMAIN old = 1..Len(old) /\ Len(old) \in Nat /\ Len(new) \in Nat BY <1>7, <2>2
  <2>4. /\ m.origin = moves[i].origin /\ m.event = moves[i].event
        /\ m.qty = moves[i].qty /\ m.lot = moves[i].lot
    BY <1>1, <1>9 DEF PassShape
  <2>5. /\ m.event \in DOMAIN old /\ old[m.event].kind = "shortfall"
        /\ m.qty <= old[m.event].qty /\ m.lot \in 0..Len(lots) /\ Whole(moves[i])
    BY <1>3, <1>9, <2>1, <2>4 DEF MovesAnchored
  <2>6. m.event \in DOMAIN new /\ new[m.event] = old[m.event] BY <1>8, <2>2, <2>3, <2>5
  <2>7. m.lot \in 0..Len(lots') BY <1>4, <2>5
  <2>8. Whole(m) BY <1>1, <1>9, <2>5 DEF PassShape
  <2> QED BY <1>1, <1>5, <2>5, <2>6, <2>7, <2>8
<1>10. CASE i \notin 1..Len(moves)
  <2>1. i > Len(moves) /\ i \in 1..Len(moves') BY <1>3, <1>10
  <2>2. PICK p \in MovePairs : m.origin = p.origin /\ m.qty = p.qty /\ m.event = p.event
    BY <1>1, <2>1 DEF PassShape
  <2>3. m.lot \in 0..Len(lots') /\ Whole(m) BY <1>1, <2>1 DEF PassShape
  <2>4. /\ m.origin \in Short /\ m.event = StandingFlag(m.origin)
        /\ m.qty <= Shortfall(m.origin)
    BY <2>2, PairsAre
  <2>5. /\ m.event \in 1..Len(new) /\ new[m.event].kind = "shortfall"
        /\ new[m.event].qty = Shortfall(m.origin)
    BY <1>5, <2>4 DEF PassShape
  <2> QED BY <1>1, <1>5, <1>8, <2>3, <2>4, <2>5
<1> QED BY <1>9, <1>10

\* q units are missing at h, and the flag at e says so.
Anchored(h, e, q) ==
    h \in Short /\ e = Latest(log[h]) /\ log[h][e].kind = "shortfall" /\ q <= Shortfall(h)

AllAnchored ==
    \A i \in Pending : \A h, e, q :
        h = moves[i].origin /\ e = moves[i].event /\ q = moves[i].qty => Anchored(h, e, q)

LEMMA AnchoredForm == AllAnchored => PendingAnchored
  BY LatestAtIs DEF AllAnchored, Anchored, PendingAnchored

LEMMA AnchoredFormAfter == AllAnchored' => PendingAnchored'
  BY AnchoredForm, PTL

\* After a pass every pending suggestion decorates the standing flag of its origin.
LEMMA PassPending ==
    ASSUME TypeOK, MovesAnchored, PassShape, UNCHANGED <<hauls, orders, held>>
    PROVE  PendingAnchored'
<1> SUFFICES ASSUME NEW i \in Pending', NEW h, NEW e, NEW q,
                    h = moves'[i].origin, e = moves'[i].event, q = moves'[i].qty
             PROVE  Anchored(h, e, q)'
  BY AnchoredFormAfter DEF AllAnchored
<1>1. PICK m : m = moves'[i] OBVIOUS
<1>2. i \in DOMAIN moves' /\ m.status = "pending" BY <1>1 DEF Pending
<1>3. moves \in Seq(Move) /\ moves' \in Seq(Move) BY DEF TypeOK, PassShape
<1>4. /\ DOMAIN moves' = 1..Len(moves') /\ DOMAIN moves = 1..Len(moves)
      /\ Len(moves) \in Nat /\ Len(moves') \in Nat /\ m \in Move
  BY <1>1, <1>2, <1>3
<1>5. /\ m.origin \in Short /\ m.event = StandingFlag(m.origin)
      /\ m.qty <= Shortfall(m.origin)
  <2>1. CASE i \in 1..Len(moves)
    <3>1. /\ m.origin = moves[i].origin /\ m.event = moves[i].event /\ m.qty = moves[i].qty
          /\ m.status = IF i \in Withdrawn THEN "withdrawn" ELSE moves[i].status
      BY <1>1, <2>1 DEF PassShape
    <3>2. i \in Pending /\ i \notin Withdrawn BY <1>2, <1>4, <2>1, <3>1 DEF Pending
    <3>3. ~Stale(moves[i]) BY <3>2 DEF Withdrawn
    <3>4. m.origin \in Short /\ m.event = StandingFlag(m.origin) BY <3>1, <3>3 DEF Stale
    <3>5. PICK old : old = log[m.origin] OBVIOUS
    <3>6. m.origin \in Locations BY <1>4 DEF Move
    <3>7. m.event \in DOMAIN old /\ m.qty <= old[m.event].qty
      BY <1>4, <2>1, <3>1, <3>5 DEF MovesAnchored
    <3>8. old \in Seq(Event) BY <3>5, <3>6 DEF TypeOK
    <3>9. m.event <= Len(old) BY <3>7, <3>8
    <3>10. m.event = Latest(old) /\ old[m.event].qty = Shortfall(m.origin)
      BY <3>4, <3>5, <3>6, <3>9, StandingIs
    <3> QED BY <3>4, <3>7, <3>10
  <2>2. CASE i \notin 1..Len(moves)
    <3>1. i > Len(moves) /\ i \in 1..Len(moves') BY <1>2, <1>4, <2>2
    <3>2. PICK p \in MovePairs : m.origin = p.origin /\ m.qty = p.qty /\ m.event = p.event
      BY <1>1, <3>1 DEF PassShape
    <3> QED BY <3>2, PairsAre
  <2> QED BY <2>1, <2>2
<1>6. h = m.origin /\ e = m.event /\ q = m.qty BY <1>1
<1>7. h \in Short /\ h \in Locations /\ h \notin Over
  BY <1>5, <1>6, ShortIsNotOver, HangarsAssumption DEF Short
<1>8. Shortfall(h)' = Shortfall(h)
  <2>1. Stock(h)' = Stock(h) BY <1>7 DEF PassShape, Stock
  <2>2. OpenFrom(h)' = OpenFrom(h) BY DEF OpenFrom, OpenHauls
  <2>3. orders'[h] = orders[h] /\ held'[h] = held[h] OBVIOUS
  <2>4. Expected(h)' = Expected(h) BY <2>1, <2>2, <2>3 DEF Expected
  <2> QED BY <2>3, <2>4 DEF Shortfall
<1>9. h \in Short' BY <1>7, <1>8 DEF Short
<1>10. Latest(log'[h]) = StandingFlag(h) /\ log'[h][StandingFlag(h)].kind = "shortfall"
  BY <1>7 DEF PassShape
<1>11. e = StandingFlag(h) /\ q <= Shortfall(h) BY <1>5, <1>6
<1> QED BY <1>8, <1>9, <1>10, <1>11 DEF Anchored

\* No pass proposes again what was dismissed before anything new was logged.
LEMMA PassDismissal ==
    ASSUME TypeOK, MovesAnchored, PassShape, FlaggedOnce',
           NEW i \in DOMAIN moves, NEW j \in (DOMAIN moves') \ DOMAIN moves,
           moves[i].status = "dismissed", moves[i].qty = moves'[j].qty,
           moves[i].origin = moves'[j].origin, moves[i].destination = moves'[j].destination
    PROVE  \E k \in (moves[i].event + 1)..Len(log'[moves[i].origin]) :
              /\ log'[moves[i].origin][k].kind \notin AnnotationKinds
              /\ log'[moves[i].origin][k] # log'[moves[i].origin][moves[i].event]
<1>1. PICK m : m = moves[i] OBVIOUS
<1>2. PICK new : new = log'[m.origin] OBVIOUS
<1>3. moves \in Seq(Move) /\ moves' \in Seq(Move) BY DEF TypeOK, PassShape
<1>4. m \in Move /\ m.origin \in Locations
  <2>1. m \in Move BY <1>1, <1>3
  <2> QED BY <2>1 DEF Move
<1>5. j \in 1..Len(moves') /\ j > Len(moves)
  <2>1. Len(moves) \in Nat /\ Len(moves') \in Nat BY <1>3
  <2>2. DOMAIN moves = 1..Len(moves) /\ DOMAIN moves' = 1..Len(moves') BY <1>3
  <2> QED BY <2>1, <2>2
<1>6. PICK p \in MovePairs :
         /\ ~DismissedExists(p)
         /\ moves'[j].origin = p.origin /\ moves'[j].qty = p.qty
  BY <1>5 DEF PassShape
<1>7. p.origin = m.origin /\ p.qty = m.qty BY <1>1, <1>6
<1>8. p.event # m.event BY <1>1, <1>6, <1>7 DEF DismissedExists
<1>9. PICK flag : flag = StandingFlag(m.origin) OBVIOUS
<1>10. m.origin \in Short /\ p.event = flag BY <1>7, <1>9, PairsAre
<1>11. /\ flag \in 1..Len(new) /\ Latest(new) = flag /\ new[flag].kind = "shortfall"
  BY <1>2, <1>9, <1>10 DEF PassShape
<1>12. new \in Seq(Event) /\ DOMAIN new = 1..Len(new) /\ Len(new) \in Nat
  BY <1>2, <1>4 DEF PassShape, LogGrows
<1>13. m.event \in 1..Len(new) /\ new[m.event].kind = "shortfall"
  <2>1. PICK old : old = log[m.origin] OBVIOUS
  <2>2. m.event \in DOMAIN old /\ old[m.event].kind = "shortfall"
    BY <1>1, <2>1 DEF MovesAnchored
  <2>3. /\ old \in Seq(Event) /\ Len(old) <= Len(new)
        /\ \A k \in 1..Len(old) : new[k] = old[k]
    BY <1>2, <1>4, <2>1 DEF TypeOK, PassShape, LogGrows
  <2>4. DOMAIN old = 1..Len(old) /\ Len(old) \in Nat BY <2>3
  <2> QED BY <1>12, <2>2, <2>3, <2>4
<1>14. m.event < flag
  <2>1. \A k \in 1..Len(new) : k > flag => new[k].kind \in AnnotationKinds
    BY <1>11, <1>12, LatestIs
  <2>2. ~ (m.event > flag) BY <1>13, <2>1 DEF AnnotationKinds
  <2> QED BY <1>8, <1>10, <1>11, <1>13, <2>2
<1>15. \E k \in (m.event + 1)..Len(new) :
          new[k].kind \notin AnnotationKinds /\ new[k] # new[m.event]
  <2>1. CASE new[flag] # new[m.event]
    <3>1. flag \in (m.event + 1)..Len(new) BY <1>11, <1>12, <1>13, <1>14
    <3>2. new[flag].kind \notin AnnotationKinds BY <1>11 DEF AnnotationKinds
    <3> QED BY <2>1, <3>1, <3>2
  <2>2. CASE new[flag] = new[m.event]
    <3>1. PICK k \in m.event..flag : new[k].kind \notin AnnotationKinds /\ new[k] # new[m.event]
      BY SMTT(30), <1>2, <1>4, <1>11, <1>12, <1>13, <1>14, <2>2 DEF FlaggedOnce
    <3>2. k \in (m.event + 1)..Len(new) BY <1>11, <1>12, <1>13, <3>1
    <3> QED BY <3>1, <3>2
  <2> QED BY <2>1, <2>2
<1> QED BY <1>1, <1>2, <1>15

-----------------------------------------------------------------------------
(* The other steps *)

\* What every step but a pass leaves: the state is well formed, the log has grown without
\* a new shortfall flag, and no suggestion is new or stands on anything else.
StepShape ==
    /\ TypeOK'
    /\ LogGrows /\ NoNewFlag
    /\ Len(lots) <= Len(lots')
    /\ DOMAIN moves' = DOMAIN moves
    /\ \A i \in DOMAIN moves :
          /\ moves'[i].origin = moves[i].origin /\ moves'[i].event = moves[i].event
          /\ moves'[i].qty = moves[i].qty /\ moves'[i].lot = moves[i].lot
          /\ Whole(moves[i]) => Whole(moves'[i])
    /\ settled' = FALSE

LEMMA StepKeeps ==
    ASSUME IInv, StepShape
    PROVE  IInv' /\ PendingAnchored'
<1>1. FlaggedOnce' BY NoFlagFlaggedOnce DEF IInv, StepShape
<1>2. MovesAnchored'
  <2> SUFFICES ASSUME NEW i \in DOMAIN moves'
               PROVE  LET m == moves'[i] IN
                      /\ m.event \in DOMAIN log'[m.origin]
                      /\ log'[m.origin][m.event].kind = "shortfall"
                      /\ m.qty <= log'[m.origin][m.event].qty
                      /\ m.lot \in 0..Len(lots')
                      /\ Whole(m)
    BY DEF MovesAnchored
  <2>1. PICK m : m = moves[i] OBVIOUS
  <2>2. i \in DOMAIN moves BY DEF StepShape
  <2>3. PICK old : old = log[m.origin] OBVIOUS
  <2>4. PICK new : new = log'[m.origin] OBVIOUS
  <2>5. m.origin \in Locations
    <3>1. m \in Move BY <2>1, <2>2 DEF IInv, TypeOK
    <3> QED BY <3>1 DEF Move
  <2>6. /\ m.event \in DOMAIN old /\ old[m.event].kind = "shortfall"
        /\ m.qty <= old[m.event].qty /\ m.lot \in 0..Len(lots)
        /\ Whole(m)
    BY <2>1, <2>2, <2>3 DEF IInv, MovesAnchored
  <2>7. /\ old \in Seq(Event) /\ new \in Seq(Event) /\ Len(old) <= Len(new)
        /\ \A k \in 1..Len(old) : new[k] = old[k]
    BY <2>3, <2>4, <2>5 DEF IInv, TypeOK, StepShape, LogGrows
  <2>8. /\ DOMAIN old = 1..Len(old) /\ DOMAIN new = 1..Len(new)
        /\ Len(old) \in Nat /\ Len(new) \in Nat
    BY <2>7
  <2>9. m.event \in DOMAIN new /\ new[m.event] = old[m.event] BY <2>6, <2>7, <2>8
  <2>10. m.lot \in 0..Len(lots')
    <3>1. Len(lots) \in Nat /\ Len(lots') \in Nat BY DEF IInv, StepShape, TypeOK
    <3>2. Len(lots) <= Len(lots') BY DEF StepShape
    <3> QED BY <3>1, <3>2, <2>6
  <2>11. /\ moves'[i].origin = m.origin /\ moves'[i].event = m.event
         /\ moves'[i].qty = m.qty /\ moves'[i].lot = m.lot /\ Whole(moves'[i])
    BY <2>1, <2>2, <2>6 DEF StepShape
  <2> QED BY <2>4, <2>6, <2>9, <2>10, <2>11
<1>3. PendingAnchored' BY DEF StepShape, PendingAnchored
<1> QED BY <1>1, <1>2, <1>3 DEF IInv, StepShape

\* The units retired are among the units drawn.
LEMMA RetirementsAre ==
    ASSUME lots \in Seq(Lot), NEW take, DOMAIN take \subseteq 1..Len(lots),
           \A l \in 1..Len(lots) : Taken(take, l) \in 0..lots[l].qty_remaining,
           NEW qty \in Nat, NEW out \in Retirements(take, qty)
    PROVE  /\ Handed(lots, take, out)
           /\ DOMAIN out = Drawn(take) /\ Drawn(take) \subseteq 1..Len(lots)
           /\ \A l \in DOMAIN out : out[l] \in Nat
           /\ SumFunction(out) \in Nat /\ SumFunction(out) <= qty
<1> DEFINE capped == Capped(take)
           drawn == Drawn(take)
<1>1. capped = [l \in 1..Len(lots) |-> [lots[l] EXCEPT !.qty_remaining = Taken(take, l)]]
  BY DEF Capped
<1>2. ASSUME NEW l \in 1..Len(lots)
      PROVE  capped[l] \in Lot /\ capped[l].qty_remaining = Taken(take, l)
  <2>1. lots[l] \in Lot OBVIOUS
  <2>2. Taken(take, l) \in Nat
    <3>1. lots[l].qty_remaining \in Nat BY <2>1 DEF Lot
    <3> QED BY <3>1
  <2>3. capped[l] = [lots[l] EXCEPT !.qty_remaining = Taken(take, l)] BY <1>1
  <2> HIDE DEF capped
  <2> QED BY <2>1, <2>2, <2>3 DEF Lot
<1>3. capped \in [1..Len(lots) -> Lot] BY <1>1, <1>2
<1>4. capped \in Seq(Lot) /\ Len(capped) = Len(lots)
  <2> HIDE DEF capped
  <2>1. Len(lots) \in Nat OBVIOUS
  <2> QED BY <1>3, <2>1
<1>5. drawn \in SUBSET (1..Len(lots)) BY DEF Drawn
<1>6. PICK x \in FifoPlans(capped, drawn, qty) : out = x.take BY DEF Retirements
<1> HIDE DEF capped, drawn
<1>7. /\ x.take \in [drawn -> Nat]
      /\ x.shortfall \in 0..qty /\ SumFunction(x.take) + x.shortfall = qty
      /\ \A l \in 1..Len(capped) : Taken(x.take, l) \in 0..capped[l].qty_remaining
  <2>1. drawn \in SUBSET (1..Len(capped)) BY <1>4, <1>5
  <2> QED BY SMTT(30), <1>4, <1>6, <2>1, PlanIs
<1>8. \A l \in 1..Len(lots) : Taken(out, l) \in 0..Taken(take, l)
  BY <1>2, <1>4, <1>6, <1>7
<1>9. DOMAIN out = drawn /\ \A l \in drawn : out[l] \in Nat BY <1>6, <1>7
<1>10. SumFunction(out) \in Nat
  <2>1. IsFiniteSet(drawn)
    <3>1. Len(lots) \in Nat OBVIOUS
    <3>2. IsFiniteSet(1..Len(lots)) BY <3>1, FS_Interval
    <3> QED BY <3>2, <1>5, FS_Subset
  <2> QED BY <2>1, <1>9, TotalType
<1>11. SumFunction(out) <= qty BY <1>6, <1>7, <1>10
<1> QED BY <1>5, <1>8, <1>9, <1>10, <1>11 DEF Handed, drawn

\* The reversing entry takes from one lot what it still holds.
LEMMA ReversedIs ==
    ASSUME NEW s \in Seq(Lot), NEW l, NEW qty \in Nat, qty > 0 => s[l].qty_remaining >= qty
    PROVE  LET r == Reversed(s, l, qty)
           IN  /\ r \in Seq(Lot) /\ Len(r) = Len(s)
               /\ \A k \in 1..Len(s) : r[k] = IF k = l THEN Consumed(s[k], qty) ELSE s[k]
<1> DEFINE r == Reversed(s, l, qty)
<1>1. r = [k \in 1..Len(s) |-> IF k = l THEN Consumed(s[k], qty) ELSE s[k]] BY DEF Reversed
<1>2. ASSUME NEW k \in 1..Len(s) PROVE r[k] \in Lot
  <2>1. s[k] \in Lot OBVIOUS
  <2>2. r[k] = IF k = l THEN Consumed(s[k], qty) ELSE s[k] BY <1>1
  <2> HIDE DEF r
  <2>3. CASE k = l
    <3>1. s[k].qty_remaining \in Nat BY <2>1 DEF Lot
    <3>2. s[k].qty_remaining - qty \in Nat BY <3>1, <2>3
    <3>3. Consumed(s[k], qty) \in Lot BY <2>1, <3>2 DEF Consumed, Lot
    <3> QED BY <2>2, <2>3, <3>3
  <2> QED BY <2>1, <2>2, <2>3
<1>3. r \in [1..Len(s) -> Lot] BY <1>1, <1>2
<1>4. r \in Seq(Lot) /\ Len(r) = Len(s)
  <2> HIDE DEF r
  <2>1. Len(s) \in Nat OBVIOUS
  <2> QED BY <1>3, <2>1
<1> QED BY <1>1, <1>4

\* A correction is a difference of two sums of money.
LEMMA RetiredCost ==
    ASSUME lots \in Seq(Lot), NEW out, DOMAIN out \subseteq 1..Len(lots),
           \A l \in DOMAIN out : out[l] \in Nat
    PROVE  SumFunction([l \in DOMAIN out |-> out[l] * Landed(lots[l])]) \in Nat
<1> DEFINE f == [l \in DOMAIN out |-> out[l] * Landed(lots[l])]
<1>1. DOMAIN out \in SUBSET DOMAIN lots OBVIOUS
<1>2. IsFiniteSet(DOMAIN out) BY <1>1, PlacesFinite
<1>3. \A l \in DOMAIN out : f[l] \in Nat
  <2> TAKE l \in DOMAIN out
  <2>1. lots[l] \in Lot OBVIOUS
  <2>2. Landed(lots[l]) \in Nat /\ out[l] \in Nat BY <2>1, LandedType
  <2>3. f[l] = out[l] * Landed(lots[l]) OBVIOUS
  <2> HIDE DEF f
  <2> QED BY <2>2, <2>3
<1>4. DOMAIN f = DOMAIN out OBVIOUS
<1> HIDE DEF f
<1>5. SumFunction(f) \in Nat BY <1>2, <1>3, <1>4, TotalType
<1> QED BY <1>5 DEF f

LEMMA EstimateType ==
    ASSUME sales \in Seq(Sale), NEW ledger, NEW l, NEW skip \in Nat, NEW qty \in Nat
    PROVE  SoldCostEstimate(ledger, l, skip, qty) \in Nat
<1> DEFINE rows == EstimatedSales(ledger, l)
           sizes == [r \in DOMAIN sales |-> sales[r].qty]
           before(i) == SumFunctionOnSet(sizes, {r \in rows : OlderSale(r, i)})
           overlap(i) == Minus(Least(before(i) + sales[i].qty, skip + qty),
                               IF before(i) > skip THEN before(i) ELSE skip)
           f == [i \in rows |-> overlap(i) * sales[i].unit_cost]
<1>1. \A r \in DOMAIN sales : /\ sizes[r] \in Nat /\ sales[r].qty \in Nat
                              /\ sales[r].unit_cost \in Nat
  <2> TAKE r \in DOMAIN sales
  <2>1. sales[r] \in Sale OBVIOUS
  <2> QED BY <2>1 DEF Sale
<1>2. rows \in SUBSET DOMAIN sales BY DEF EstimatedSales
<1> HIDE DEF rows, sizes
<1>3. ASSUME NEW i \in rows PROVE before(i) \in Nat
  <2> DEFINE S == {r \in rows : OlderSale(r, i)}
  <2>1. S \in SUBSET DOMAIN sales BY <1>2
  <2> HIDE DEF S
  <2>2. IsFiniteSet(S) BY <2>1, PlacesFinite
  <2>3. \A r \in S : sizes[r] \in Nat BY <1>1, <2>1
  <2>4. SumFunctionOnSet(sizes, S) \in Nat BY <2>2, <2>3, SumOnNat
  <2> QED BY <2>4 DEF S
<1>4. ASSUME NEW i \in rows PROVE overlap(i) * sales[i].unit_cost \in Nat
  <2>1. before(i) \in Nat /\ sales[i].qty \in Nat /\ sales[i].unit_cost \in Nat
    BY <1>1, <1>2, <1>3
  <2> HIDE DEF before
  <2>2. Least(before(i) + sales[i].qty, skip + qty) \in Nat
    <3>1. before(i) + sales[i].qty \in Nat /\ skip + qty \in Nat BY <2>1
    <3> QED BY <3>1, LeastType
  <2>3. (IF before(i) > skip THEN before(i) ELSE skip) \in Nat BY <2>1
  <2>4. overlap(i) \in Nat BY <2>2, <2>3, MinusType
  <2> HIDE DEF overlap
  <2> QED BY <2>1, <2>4
<1>5. IsFiniteSet(rows) BY <1>2, PlacesFinite
<1>6. DOMAIN f = rows /\ \A i \in rows : f[i] \in Nat
  <2> HIDE DEF overlap
  <2> QED BY <1>4
<1> HIDE DEF f
<1>7. SumFunction(f) \in Nat BY <1>5, <1>6, TotalType
<1> QED BY <1>7 DEF SoldCostEstimate, f, rows, sizes

\* The first event of two, the rest annotations of withdrawals.
LEMMA EventsThenNotes ==
    ASSUME NEW first \in Seq(Event), NEW notes \in Seq(Event),
           \A k \in 1..Len(first) : first[k].kind # "shortfall",
           \A k \in 1..Len(notes) : notes[k].kind # "shortfall"
    PROVE  /\ first \o notes \in Seq(Event)
           /\ \A k \in 1..Len(first \o notes) : (first \o notes)[k].kind # "shortfall"
<1>1. PICK r : r = first \o notes OBVIOUS
<1>2. r \in Seq(Event) /\ Len(first) \in Nat /\ Len(r) \in Nat
  <2>1. r \in Seq(Event) BY <1>1, Concat
  <2> QED BY <2>1
<1>3. \A k \in 1..Len(first) : r[k] = first[k] BY <1>1, Concat
<1>4. \A k \in 1..Len(r) : k > Len(first) =>
         k - Len(first) \in 1..Len(notes) /\ r[k] = notes[k - Len(first)]
  BY <1>1, Concat
<1>5. ASSUME NEW k \in 1..Len(r) PROVE r[k].kind # "shortfall"
  <2>1. CASE k > Len(first) BY <1>4, <2>1
  <2>2. CASE ~ (k > Len(first))
    <3>1. k \in 1..Len(first) BY <1>2, <2>2
    <3> QED BY <3>1, <1>3
  <2> QED BY <2>1, <2>2
<1> QED BY <1>1, <1>2, <1>5

\* The log after a step that logs events, none of them a shortfall flag.
LEMMA EventsLogged ==
    ASSUME TypeOK, NEW added, Logged(added), \A l \in Locations : added[l] \in Seq(Event),
           \A l \in Locations : \A k \in 1..Len(added[l]) : added[l][k].kind # "shortfall"
    PROVE  LogGrows /\ NoNewFlag
  BY LoggedGrows, LoggedNoFlag

\* One event at one place.
LEMMA OneLogged ==
    ASSUME TypeOK, NEW l, NEW kind \in AnnotationKinds \cup SlotKinds, kind # "shortfall",
           NEW qty \in Nat, NEW lot \in Nat, LoggedAt(l, <<Entry(kind, qty, lot)>>)
    PROVE  LogGrows /\ NoNewFlag
<1> DEFINE e == Entry(kind, qty, lot)
           added == [x \in Locations |-> IF x = l THEN <<e>> ELSE <<>>]
<1>1. e \in Event /\ e.kind # "shortfall" BY DEF Entry, Event
<1>2. Logged(added) BY DEF LoggedAt
<1> HIDE DEF e
<1>3. \A x \in Locations : /\ added[x] \in Seq(Event)
                           /\ \A k \in 1..Len(added[x]) : added[x][k].kind # "shortfall"
  <2> TAKE x \in Locations
  <2>1. added[x] = IF x = l THEN <<e>> ELSE <<>> OBVIOUS
  <2> HIDE DEF added
  <2>2. <<e>> \in Seq(Event) /\ Len(<<e>>) = 1 /\ <<e>>[1] = e BY <1>1
  <2>3. <<>> \in Seq(Event) /\ Len(<<>>) = 0 OBVIOUS
  <2>4. CASE x = l BY <2>1, <2>2, <2>4, <1>1
  <2>5. CASE x # l BY <2>1, <2>3, <2>5
  <2> QED BY <2>4, <2>5
<1> HIDE DEF added
<1> QED BY <1>2, <1>3, EventsLogged

\* What confirming a suggestion does.
ConfirmShape(i, plan, out, ledger, reversal, claimed, retired) ==
    LET m == moves[i] IN
    /\ m.status = "pending" /\ m \in Move
    /\ DOMAIN plan.take \subseteq OpenLots(lots, Item, m.origin)
    /\ Handed(lots, plan.take, out)
    /\ DOMAIN out \subseteq 1..Len(lots) /\ \A l \in DOMAIN out : out[l] \in Nat
    /\ retired \in Nat /\ SumFunction(out) <= retired
    /\ ledger = Carried(lots, plan.take, out, m.destination)
    /\ reversal \in Nat /\ reversal <= DeemedLeft(m)
    /\ reversal > 0 => ledger[m.lot].qty_remaining >= reversal
    /\ lots' = Reversed(ledger, m.lot, reversal)
    /\ claimed = IF reversal = 0 THEN {} ELSE Siblings(i, DeemedLeft(m) - reversal)
    /\ moves' \in Seq(Move) /\ DOMAIN moves' = DOMAIN moves
    /\ \A j \in DOMAIN moves :
          /\ moves'[j].origin = moves[j].origin /\ moves'[j].event = moves[j].event
          /\ moves'[j].qty = moves[j].qty /\ moves'[j].lot = moves[j].lot
          /\ Whole(moves[j]) => Whole(moves'[j])
          /\ moves'[j].qty_retired = IF j = i THEN retired ELSE moves[j].qty_retired
          /\ moves'[j].status = IF j \in claimed THEN "withdrawn"
                                ELSE IF j = i THEN "confirmed" ELSE moves[j].status
    /\ corrections' \in Int
    /\ LogGrows /\ NoNewFlag
    /\ settled' = FALSE
    /\ UNCHANGED <<sales, hauls, orders, world>>

LEMMA ConfirmIs ==
    ASSUME TypeOK, MovesAnchored, NEW i \in DOMAIN moves, ConfirmMove(i)
    PROVE  \E plan, out, ledger, reversal, claimed, retired :
              ConfirmShape(i, plan, out, ledger, reversal, claimed, retired)
<1>1. PICK m : m = moves[i] OBVIOUS
<1>2. m \in Move BY <1>1 DEF TypeOK
<1>3. /\ m.origin \in Locations /\ m.destination \in Locations
      /\ m.qty \in Nat /\ m.qty_listed \in Nat /\ m.qty_sold \in Nat /\ m.lot \in Nat
  BY <1>2 DEF Move
<1>4. m.lot \in 0..Len(lots) /\ m.qty_listed + m.qty_sold <= m.qty
  BY <1>1 DEF MovesAnchored, Whole
<1>5. lots \in Seq(Lot) /\ Len(lots) \in Nat BY DEF TypeOK
<1>6. Counted(m) \in Nat BY <1>3, <1>4 DEF Counted
<1>7. DeemedLeft(m) \in Nat
  <2>1. CASE m.lot = 0 BY <2>1 DEF DeemedLeft
  <2>2. CASE m.lot # 0
    <3>1. m.lot \in 1..Len(lots) BY <1>3, <1>4, <2>2
    <3>2. PICK lot : lot = lots[m.lot] OBVIOUS
    <3>3. lot \in Lot BY <1>5, <3>1, <3>2
    <3>4. lot.qty_remaining \in Nat BY <3>3 DEF Lot
    <3> QED BY <3>2, <3>4, <2>2 DEF DeemedLeft
  <2> QED BY <2>1, <2>2
<1> DEFINE convertible == Least(Counted(m), DeemedLeft(m))
           target == m.qty_sold + convertible + m.qty_listed
<1>8. convertible \in Nat /\ convertible <= DeemedLeft(m) BY <1>6, <1>7, LeastType
<1>9. target \in Nat
  <2> HIDE DEF convertible
  <2> QED BY <1>3, <1>8
<1>10. PICK plan \in FifoPlans(lots, OpenLots(lots, Item, m.origin), target) :
         LET consumed == target - plan.shortfall
             retired == Least(m.qty_sold, consumed)
             reversal == Least(convertible, consumed - retired)
             claimed == IF reversal = 0 THEN {} ELSE Siblings(i, DeemedLeft(m) - reversal)
         IN  \E out \in Retirements(plan.take, retired) :
             LET ledger == Carried(lots, plan.take, out, m.destination)
             IN  /\ reversal > 0 => ledger[m.lot].qty_remaining >= reversal
                 /\ lots' = Reversed(ledger, m.lot, reversal)
                 /\ corrections' = corrections
                      + SumFunction([l \in DOMAIN out |-> out[l] * Landed(lots[l])])
                      - SoldCostEstimate(lots', m.destination,
                                         Retired(m.destination), retired)
                 /\ moves' = SetStatus([moves EXCEPT ![i].status = "confirmed",
                                                     ![i].qty_retired = retired],
                                       claimed, "withdrawn")
                 /\ Logged([l \in Locations |->
                      (IF l = m.origin
                       THEN <<Entry("move_confirmed", consumed, 0)>> ELSE <<>>)
                      \o WithdrawNotes(claimed, l)])
  BY ZenonT(40), <1>1 DEF ConfirmMove
<1> DEFINE consumed == target - plan.shortfall
           retired == Least(m.qty_sold, consumed)
           reversal == Least(convertible, consumed - retired)
           claimed == IF reversal = 0 THEN {} ELSE Siblings(i, DeemedLeft(m) - reversal)
           added == [l \in Locations |->
                      (IF l = m.origin
                       THEN <<Entry("move_confirmed", consumed, 0)>> ELSE <<>>)
                      \o WithdrawNotes(claimed, l)]
           first == [moves EXCEPT ![i].status = "confirmed", ![i].qty_retired = retired]
<1>11. PICK out \in Retirements(plan.take, retired) :
         LET ledger == Carried(lots, plan.take, out, m.destination)
         IN  /\ reversal > 0 => ledger[m.lot].qty_remaining >= reversal
             /\ lots' = Reversed(ledger, m.lot, reversal)
             /\ corrections' = corrections
                  + SumFunction([l \in DOMAIN out |-> out[l] * Landed(lots[l])])
                  - SoldCostEstimate(lots', m.destination,
                                     Retired(m.destination), retired)
             /\ moves' = SetStatus(first, claimed, "withdrawn")
             /\ Logged(added)
  BY <1>10, Zenon
<1> DEFINE ledger == Carried(lots, plan.take, out, m.destination)
<1>12. /\ plan.shortfall \in 0..target
       /\ DOMAIN plan.take \subseteq 1..Len(lots)
       /\ DOMAIN plan.take \subseteq OpenLots(lots, Item, m.origin)
       /\ \A l \in 1..Len(lots) : Taken(plan.take, l) \in 0..lots[l].qty_remaining
  <2> DEFINE open == OpenLots(lots, Item, m.origin)
  <2>1. open \in SUBSET (1..Len(lots)) BY DEF OpenLots
  <2> HIDE DEF open, target
  <2>2. plan \in FifoPlans(lots, open, target) BY <1>10 DEF open
  <2>3. /\ plan.shortfall \in 0..target /\ plan.take \in [open -> Nat]
        /\ \A l \in 1..Len(lots) : Taken(plan.take, l) \in 0..lots[l].qty_remaining
    BY <1>5, <1>9, <2>1, <2>2, PlanIs
  <2>4. DOMAIN plan.take \subseteq open BY <2>3
  <2> QED BY <2>1, <2>3, <2>4 DEF open
<1>13. consumed \in Nat /\ retired \in Nat /\ retired <= consumed
       /\ reversal \in Nat /\ reversal <= DeemedLeft(m)
  <2>1. consumed \in Nat
    <3> HIDE DEF target
    <3> QED BY <1>9, <1>12
  <2> HIDE DEF consumed, convertible
  <2>2. retired \in Nat /\ retired <= consumed BY <2>1, <1>3, LeastType
  <2> HIDE DEF retired
  <2>3. consumed - retired \in Nat BY <2>1, <2>2
  <2>4. reversal \in Nat /\ reversal <= convertible BY <2>3, <1>8, LeastType
  <2> HIDE DEF reversal
  <2>5. reversal <= DeemedLeft(m) BY <2>4, <1>7, <1>8
  <2> QED BY <2>1, <2>2, <2>4, <2>5
<1>14. /\ Handed(lots, plan.take, out)
       /\ DOMAIN out \subseteq 1..Len(lots) /\ \A l \in DOMAIN out : out[l] \in Nat
       /\ SumFunction(out) <= retired
  <2> HIDE DEF retired
  <2>1. PICK take : take = plan.take OBVIOUS
  <2>2. /\ DOMAIN take \subseteq 1..Len(lots)
        /\ \A l \in 1..Len(lots) : Taken(take, l) \in 0..lots[l].qty_remaining
        /\ out \in Retirements(take, retired)
    BY <1>11, <1>12, <2>1
  <2>3. /\ Handed(lots, take, out)
        /\ DOMAIN out = Drawn(take) /\ Drawn(take) \subseteq 1..Len(lots)
        /\ \A l \in DOMAIN out : out[l] \in Nat
        /\ SumFunction(out) <= retired
    BY <1>5, <1>13, <2>2, RetirementsAre
  <2> QED BY <2>1, <2>3
<1>15. corrections' \in Int
  <2> DEFINE a == SumFunction([l \in DOMAIN out |-> out[l] * Landed(lots[l])])
             b == SoldCostEstimate(lots', m.destination, Retired(m.destination), retired)
  <2>1. a \in Nat BY <1>5, <1>14, RetiredCost
  <2>2. b \in Nat
    <3>1. Retired(m.destination) \in Nat BY <1>3, Measures
    <3>2. sales \in Seq(Sale) BY DEF TypeOK
    <3> HIDE DEF retired
    <3> QED BY <3>1, <3>2, <1>13, EstimateType
  <2>3. corrections' = corrections + a - b
    <3> HIDE DEF retired, first, claimed, added, reversal
    <3> QED BY <1>11
  <2>4. corrections \in Int BY DEF TypeOK
  <2> HIDE DEF a, b
  <2> QED BY <2>1, <2>2, <2>3, <2>4
<1>16. claimed \in SUBSET DOMAIN moves
  <2> HIDE DEF reversal
  <2> QED BY DEF Siblings, Pending
<1>17. /\ first \in Seq(Move) /\ Len(first) = Len(moves)
       /\ \A j \in 1..Len(moves) :
            /\ first[j].origin = moves[j].origin /\ first[j].event = moves[j].event
            /\ first[j].qty = moves[j].qty /\ first[j].lot = moves[j].lot
            /\ Whole(moves[j]) => Whole(first[j])
            /\ first[j].qty_retired = IF j = i THEN retired ELSE moves[j].qty_retired
            /\ first[j].status = IF j = i THEN "confirmed" ELSE moves[j].status
  <2> HIDE DEF retired
  <2>1. moves \in Seq(Move) /\ i \in 1..Len(moves) /\ Len(moves) \in Nat BY DEF TypeOK
  <2>2. first = [j \in 1..Len(moves) |->
                   IF j = i THEN [[moves[i] EXCEPT !.status = "confirmed"] EXCEPT !.qty_retired = retired]
                   ELSE moves[j]]
    BY <2>1
  <2> HIDE DEF first
  <2>3. ASSUME NEW j \in 1..Len(moves)
        PROVE  /\ first[j] \in Move
               /\ first[j].origin = moves[j].origin /\ first[j].event = moves[j].event
               /\ first[j].qty = moves[j].qty /\ first[j].lot = moves[j].lot
               /\ Whole(moves[j]) => Whole(first[j])
               /\ first[j].qty_retired = IF j = i THEN retired ELSE moves[j].qty_retired
               /\ first[j].status = IF j = i THEN "confirmed" ELSE moves[j].status
    <3>1. moves[j] \in Move BY <2>1
    <3>2. CASE j = i
      <4>1. first[j] = [[moves[j] EXCEPT !.status = "confirmed"] EXCEPT !.qty_retired = retired]
        BY <2>2, <3>2
      <4> QED BY <3>1, <3>2, <4>1, <1>13 DEF Move, Whole
    <3>3. CASE j # i BY <2>2, <3>1, <3>3
    <3> QED BY <3>2, <3>3
  <2>4. first \in [1..Len(moves) -> Move] BY <2>2, <2>3
  <2>5. first \in Seq(Move) /\ Len(first) = Len(moves) BY <2>1, <2>4
  <2> QED BY <2>3, <2>5
<1>18. /\ moves' \in Seq(Move) /\ DOMAIN moves' = DOMAIN moves
       /\ \A j \in DOMAIN moves :
          /\ moves'[j].origin = moves[j].origin /\ moves'[j].event = moves[j].event
          /\ moves'[j].qty = moves[j].qty /\ moves'[j].lot = moves[j].lot
          /\ Whole(moves[j]) => Whole(moves'[j])
          /\ moves'[j].qty_retired = IF j = i THEN retired ELSE moves[j].qty_retired
          /\ moves'[j].status = IF j \in claimed THEN "withdrawn"
                                ELSE IF j = i THEN "confirmed" ELSE moves[j].status
  <2>1. DOMAIN moves = 1..Len(moves) BY DEF TypeOK
  <2>2. PICK r : r = SetStatus(first, claimed, "withdrawn") OBVIOUS
  <2>3. moves' = r
    <3> HIDE DEF first, claimed, added, retired, reversal
    <3> QED BY <1>11, <2>2
  <2> HIDE DEF first, claimed, retired
  <2>4. /\ r \in Seq(Move) /\ Len(r) = Len(first) /\ DOMAIN r = DOMAIN first
        /\ \A j \in 1..Len(first) :
             /\ r[j].origin = first[j].origin /\ r[j].destination = first[j].destination
             /\ r[j].event = first[j].event /\ r[j].qty = first[j].qty
             /\ r[j].lot = first[j].lot /\ (Whole(first[j]) => Whole(r[j]))
             /\ r[j].qty_retired = first[j].qty_retired
             /\ r[j].status = IF j \in claimed THEN "withdrawn" ELSE first[j].status
    BY <1>17, <2>2, StatusSet
  <2>5. DOMAIN first = 1..Len(first) BY <1>17
  <2>6. DOMAIN moves' = DOMAIN moves BY <1>17, <2>1, <2>3, <2>4, <2>5
  <2> QED BY <1>17, <2>1, <2>3, <2>4, <2>6
<1>19. LogGrows /\ NoNewFlag
  <2>1. ASSUME NEW l \in Locations
        PROVE  /\ added[l] \in Seq(Event)
               /\ \A k \in 1..Len(added[l]) : added[l][k].kind # "shortfall"
    <3> DEFINE own == IF l = m.origin THEN <<Entry("move_confirmed", consumed, 0)>> ELSE <<>>
    <3>1. added[l] = own \o WithdrawNotes(claimed, l) BY Zenon
    <3>2. own \in Seq(Event) /\ \A k \in 1..Len(own) : own[k].kind # "shortfall"
      <4>1. PICK e : e = Entry("move_confirmed", consumed, 0) OBVIOUS
      <4> HIDE DEF consumed
      <4>2. e \in Event /\ e.kind # "shortfall" BY <4>1, <1>13 DEF Entry, Event, SlotKinds
      <4>3. <<e>> \in Seq(Event) /\ Len(<<e>>) = 1 /\ <<e>>[1] = e BY <4>2
      <4>4. <<>> \in Seq(Event) /\ Len(<<>>) = 0 OBVIOUS
      <4>5. own = IF l = m.origin THEN <<e>> ELSE <<>> BY <4>1
      <4> HIDE DEF own
      <4>6. CASE l = m.origin BY <4>2, <4>3, <4>5, <4>6
      <4>7. CASE l # m.origin BY <4>4, <4>5, <4>7
      <4> QED BY <4>6, <4>7
    <3>3. /\ WithdrawNotes(claimed, l) \in Seq(Event)
          /\ \A k \in 1..Len(WithdrawNotes(claimed, l)) :
                WithdrawNotes(claimed, l)[k].kind = "move_withdrawn"
      <4> HIDE DEF claimed
      <4> QED BY <1>16, NotesAre
    <3>4. PICK notes : notes = WithdrawNotes(claimed, l) OBVIOUS
    <3> HIDE DEF own, added, claimed
    <3>5. notes \in Seq(Event) /\ \A k \in 1..Len(notes) : notes[k].kind # "shortfall"
      BY <3>3, <3>4
    <3> QED BY <3>1, <3>2, <3>4, <3>5, EventsThenNotes
  <2>2. Logged(added)
    <3> HIDE DEF added, first, claimed, retired, reversal
    <3> QED BY <1>11
  <2> HIDE DEF added
  <2> QED BY <2>1, <2>2, EventsLogged
<1>20. settled' = FALSE /\ UNCHANGED <<sales, hauls, orders, world>> /\ m.status = "pending"
  BY <1>1 DEF ConfirmMove
<1>21. /\ reversal > 0 => ledger[m.lot].qty_remaining >= reversal
       /\ lots' = Reversed(ledger, m.lot, reversal)
  <2> HIDE DEF reversal, retired, first, claimed, added
  <2> QED BY <1>11
<1>22. ConfirmShape(i, plan, out, ledger, reversal, claimed, retired)
  <2>2. ledger = Carried(lots, plan.take, out, m.destination) OBVIOUS
  <2>3. claimed = IF reversal = 0 THEN {} ELSE Siblings(i, DeemedLeft(m) - reversal) OBVIOUS
  <2> HIDE DEF reversal, claimed, ledger, retired, consumed, target, convertible
  <2> QED
    BY <1>1, <1>2, <1>12, <1>13, <1>14, <1>15, <1>18, <1>19, <1>20, <1>21, <2>2, <2>3, Zenon
    DEF ConfirmShape
<1> HIDE DEF reversal, claimed, ledger, retired
<1> QED BY <1>22

-----------------------------------------------------------------------------
(* The other steps have the shape StepShape *)

LEMMA CarriedType ==
    ASSUME NEW s, NEW take, NEW out, Handed(s, take, out), NEW to \in Locations
    PROVE  /\ Carried(s, take, out, to) \in Seq(Lot)
           /\ Len(s) <= Len(Carried(s, take, out, to))
<1> DEFINE split == SplitRows(s, take, out)
           r == Carried(s, take, out, to)
<1>1. r \in Seq(Lot) /\ IsFiniteSet(split) /\ Len(r) = Len(s) + Cardinality(split)
  BY CarriedIs
<1>2. Cardinality(split) \in Nat BY <1>1, FS_CardinalityType
<1>3. Len(s) \in Nat BY DEF Handed
<1> HIDE DEF split
<1> QED BY <1>1, <1>2, <1>3

LEMMA StepForm ==
    ASSUME TypeOK, TypeOK', LogGrows, NoNewFlag, Len(lots) <= Len(lots'),
           UNCHANGED moves, settled' = FALSE
    PROVE  StepShape
  BY DEF StepShape

LEMMA QuietStepForm ==
    ASSUME TypeOK, TypeOK', UNCHANGED <<lots, log, moves>>, settled' = FALSE
    PROVE  StepShape
<1>1. LogGrows /\ NoNewFlag
  <2>1. ASSUME NEW l \in Locations PROVE log[l] \in Seq(Event) /\ Len(log[l]) \in Nat
    BY DEF TypeOK
  <2> QED BY <2>1 DEF LogGrows, NoNewFlag, TypeOK
<1>2. lots' = lots /\ moves' = moves OBVIOUS
<1>3. Len(lots) \in Nat BY DEF TypeOK
<1>4. Len(lots) <= Len(lots') BY <1>2, <1>3
<1> QED BY <1>1, <1>2, <1>4, StepForm

LEMMA ConfirmStep ==
    ASSUME TypeOK, MovesAnchored, NEW i \in DOMAIN moves, ConfirmMove(i)
    PROVE  StepShape
<1>1. PICK plan, out, ledger, reversal, claimed, retired :
         ConfirmShape(i, plan, out, ledger, reversal, claimed, retired)
  BY ConfirmIs
<1>2. moves[i].destination \in Locations BY <1>1 DEF ConfirmShape, Move
<1>3. ledger \in Seq(Lot) /\ Len(lots) <= Len(ledger)
  BY <1>1, <1>2, CarriedType DEF ConfirmShape
<1>4. lots' \in Seq(Lot) /\ Len(lots') = Len(ledger)
  BY <1>1, <1>3, ReversedIs DEF ConfirmShape
<1>5. TypeOK'
  BY <1>1, <1>4 DEF ConfirmShape, LogGrows, TypeOK, world
<1> QED BY <1>1, <1>3, <1>4, <1>5 DEF ConfirmShape, StepShape

LEMMA DismissStep ==
    ASSUME TypeOK, NEW i \in DOMAIN moves, DismissMove(i)
    PROVE  StepShape
<1>1. moves \in Seq(Move) /\ DOMAIN moves = 1..Len(moves) /\ Len(moves) \in Nat
  BY DEF TypeOK
<1>2. moves[i] \in Move BY <1>1
<1>3. LogGrows /\ NoNewFlag
  <2>1. LoggedAt(moves[i].origin, <<Entry("move_dismissed", moves[i].qty, 0)>>)
    BY DEF DismissMove
  <2>2. moves[i].qty \in Nat BY <1>2 DEF Move
  <2> QED BY <2>1, <2>2, OneLogged DEF AnnotationKinds
<1>4. moves' = [moves EXCEPT ![i].status = "dismissed"] BY DEF DismissMove
<1>5. DOMAIN moves' = 1..Len(moves) BY <1>1, <1>4
<1>6. ASSUME NEW j \in 1..Len(moves)
      PROVE  /\ moves'[j] \in Move
             /\ moves'[j].origin = moves[j].origin /\ moves'[j].event = moves[j].event
             /\ moves'[j].qty = moves[j].qty /\ moves'[j].lot = moves[j].lot
             /\ Whole(moves[j]) => Whole(moves'[j])
  <2>1. moves[j] \in Move BY <1>1
  <2>2. moves'[j] = IF j = i THEN [moves[j] EXCEPT !.status = "dismissed"] ELSE moves[j]
    BY <1>1, <1>4
  <2> QED BY <2>1, <2>2 DEF Move, Whole
<1>7. moves' \in Seq(Move)
  <2>1. moves' = [j \in 1..Len(moves) |-> moves'[j]] BY <1>1, <1>4
  <2>2. moves' \in [1..Len(moves) -> Move] BY <1>6, <2>1
  <2> QED BY <1>1, <2>2
<1>8. UNCHANGED <<books, hauls, orders, world>> /\ settled' = FALSE BY DEF DismissMove
<1>9. TypeOK' BY <1>3, <1>7, <1>8 DEF TypeOK, LogGrows, books, world
<1>10. Len(lots) \in Nat /\ lots' = lots BY <1>8 DEF TypeOK, books
<1> QED BY <1>1, <1>3, <1>5, <1>6, <1>8, <1>9, <1>10 DEF StepShape

LEMMA RecordStep ==
    ASSUME TypeOK, NEW o \in Hangars, NEW d \in Hangars, NEW qty \in Nat,
           RecordShipment(o, d, qty)
    PROVE  StepShape
<1>1. LogGrows /\ NoNewFlag
  <2>1. LoggedAt(o, <<Entry("shipment_recorded", qty, 0)>>) BY DEF RecordShipment
  <2> QED BY <2>1, OneLogged DEF AnnotationKinds
<1>2. PICK haul : haul = [origin |-> o, destination |-> d, qty |-> qty, status |-> "open"]
  OBVIOUS
<1>3. haul \in Haul BY <1>2, HangarsAssumption DEF Haul
<1>4. /\ hauls' = Append(hauls, haul) /\ cargo' = Append(cargo, "origin")
      /\ UNCHANGED <<books, moves, orders, held, escrow, fills, astray, trips>>
      /\ settled' = FALSE
  BY <1>2 DEF RecordShipment
<1>5. /\ hauls \in Seq(Haul) /\ Len(hauls) \in Nat /\ DOMAIN hauls = 1..Len(hauls)
      /\ cargo \in Seq({"origin", "road", "destination"}) /\ Len(cargo) = Len(hauls)
  BY DEF TypeOK
<1>6. hauls' \in Seq(Haul) /\ DOMAIN hauls' = 1..(Len(hauls) + 1) BY <1>3, <1>4, <1>5
<1>7. cargo' \in [1..(Len(hauls) + 1) -> {"origin", "road", "destination"}]
  <2>1. cargo' \in Seq({"origin", "road", "destination"}) /\ Len(cargo') = Len(hauls) + 1
    BY <1>4, <1>5
  <2> QED BY <2>1
<1>8. TypeOK' BY <1>1, <1>4, <1>6, <1>7 DEF TypeOK, LogGrows, books
<1>9. Len(lots) \in Nat /\ lots' = lots /\ moves' = moves BY <1>4 DEF TypeOK, books
<1>10. Len(lots) <= Len(lots') BY <1>9
<1> QED BY <1>1, <1>4, <1>8, <1>9, <1>10, StepForm

LEMMA ArriveStep ==
    ASSUME TypeOK, NEW i \in DOMAIN hauls, MarkArrived(i)
    PROVE  StepShape
<1>1. /\ hauls \in Seq(Haul) /\ Len(hauls) \in Nat /\ DOMAIN hauls = 1..Len(hauls)
      /\ lots \in Seq(Lot) /\ Len(lots) \in Nat
  BY DEF TypeOK
<1>2. hauls[i] \in Haul BY <1>1
<1>3. PICK h : h = hauls[i] OBVIOUS
<1>4. h.origin \in Locations /\ h.destination \in Locations /\ h.qty \in Nat
  BY <1>2, <1>3 DEF Haul
<1>5. PICK plan \in FifoPlans(lots, OpenLots(lots, Item, h.origin), h.qty) :
        /\ lots' = Carried(lots, plan.take, <<>>, h.destination)
        /\ LoggedAt(h.destination, <<Entry("shipment_arrived", h.qty - plan.shortfall, 0)>>)
  BY <1>3 DEF MarkArrived
<1>6. PICK open : open = OpenLots(lots, Item, h.origin) OBVIOUS
<1>7. open \in SUBSET (1..Len(lots)) BY <1>6 DEF OpenLots
<1>8. /\ plan.shortfall \in 0..h.qty /\ plan.take \in [open -> Nat]
      /\ \A l \in 1..Len(lots) : Taken(plan.take, l) \in 0..lots[l].qty_remaining
  BY <1>1, <1>4, <1>5, <1>6, <1>7, PlanIs
<1>9. Handed(lots, plan.take, <<>>)
  <2>1. \A l : Taken(<<>>, l) = 0 BY DEF Taken
  <2>2. DOMAIN plan.take \subseteq 1..Len(lots) BY <1>7, <1>8
  <2>3. ASSUME NEW l \in 1..Len(lots)
        PROVE  /\ Taken(plan.take, l) \in 0..lots[l].qty_remaining
               /\ Taken(<<>>, l) \in 0..Taken(plan.take, l)
    <3>1. lots[l] \in Lot BY <1>1
    <3>2. lots[l].qty_remaining \in Nat BY <3>1 DEF Lot
    <3>3. Taken(plan.take, l) \in 0..lots[l].qty_remaining BY <1>8
    <3> QED BY <2>1, <3>2, <3>3
  <2> QED BY <1>1, <2>2, <2>3 DEF Handed
<1>10. lots' \in Seq(Lot) /\ Len(lots) <= Len(lots') BY <1>4, <1>5, <1>9, CarriedType
<1>11. LogGrows /\ NoNewFlag
  <2>1. h.qty - plan.shortfall \in Nat BY <1>4, <1>8
  <2> QED BY <1>5, <2>1, OneLogged DEF AnnotationKinds
<1>12. /\ hauls' = [hauls EXCEPT ![i].status = "arrived"] /\ settled' = FALSE
       /\ UNCHANGED <<sales, corrections, moves, orders, world>>
  BY DEF MarkArrived
<1>13. hauls' \in Seq(Haul) /\ DOMAIN hauls' = DOMAIN hauls
  <2>1. [h EXCEPT !.status = "arrived"] \in Haul BY <1>2, <1>3 DEF Haul
  <2>2. hauls' = [hauls EXCEPT ![i] = [h EXCEPT !.status = "arrived"]] BY <1>3, <1>12
  <2> QED BY <1>1, <2>1, <2>2
<1>14. TypeOK' BY <1>10, <1>11, <1>12, <1>13 DEF TypeOK, LogGrows, world
<1> QED BY <1>10, <1>11, <1>12, <1>14, StepForm

\* Events that no log takes for a flag.
Unflagging(events) ==
    \A x \in Locations : /\ events[x] \in Seq(Event)
                         /\ \A k \in 1..Len(events[x]) : events[x][k].kind # "shortfall"

LEMMA ConsumedRow ==
    ASSUME NEW lot \in Lot, NEW t \in 0..lot.qty_remaining
    PROVE  Consumed(lot, t) \in Lot
  BY DEF Lot, Consumed

LEMMA DeemedLotType ==
    ASSUME TypeOK, NEW l \in Locations, NEW qty \in Nat, NEW cost \in Nat
    PROVE  DeemedLot(l, qty, cost) \in Lot /\ DeemedLot(l, qty, cost).qty_remaining = qty
<1>1. Len(lots) + 1 \in Nat BY DEF TypeOK
<1>2. PICK n : n = Len(lots) + 1 OBVIOUS
<1>3. n \in Nat BY <1>1, <1>2
<1>4. DeemedLot(l, qty, cost) = NewLot(Item, l, qty, cost, n, "opening_balance", 0, TRUE)
  BY <1>2 DEF DeemedLot
<1> QED BY <1>3, <1>4, HangarsAssumption DEF NewLot, Lot, Sources

\* What a sale takes is booked row by row.
LEMMA BookedType ==
    ASSUME NEW s \in Seq(Lot), NEW take,
           \A l \in 1..Len(s) : Taken(take, l) \in 0..s[l].qty_remaining
    PROVE  /\ Booked(s, take, <<>>) \in Seq(Lot) /\ Len(Booked(s, take, <<>>)) = Len(s)
           /\ \A l \in 1..Len(s) : Booked(s, take, <<>>)[l] = Consumed(s[l], Taken(take, l))
<1>1. Len(s) \in Nat OBVIOUS
<1>2. Booked(s, take, <<>>) = [l \in 1..Len(s) |-> Consumed(s[l], Taken(take, l))]
  <2>1. 1..(Len(s) + Len(<<>>)) = 1..Len(s) BY <1>1
  <2>2. \A l \in 1..Len(s) : l <= Len(s) BY <1>1
  <2> QED BY <2>1, <2>2 DEF Booked
<1>3. ASSUME NEW l \in 1..Len(s) PROVE Consumed(s[l], Taken(take, l)) \in Lot
  <2>1. s[l] \in Lot OBVIOUS
  <2>2. Taken(take, l) \in 0..s[l].qty_remaining OBVIOUS
  <2>3. PICK lot, t : lot = s[l] /\ t = Taken(take, l) OBVIOUS
  <2>4. lot \in Lot /\ t \in 0..lot.qty_remaining BY <2>1, <2>2, <2>3
  <2>5. Consumed(lot, t) \in Lot BY <2>4, ConsumedRow
  <2> QED BY <2>3, <2>5
<1> DEFINE r == Booked(s, take, <<>>)
<1>4. r \in [1..Len(s) -> Lot] BY <1>2, <1>3
<1>5. \A l \in 1..Len(s) : r[l] = Consumed(s[l], Taken(take, l)) BY <1>2
<1> HIDE DEF r
<1>6. r \in Seq(Lot) /\ Len(r) = Len(s) BY <1>1, <1>4
<1> QED BY <1>5, <1>6 DEF r

\* What take draws is in the rows of s.
Drawable(s, take) ==
    /\ s \in Seq(Lot)
    /\ DOMAIN take \subseteq 1..Len(s)
    /\ \A x \in DOMAIN take : take[x] \in Nat
    /\ \A x \in 1..Len(s) : Taken(take, x) \in 0..s[x].qty_remaining

\* The stock the books lack is drawn from a row entered for it.
LEMMA DeemedDrawable ==
    ASSUME NEW s, NEW base, Drawable(s, base), NEW lot \in Lot, NEW known, NEW take,
           known = Append(s, lot),
           take = [x \in Drawn(base) \cup {Len(known)} |->
                      IF x = Len(known) THEN lot.qty_remaining ELSE base[x]]
    PROVE  Drawable(known, take) /\ Len(s) <= Len(known)
<1>1. s \in Seq(Lot) /\ Len(s) \in Nat BY DEF Drawable
<1>2. /\ known \in Seq(Lot) /\ Len(known) = Len(s) + 1 /\ known[Len(known)] = lot
      /\ \A x \in 1..Len(s) : known[x] = s[x]
  BY <1>1
<1>3. Drawn(base) \subseteq 1..Len(s) BY DEF Drawable, Drawn
<1>4. DOMAIN take \subseteq 1..Len(known) BY <1>1, <1>2, <1>3
<1>5. lot.qty_remaining \in Nat BY DEF Lot
<1>6. ASSUME NEW x \in DOMAIN take PROVE take[x] \in Nat
  <2>1. CASE x = Len(known) BY <1>5, <2>1
  <2>2. CASE x # Len(known)
    <3>1. x \in Drawn(base) /\ take[x] = base[x] BY <2>2
    <3> QED BY <3>1 DEF Drawable, Drawn
  <2> QED BY <2>1, <2>2
<1>7. ASSUME NEW x \in 1..Len(known) PROVE Taken(take, x) \in 0..known[x].qty_remaining
  <2>1. CASE x = Len(known)
    <3>1. Taken(take, x) = lot.qty_remaining BY <2>1 DEF Taken
    <3> QED BY <1>2, <1>5, <2>1, <3>1
  <2>2. CASE x # Len(known)
    <3>1. x \in 1..Len(s) /\ known[x] = s[x] BY <1>1, <1>2, <2>2
    <3>2. s[x] \in Lot BY <1>1, <3>1
    <3>3. s[x].qty_remaining \in Nat BY <3>2 DEF Lot
    <3>4. Taken(base, x) \in 0..s[x].qty_remaining BY <3>1 DEF Drawable
    <3>5. Taken(take, x) \in {0, Taken(base, x)} BY <2>2 DEF Taken, Drawn
    <3> QED BY <3>1, <3>3, <3>4, <3>5
  <2> QED BY <2>1, <2>2
<1>8. Len(s) <= Len(known) BY <1>1, <1>2
<1>9. Drawable(known, take) BY <1>2, <1>4, <1>6, <1>7 DEF Drawable
<1> QED BY <1>8, <1>9

\* The rows of one sale, in any order.
LEMMA SaleRowsType ==
    ASSUME NEW s, NEW take, Drawable(s, take), NEW at \in Nat, NEW rows \in SetToSeqs(Drawn(take))
    PROVE  [k \in DOMAIN rows |-> SaleRow(s, rows[k], take[rows[k]], at)] \in Seq(Sale)
<1>1. Drawn(take) \in SUBSET DOMAIN s BY DEF Drawable, Drawn
<1>2. s \in Seq(Lot) /\ DOMAIN s = 1..Len(s) BY DEF Drawable
<1>3. Cardinality(Drawn(take)) \in Nat BY <1>1, <1>2, PlacesFinite
<1>4. rows \in [1..Cardinality(Drawn(take)) -> Drawn(take)] BY DEF SetToSeqs
<1>5. ASSUME NEW k \in DOMAIN rows PROVE SaleRow(s, rows[k], take[rows[k]], at) \in Sale
  <2>1. PICK l : l = rows[k] OBVIOUS
  <2>2. l \in Drawn(take) BY <1>4, <1>5, <2>1
  <2>3. l \in 1..Len(s) BY <1>1, <1>2, <2>2
  <2>4. take[l] \in Nat BY <2>2 DEF Drawable, Drawn
  <2>5. PICK lot : lot = s[l] OBVIOUS
  <2>6. lot \in Lot BY <1>2, <2>3, <2>5
  <2>7. Landed(lot) \in Nat BY <2>6, LandedType
  <2>8. lot.cost_is_estimated \in BOOLEAN BY <2>6 DEF Lot
  <2>9. SaleRow(s, l, take[l], at)
          = [lot |-> l, qty |-> take[l], unit_cost |-> Landed(lot),
             cost_is_estimated |-> lot.cost_is_estimated, sold_at |-> at]
    BY <2>5 DEF SaleRow
  <2> QED BY <2>1, <2>3, <2>4, <2>7, <2>8, <2>9 DEF Sale
<1> DEFINE r == [k \in DOMAIN rows |-> SaleRow(s, rows[k], take[rows[k]], at)]
<1>6. r \in [1..Cardinality(Drawn(take)) -> Sale] BY <1>4, <1>5
<1> HIDE DEF r
<1>7. r \in Seq(Sale) BY <1>3, <1>6
<1> QED BY <1>7 DEF r

\* What a sale does to the books and the logs.
SaleShape ==
    /\ lots' \in Seq(Lot) /\ Len(lots) <= Len(lots')
    /\ sales' \in Seq(Sale)
    /\ LogGrows /\ NoNewFlag

LEMMA ConsumeIs ==
    ASSUME TypeOK, NEW l \in Locations, NEW qty \in Nat, NEW cost \in Nat, NEW at \in Nat,
           NEW events, Unflagging(events), Consume(l, qty, cost, at, events)
    PROVE  SaleShape
<1>1. lots \in Seq(Lot) /\ Len(lots) \in Nat /\ sales \in Seq(Sale) BY DEF TypeOK
<1> DEFINE known(p) == IF p.shortfall = 0 THEN lots
                       ELSE Append(lots, DeemedLot(l, p.shortfall, cost))
           take(p) == IF p.shortfall = 0 THEN p.take
                      ELSE [x \in Drawn(p.take) \cup {Len(known(p))} |->
                               IF x = Len(known(p)) THEN p.shortfall ELSE p.take[x]]
           unmatched(p, x) == IF x = l /\ p.shortfall > 0
                              THEN <<Entry("unmatched_sale", p.shortfall, Len(known(p)))>>
                              ELSE <<>>
           after(p) == [x \in Locations |-> events[x] \o unmatched(p, x)]
           before(p) == [x \in Locations |-> unmatched(p, x) \o events[x]]
<1>2. PICK plan \in FifoPlans(lots, OpenLots(lots, Item, l), qty) :
        /\ lots' = Booked(known(plan), take(plan), <<>>)
        /\ \E rows \in SetToSeqs(Drawn(take(plan))) :
              sales' = sales \o [k \in DOMAIN rows |->
                          SaleRow(known(plan), rows[k], take(plan)[rows[k]], at)]
        /\ Logged(after(plan)) \/ Logged(before(plan))
  BY Zenon DEF Consume
<1>3. PICK n : n = plan.shortfall OBVIOUS
<1>4. n \in Nat /\ Drawable(lots, plan.take)
  <2>1. PICK open : open = OpenLots(lots, Item, l) OBVIOUS
  <2>2. open \in SUBSET (1..Len(lots)) BY <2>1 DEF OpenLots
  <2>3. plan \in FifoPlans(lots, open, qty) BY <2>1
  <2>4. /\ plan.shortfall \in 0..qty /\ plan.take \in [open -> Nat]
        /\ \A x \in 1..Len(lots) : Taken(plan.take, x) \in 0..lots[x].qty_remaining
    BY <1>1, <2>2, <2>3, PlanIs
  <2>5. DOMAIN plan.take \subseteq 1..Len(lots) /\ \A x \in DOMAIN plan.take : plan.take[x] \in Nat
    BY <2>2, <2>4
  <2> QED BY <1>1, <1>3, <2>4, <2>5 DEF Drawable
<1>5. PICK k : k = known(plan) OBVIOUS
<1>6. PICK t : t = take(plan) OBVIOUS
<1>7. Drawable(k, t) /\ Len(lots) <= Len(k)
  <2>1. CASE n = 0
    <3>1. k = lots /\ t = plan.take BY <1>3, <1>5, <1>6, <2>1
    <3> QED BY <1>1, <1>4, <3>1
  <2>2. CASE n # 0
    <3>1. PICK lot : lot = DeemedLot(l, n, cost) OBVIOUS
    <3>2. lot \in Lot /\ lot.qty_remaining = n
      BY <1>4, <3>1, DeemedLotType
    <3>3. k = Append(lots, lot) BY <1>3, <1>5, <2>2, <3>1
    <3>4. t = [x \in Drawn(plan.take) \cup {Len(k)} |->
                 IF x = Len(k) THEN lot.qty_remaining ELSE plan.take[x]]
      BY <1>3, <1>5, <1>6, <2>2, <3>2
    <3> QED BY <1>4, <3>2, <3>3, <3>4, DeemedDrawable
  <2> QED BY <2>1, <2>2
<1>8. lots' \in Seq(Lot) /\ Len(lots') = Len(k)
  <2>1. lots' = Booked(k, t, <<>>) BY <1>2, <1>5, <1>6, Zenon
  <2> QED BY <1>7, <2>1, BookedType DEF Drawable
<1>9. sales' \in Seq(Sale)
  <2>1. PICK rows \in SetToSeqs(Drawn(t)) :
          sales' = sales \o [j \in DOMAIN rows |-> SaleRow(k, rows[j], t[rows[j]], at)]
    <3> HIDE DEF known, take
    <3> QED BY <1>2, <1>5, <1>6
  <2>2. PICK new : new = [j \in DOMAIN rows |-> SaleRow(k, rows[j], t[rows[j]], at)] OBVIOUS
  <2>3. new \in Seq(Sale) BY <1>7, <2>2, SaleRowsType
  <2> QED BY <1>1, <2>1, <2>2, <2>3
<1>10. \A x \in Locations : /\ unmatched(plan, x) \in Seq(Event)
                            /\ \A j \in 1..Len(unmatched(plan, x)) :
                                  unmatched(plan, x)[j].kind # "shortfall"
  <2> TAKE x \in Locations
  <2>1. PICK e : e = Entry("unmatched_sale", n, Len(k)) OBVIOUS
  <2>2. Len(k) \in Nat BY <1>7 DEF Drawable
  <2>3. e \in Event /\ e.kind # "shortfall" BY <1>4, <2>1, <2>2 DEF Entry, Event, SlotKinds
  <2>4. unmatched(plan, x) = <<e>> \/ unmatched(plan, x) = <<>> BY <1>3, <1>5, <2>1
  <2>5. <<e>> \in Seq(Event) /\ Len(<<e>>) = 1 /\ <<e>>[1] = e BY <2>3
  <2>6. <<>> \in Seq(Event) /\ Len(<<>>) = 0 OBVIOUS
  <2>7. PICK u : u = unmatched(plan, x) OBVIOUS
  <2>8. u = <<e>> \/ u = <<>> BY <2>4, <2>7
  <2>9. u \in Seq(Event) /\ \A j \in 1..Len(u) : u[j].kind # "shortfall"
    <3> HIDE DEF unmatched
    <3>1. CASE u = <<e>> BY <2>3, <2>5, <3>1
    <3>2. CASE u = <<>> BY <2>6, <3>2
    <3> QED BY <2>8, <3>1, <3>2
  <2> QED BY <2>7, <2>9
<1> HIDE DEF unmatched
<1>11. \A x \in Locations :
          /\ after(plan)[x] \in Seq(Event)
          /\ \A j \in 1..Len(after(plan)[x]) : after(plan)[x][j].kind # "shortfall"
  <2> TAKE x \in Locations
  <2>1. after(plan)[x] = events[x] \o unmatched(plan, x) OBVIOUS
  <2>2. PICK u : u = unmatched(plan, x) OBVIOUS
  <2>3. PICK v : v = events[x] OBVIOUS
  <2>4. /\ u \in Seq(Event) /\ \A j \in 1..Len(u) : u[j].kind # "shortfall"
        /\ v \in Seq(Event) /\ \A j \in 1..Len(v) : v[j].kind # "shortfall"
    BY <1>10, <2>2, <2>3 DEF Unflagging
  <2>5. v \o u \in Seq(Event) /\ \A j \in 1..Len(v \o u) : (v \o u)[j].kind # "shortfall"
    BY <2>4, EventsThenNotes
  <2> HIDE DEF after
  <2> QED BY <2>1, <2>2, <2>3, <2>5
<1>12. \A x \in Locations :
          /\ before(plan)[x] \in Seq(Event)
          /\ \A j \in 1..Len(before(plan)[x]) : before(plan)[x][j].kind # "shortfall"
  <2> TAKE x \in Locations
  <2>1. before(plan)[x] = unmatched(plan, x) \o events[x] OBVIOUS
  <2>2. PICK u : u = unmatched(plan, x) OBVIOUS
  <2>3. PICK v : v = events[x] OBVIOUS
  <2>4. /\ u \in Seq(Event) /\ \A j \in 1..Len(u) : u[j].kind # "shortfall"
        /\ v \in Seq(Event) /\ \A j \in 1..Len(v) : v[j].kind # "shortfall"
    BY <1>10, <2>2, <2>3 DEF Unflagging
  <2>5. u \o v \in Seq(Event) /\ \A j \in 1..Len(u \o v) : (u \o v)[j].kind # "shortfall"
    BY <2>4, EventsThenNotes
  <2> HIDE DEF before
  <2> QED BY <2>1, <2>2, <2>3, <2>5
<1>13. LogGrows /\ NoNewFlag
  <2> HIDE DEF after, before
  <2>1. CASE Logged(after(plan)) BY <1>11, <2>1, EventsLogged
  <2>2. CASE Logged(before(plan)) BY <1>12, <2>2, EventsLogged
  <2> QED BY <1>2, <2>1, <2>2
<1> QED BY <1>1, <1>7, <1>8, <1>9, <1>13 DEF SaleShape

LEMMA FlagsUnflagging == ASSUME TypeOK PROVE Unflagging(OffDivisionFlags)
<1> SUFFICES ASSUME NEW x \in Locations
             PROVE  /\ OffDivisionFlags[x] \in Seq(Event)
                    /\ \A k \in 1..Len(OffDivisionFlags[x]) :
                          OffDivisionFlags[x][k].kind # "shortfall"
  BY DEF Unflagging
<1>1. PICK e : e = Entry("unexpected_division", escrow[x], 0) OBVIOUS
<1>2. escrow[x] \in Nat BY DEF TypeOK
<1>3. e \in Event /\ e.kind # "shortfall" BY <1>1, <1>2 DEF Entry, Event, SlotKinds
<1>4. PICK u : u = OffDivisionFlags[x] OBVIOUS
<1>5. u = <<e>> \/ u = <<>> BY <1>1, <1>4 DEF OffDivisionFlags
<1>6. <<e>> \in Seq(Event) /\ Len(<<e>>) = 1 /\ <<e>>[1] = e BY <1>3
<1>7. <<>> \in Seq(Event) /\ Len(<<>>) = 0 OBVIOUS
<1>8. CASE u = <<e>> BY <1>3, <1>4, <1>6, <1>8
<1>9. CASE u = <<>> BY <1>4, <1>7, <1>9
<1> QED BY <1>5, <1>8, <1>9

LEMMA PollStep ==
    ASSUME TypeOK, NEW cost \in Prices \ {NoPrice}, IngestMarketSales(cost)
    PROVE  StepShape
<1>1. /\ orders' = escrow /\ settled' = FALSE
      /\ UNCHANGED <<corrections, moves, hauls, held, escrow, astray, cargo, trips>>
  BY DEF IngestMarketSales, books
<1>2. fills \in Seq(Fill) /\ lots \in Seq(Lot) /\ Len(lots) \in Nat BY DEF TypeOK
<1>3. SaleShape /\ fills' \in Seq(Fill)
  <2>1. CASE Logged(OffDivisionFlags) /\ UNCHANGED <<books, fills>>
    <3>1. LogGrows /\ NoNewFlag BY <2>1, FlagsUnflagging, EventsLogged DEF Unflagging
    <3>2. lots' = lots /\ sales' = sales /\ fills' = fills BY <2>1 DEF books
    <3>3. Len(lots) <= Len(lots') BY <1>2, <3>2
    <3>4. sales \in Seq(Sale) BY DEF TypeOK
    <3> QED BY <1>2, <3>1, <3>2, <3>3, <3>4 DEF SaleShape
  <2>2. CASE /\ fills # <<>>
             /\ Consume(fills[1].location, fills[1].qty, cost, fills[1].at, OffDivisionFlags)
             /\ fills' = Tail(fills)
    <3>1. fills[1] \in Fill /\ Tail(fills) \in Seq(Fill) BY <1>2, <2>2
    <3>2. PICK f : f = fills[1] OBVIOUS
    <3>3. f.location \in Locations /\ f.qty \in Nat /\ f.at \in Nat BY <3>1, <3>2 DEF Fill
    <3>4. cost \in Nat BY HangarsAssumption
    <3>5. Consume(f.location, f.qty, cost, f.at, OffDivisionFlags) BY <2>2, <3>2
    <3>6. SaleShape BY <3>3, <3>4, <3>5, FlagsUnflagging, ConsumeIs
    <3> QED BY <2>2, <3>1, <3>6
  <2> QED BY <2>1, <2>2 DEF IngestMarketSales
<1>4. TypeOK' BY <1>1, <1>3 DEF TypeOK, SaleShape, LogGrows
<1> QED BY <1>1, <1>3, <1>4, StepForm DEF SaleShape

LEMMA ManualStep ==
    ASSUME TypeOK, NEW l \in DirectAt, NEW cost \in Prices \ {NoPrice}, NEW qty \in Nat,
           RecordManualSale(l, qty, cost)
    PROVE  StepShape
<1>1. /\ trips < MaxTrips /\ trips' = trips + 1 /\ held[l] >= qty
      /\ held' = [held EXCEPT ![l] = @ - qty] /\ settled' = FALSE
      /\ UNCHANGED <<corrections, moves, hauls, orders, escrow, fills, astray, cargo>>
      /\ Consume(l, qty, cost, trips', [x \in Locations |-> <<>>])
  BY DEF RecordManualSale
<1>2. l \in Locations /\ cost \in Nat /\ MaxTrips \in Nat BY HangarsAssumption
<1>3. trips' \in Nat /\ trips' \in 0..MaxTrips BY <1>1, <1>2 DEF TypeOK
<1>4. PICK at : at = trips' OBVIOUS
<1>5. Unflagging([x \in Locations |-> <<>>])
  <2>1. <<>> \in Seq(Event) /\ Len(<<>>) = 0 OBVIOUS
  <2> QED BY <2>1 DEF Unflagging
<1>6. SaleShape
  <2>1. Consume(l, qty, cost, at, [x \in Locations |-> <<>>]) BY <1>1, <1>4
  <2>2. at \in Nat BY <1>3, <1>4
  <2> QED BY <1>2, <1>5, <2>1, <2>2, ConsumeIs
<1>7. held' \in [Locations -> Nat] BY <1>1, <1>2 DEF TypeOK
<1>8. TypeOK' BY <1>1, <1>3, <1>6, <1>7 DEF TypeOK, SaleShape, LogGrows
<1> QED BY <1>1, <1>6, <1>8, StepForm DEF SaleShape

\* The world moves and no row is written.
LEMMA UndeclaredStep ==
    ASSUME TypeOK, Undeclared, held' \in [Locations -> Nat], escrow' \in [Locations -> Nat],
           fills' \in Seq(Fill), astray' \subseteq OffDivision
    PROVE  StepShape
<1>1. trips' \in 0..MaxTrips BY HangarsAssumption DEF TypeOK, Undeclared
<1>2. TypeOK' BY <1>1 DEF TypeOK, Undeclared, books
<1> QED BY <1>2, QuietStepForm DEF Undeclared, books

LEMMA CarryStep ==
    ASSUME TypeOK, NEW trip \in Trips, NEW qty \in Nat, Carry(trip[1], trip[2], qty)
    PROVE  StepShape
<1>1. trip[1] \in Locations /\ trip[2] \in Locations BY HangarsAssumption
<1>2. PICK a, b : a = trip[1] /\ b = trip[2] OBVIOUS
<1>3. /\ Undeclared /\ qty <= held[a] /\ UNCHANGED <<escrow, fills, astray>>
      /\ held' = [held EXCEPT ![a] = @ - qty, ![b] = @ + qty]
  BY <1>2 DEF Carry
<1>4. held' \in [Locations -> Nat]
  <2>1. held[a] - qty \in Nat /\ held \in [Locations -> Nat] BY SMTT(30), <1>1, <1>2, <1>3 DEF TypeOK
  <2> QED BY <1>1, <1>2, <1>3, <2>1
<1> QED BY <1>3, <1>4, UndeclaredStep DEF TypeOK

LEMMA ListStep ==
    ASSUME TypeOK, NEW l \in SellAt, NEW qty \in Nat, ListForSale(l, qty)
    PROVE  StepShape
<1>1. l \in Locations BY HangarsAssumption
<1>2. /\ Undeclared /\ qty <= held[l] /\ fills' = fills
      /\ held' = [held EXCEPT ![l] = @ - qty] /\ escrow' = [escrow EXCEPT ![l] = @ + qty]
      /\ astray' = astray \/ (l \in OffDivision /\ astray' = astray \cup {l})
  BY DEF ListForSale
<1>3. held' \in [Locations -> Nat] BY <1>1, <1>2 DEF TypeOK
<1>4. escrow' \in [Locations -> Nat] BY <1>1, <1>2 DEF TypeOK
<1>5. fills' \in Seq(Fill) /\ astray' \subseteq OffDivision BY <1>2 DEF TypeOK
<1> QED BY <1>2, <1>3, <1>4, <1>5, UndeclaredStep

LEMMA CancelStep ==
    ASSUME TypeOK, NEW l \in SellAt, CancelOrder(l)
    PROVE  StepShape
<1>1. l \in Locations BY HangarsAssumption
<1>2. /\ Undeclared /\ fills' = fills /\ astray' = astray \ {l}
      /\ held' = [held EXCEPT ![l] = @ + escrow[l]] /\ escrow' = [escrow EXCEPT ![l] = 0]
  BY DEF CancelOrder
<1>3. held' \in [Locations -> Nat] BY <1>1, <1>2 DEF TypeOK
<1>4. escrow' \in [Locations -> Nat] BY <1>1, <1>2 DEF TypeOK
<1>5. fills' \in Seq(Fill) /\ astray' \subseteq OffDivision BY <1>2 DEF TypeOK
<1> QED BY <1>2, <1>3, <1>4, <1>5, UndeclaredStep

LEMMA FillStep ==
    ASSUME TypeOK, NEW l \in SellAt, NEW qty \in Nat, FillOrder(l, qty)
    PROVE  StepShape
<1>1. l \in Locations BY HangarsAssumption
<1>2. /\ Undeclared /\ qty <= escrow[l] /\ held' = held
      /\ escrow' = [escrow EXCEPT ![l] = @ - qty]
      /\ fills' = fills \/ fills' = <<[location |-> l, qty |-> qty, at |-> trips']>>
      /\ astray' = astray \ {l} \/ astray' = astray
  BY DEF FillOrder
<1>3. escrow' \in [Locations -> Nat] BY <1>1, <1>2 DEF TypeOK
<1>4. trips' \in Nat BY HangarsAssumption, <1>2 DEF TypeOK, Undeclared
<1>5. fills' \in Seq(Fill)
  <2>1. PICK f : f = [location |-> l, qty |-> qty, at |-> trips'] OBVIOUS
  <2>2. f \in Fill BY <1>1, <1>4, <2>1 DEF Fill
  <2>3. <<f>> \in Seq(Fill) BY <2>2
  <2> QED BY <1>2, <2>1, <2>3 DEF TypeOK
<1>6. held' \in [Locations -> Nat] /\ astray' \subseteq OffDivision BY <1>2 DEF TypeOK
<1> QED BY <1>2, <1>3, <1>5, <1>6, UndeclaredStep

\* The goods of a declared haul leave and land.
LEMMA HaulStep ==
    ASSUME TypeOK, NEW i \in DOMAIN hauls, PickUp(i) \/ Land(i)
    PROVE  StepShape
<1>1. hauls[i] \in Haul BY DEF TypeOK
<1>2. PICK h : h = hauls[i] OBVIOUS
<1>3. h.origin \in Locations /\ h.destination \in Locations /\ h.qty \in Nat
  BY <1>1, <1>2 DEF Haul
<1>4. /\ UNCHANGED <<books, log, moves, hauls, orders, escrow, fills, astray, trips>>
      /\ settled' = FALSE
  BY DEF PickUp, Land
<1>5. held' \in [Locations -> Nat]
  <2>1. CASE PickUp(i)
    <3>1. held' = [held EXCEPT ![h.origin] = @ - h.qty] /\ held[h.origin] >= h.qty
      BY <1>2, <2>1 DEF PickUp
    <3> QED BY SMTT(30), <1>3, <3>1 DEF TypeOK
  <2>2. CASE Land(i)
    <3>1. held' = [held EXCEPT ![h.destination] = @ + h.qty] BY <1>2, <2>2 DEF Land
    <3> QED BY <1>3, <3>1 DEF TypeOK
  <2> QED BY <2>1, <2>2
<1>6. cargo' \in [DOMAIN hauls -> {"origin", "road", "destination"}]
  BY DEF PickUp, Land, TypeOK
<1>7. TypeOK' BY <1>4, <1>5, <1>6 DEF TypeOK, books
<1> QED BY <1>4, <1>7, QuietStepForm DEF books

-----------------------------------------------------------------------------
(* Every behaviour *)

\* No suggestion is confirmed by this step.
ConfirmsNone ==
    \A i \in DOMAIN moves : moves[i].status = "pending" => moves'[i].status # "confirmed"

\* A step is a check, a confirmation, or neither.
LEMMA NextCases ==
    ASSUME TypeOK, MovesAnchored, Next
    PROVE  \/ \E price \in Prices : ReconcileHangars(price)
           \/ StepShape /\ \E i \in DOMAIN moves : ConfirmMove(i)
           \/ StepShape /\ ConfirmsNone
<1>1. moves' = moves => ConfirmsNone BY DEF ConfirmsNone
<1>2. ASSUME NEW i \in DOMAIN moves, DismissMove(i) PROVE StepShape /\ ConfirmsNone
  <2>1. moves' = [moves EXCEPT ![i].status = "dismissed"] BY <1>2 DEF DismissMove
  <2>2. ASSUME NEW j \in DOMAIN moves, moves[j].status = "pending"
        PROVE  moves'[j].status # "confirmed"
    <3>1. moves[j] \in Move BY DEF TypeOK
    <3>2. moves'[j] = IF j = i THEN [moves[j] EXCEPT !.status = "dismissed"] ELSE moves[j]
      BY <2>1
    <3> QED BY <2>2, <3>1, <3>2 DEF Move
  <2> QED BY <1>2, <2>2, DismissStep DEF ConfirmsNone
<1>3. ASSUME NEW o \in Hangars, NEW d \in Hangars, NEW qty \in Quantities(Stock(o)),
             RecordShipment(o, d, qty)
      PROVE  StepShape /\ ConfirmsNone
  <2>1. Stock(o) \in Nat BY HangarsAssumption, Measures
  <2>2. qty \in Nat BY <2>1 DEF Quantities
  <2>3. moves' = moves BY <1>3 DEF RecordShipment
  <2> QED BY <1>1, <1>3, <2>2, <2>3, RecordStep
<1>4. ASSUME NEW i \in DOMAIN hauls, MarkArrived(i) \/ PickUp(i) \/ Land(i)
      PROVE  StepShape /\ ConfirmsNone
  <2>1. moves' = moves BY <1>4 DEF MarkArrived, PickUp, Land
  <2> QED BY <1>1, <1>4, <2>1, ArriveStep, HaulStep
<1>5. ASSUME NEW cost \in Prices \ {NoPrice}, IngestMarketSales(cost)
      PROVE  StepShape /\ ConfirmsNone
  <2>1. moves' = moves BY <1>5 DEF IngestMarketSales
  <2> QED BY <1>1, <1>5, <2>1, PollStep
<1>6. ASSUME NEW l \in DirectAt, NEW cost \in Prices \ {NoPrice},
             NEW qty \in Quantities(held[l]), RecordManualSale(l, qty, cost)
      PROVE  StepShape /\ ConfirmsNone
  <2>1. held[l] \in Nat BY HangarsAssumption DEF TypeOK
  <2>2. qty \in Nat BY <2>1 DEF Quantities
  <2>3. moves' = moves BY <1>6 DEF RecordManualSale
  <2> QED BY <1>1, <1>6, <2>2, <2>3, ManualStep
<1>7. ASSUME NEW trip \in Trips, NEW qty \in Quantities(held[trip[1]]),
             Carry(trip[1], trip[2], qty)
      PROVE  StepShape /\ ConfirmsNone
  <2>1. trip[1] \in Locations BY HangarsAssumption
  <2>2. held[trip[1]] \in Nat BY <2>1 DEF TypeOK
  <2>3. qty \in Nat BY <2>2 DEF Quantities
  <2>4. moves' = moves BY <1>7 DEF Carry, Undeclared
  <2> QED BY <1>1, <1>7, <2>3, <2>4, CarryStep
<1>8. ASSUME NEW l \in SellAt,
             \/ \E qty \in Quantities(held[l]) : ListForSale(l, qty)
             \/ \E qty \in Quantities(escrow[l]) : FillOrder(l, qty)
             \/ CancelOrder(l)
      PROVE  StepShape /\ ConfirmsNone
  <2>1. held[l] \in Nat /\ escrow[l] \in Nat BY HangarsAssumption DEF TypeOK
  <2>2. moves' = moves BY <1>8 DEF ListForSale, FillOrder, CancelOrder, Undeclared
  <2>3. Quantities(held[l]) \subseteq Nat /\ Quantities(escrow[l]) \subseteq Nat
    BY <2>1 DEF Quantities
  <2> QED BY <1>1, <1>8, <2>2, <2>3, ListStep, FillStep, CancelStep
<1> QED
  BY <1>2, <1>3, <1>4, <1>5, <1>6, <1>7, <1>8, ConfirmStep, Zenon DEF Next

\* A check keeps the invariant, and leaves every suggestion on its flag.
LEMMA PassKeeps ==
    ASSUME IInv, NEW price \in Prices, ReconcileHangars(price)
    PROVE  IInv' /\ PendingAnchored'
<1>1. PassShape BY PassIs DEF IInv
<1>2. /\ UNCHANGED <<sales, corrections, hauls, orders, world>>
      /\ settled' = (price # NoPrice)
  BY DEF ReconcileHangars
<1>3. TypeOK' BY <1>1, <1>2 DEF IInv, TypeOK, PassShape, LogGrows, world
<1>4. FlaggedOnce' BY <1>1, PassFlagged DEF IInv
<1>5. MovesAnchored' BY <1>1, PassAnchored DEF IInv
<1>6. UNCHANGED <<hauls, orders, held>> BY <1>2 DEF world
<1>7. PendingAnchored' BY <1>1, <1>6, PassPending DEF IInv
<1> QED BY <1>3, <1>4, <1>5, <1>7 DEF IInv

FInv == IInv /\ PendingAnchored

LEMMA InitHolds == Init => FInv
<1> SUFFICES ASSUME Init PROVE FInv OBVIOUS
<1>1. TypeOK
  <2>1. ASSUME NEW l \in Locations PROVE Idle(Opening, Item, l) \in Nat
    BY HangarsAssumption, IdleType
  <2>2. held \in [Locations -> Nat] BY <2>1 DEF Init
  <2>3. lots \in Seq(Lot) /\ sales \in Seq(Sale) /\ corrections \in Int
    BY HangarsAssumption DEF Init
  <2>4. moves \in Seq(Move) /\ hauls \in Seq(Haul) /\ fills \in Seq(Fill) BY DEF Init
  <2>5. log \in [Locations -> Seq(Event)]
    <3>1. <<>> \in Seq(Event) OBVIOUS
    <3> QED BY <3>1 DEF Init
  <2>6. orders \in [Locations -> Nat] /\ escrow \in [Locations -> Nat] BY DEF Init
  <2>7. cargo \in [DOMAIN hauls -> {"origin", "road", "destination"}] BY DEF Init
  <2>8. trips \in 0..MaxTrips /\ astray \subseteq OffDivision
    <3>1. MaxTrips \in Nat BY HangarsAssumption
    <3> QED BY <3>1 DEF Init
  <2>9. settled \in BOOLEAN BY DEF Init
  <2> QED BY <2>2, <2>3, <2>4, <2>5, <2>6, <2>7, <2>8, <2>9 DEF TypeOK
<1>2. MovesAnchored BY DEF Init, MovesAnchored
<1>3. FlaggedOnce
  <2>1. \A l \in Locations : DOMAIN log[l] = {} BY DEF Init
  <2> QED BY <2>1 DEF FlaggedOnce
<1>4. PendingAnchored BY DEF Init, PendingAnchored
<1> QED BY <1>1, <1>2, <1>3, <1>4 DEF FInv, IInv

LEMMA StepHolds == FInv /\ [Next]_vars => FInv'
<1> SUFFICES ASSUME FInv, [Next]_vars PROVE FInv' OBVIOUS
<1>1. CASE Next
  <2>1. CASE \E price \in Prices : ReconcileHangars(price)
    BY <2>1, PassKeeps DEF FInv
  <2>2. CASE StepShape BY <2>2, StepKeeps DEF FInv
  <2> QED BY <1>1, <2>1, <2>2, NextCases DEF FInv, IInv
<1>2. CASE UNCHANGED vars
  <2>1. TypeOK' BY <1>2 DEF FInv, IInv, TypeOK, vars, books, world
  <2>2. MovesAnchored' BY <1>2 DEF FInv, IInv, MovesAnchored, vars, books
  <2>3. FlaggedOnce' BY <1>2 DEF FInv, IInv, FlaggedOnce, vars
  <2>4. PendingAnchored'
    <3>1. /\ lots' = lots /\ hauls' = hauls /\ orders' = orders /\ held' = held
          /\ log' = log /\ moves' = moves /\ settled' = settled
      BY <1>2 DEF vars, books, world
    <3>2. \A h : Shortfall(h)' = Shortfall(h)
      BY <3>1 DEF Shortfall, Expected, Stock, OpenFrom, OpenHauls
    <3>3. Short' = Short BY <3>2 DEF Short
    <3>4. \A l : LatestAt(l)' = LatestAt(l) BY <3>1 DEF LatestAt, SelectLastInSeq
    <3>5. Pending' = Pending BY <3>1 DEF Pending
    <3> QED BY <3>1, <3>2, <3>3, <3>4, <3>5 DEF FInv, PendingAnchored
  <2> QED BY <2>1, <2>2, <2>3, <2>4 DEF FInv, IInv
<1> QED BY <1>1, <1>2

LEMMA Inductive == Spec => []FInv
  BY InitHolds, StepHolds, PTL DEF Spec

-----------------------------------------------------------------------------
(* The theorems *)

\* The rows, the logs and the suggestions keep their types, and every suggestion names
\* a flag its hangar's log really holds, for no more than that flag says is missing:
\* no annotation, withdrawal or re-flagging moves the ground under it.
THEOREM SuggestionsDecorateFlags == Spec => [](TypeOK /\ MovesAnchored)
<1>1. FInv => TypeOK /\ MovesAnchored BY DEF FInv, IInv
<1> QED BY <1>1, Inductive, PTL

\* What a check leaves behind is current: every pending suggestion decorates the
\* standing flag of a hangar that is short of at least that much, and no shortfall is
\* flagged twice while it stands (reconcile_hangars, the withdrawal of stale
\* suggestions and latest_by_slot together).
THEOREM FlagsStaySound == Spec => []FlagsSound
<1>1. FInv => FlagsSound BY DEF FInv, IInv, FlagsSound
<1> QED BY <1>1, Inductive, PTL

\* "Not a move" stands: a check proposes the dismissed units between the same places
\* again only after the log has said something new about them.
THEOREM DismissalsAreHonoured == Spec => DismissalStands
<1> DEFINE A(i, j) ==
      LET m == moves[i]
          since == (m.event + 1)..Len(log'[m.origin])
      IN  /\ m.status = "dismissed" /\ m.qty = moves'[j].qty
          /\ m.origin = moves'[j].origin /\ m.destination = moves'[j].destination
          => \E k \in since : /\ log'[m.origin][k].kind \notin AnnotationKinds
                             /\ log'[m.origin][k] # log'[m.origin][m.event]
<1>1. ASSUME FInv, FInv', Next
      PROVE  \A i \in DOMAIN moves : \A j \in (DOMAIN moves') \ DOMAIN moves : A(i, j)
  <2>1. CASE \E price \in Prices : ReconcileHangars(price)
    <3>1. TypeOK /\ MovesAnchored /\ FlaggedOnce' BY <1>1 DEF FInv, IInv
    <3>2. PassShape BY <2>1, <3>1, PassIs
    <3> QED BY <3>1, <3>2, PassDismissal
  <2>2. CASE StepShape
    <3>1. (DOMAIN moves') \ DOMAIN moves = {} BY <2>2 DEF StepShape
    <3> QED BY <3>1
  <2> QED BY <1>1, <2>1, <2>2, NextCases DEF FInv, IInv
<1>2. FInv /\ FInv' /\ [Next]_vars
        => [\A i \in DOMAIN moves : \A j \in (DOMAIN moves') \ DOMAIN moves : A(i, j)]_vars
  BY <1>1
<1>3. Spec => [][\A i \in DOMAIN moves : \A j \in (DOMAIN moves') \ DOMAIN moves : A(i, j)]_vars
  BY <1>2, Inductive, PTL DEF Spec
<1> QED BY <1>3 DEF DismissalStands

\* A confirm that empties a found lot it does not consume from reverses all of it, and
\* so withdraws every other suggestion that would reverse it.
LEMMA ConfirmClaims ==
    ASSUME TypeOK, MovesAnchored, NEW i \in DOMAIN moves, ConfirmMove(i),
           moves[i].lot # 0, lots[moves[i].lot].location # moves[i].origin,
           lots[moves[i].lot].qty_remaining > 0, lots'[moves[i].lot].qty_remaining = 0,
           NEW j \in DOMAIN moves', moves'[j].lot = moves[i].lot
    PROVE  moves'[j].status # "pending"
<1>1. PICK plan, out, ledger, reversal, claimed, retired :
         ConfirmShape(i, plan, out, ledger, reversal, claimed, retired)
  BY ConfirmIs
<1>2. PICK l : l = moves[i].lot OBVIOUS
<1>3. l \in 1..Len(lots)
  <2>1. moves[i] \in Move /\ l \in 0..Len(lots) BY <1>2 DEF TypeOK, MovesAnchored
  <2>2. l # 0 BY <1>2
  <2>3. Len(lots) \in Nat BY DEF TypeOK
  <2> QED BY <2>1, <2>2, <2>3
<1>4. lots \in Seq(Lot) /\ Len(lots) \in Nat BY DEF TypeOK
<1>5. lots[l] \in Lot BY <1>3, <1>4
<1>6. Taken(plan.take, l) = 0 /\ Taken(out, l) = 0
  <2>1. l \notin OpenLots(lots, Item, moves[i].origin) BY <1>2 DEF OpenLots
  <2>2. Taken(plan.take, l) = 0 BY <1>1, <2>1 DEF ConfirmShape, Taken
  <2>3. Taken(out, l) \in 0..Taken(plan.take, l) BY <1>1, <1>3 DEF ConfirmShape, Handed
  <2> QED BY <2>2, <2>3
<1>7. ledger \in Seq(Lot) /\ Len(lots) <= Len(ledger) /\ ledger[l] = lots[l]
  <2>1. /\ Handed(lots, plan.take, out) /\ moves[i].destination \in Locations
        /\ ledger = Carried(lots, plan.take, out, moves[i].destination)
    BY <1>1 DEF ConfirmShape, Move
  <2>2. ledger \in Seq(Lot) /\ Len(lots) <= Len(ledger) BY <2>1, CarriedType
  <2>3. ledger[l] = CarriedRow(lots, plan.take, out, moves[i].destination, l)
    BY <1>3, <2>1, CarriedIs
  <2>4. ledger[l] = Consumed(lots[l], 0) BY <1>6, <2>3 DEF CarriedRow, Carrying
  <2> QED BY <1>5, <2>2, <2>4, NothingDrawn
<1>8. lots'[l] = Consumed(lots[l], reversal)
  <2>1. /\ reversal \in Nat /\ (reversal > 0 => ledger[l].qty_remaining >= reversal)
        /\ lots' = Reversed(ledger, l, reversal)
    BY <1>1, <1>2 DEF ConfirmShape
  <2>2. l \in 1..Len(ledger) BY <1>3, <1>4, <1>7
  <2>3. lots'[l] = Consumed(ledger[l], reversal) BY <1>7, <2>1, <2>2, ReversedIs
  <2> QED BY <1>7, <2>3
<1>9. reversal = DeemedLeft(moves[i]) /\ reversal # 0
  <2>1. DeemedLeft(moves[i]) = lots[l].qty_remaining BY <1>2 DEF DeemedLeft
  <2>2. lots[l].qty_remaining \in Nat /\ lots[l].qty_remaining > 0 BY <1>2, <1>5 DEF Lot
  <2>3. lots'[l].qty_remaining = lots[l].qty_remaining - reversal
    BY <1>5, <1>8 DEF Consumed, Lot
  <2>4. lots'[l].qty_remaining = 0 /\ reversal \in Nat BY <1>1, <1>2 DEF ConfirmShape
  <2> QED BY <2>1, <2>2, <2>3, <2>4
<1>10. claimed = {k \in Pending \ {i} : moves[k].lot = l}
  <2>1. claimed = Siblings(i, DeemedLeft(moves[i]) - reversal) BY <1>1, <1>9 DEF ConfirmShape
  <2>2. DeemedLeft(moves[i]) - reversal = 0
    <3>1. reversal \in Nat BY <1>1 DEF ConfirmShape
    <3> QED BY <1>9, <3>1
  <2> QED BY <1>2, <2>1, <2>2 DEF Siblings
<1>11. j \in DOMAIN moves /\ moves[j].lot = l BY <1>1, <1>2 DEF ConfirmShape
<1>12. moves'[j].status = IF j \in claimed THEN "withdrawn"
                          ELSE IF j = i THEN "confirmed" ELSE moves[j].status
  BY <1>1, <1>11 DEF ConfirmShape
<1> QED BY <1>10, <1>11, <1>12 DEF Pending

\* A confirm moves only the suggestion it names to confirmed.
LEMMA OneConfirmed ==
    ASSUME TypeOK, MovesAnchored, NEW i \in DOMAIN moves, ConfirmMove(i),
           NEW k \in DOMAIN moves, moves[k].status = "pending", moves'[k].status = "confirmed"
    PROVE  k = i
<1>1. PICK plan, out, ledger, reversal, claimed, retired :
         ConfirmShape(i, plan, out, ledger, reversal, claimed, retired)
  BY ConfirmIs
<1>2. moves'[k].status = IF k \in claimed THEN "withdrawn"
                         ELSE IF k = i THEN "confirmed" ELSE moves[k].status
  BY <1>1 DEF ConfirmShape
<1> QED BY <1>2

\* Confirming one of several candidate origins settles the matter: whatever lots, sales,
\* hauls and suggestions there are, no candidate for found stock that the confirmation
\* used up stays pending, unless that stock lies at the origin itself
\* (_withdraw_claimed_siblings).
THEOREM CandidatesAreSettled == Spec => SiblingsArbitrated
<1> DEFINE A(i) ==
      LET m == moves[i] IN
      /\ m.status = "pending" /\ moves'[i].status = "confirmed"
      /\ m.lot # 0 /\ lots[m.lot].location # m.origin
      /\ lots[m.lot].qty_remaining > 0 /\ lots'[m.lot].qty_remaining = 0
      => \A j \in DOMAIN moves' : moves'[j].lot = m.lot => moves'[j].status # "pending"
<1>1. ASSUME FInv, Next PROVE \A i \in DOMAIN moves : A(i)
  <2>1. TypeOK /\ MovesAnchored BY <1>1 DEF FInv, IInv
  <2>2. CASE \E price \in Prices : ReconcileHangars(price)
    <3>1. PassShape BY <2>1, <2>2, PassIs
    <3>2. DOMAIN moves = 1..Len(moves) BY <2>1 DEF TypeOK
    <3>3. ConfirmsNone BY <3>1, <3>2 DEF PassShape, ConfirmsNone
    <3> QED BY <3>3 DEF ConfirmsNone
  <2>3. CASE \E i \in DOMAIN moves : ConfirmMove(i)
    <3>1. PICK k \in DOMAIN moves : ConfirmMove(k) BY <2>3
    <3>2. SUFFICES ASSUME NEW i \in DOMAIN moves,
                          moves[i].status = "pending", moves'[i].status = "confirmed"
                   PROVE  A(i)
      OBVIOUS
    <3>3. i = k BY <2>1, <3>1, <3>2, OneConfirmed
    <3>4. ConfirmMove(i) BY <3>1, <3>3
    <3> QED BY <2>1, <3>2, <3>4, ConfirmClaims
  <2>4. CASE ConfirmsNone BY <2>4 DEF ConfirmsNone
  <2> QED BY <1>1, <2>1, <2>2, <2>3, <2>4, NextCases
<1>2. FInv /\ [Next]_vars => [\A i \in DOMAIN moves : A(i)]_vars BY <1>1
<1>3. Spec => [][\A i \in DOMAIN moves : A(i)]_vars BY <1>2, Inductive, PTL DEF Spec
<1> QED BY <1>3 DEF SiblingsArbitrated

-----------------------------------------------------------------------------
(* Totals over the rows *)

\* The bought units of each lot row, and the units of each sale booked at an estimate.
BoughtUnits(s) ==
    [l \in 1..Len(s) |-> IF s[l].cost_is_estimated THEN 0 ELSE s[l].qty_remaining]
BoughtTotal(s) == SumFunctionOnSet(BoughtUnits(s), 1..Len(s))

EstimateUnits(s) == [i \in 1..Len(s) |-> IF s[i].cost_is_estimated THEN s[i].qty ELSE 0]
EstimateTotal(s) == SumFunctionOnSet(EstimateUnits(s), 1..Len(s))

LEMMA BoughtType ==
    ASSUME NEW s \in Seq(Lot)
    PROVE  /\ IsFiniteSet(1..Len(s)) /\ BoughtTotal(s) \in Nat
           /\ \A l \in 1..Len(s) :
                /\ s[l] \in Lot /\ s[l].qty_remaining \in Nat
                /\ s[l].cost_is_estimated \in BOOLEAN
                /\ BoughtUnits(s)[l] = IF s[l].cost_is_estimated THEN 0 ELSE s[l].qty_remaining
                /\ BoughtUnits(s)[l] \in Nat
<1>1. Len(s) \in Nat OBVIOUS
<1>2. IsFiniteSet(1..Len(s)) BY <1>1, FS_Interval
<1>3. ASSUME NEW l \in 1..Len(s)
      PROVE  /\ s[l] \in Lot /\ s[l].qty_remaining \in Nat
             /\ s[l].cost_is_estimated \in BOOLEAN
             /\ BoughtUnits(s)[l] = IF s[l].cost_is_estimated THEN 0 ELSE s[l].qty_remaining
             /\ BoughtUnits(s)[l] \in Nat
  <2>1. s[l] \in Lot OBVIOUS
  <2>2. s[l].qty_remaining \in Nat /\ s[l].cost_is_estimated \in BOOLEAN BY <2>1 DEF Lot
  <2>3. BoughtUnits(s)[l] = IF s[l].cost_is_estimated THEN 0 ELSE s[l].qty_remaining
    BY DEF BoughtUnits
  <2> QED BY <2>1, <2>2, <2>3
<1>4. BoughtTotal(s) \in Nat BY <1>2, <1>3, SumOnNat DEF BoughtTotal
<1> QED BY <1>2, <1>3, <1>4

LEMMA EstimateTotalType ==
    ASSUME NEW s \in Seq(Sale)
    PROVE  /\ IsFiniteSet(1..Len(s)) /\ EstimateTotal(s) \in Nat
           /\ \A l \in 1..Len(s) :
                /\ s[l] \in Sale
                /\ EstimateUnits(s)[l] = IF s[l].cost_is_estimated THEN s[l].qty ELSE 0
                /\ EstimateUnits(s)[l] \in Nat
<1>1. Len(s) \in Nat OBVIOUS
<1>2. IsFiniteSet(1..Len(s)) BY <1>1, FS_Interval
<1>3. ASSUME NEW l \in 1..Len(s)
      PROVE  /\ s[l] \in Sale
             /\ EstimateUnits(s)[l] = IF s[l].cost_is_estimated THEN s[l].qty ELSE 0
             /\ EstimateUnits(s)[l] \in Nat
  <2>1. s[l] \in Sale OBVIOUS
  <2>2. s[l].qty \in Nat /\ s[l].cost_is_estimated \in BOOLEAN BY <2>1 DEF Sale
  <2>3. EstimateUnits(s)[l] = IF s[l].cost_is_estimated THEN s[l].qty ELSE 0
    BY DEF EstimateUnits
  <2> QED BY <2>1, <2>2, <2>3
<1>4. EstimateTotal(s) \in Nat BY <1>2, <1>3, SumOnNat DEF EstimateTotal
<1> QED BY <1>2, <1>3, <1>4

\* The two totals the property names.
LEMMA MeasuredForm ==
    ASSUME NEW s \in Seq(Lot)
    PROVE  SumFunction([l \in {x \in DOMAIN s : ~s[x].cost_is_estimated}
                            |-> s[l].qty_remaining]) = BoughtTotal(s)
<1> DEFINE P == {x \in DOMAIN s : ~s[x].cost_is_estimated}
           f == [l \in P |-> s[l].qty_remaining]
           g == BoughtUnits(s)
           S == 1..Len(s)
<1>1. DOMAIN s = S OBVIOUS
<1>2. IsFiniteSet(S) /\ \A x \in S : g[x] \in Int BY BoughtType
<1>3. P \in SUBSET S BY <1>1
<1>4. /\ \A x \in P : f[x] = g[x]
      /\ \A x \in S \ P : g[x] = 0
  BY <1>1, BoughtType
<1>5. DOMAIN f = P OBVIOUS
<1> HIDE DEF P, f, g, S
<1>6. SumFunctionOnSet(f, P) = SumFunctionOnSet(g, S) BY <1>2, <1>3, <1>4, SumOnFilter
<1> QED BY <1>5, <1>6 DEF BoughtTotal, SumFunction, P, f, g, S

LEMMA EstimateForm ==
    ASSUME NEW s \in Seq(Sale)
    PROVE  SumFunction([i \in {x \in DOMAIN s : s[x].cost_is_estimated} |-> s[i].qty])
             = EstimateTotal(s)
<1> DEFINE P == {x \in DOMAIN s : s[x].cost_is_estimated}
           f == [l \in P |-> s[l].qty]
           g == EstimateUnits(s)
           S == 1..Len(s)
<1>1. DOMAIN s = S OBVIOUS
<1>2. IsFiniteSet(S) /\ \A x \in S : g[x] \in Int BY EstimateTotalType
<1>3. P \in SUBSET S BY <1>1
<1>4. /\ \A x \in P : f[x] = g[x]
      /\ \A x \in S \ P : g[x] = 0
  BY <1>1, EstimateTotalType
<1>5. DOMAIN f = P OBVIOUS
<1> HIDE DEF P, f, g, S
<1>6. SumFunctionOnSet(f, P) = SumFunctionOnSet(g, S) BY <1>2, <1>3, <1>4, SumOnFilter
<1> QED BY <1>5, <1>6 DEF EstimateTotal, SumFunction, P, f, g, S

\* Deemed rows entered after the others change no bought unit.
LEMMA BoughtAppended ==
    ASSUME NEW s \in Seq(Lot), NEW r \in Seq(Lot), Len(s) <= Len(r),
           \A l \in 1..Len(s) : r[l] = s[l],
           \A l \in 1..Len(r) : l > Len(s) => r[l].cost_is_estimated
    PROVE  BoughtTotal(r) = BoughtTotal(s)
<1> DEFINE f == BoughtUnits(r)
           g == BoughtUnits(s)
           P == 1..Len(s)
           S == 1..Len(r)
<1>1. Len(s) \in Nat /\ Len(r) \in Nat OBVIOUS
<1>2. P \in SUBSET S BY <1>1
<1>3. IsFiniteSet(S) /\ IsFiniteSet(P) /\ \A x \in S : f[x] \in Int BY BoughtType
<1>4. \A x \in S \ P : f[x] = 0 BY <1>1, BoughtType
<1>5. \A x \in P : f[x] = g[x] BY <1>2, BoughtType
<1> HIDE DEF f, g, P, S
<1>6. SumFunctionOnSet(f, S) = SumFunctionOnSet(f, P) BY <1>2, <1>3, <1>4, SumOnSupport
<1>7. SumFunctionOnSet(f, P) = SumFunctionOnSet(g, P) BY <1>3, <1>5, SumOnSame
<1> QED BY <1>6, <1>7 DEF BoughtTotal, f, g, P, S

\* What a plan draws of bought and of deemed rows.
BoughtDrawn(s, take) ==
    [l \in 1..Len(s) |-> IF s[l].cost_is_estimated THEN 0 ELSE Taken(take, l)]
DeemedDrawn(s, take) ==
    [l \in 1..Len(s) |-> IF s[l].cost_is_estimated THEN Taken(take, l) ELSE 0]

LEMMA DrawnTotals ==
    ASSUME NEW s, NEW take, Drawable(s, take)
    PROVE  LET S == 1..Len(s) IN
           /\ \A l \in S : BoughtDrawn(s, take)[l] \in Nat /\ DeemedDrawn(s, take)[l] \in Nat
           /\ SumFunctionOnSet(BoughtDrawn(s, take), S) \in Nat
           /\ SumFunctionOnSet(DeemedDrawn(s, take), S) \in Nat
           /\ SumFunction(take)
                = SumFunctionOnSet(BoughtDrawn(s, take), S)
                    + SumFunctionOnSet(DeemedDrawn(s, take), S)
<1> DEFINE S == 1..Len(s)
           b == BoughtDrawn(s, take)
           d == DeemedDrawn(s, take)
           g == [l \in S |-> Taken(take, l)]
<1>1. s \in Seq(Lot) BY DEF Drawable
<1>2. IsFiniteSet(S) /\ \A l \in S : s[l].cost_is_estimated \in BOOLEAN BY <1>1, BoughtType
<1>3. ASSUME NEW l \in S
      PROVE  /\ b[l] \in Nat /\ d[l] \in Nat /\ g[l] \in Nat /\ g[l] = b[l] + d[l]
  <2>1. s[l].qty_remaining \in Nat BY <1>1, BoughtType
  <2>2. Taken(take, l) \in Nat BY <2>1 DEF Drawable
  <2>3. g[l] = Taken(take, l) OBVIOUS
  <2>4. b[l] = IF s[l].cost_is_estimated THEN 0 ELSE Taken(take, l) BY DEF BoughtDrawn
  <2>5. d[l] = IF s[l].cost_is_estimated THEN Taken(take, l) ELSE 0 BY DEF DeemedDrawn
  <2> HIDE DEF b, d, g
  <2> QED BY <1>2, <2>2, <2>3, <2>4, <2>5
<1>4. DOMAIN take \in SUBSET S BY DEF Drawable
<1>5. \A l \in DOMAIN take : take[l] = g[l] BY <1>4 DEF Taken
<1>6. \A l \in S \ DOMAIN take : g[l] = 0 BY DEF Taken
<1> HIDE DEF S, b, d, g
<1>7. SumFunctionOnSet(take, DOMAIN take) = SumFunctionOnSet(g, S)
  <2>1. \A l \in S : g[l] \in Int BY <1>3
  <2> QED BY <1>2, <1>4, <1>5, <1>6, <2>1, SumOnFilter
<1>8. SumFunctionOnSet(g, S) = SumFunctionOnSet(b, S) + SumFunctionOnSet(d, S)
  <2>1. \A l \in S : b[l] \in Int /\ d[l] \in Int /\ g[l] = b[l] + d[l] BY <1>3
  <2> QED BY <1>2, <2>1, SumOnPlus
<1>9. SumFunctionOnSet(b, S) \in Nat /\ SumFunctionOnSet(d, S) \in Nat BY <1>2, <1>3, SumOnNat
<1> QED BY <1>3, <1>7, <1>8, <1>9 DEF SumFunction, S, b, d

\* Rows drawn on keep what is not drawn.
LEMMA BoughtConsumed ==
    ASSUME NEW s, NEW take, Drawable(s, take), NEW r \in Seq(Lot), Len(r) = Len(s),
           \A l \in 1..Len(s) : r[l] = Consumed(s[l], Taken(take, l))
    PROVE  BoughtTotal(s) = BoughtTotal(r) + SumFunctionOnSet(BoughtDrawn(s, take), 1..Len(s))
<1> DEFINE S == 1..Len(s)
           f == BoughtUnits(r)
           b == BoughtDrawn(s, take)
           h == BoughtUnits(s)
<1>1. s \in Seq(Lot) BY DEF Drawable
<1>2. IsFiniteSet(S) BY <1>1, BoughtType
<1>3. ASSUME NEW l \in S PROVE f[l] \in Int /\ b[l] \in Int /\ h[l] = f[l] + b[l]
  <2>1. PICK lot, t : lot = s[l] /\ t = Taken(take, l) OBVIOUS
  <2>2. lot \in Lot /\ lot.qty_remaining \in Nat /\ lot.cost_is_estimated \in BOOLEAN
    BY <1>1, <2>1, BoughtType
  <2>3. t \in 0..lot.qty_remaining BY <2>1 DEF Drawable
  <2>4. /\ r[l] = Consumed(lot, t)
        /\ r[l].qty_remaining = lot.qty_remaining - t
        /\ r[l].cost_is_estimated = lot.cost_is_estimated
    BY <2>1, <2>2, <2>3 DEF Consumed, Lot
  <2>5. f[l] = IF r[l].cost_is_estimated THEN 0 ELSE r[l].qty_remaining BY BoughtType
  <2>6. h[l] = IF lot.cost_is_estimated THEN 0 ELSE lot.qty_remaining
    BY <1>1, <2>1, BoughtType
  <2>7. b[l] = IF lot.cost_is_estimated THEN 0 ELSE t BY <2>1 DEF BoughtDrawn
  <2> HIDE DEF f, b, h
  <2> QED BY <2>2, <2>3, <2>4, <2>5, <2>6, <2>7
<1> HIDE DEF S, f, b, h
<1>4. SumFunctionOnSet(h, S) = SumFunctionOnSet(f, S) + SumFunctionOnSet(b, S)
  BY <1>2, <1>3, SumOnPlus
<1> QED BY <1>4 DEF BoughtTotal, S, f, b, h

-----------------------------------------------------------------------------
(* What is deemed, sold and retired, unit by unit *)

\* What carrying leaves of one row and splits off it.
SplitUnits(s, take, out) ==
    [l \in 1..Len(s) |-> IF l \in SplitRows(s, take, out) /\ ~s[l].cost_is_estimated
                         THEN Carrying(take, out, l) ELSE 0]

LEMMA CarriedUnits ==
    ASSUME NEW lot \in Lot, NEW t \in 0..lot.qty_remaining, NEW o \in 0..t,
           NEW to \in Locations, NEW row,
           row = IF 0 < t - o /\ t - o = lot.qty_remaining - o
                 THEN Relocated(Consumed(lot, o), to) ELSE Consumed(lot, t)
    PROVE  /\ row.cost_is_estimated = lot.cost_is_estimated /\ row.type = lot.type
           /\ lot.qty_remaining
                = row.qty_remaining + o
                    + (IF 0 < t - o /\ t - o < lot.qty_remaining - o THEN t - o ELSE 0)
<1>1. lot.qty_remaining \in Nat /\ t \in Nat /\ o \in Nat BY DEF Lot
<1>2. CASE 0 < t - o /\ t - o = lot.qty_remaining - o
  <2>1. row.qty_remaining = lot.qty_remaining - o BY <1>1, <1>2 DEF Relocated, Consumed, Lot
  <2>2. row.cost_is_estimated = lot.cost_is_estimated /\ row.type = lot.type
    BY <1>2 DEF Relocated, Consumed, Lot
  <2> QED BY <1>1, <1>2, <2>1, <2>2
<1>3. CASE ~ (0 < t - o /\ t - o = lot.qty_remaining - o)
  <2>1. row.qty_remaining = lot.qty_remaining - t BY <1>1, <1>3 DEF Consumed, Lot
  <2>2. row.cost_is_estimated = lot.cost_is_estimated /\ row.type = lot.type
    BY <1>3 DEF Consumed, Lot
  <2> QED BY <1>1, <1>3, <2>1, <2>2
<1> QED BY <1>2, <1>3

\* Carrying keeps every bought unit but the retired ones.
LEMMA BoughtCarried ==
    ASSUME NEW s, NEW take, NEW out, Handed(s, take, out), NEW to \in Locations,
           NEW r, r = Carried(s, take, out, to)
    PROVE  /\ BoughtTotal(s) = BoughtTotal(r) + SumFunctionOnSet(BoughtDrawn(s, out), 1..Len(s))
           /\ \A l \in 1..Len(s) : /\ r[l].cost_is_estimated = s[l].cost_is_estimated
                                   /\ r[l].type = s[l].type
           /\ \A k \in 1..Len(r) : k > Len(s) => \E l \in 1..Len(s) : r[k].type = s[l].type
<1> DEFINE S == 1..Len(s)
           split == SplitRows(s, take, out)
           list == SetToSeq(split)
           n == Len(s)
           c == Cardinality(split)
           old == BoughtUnits(s)
           new == BoughtUnits(r)
           kids == [k \in 1..c |-> new[n + k]]
           going == SplitUnits(s, take, out)
           lost == BoughtDrawn(s, out)
<1>1. s \in Seq(Lot) /\ n \in Nat BY DEF Handed
<1>2. /\ r \in Seq(Lot)
      /\ IsFiniteSet(split) /\ split \in SUBSET (1..Len(s))
      /\ Len(r) = Len(s) + Cardinality(split)
      /\ \A l \in 1..Len(s) : r[l] = CarriedRow(s, take, out, to, l)
      /\ \A k \in 1..Cardinality(split) :
            r[Len(s) + k]
              = SplitChild(s, SetToSeq(split)[k], Carrying(take, out, SetToSeq(split)[k]), to)
  BY CarriedIs
<1>3. c \in Nat BY <1>2, FS_CardinalityType
<1>4. /\ list \in Seq(split) /\ Len(list) = c
      /\ \A x \in split : \E k \in 1..c : list[k] = x
      /\ \A j, k \in 1..c : list[j] = list[k] => j = k
  <2> HIDE DEF split
  <2> QED BY <1>2, Listing
<1>5. IsFiniteSet(S) /\ \A l \in S : old[l] \in Nat /\ s[l] \in Lot BY <1>1, BoughtType
<1>6. \A k \in 1..Len(r) : new[k] \in Nat BY <1>2, BoughtType
<1>7. ASSUME NEW l \in S
      PROVE  /\ r[l].cost_is_estimated = s[l].cost_is_estimated /\ r[l].type = s[l].type
             /\ going[l] \in Nat /\ lost[l] \in Nat
             /\ old[l] = new[l] + lost[l] + going[l]
  <2>1. PICK lot, t, o, row : lot = s[l] /\ t = Taken(take, l) /\ o = Taken(out, l) /\ row = r[l]
    OBVIOUS
  <2>2. lot \in Lot /\ lot.qty_remaining \in Nat /\ lot.cost_is_estimated \in BOOLEAN
    BY <1>1, <2>1, BoughtType
  <2>3. t \in 0..lot.qty_remaining /\ o \in 0..t BY <2>1 DEF Handed
  <2>4. row = IF 0 < t - o /\ t - o = lot.qty_remaining - o
              THEN Relocated(Consumed(lot, o), to) ELSE Consumed(lot, t)
    BY <1>2, <2>1 DEF CarriedRow, Carrying
  <2>5. /\ row.cost_is_estimated = lot.cost_is_estimated /\ row.type = lot.type
        /\ lot.qty_remaining
             = row.qty_remaining + o
                 + (IF 0 < t - o /\ t - o < lot.qty_remaining - o THEN t - o ELSE 0)
    BY <2>2, <2>3, <2>4, CarriedUnits
  <2>6. l \in split <=> 0 < t - o /\ t - o < lot.qty_remaining - o
    <3>1. 0 < t - o => l \in Drawn(take)
      <4>1. t \in Nat /\ o \in Nat BY <2>2, <2>3
      <4>2. 0 < t - o => t # 0 /\ t > 0 BY <4>1
      <4> QED BY <2>1, <4>2 DEF Drawn, Taken
    <3> QED BY <2>1, <3>1 DEF SplitRows, Carrying
  <2>7. going[l] = IF l \in split /\ ~lot.cost_is_estimated THEN t - o ELSE 0
    BY <2>1 DEF SplitUnits, Carrying
  <2>8. lost[l] = IF lot.cost_is_estimated THEN 0 ELSE o BY <2>1 DEF BoughtDrawn
  <2>9. old[l] = IF lot.cost_is_estimated THEN 0 ELSE lot.qty_remaining
    BY <1>1, <2>1, BoughtType
  <2>10. l \in 1..Len(r) BY <1>1, <1>2, <1>3
  <2>11. new[l] = IF row.cost_is_estimated THEN 0 ELSE row.qty_remaining
    BY <1>2, <2>1, <2>10, BoughtType
  <2>12. row.qty_remaining \in Nat BY <1>2, <2>1, <2>10, BoughtType
  <2> HIDE DEF going, lost, old, new, split
  <2>13. CASE lot.cost_is_estimated
    <3>1. old[l] = 0 /\ new[l] = 0 /\ lost[l] = 0 /\ going[l] = 0
      BY <2>5, <2>7, <2>8, <2>9, <2>11, <2>13
    <3> QED BY <2>1, <2>5, <3>1
  <2>14. CASE ~lot.cost_is_estimated
    <3>1. /\ old[l] = lot.qty_remaining /\ new[l] = row.qty_remaining /\ lost[l] = o
          /\ going[l] = IF 0 < t - o /\ t - o < lot.qty_remaining - o THEN t - o ELSE 0
      BY <2>5, <2>6, <2>7, <2>8, <2>9, <2>11, <2>14
    <3> QED BY <2>1, <2>2, <2>3, <2>5, <2>12, <3>1
  <2> QED BY <2>2, <2>13, <2>14
<1>8. ASSUME NEW k \in 1..c
      PROVE  /\ list[k] \in split /\ list[k] \in S /\ kids[k] = going[list[k]]
             /\ r[n + k].type = s[list[k]].type
  <2>1. PICK l : l = list[k] OBVIOUS
  <2>2. l \in split
    <3> HIDE DEF split, list, c
    <3> QED BY <1>4, <2>1
  <2>3. l \in S BY <1>2, <2>2
  <2>4. PICK lot, q : lot = s[l] /\ q = Carrying(take, out, l) OBVIOUS
  <2>5. lot \in Lot /\ lot.cost_is_estimated \in BOOLEAN BY <1>1, <2>3, <2>4, BoughtType
  <2>6. PICK row : row = r[n + k] OBVIOUS
  <2>7. row = SplitChild(s, l, q, to) BY <1>2, <2>1, <2>4, <2>6
  <2>8. /\ row.qty_remaining = q /\ row.cost_is_estimated = lot.cost_is_estimated
        /\ row.type = lot.type
    BY <2>4, <2>5, <2>7 DEF SplitChild, Lot
  <2>9. n + k \in 1..Len(r) BY <1>1, <1>2, <1>3
  <2>10. new[n + k] = IF row.cost_is_estimated THEN 0 ELSE row.qty_remaining
    BY <1>2, <2>6, <2>9, BoughtType
  <2>11. going[l] = IF l \in split /\ ~lot.cost_is_estimated THEN q ELSE 0
    BY <2>3, <2>4 DEF SplitUnits
  <2>12. kids[k] = new[n + k] OBVIOUS
  <2> HIDE DEF kids, new, going, split, list
  <2> QED BY <2>1, <2>2, <2>3, <2>4, <2>5, <2>6, <2>8, <2>10, <2>11, <2>12
<1>9. SumFunctionOnSet(new, 1..(n + c))
        = SumFunctionOnSet(new, 1..n) + SumFunctionOnSet(kids, 1..c)
  <2>1. \A k \in 1..n : new[k] \in Int BY <1>1, <1>2, <1>3, <1>6
  <2>2. \A k \in 1..c : kids[k] \in Int /\ new[n + k] = kids[k] BY <1>1, <1>2, <1>3, <1>6
  <2> HIDE DEF new, kids, n, c
  <2> QED BY <1>1, <1>3, <2>1, <2>2, SumOnJoined
<1>10. SumFunctionOnSet(kids, 1..c) = SumFunctionOnSet(going, split)
  <2>1. PICK I : I = 1..c OBVIOUS
  <2>2. IsFiniteSet(I) BY <1>3, <2>1, FS_Interval
  <2>3. list \in [I -> split]
    <3> HIDE DEF list, split, c
    <3> QED BY <1>4, <2>1
  <2> HIDE DEF list, split, c, going, kids
  <2>4. \A x, y \in I : list[x] = list[y] => x = y BY <1>4, <2>1
  <2>5. \A z \in split : \E x \in I : list[x] = z BY <1>4, <2>1
  <2>6. \A z \in split : going[z] \in Int BY <1>2, <1>7 DEF split
  <2>7. \A x \in I : kids[x] = going[list[x]] BY <1>8, <2>1
  <2>8. SumFunctionOnSet(kids, I) = SumFunctionOnSet(going, split)
    BY <2>2, <2>3, <2>4, <2>5, <2>6, <2>7, SumOnImage
  <2> QED BY <2>1, <2>8
<1>11. SumFunctionOnSet(going, split) = SumFunctionOnSet(going, S)
  <2>1. \A l \in S \ split : going[l] = 0 BY DEF SplitUnits
  <2>2. split \in SUBSET S BY <1>2
  <2>3. \A l \in S : going[l] \in Int BY <1>7
  <2> HIDE DEF S, split, going
  <2> QED BY <1>5, <2>1, <2>2, <2>3, SumOnSupport
<1>12. SumFunctionOnSet(old, S)
         = SumFunctionOnSet(new, S) + SumFunctionOnSet(lost, S) + SumFunctionOnSet(going, S)
  <2> DEFINE rest == [l \in S |-> lost[l] + going[l]]
  <2>1. \A l \in S : new[l] \in Int BY <1>1, <1>2, <1>3, <1>6
  <2>2. \A l \in S : rest[l] = lost[l] + going[l] /\ lost[l] \in Int /\ going[l] \in Int
    BY <1>7
  <2>3. \A l \in S : rest[l] \in Int BY <2>2
  <2>4. \A l \in S : old[l] = new[l] + rest[l]
    <3> HIDE DEF S, old, new, lost, going, rest
    <3> QED BY <1>7, <2>1, <2>2
  <2> HIDE DEF S, old, new, lost, going, rest
  <2>5. SumFunctionOnSet(old, S) = SumFunctionOnSet(new, S) + SumFunctionOnSet(rest, S)
    BY <1>5, <2>1, <2>3, <2>4, SumOnPlus
  <2>6. SumFunctionOnSet(rest, S) = SumFunctionOnSet(lost, S) + SumFunctionOnSet(going, S)
    BY <1>5, <2>2, SumOnPlus
  <2>7. /\ SumFunctionOnSet(new, S) \in Int /\ SumFunctionOnSet(lost, S) \in Int
        /\ SumFunctionOnSet(going, S) \in Int
    BY <1>5, <2>1, <2>2, SumOnInt
  <2> QED BY <2>5, <2>6, <2>7
<1>13. /\ SumFunctionOnSet(new, S) \in Int /\ SumFunctionOnSet(lost, S) \in Int
       /\ SumFunctionOnSet(going, S) \in Int
  <2>1. \A l \in S : new[l] \in Int BY <1>1, <1>2, <1>3, <1>6
  <2>2. \A l \in S : lost[l] \in Int /\ going[l] \in Int BY <1>7
  <2> HIDE DEF S, new, lost, going
  <2> QED BY <1>5, <2>1, <2>2, SumOnInt
<1>14. BoughtTotal(s) = BoughtTotal(r) + SumFunctionOnSet(lost, S)
  <2>1. BoughtTotal(s) = SumFunctionOnSet(old, S) BY DEF BoughtTotal
  <2>2. BoughtTotal(r) = SumFunctionOnSet(new, 1..(n + c)) BY <1>2 DEF BoughtTotal
  <2>3. S = 1..n OBVIOUS
  <2> HIDE DEF S, old, new, lost, going, kids, n, c, split
  <2> QED BY <1>9, <1>10, <1>11, <1>12, <1>13, <2>1, <2>2, <2>3
<1>15. ASSUME NEW k \in 1..Len(r), k > Len(s) PROVE \E l \in 1..Len(s) : r[k].type = s[l].type
  <2>1. PICK j : j = k - Len(s) OBVIOUS
  <2>2. j \in 1..c /\ k = n + j BY <1>1, <1>2, <1>3, <1>15, <2>1
  <2>3. list[j] \in S /\ r[n + j].type = s[list[j]].type BY <1>8, <2>2
  <2> QED BY <2>2, <2>3
<1> QED BY <1>7, <1>14, <1>15

\* Everything is of the one item, found stock is deemed, and a suggestion that is still
\* pending has retired nothing.
OneItem == \A l \in 1..Len(lots) : lots[l].type = Item
SuggestionsUnspent ==
    \A i \in DOMAIN moves :
        /\ moves[i].lot # 0 => lots[moves[i].lot].cost_is_estimated
        /\ moves[i].status = "pending" => moves[i].qty_retired = 0

\* At most one fill waits for a poll.
OneFill == Len(fills) <= 1

BackInv ==
    /\ FInv
    /\ OneItem /\ SuggestionsUnspent
    /\ OneFill
    /\ UnitsBacked

\* What every step leaves of the backing.
Backs ==
    /\ OneItem' /\ SuggestionsUnspent' /\ OneFill'
    /\ MeasuredStock + RetiredUnits + InWorld' + SoldAtEstimate'
         <= MeasuredStock' + RetiredUnits' + InWorld + SoldAtEstimate

\* Old rows keep their item and their confidence.
RowsKept ==
    /\ Len(lots) <= Len(lots')
    /\ \A l \in 1..Len(lots) : lots'[l].cost_is_estimated = lots[l].cost_is_estimated

LEMMA UnspentKept ==
    ASSUME TypeOK, MovesAnchored, SuggestionsUnspent, RowsKept, DOMAIN moves' = DOMAIN moves,
           \A i \in DOMAIN moves :
              /\ moves'[i].lot = moves[i].lot
              /\ moves'[i].status = "pending" =>
                    moves[i].status = "pending" /\ moves'[i].qty_retired = moves[i].qty_retired
    PROVE  SuggestionsUnspent'
<1> SUFFICES ASSUME NEW i \in DOMAIN moves
             PROVE  /\ moves'[i].lot # 0 => lots'[moves'[i].lot].cost_is_estimated
                    /\ moves'[i].status = "pending" => moves'[i].qty_retired = 0
  BY DEF SuggestionsUnspent
<1>1. PICK l : l = moves[i].lot OBVIOUS
<1>2. l \in 0..Len(lots) /\ Len(lots) \in Nat BY <1>1 DEF MovesAnchored, TypeOK
<1>3. l # 0 => l \in 1..Len(lots) /\ lots[l].cost_is_estimated
  BY <1>1, <1>2 DEF SuggestionsUnspent
<1>4. l # 0 => lots'[l].cost_is_estimated BY <1>3 DEF RowsKept
<1> QED BY <1>1, <1>4 DEF SuggestionsUnspent

\* The reversing entry takes from deemed rows only.
LEMMA BoughtReversed ==
    ASSUME NEW s \in Seq(Lot), NEW l, NEW qty \in Nat,
           qty > 0 => s[l].qty_remaining >= qty /\ s[l].cost_is_estimated,
           NEW r, r = Reversed(s, l, qty)
    PROVE  /\ BoughtTotal(r) = BoughtTotal(s)
           /\ \A k \in 1..Len(s) : /\ r[k].cost_is_estimated = s[k].cost_is_estimated
                                   /\ r[k].type = s[k].type
<1>1. /\ r \in Seq(Lot) /\ Len(r) = Len(s)
      /\ \A k \in 1..Len(s) : r[k] = IF k = l THEN Consumed(s[k], qty) ELSE s[k]
  BY ReversedIs
<1>2. ASSUME NEW k \in 1..Len(s)
      PROVE  /\ r[k].cost_is_estimated = s[k].cost_is_estimated /\ r[k].type = s[k].type
             /\ BoughtUnits(r)[k] = BoughtUnits(s)[k]
  <2>1. PICK lot, row : lot = s[k] /\ row = r[k] OBVIOUS
  <2>2. /\ lot \in Lot /\ lot.qty_remaining \in Nat
        /\ BoughtUnits(s)[k] = IF lot.cost_is_estimated THEN 0 ELSE lot.qty_remaining
    BY <2>1, BoughtType
  <2>3. BoughtUnits(r)[k] = IF row.cost_is_estimated THEN 0 ELSE row.qty_remaining
    BY <1>1, <2>1, BoughtType
  <2>4. row = IF k = l THEN Consumed(lot, qty) ELSE lot BY <1>1, <2>1
  <2>5. /\ row.cost_is_estimated = lot.cost_is_estimated /\ row.type = lot.type
        /\ row.qty_remaining = IF k = l THEN lot.qty_remaining - qty ELSE lot.qty_remaining
    BY <2>2, <2>4 DEF Consumed, Lot
  <2>6. CASE k = l /\ qty > 0
    <3>1. lot.cost_is_estimated BY <2>1, <2>6
    <3> QED BY <2>1, <2>2, <2>3, <2>5, <3>1
  <2>7. CASE k # l \/ qty = 0
    <3>1. row.qty_remaining = lot.qty_remaining BY <2>2, <2>5, <2>7
    <3> QED BY <2>1, <2>2, <2>3, <2>5, <3>1
  <2> QED BY <2>6, <2>7
<1>3. IsFiniteSet(1..Len(s)) BY BoughtType
<1>4. SumFunctionOnSet(BoughtUnits(r), 1..Len(s)) = SumFunctionOnSet(BoughtUnits(s), 1..Len(s))
  <2>1. \A k \in 1..Len(s) : BoughtUnits(r)[k] = BoughtUnits(s)[k] BY <1>2
  <2> QED BY <1>3, <2>1, SumOnSame
<1> QED BY <1>1, <1>2, <1>4 DEF BoughtTotal

\* What confirmed suggestions retired, over any rows.
RetiredRows(ms) == SumFunction([i \in DOMAIN ms |-> ms[i].qty_retired])

LEMMA RetiredType ==
    ASSUME NEW ms \in Seq(Move)
    PROVE  /\ IsFiniteSet(DOMAIN ms) /\ RetiredRows(ms) \in Nat
           /\ \A i \in DOMAIN ms : ms[i].qty_retired \in Nat
<1> DEFINE f == [i \in DOMAIN ms |-> ms[i].qty_retired]
<1>1. IsFiniteSet(DOMAIN ms) BY PlacesFinite
<1>2. ASSUME NEW i \in DOMAIN ms PROVE ms[i].qty_retired \in Nat
  <2>1. ms[i] \in Move OBVIOUS
  <2> QED BY <2>1 DEF Move
<1>3. DOMAIN f = DOMAIN ms /\ \A i \in DOMAIN ms : f[i] \in Nat BY <1>2
<1> HIDE DEF f
<1>4. SumFunction(f) \in Nat BY <1>1, <1>3, TotalType
<1> QED BY <1>1, <1>2, <1>4 DEF RetiredRows, f

\* One more confirmation adds what it retires.
LEMMA RetiredMore ==
    ASSUME NEW ms \in Seq(Move), NEW new \in Seq(Move), DOMAIN new = DOMAIN ms,
           NEW i \in DOMAIN ms, NEW qty \in Nat, ms[i].qty_retired = 0,
           \A j \in DOMAIN ms :
              new[j].qty_retired = IF j = i THEN qty ELSE ms[j].qty_retired
    PROVE  RetiredRows(new) = RetiredRows(ms) + qty
<1> DEFINE f == [j \in DOMAIN ms |-> ms[j].qty_retired]
           g == [j \in DOMAIN new |-> new[j].qty_retired]
           S == DOMAIN ms
<1>1. IsFiniteSet(S) BY RetiredType
<1>2. \A j \in S : f[j] \in Int /\ g[j] \in Int BY RetiredType
<1>3. \A j \in S \ {i} : g[j] = f[j] OBVIOUS
<1>4. f[i] = 0 /\ g[i] = qty /\ i \in S OBVIOUS
<1>5. DOMAIN f = S /\ DOMAIN g = S OBVIOUS
<1> HIDE DEF f, g, S
<1>6. SumFunctionOnSet(g, S) = SumFunctionOnSet(f, S) - f[i] + g[i]
  BY <1>1, <1>2, <1>3, <1>4, SumOnChange
<1>7. SumFunctionOnSet(f, S) \in Int BY <1>1, <1>2, SumOnInt
<1>8. SumFunctionOnSet(g, S) = SumFunctionOnSet(f, S) + qty BY <1>4, <1>6, <1>7
<1> QED BY <1>5, <1>8 DEF RetiredRows, SumFunction, f, g

\* The same retirements, possibly among rows that retired nothing.
LEMMA RetiredSame ==
    ASSUME NEW ms \in Seq(Move), NEW new \in Seq(Move), Len(ms) <= Len(new),
           \A j \in 1..Len(ms) : new[j].qty_retired = ms[j].qty_retired,
           \A j \in 1..Len(new) : j > Len(ms) => new[j].qty_retired = 0
    PROVE  RetiredRows(new) = RetiredRows(ms)
<1> DEFINE f == [j \in DOMAIN ms |-> ms[j].qty_retired]
           g == [j \in DOMAIN new |-> new[j].qty_retired]
           P == DOMAIN ms
           S == DOMAIN new
<1>1. /\ P = 1..Len(ms) /\ S = 1..Len(new) /\ Len(ms) \in Nat /\ Len(new) \in Nat
      /\ P \in SUBSET S
  OBVIOUS
<1>2. IsFiniteSet(P) /\ IsFiniteSet(S) BY RetiredType
<1>3. \A j \in S : g[j] \in Int BY RetiredType
<1>4. \A j \in S \ P : g[j] = 0 BY <1>1
<1>5. \A j \in P : g[j] = f[j] BY <1>1
<1>6. DOMAIN f = P /\ DOMAIN g = S OBVIOUS
<1>7. P \in SUBSET S BY <1>1
<1> HIDE DEF f, g, P, S
<1>8. SumFunctionOnSet(g, S) = SumFunctionOnSet(g, P)
  BY <1>2, <1>3, <1>4, <1>7, SumOnSupport
<1>9. SumFunctionOnSet(g, P) = SumFunctionOnSet(f, P) BY <1>2, <1>5, SumOnSame
<1> QED BY <1>6, <1>8, <1>9 DEF RetiredRows, SumFunction, f, g

\* The totals of a state as totals over its rows.
LEMMA TotalsBefore ==
    ASSUME TypeOK
    PROVE  /\ MeasuredStock = BoughtTotal(lots) /\ SoldAtEstimate = EstimateTotal(sales)
           /\ RetiredUnits = RetiredRows(moves)
           /\ MeasuredStock \in Nat /\ SoldAtEstimate \in Nat /\ RetiredUnits \in Nat
<1>1. lots \in Seq(Lot) /\ sales \in Seq(Sale) /\ moves \in Seq(Move) BY DEF TypeOK
<1>2. MeasuredStock = BoughtTotal(lots) BY <1>1, MeasuredForm DEF MeasuredStock
<1>3. SoldAtEstimate = EstimateTotal(sales) BY <1>1, EstimateForm DEF SoldAtEstimate
<1>4. RetiredUnits = RetiredRows(moves) BY DEF RetiredUnits, RetiredRows
<1> QED BY <1>1, <1>2, <1>3, <1>4, BoughtType, EstimateTotalType, RetiredType

LEMMA TotalsAfter ==
    ASSUME TypeOK'
    PROVE  /\ MeasuredStock' = BoughtTotal(lots') /\ SoldAtEstimate' = EstimateTotal(sales')
           /\ RetiredUnits' = RetiredRows(moves')
           /\ MeasuredStock' \in Nat /\ SoldAtEstimate' \in Nat /\ RetiredUnits' \in Nat
<1>1. lots' \in Seq(Lot) /\ sales' \in Seq(Sale) /\ moves' \in Seq(Move) BY DEF TypeOK
<1>2. MeasuredStock' = BoughtTotal(lots') BY <1>1, MeasuredForm DEF MeasuredStock
<1>3. SoldAtEstimate' = EstimateTotal(sales') BY <1>1, EstimateForm DEF SoldAtEstimate
<1>4. RetiredUnits' = RetiredRows(moves') BY DEF RetiredUnits, RetiredRows
<1> QED BY <1>1, <1>2, <1>3, <1>4, BoughtType, EstimateTotalType, RetiredType

-----------------------------------------------------------------------------
(* What there is in the world *)

\* The units in hangars and in orders, the goods on the road, and the fill that waits.
Have(hd, es) == [l \in Locations |-> hd[l] + es[l]]
Moving(hs, cs) == [i \in 1..Len(hs) |-> IF cs[i] = "road" THEN hs[i].qty ELSE 0]
Waiting(fs) == IF fs = <<>> THEN 0 ELSE fs[1].qty
World(hd, es, hs, cs, fs) ==
    SumFunctionOnSet(Have(hd, es), Locations)
      + SumFunctionOnSet(Moving(hs, cs), 1..Len(hs)) + Waiting(fs)

LEMMA HaveType ==
    ASSUME NEW hd \in [Locations -> Nat], NEW es \in [Locations -> Nat]
    PROVE  /\ SumFunctionOnSet(Have(hd, es), Locations) \in Nat
           /\ \A l \in Locations : /\ Have(hd, es)[l] = hd[l] + es[l]
                                   /\ Have(hd, es)[l] \in Nat
<1>1. IsFiniteSet(Locations) BY HangarsAssumption
<1>2. \A l \in Locations : Have(hd, es)[l] = hd[l] + es[l] /\ Have(hd, es)[l] \in Nat
  BY DEF Have
<1> QED BY <1>1, <1>2, SumOnNat

LEMMA MovingType ==
    ASSUME NEW hs \in Seq(Haul), NEW cs
    PROVE  /\ IsFiniteSet(1..Len(hs))
           /\ SumFunctionOnSet(Moving(hs, cs), 1..Len(hs)) \in Nat
           /\ \A i \in 1..Len(hs) :
                 /\ hs[i].qty \in Nat
                 /\ Moving(hs, cs)[i] = IF cs[i] = "road" THEN hs[i].qty ELSE 0
                 /\ Moving(hs, cs)[i] \in Nat
<1>1. Len(hs) \in Nat OBVIOUS
<1>2. IsFiniteSet(1..Len(hs)) BY <1>1, FS_Interval
<1>3. ASSUME NEW i \in 1..Len(hs)
      PROVE  /\ hs[i].qty \in Nat
             /\ Moving(hs, cs)[i] = IF cs[i] = "road" THEN hs[i].qty ELSE 0
             /\ Moving(hs, cs)[i] \in Nat
  <2>1. hs[i] \in Haul OBVIOUS
  <2>2. hs[i].qty \in Nat BY <2>1 DEF Haul
  <2> QED BY <2>2 DEF Moving
<1>4. SumFunctionOnSet(Moving(hs, cs), 1..Len(hs)) \in Nat BY <1>2, <1>3, SumOnNat
<1> QED BY <1>2, <1>3, <1>4

LEMMA WaitingType ==
    ASSUME NEW fs \in Seq(Fill), Len(fs) <= 1
    PROVE  Waiting(fs) \in Nat /\ SumFunction([i \in DOMAIN fs |-> fs[i].qty]) = Waiting(fs)
<1> DEFINE f == [i \in DOMAIN fs |-> fs[i].qty]
<1>1. DOMAIN f = 1..Len(fs) /\ Len(fs) \in Nat OBVIOUS
<1>2. CASE fs = <<>>
  <2>1. DOMAIN f = {} BY <1>2
  <2> HIDE DEF f
  <2>2. SumFunction(f) = 0 BY <2>1, SumOnEmpty DEF SumFunction
  <2> QED BY <1>2, <2>2 DEF Waiting, f
<1>3. CASE fs # <<>>
  <2>1. Len(fs) = 1 BY <1>1, <1>3
  <2>2. fs[1] \in Fill BY <2>1
  <2>3. fs[1].qty \in Nat BY <2>2 DEF Fill
  <2>4. DOMAIN f = {1} /\ f[1] = fs[1].qty BY <1>1, <2>1
  <2> HIDE DEF f
  <2>5. IsFiniteSet({1}) BY FS_Singleton
  <2>6. SumFunctionOnSet(f, {1}) = f[1] BY <2>3, <2>4, <2>5, SumOnOne
  <2> QED BY <1>3, <2>3, <2>4, <2>6 DEF Waiting, SumFunction, f
<1> QED BY <1>2, <1>3

LEMMA MovingForm ==
    ASSUME NEW hs \in Seq(Haul), NEW cs \in [DOMAIN hs -> {"origin", "road", "destination"}]
    PROVE  SumFunction([i \in {x \in DOMAIN cs : cs[x] = "road"} |-> hs[i].qty])
             = SumFunctionOnSet(Moving(hs, cs), 1..Len(hs))
<1> DEFINE P == {x \in DOMAIN cs : cs[x] = "road"}
           f == [i \in P |-> hs[i].qty]
           g == Moving(hs, cs)
           S == 1..Len(hs)
<1>1. DOMAIN cs = S /\ DOMAIN f = P OBVIOUS
<1>2. IsFiniteSet(S) BY MovingType
<1>3. \A i \in S : /\ g[i] \in Nat
                   /\ g[i] = IF cs[i] = "road" THEN hs[i].qty ELSE 0
  BY MovingType
<1>4. P \in SUBSET S BY <1>1
<1>5. \A i \in P : f[i] = g[i] BY <1>1, <1>3
<1>6. \A i \in S \ P : g[i] = 0 BY <1>1, <1>3
<1> HIDE DEF P, f, g, S
<1>7. \A i \in S : g[i] \in Int BY <1>3
<1>8. SumFunctionOnSet(f, P) = SumFunctionOnSet(g, S)
  BY <1>2, <1>4, <1>5, <1>6, <1>7, SumOnFilter
<1> QED BY <1>1, <1>8 DEF SumFunction, P, f, g, S

LEMMA WorldForm ==
    ASSUME NEW hd \in [Locations -> Nat], NEW es \in [Locations -> Nat], NEW hs \in Seq(Haul),
           NEW cs \in [DOMAIN hs -> {"origin", "road", "destination"}],
           NEW fs \in Seq(Fill), Len(fs) <= 1
    PROVE  SumFunction([l \in Locations |-> hd[l] + es[l]])
             + SumFunction([i \in {x \in DOMAIN cs : cs[x] = "road"} |-> hs[i].qty])
             + SumFunction([i \in DOMAIN fs |-> fs[i].qty])
           = World(hd, es, hs, cs, fs)
<1>1. SumFunction([l \in Locations |-> hd[l] + es[l]]) = SumFunctionOnSet(Have(hd, es), Locations)
  <2>1. Have(hd, es) = [l \in Locations |-> hd[l] + es[l]] BY DEF Have
  <2>2. DOMAIN Have(hd, es) = Locations BY <2>1
  <2> QED BY <2>1, <2>2 DEF SumFunction
<1>2. SumFunction([i \in {x \in DOMAIN cs : cs[x] = "road"} |-> hs[i].qty])
        = SumFunctionOnSet(Moving(hs, cs), 1..Len(hs))
  BY MovingForm
<1>3. SumFunction([i \in DOMAIN fs |-> fs[i].qty]) = Waiting(fs) BY WaitingType
<1> QED BY <1>1, <1>2, <1>3 DEF World

LEMMA WorldBefore ==
    ASSUME TypeOK, OneFill
    PROVE  InWorld = World(held, escrow, hauls, cargo, fills) /\ InWorld \in Nat
<1>1. /\ held \in [Locations -> Nat] /\ escrow \in [Locations -> Nat] /\ hauls \in Seq(Haul)
      /\ cargo \in [DOMAIN hauls -> {"origin", "road", "destination"}] /\ fills \in Seq(Fill)
      /\ Len(fills) <= 1
  BY DEF TypeOK, OneFill
<1>2. InWorld = World(held, escrow, hauls, cargo, fills)
  BY <1>1, WorldForm DEF InWorld, OnTheRoad
<1>3. /\ SumFunctionOnSet(Have(held, escrow), Locations) \in Nat
      /\ SumFunctionOnSet(Moving(hauls, cargo), 1..Len(hauls)) \in Nat
      /\ Waiting(fills) \in Nat
  BY <1>1, HaveType, MovingType, WaitingType
<1>4. World(held, escrow, hauls, cargo, fills) \in Nat BY <1>3 DEF World
<1> QED BY <1>2, <1>4

LEMMA WorldAfter ==
    ASSUME TypeOK', OneFill'
    PROVE  InWorld' = World(held', escrow', hauls', cargo', fills') /\ InWorld' \in Nat
<1>1. /\ held' \in [Locations -> Nat] /\ escrow' \in [Locations -> Nat] /\ hauls' \in Seq(Haul)
      /\ cargo' \in [DOMAIN hauls' -> {"origin", "road", "destination"}] /\ fills' \in Seq(Fill)
      /\ Len(fills') <= 1
  BY DEF TypeOK, OneFill
<1>2. InWorld' = World(held', escrow', hauls', cargo', fills')
  BY <1>1, WorldForm DEF InWorld, OnTheRoad
<1>3. /\ SumFunctionOnSet(Have(held', escrow'), Locations) \in Nat
      /\ SumFunctionOnSet(Moving(hauls', cargo'), 1..Len(hauls')) \in Nat
      /\ Waiting(fills') \in Nat
  BY <1>1, HaveType, MovingType, WaitingType
<1>4. World(held', escrow', hauls', cargo', fills') \in Nat BY <1>3 DEF World
<1> QED BY <1>2, <1>4

\* One place changes.
LEMMA HaveChanged ==
    ASSUME NEW hd \in [Locations -> Nat], NEW es \in [Locations -> Nat],
           NEW hn \in [Locations -> Nat], NEW en \in [Locations -> Nat], NEW l \in Locations,
           \A x \in Locations \ {l} : hn[x] + en[x] = hd[x] + es[x]
    PROVE  SumFunctionOnSet(Have(hn, en), Locations)
             = SumFunctionOnSet(Have(hd, es), Locations) - (hd[l] + es[l]) + (hn[l] + en[l])
<1> DEFINE f == Have(hd, es)
           g == Have(hn, en)
<1>1. IsFiniteSet(Locations) BY HangarsAssumption
<1>2. \A x \in Locations : f[x] \in Int /\ g[x] \in Int BY HaveType
<1>3. \A x \in Locations \ {l} : g[x] = f[x] BY HaveType
<1>4. f[l] = hd[l] + es[l] /\ g[l] = hn[l] + en[l] BY HaveType
<1> HIDE DEF f, g
<1>5. SumFunctionOnSet(g, Locations) = SumFunctionOnSet(f, Locations) - f[l] + g[l]
  BY <1>1, <1>2, <1>3, SumOnChange
<1> QED BY <1>4, <1>5 DEF f, g

\* One haul leaves or lands.
LEMMA MovingChanged ==
    ASSUME NEW hs \in Seq(Haul), NEW cs, NEW cn, NEW i \in 1..Len(hs),
           \A x \in (1..Len(hs)) \ {i} : cn[x] = cs[x]
    PROVE  SumFunctionOnSet(Moving(hs, cn), 1..Len(hs))
             = SumFunctionOnSet(Moving(hs, cs), 1..Len(hs))
                 - (IF cs[i] = "road" THEN hs[i].qty ELSE 0)
                 + (IF cn[i] = "road" THEN hs[i].qty ELSE 0)
<1> DEFINE f == Moving(hs, cs)
           g == Moving(hs, cn)
           S == 1..Len(hs)
<1>1. IsFiniteSet(S) BY MovingType
<1>6. \A x \in S : f[x] \in Nat /\ g[x] \in Nat BY MovingType
<1>2. \A x \in S \ {i} : g[x] = f[x] BY MovingType
<1>3. /\ f[i] = (IF cs[i] = "road" THEN hs[i].qty ELSE 0)
      /\ g[i] = (IF cn[i] = "road" THEN hs[i].qty ELSE 0)
  BY MovingType
<1>4. i \in S OBVIOUS
<1>7. \A x \in S : f[x] \in Int /\ g[x] \in Int BY <1>6
<1> HIDE DEF f, g, S
<1>8. \A x \in S : (\A y \in S \ {x} : g[y] = f[y])
                  => SumFunctionOnSet(g, S) = SumFunctionOnSet(f, S) - f[x] + g[x]
  BY <1>1, <1>7, SumOnChange
<1>5. SumFunctionOnSet(g, S) = SumFunctionOnSet(f, S) - f[i] + g[i]
  BY <1>2, <1>4, <1>8
<1> QED BY <1>3, <1>5 DEF f, g, S

-----------------------------------------------------------------------------
(* The steps of the world *)

NothingAdded ==
    World(held', escrow', hauls', cargo', fills') <= World(held, escrow, hauls, cargo, fills)

\* A step that writes no row and adds nothing to the world.
LEMMA WorldBacks ==
    ASSUME TypeOK, TypeOK', OneItem, SuggestionsUnspent, OneFill, OneFill',
           UNCHANGED <<lots, sales, moves>>,
           NothingAdded
    PROVE  Backs
<1>1. OneItem' BY DEF OneItem
<1>2. SuggestionsUnspent' BY DEF SuggestionsUnspent
<1>3. /\ MeasuredStock' = MeasuredStock /\ SoldAtEstimate' = SoldAtEstimate
      /\ RetiredUnits' = RetiredUnits
  BY TotalsBefore, TotalsAfter
<1>4. /\ MeasuredStock \in Nat /\ SoldAtEstimate \in Nat /\ RetiredUnits \in Nat
  BY TotalsBefore
<1>5. InWorld \in Nat /\ InWorld' \in Nat /\ InWorld' <= InWorld BY WorldBefore, WorldAfter DEF NothingAdded
<1>6. MeasuredStock + RetiredUnits + InWorld' + SoldAtEstimate
        <= MeasuredStock + RetiredUnits + InWorld + SoldAtEstimate
  <2>1. PICK m, r, e, v, w : /\ m = MeasuredStock /\ r = RetiredUnits /\ e = SoldAtEstimate
                             /\ v = InWorld' /\ w = InWorld
    OBVIOUS
  <2>2. m \in Nat /\ r \in Nat /\ e \in Nat /\ v \in Nat /\ w \in Nat /\ v <= w
    BY <1>4, <1>5, <2>1
  <2>3. m + r + v + e <= m + r + w + e BY <2>2
  <2> QED BY <2>1, <2>3
<1>7. MeasuredStock + RetiredUnits + InWorld' + SoldAtEstimate'
        <= MeasuredStock' + RetiredUnits' + InWorld + SoldAtEstimate
  BY <1>3, <1>6, Zenon
<1> QED BY <1>1, <1>2, <1>7 DEF Backs

\* The parts of the world in a state and after a step.
LEMMA PartsBefore ==
    ASSUME TypeOK, OneFill
    PROVE  /\ held \in [Locations -> Nat] /\ escrow \in [Locations -> Nat]
           /\ hauls \in Seq(Haul) /\ fills \in Seq(Fill)
           /\ cargo \in [DOMAIN hauls -> {"origin", "road", "destination"}]
           /\ SumFunctionOnSet(Have(held, escrow), Locations) \in Nat
           /\ SumFunctionOnSet(Moving(hauls, cargo), 1..Len(hauls)) \in Nat
           /\ Waiting(fills) \in Nat
  BY HaveType, MovingType, WaitingType DEF TypeOK, OneFill

LEMMA PartsAfter ==
    ASSUME TypeOK', OneFill'
    PROVE  /\ held' \in [Locations -> Nat] /\ escrow' \in [Locations -> Nat]
           /\ hauls' \in Seq(Haul) /\ fills' \in Seq(Fill)
           /\ cargo' \in [DOMAIN hauls' -> {"origin", "road", "destination"}]
           /\ SumFunctionOnSet(Have(held', escrow'), Locations) \in Nat
           /\ SumFunctionOnSet(Moving(hauls', cargo'), 1..Len(hauls')) \in Nat
           /\ Waiting(fills') \in Nat
  BY HaveType, MovingType, WaitingType DEF TypeOK, OneFill

\* Units that change place: two places change, by opposite amounts.
LEMMA CarryBacks ==
    ASSUME TypeOK, TypeOK', OneItem, SuggestionsUnspent, OneFill,
           NEW trip \in Trips, NEW qty \in Nat, Carry(trip[1], trip[2], qty)
    PROVE  Backs
<1>1. PICK a, b : a = trip[1] /\ b = trip[2] OBVIOUS
<1>2. a \in Locations /\ b \in Locations /\ a # b BY <1>1, HangarsAssumption
<1>3. /\ UNCHANGED <<lots, sales, moves, hauls, cargo, escrow, fills>> /\ qty <= held[a]
      /\ held' = [held EXCEPT ![a] = @ - qty, ![b] = @ + qty]
  BY <1>1 DEF Carry, Undeclared, books
<1>4. held \in [Locations -> Nat] /\ escrow \in [Locations -> Nat] BY DEF TypeOK
<1>5. PICK mid : mid = [held EXCEPT ![a] = held[a] - qty] OBVIOUS
<1>6. /\ mid \in [Locations -> Nat] /\ mid[a] = held[a] - qty /\ mid[b] = held[b]
      /\ \A x \in Locations \ {a} : mid[x] = held[x]
  BY <1>2, <1>3, <1>4, <1>5
<1>7. /\ held' \in [Locations -> Nat] /\ held'[b] = held[b] + qty
      /\ \A x \in Locations \ {b} : held'[x] = mid[x]
  BY <1>2, <1>3, <1>4, <1>5
<1>8. SumFunctionOnSet(Have(mid, escrow), Locations)
        = SumFunctionOnSet(Have(held, escrow), Locations)
            - (held[a] + escrow[a]) + (mid[a] + escrow[a])
  <2>1. \A x \in Locations \ {a} : mid[x] + escrow[x] = held[x] + escrow[x] BY <1>6
  <2> QED BY <1>2, <1>4, <1>6, <2>1, HaveChanged
<1>9. SumFunctionOnSet(Have(held', escrow), Locations)
        = SumFunctionOnSet(Have(mid, escrow), Locations)
            - (mid[b] + escrow[b]) + (held'[b] + escrow[b])
  <2>1. \A x \in Locations \ {b} : held'[x] + escrow[x] = mid[x] + escrow[x] BY <1>7
  <2>2. PICK new : new = held' OBVIOUS
  <2>3. /\ new \in [Locations -> Nat]
        /\ \A x \in Locations \ {b} : new[x] + escrow[x] = mid[x] + escrow[x]
    BY <1>7, <2>1, <2>2
  <2>4. SumFunctionOnSet(Have(new, escrow), Locations)
          = SumFunctionOnSet(Have(mid, escrow), Locations)
              - (mid[b] + escrow[b]) + (new[b] + escrow[b])
    BY <1>2, <1>4, <1>6, <2>3, HaveChanged
  <2> QED BY <2>2, <2>4
<1>10. held[a] \in Nat /\ held[b] \in Nat /\ escrow[a] \in Nat /\ escrow[b] \in Nat
  BY <1>2, <1>4
<1>11. /\ SumFunctionOnSet(Have(held, escrow), Locations) \in Nat
       /\ SumFunctionOnSet(Have(mid, escrow), Locations) \in Nat
  BY <1>4, <1>6, HaveType
<1>12. SumFunctionOnSet(Have(held', escrow'), Locations)
         = SumFunctionOnSet(Have(held, escrow), Locations)
  <2>1. PICK x, y, z : /\ x = SumFunctionOnSet(Have(held, escrow), Locations)
                       /\ y = SumFunctionOnSet(Have(mid, escrow), Locations)
                       /\ z = SumFunctionOnSet(Have(held', escrow), Locations)
    OBVIOUS
  <2>2. x \in Nat /\ y \in Nat BY <1>11, <2>1
  <2>3. y = x - (held[a] + escrow[a]) + (held[a] - qty + escrow[a]) BY <1>6, <1>8, <2>1
  <2>4. z = y - (held[b] + escrow[b]) + (held[b] + qty + escrow[b]) BY <1>6, <1>7, <1>9, <2>1
  <2>5. z = x BY <1>10, <2>2, <2>3, <2>4
  <2>6. escrow' = escrow BY <1>3
  <2> QED BY <2>1, <2>5, <2>6
<1>13. World(held', escrow', hauls', cargo', fills') = World(held, escrow, hauls, cargo, fills)
  BY <1>3, <1>12 DEF World
<1>14. World(held, escrow, hauls, cargo, fills) \in Nat BY WorldBefore
<1>15. NothingAdded BY <1>13, <1>14 DEF NothingAdded
<1> QED BY <1>3, <1>15, WorldBacks DEF OneFill

\* Units that change between hangar and order at one place.
LEMMA OrderBacks ==
    ASSUME TypeOK, TypeOK', OneItem, SuggestionsUnspent, OneFill,
           NEW l \in SellAt, NEW qty \in Nat, ListForSale(l, qty) \/ CancelOrder(l)
    PROVE  Backs
<1>1. l \in Locations BY HangarsAssumption
<1>2. UNCHANGED <<lots, sales, moves, hauls, cargo, fills>>
  BY DEF ListForSale, CancelOrder, Undeclared, books
<1>3. held \in [Locations -> Nat] /\ escrow \in [Locations -> Nat] BY DEF TypeOK
<1>4. \A x \in Locations : held'[x] + escrow'[x] = held[x] + escrow[x]
  <2>1. CASE ListForSale(l, qty)
    <3>1. /\ qty <= held[l] /\ held' = [held EXCEPT ![l] = @ - qty]
          /\ escrow' = [escrow EXCEPT ![l] = @ + qty]
      BY <2>1 DEF ListForSale
    <3> QED BY <1>1, <1>3, <3>1
  <2>2. CASE CancelOrder(l)
    <3>1. held' = [held EXCEPT ![l] = @ + escrow[l]] /\ escrow' = [escrow EXCEPT ![l] = 0]
      BY <2>2 DEF CancelOrder
    <3> QED BY <1>1, <1>3, <3>1
  <2> QED BY <2>1, <2>2
<1>5. Have(held', escrow') = Have(held, escrow) BY <1>4 DEF Have
<1>6. World(held', escrow', hauls', cargo', fills') = World(held, escrow, hauls, cargo, fills)
  BY <1>2, <1>5 DEF World
<1>7. World(held, escrow, hauls, cargo, fills) \in Nat BY WorldBefore
<1>8. NothingAdded BY <1>6, <1>7 DEF NothingAdded
<1> QED BY <1>2, <1>8, WorldBacks DEF OneFill

\* A fill leaves the orders and waits for a poll, or pays where no poll looks.
LEMMA FillBacks ==
    ASSUME TypeOK, TypeOK', OneItem, SuggestionsUnspent, OneFill,
           NEW l \in SellAt, NEW qty \in Nat, FillOrder(l, qty)
    PROVE  Backs
<1>1. l \in Locations BY HangarsAssumption
<1>2. /\ UNCHANGED <<lots, sales, moves, hauls, cargo, held>>
      /\ fills = <<>> /\ qty <= escrow[l] /\ escrow' = [escrow EXCEPT ![l] = @ - qty]
      /\ fills' = fills \/ fills' = <<[location |-> l, qty |-> qty, at |-> trips']>>
  BY DEF FillOrder, Undeclared, books
<1>3. OneFill' /\ Waiting(fills) = 0 /\ Waiting(fills') \in {0, qty}
  BY <1>2 DEF Waiting, OneFill
<1>4. SumFunctionOnSet(Have(held', escrow'), Locations)
        = SumFunctionOnSet(Have(held, escrow), Locations)
            - (held[l] + escrow[l]) + (held'[l] + escrow'[l])
  <2>1. /\ held \in [Locations -> Nat] /\ escrow \in [Locations -> Nat]
        /\ held' \in [Locations -> Nat] /\ escrow' \in [Locations -> Nat]
    BY DEF TypeOK
  <2>2. \A x \in Locations \ {l} : held'[x] + escrow'[x] = held[x] + escrow[x]
    BY <1>2, <2>1
  <2>3. PICK hn, en : hn = held' /\ en = escrow' OBVIOUS
  <2>4. SumFunctionOnSet(Have(hn, en), Locations)
          = SumFunctionOnSet(Have(held, escrow), Locations)
              - (held[l] + escrow[l]) + (hn[l] + en[l])
    BY <1>1, <2>1, <2>2, <2>3, HaveChanged
  <2> QED BY <2>3, <2>4
<1>5. held[l] \in Nat /\ escrow[l] \in Nat /\ held'[l] = held[l] /\ escrow'[l] = escrow[l] - qty
  BY <1>1, <1>2 DEF TypeOK
<1>6. /\ SumFunctionOnSet(Have(held, escrow), Locations) \in Nat
      /\ SumFunctionOnSet(Moving(hauls, cargo), 1..Len(hauls)) \in Nat
  BY PartsBefore
<1>7. SumFunctionOnSet(Have(held', escrow'), Locations)
        = SumFunctionOnSet(Have(held, escrow), Locations) - qty
  BY <1>4, <1>5, <1>6
<1>8. NothingAdded
  <2>1. hauls' = hauls /\ cargo' = cargo BY <1>2
  <2>2. PICK w : w = Waiting(fills') OBVIOUS
  <2>3. w = 0 \/ w = qty BY <1>3, <2>2
  <2> QED BY <1>3, <1>6, <1>7, <2>1, <2>2, <2>3 DEF World, NothingAdded
<1> QED BY <1>2, <1>3, <1>8, WorldBacks

\* The goods of a haul leave a hangar for the road, and the road for a hangar.
LEMMA HaulBacks ==
    ASSUME TypeOK, TypeOK', OneItem, SuggestionsUnspent, OneFill,
           NEW i \in DOMAIN hauls, PickUp(i) \/ Land(i)
    PROVE  Backs
<1>1. hauls \in Seq(Haul) /\ i \in 1..Len(hauls) /\ hauls[i] \in Haul BY DEF TypeOK
<1>2. PICK h : h = hauls[i] OBVIOUS
<1>3. h.origin \in Locations /\ h.destination \in Locations /\ h.qty \in Nat
  BY <1>1, <1>2 DEF Haul
<1>4. UNCHANGED <<lots, sales, moves, hauls, escrow, fills>> BY DEF PickUp, Land, books
<1>5. /\ held \in [Locations -> Nat] /\ escrow \in [Locations -> Nat]
      /\ held' \in [Locations -> Nat] /\ escrow' = escrow
      /\ cargo \in [DOMAIN hauls -> {"origin", "road", "destination"}]
  BY <1>4 DEF TypeOK
<1>6. PICK l, d : /\ l \in Locations /\ d \in {-h.qty, h.qty}
                  /\ held'[l] = held[l] + d
                  /\ \A x \in Locations \ {l} : held'[x] = held[x]
                  /\ \A x \in (1..Len(hauls)) \ {i} : cargo'[x] = cargo[x]
                  /\ (IF cargo'[i] = "road" THEN h.qty ELSE 0) + d
                       = (IF cargo[i] = "road" THEN h.qty ELSE 0)
  <2>1. CASE PickUp(i)
    <3>1. /\ cargo[i] = "origin" /\ cargo' = [cargo EXCEPT ![i] = "road"]
          /\ held' = [held EXCEPT ![h.origin] = @ - h.qty]
      BY <1>2, <2>1 DEF PickUp
    <3>2. /\ held'[h.origin] = held[h.origin] + (-h.qty)
          /\ \A x \in Locations \ {h.origin} : held'[x] = held[x]
      BY <1>3, <1>5, <3>1
    <3>3. cargo'[i] = "road" /\ \A x \in (1..Len(hauls)) \ {i} : cargo'[x] = cargo[x]
      BY <1>1, <1>5, <3>1
    <3>4. h.qty + (-h.qty) = 0 BY <1>3
    <3> QED BY <1>3, <3>1, <3>2, <3>3, <3>4
  <2>2. CASE Land(i)
    <3>1. /\ cargo[i] = "road" /\ cargo' = [cargo EXCEPT ![i] = "destination"]
          /\ held' = [held EXCEPT ![h.destination] = @ + h.qty]
      BY <1>2, <2>2 DEF Land
    <3>2. /\ held'[h.destination] = held[h.destination] + h.qty
          /\ \A x \in Locations \ {h.destination} : held'[x] = held[x]
      BY <1>3, <1>5, <3>1
    <3>3. cargo'[i] = "destination" /\ \A x \in (1..Len(hauls)) \ {i} : cargo'[x] = cargo[x]
      BY <1>1, <1>5, <3>1
    <3>4. 0 + h.qty = h.qty BY <1>3
    <3> QED BY <1>3, <3>1, <3>2, <3>3, <3>4
  <2> QED BY <2>1, <2>2
<1>7. SumFunctionOnSet(Have(held', escrow), Locations)
        = SumFunctionOnSet(Have(held, escrow), Locations)
            - (held[l] + escrow[l]) + (held'[l] + escrow[l])
  <2>1. \A x \in Locations \ {l} : held'[x] + escrow[x] = held[x] + escrow[x] BY <1>6
  <2>2. PICK hn : hn = held' OBVIOUS
  <2>3. SumFunctionOnSet(Have(hn, escrow), Locations)
          = SumFunctionOnSet(Have(held, escrow), Locations)
              - (held[l] + escrow[l]) + (hn[l] + escrow[l])
    BY <1>5, <1>6, <2>1, <2>2, HaveChanged
  <2> QED BY <2>2, <2>3
<1>8. SumFunctionOnSet(Moving(hauls, cargo'), 1..Len(hauls))
        = SumFunctionOnSet(Moving(hauls, cargo), 1..Len(hauls))
            - (IF cargo[i] = "road" THEN h.qty ELSE 0)
            + (IF cargo'[i] = "road" THEN h.qty ELSE 0)
  <2>1. PICK cn : cn = cargo' OBVIOUS
  <2>3. \A x \in (1..Len(hauls)) \ {i} : cn[x] = cargo[x] BY <1>6, <2>1
  <2>2. SumFunctionOnSet(Moving(hauls, cn), 1..Len(hauls))
          = SumFunctionOnSet(Moving(hauls, cargo), 1..Len(hauls))
              - (IF cargo[i] = "road" THEN hauls[i].qty ELSE 0)
              + (IF cn[i] = "road" THEN hauls[i].qty ELSE 0)
    BY <1>1, <2>3, MovingChanged
  <2> QED BY <1>2, <2>1, <2>2
<1>9. held[l] \in Nat /\ escrow[l] \in Nat /\ d \in Int BY <1>3, <1>5, <1>6
<1>10. /\ SumFunctionOnSet(Have(held, escrow), Locations) \in Nat
       /\ SumFunctionOnSet(Moving(hauls, cargo), 1..Len(hauls)) \in Nat
       /\ Waiting(fills) \in Nat
  BY PartsBefore
<1>11. PICK u, v : /\ u = (IF cargo[i] = "road" THEN h.qty ELSE 0)
                   /\ v = (IF cargo'[i] = "road" THEN h.qty ELSE 0)
  OBVIOUS
<1>12. u \in Nat /\ v \in Nat /\ v + d = u BY <1>3, <1>6, <1>11
<1>13. SumFunctionOnSet(Have(held', escrow), Locations)
         = SumFunctionOnSet(Have(held, escrow), Locations) + d
  BY <1>6, <1>7, <1>9, <1>10
<1>14. SumFunctionOnSet(Moving(hauls, cargo'), 1..Len(hauls))
         = SumFunctionOnSet(Moving(hauls, cargo), 1..Len(hauls)) - d
  BY <1>8, <1>9, <1>10, <1>11, <1>12
<1>15. NothingAdded
  <2>1. hauls' = hauls /\ escrow' = escrow /\ fills' = fills BY <1>4
  <2> QED BY <1>9, <1>10, <1>13, <1>14, <2>1 DEF World, NothingAdded
<1> QED BY <1>4, <1>15, WorldBacks DEF OneFill

\* A declared haul has not left yet.
LEMMA RecordBacks ==
    ASSUME TypeOK, TypeOK', OneItem, SuggestionsUnspent, OneFill,
           NEW o, NEW d, NEW qty, RecordShipment(o, d, qty)
    PROVE  Backs
<1>1. PICK haul : haul = [origin |-> o, destination |-> d, qty |-> qty, status |-> "open"]
  OBVIOUS
<1>2. /\ UNCHANGED <<lots, sales, moves, held, escrow, fills>>
      /\ hauls' = Append(hauls, haul) /\ cargo' = Append(cargo, "origin")
  BY <1>1 DEF RecordShipment, books
<1>3. hauls \in Seq(Haul) /\ hauls' \in Seq(Haul) /\ Len(hauls) \in Nat BY DEF TypeOK
<1>4. cargo \in Seq({"origin", "road", "destination"}) /\ Len(cargo) = Len(hauls)
  BY DEF TypeOK
<1>5. /\ Len(hauls') = Len(hauls) + 1
      /\ \A x \in 1..Len(hauls) : hauls'[x] = hauls[x] /\ cargo'[x] = cargo[x]
      /\ cargo'[Len(hauls) + 1] = "origin"
  <2>1. Len(hauls') = Len(hauls) + 1 BY <1>2, <1>3
  <2>2. \A x \in 1..Len(hauls) : hauls'[x] = hauls[x] BY <1>2, <1>3
  <2>3. \A x \in 1..Len(hauls) : cargo'[x] = cargo[x] BY <1>2, <1>4
  <2>4. cargo'[Len(hauls) + 1] = "origin" BY <1>2, <1>4
  <2> QED BY <2>1, <2>2, <2>3, <2>4
<1> DEFINE f == Moving(hauls, cargo)
           g == Moving(hauls', cargo')
           P == 1..Len(hauls)
           S == 1..Len(hauls')
<1>6. IsFiniteSet(P) /\ IsFiniteSet(S) BY <1>3, MovingType
<1>7. \A x \in S : /\ g[x] \in Nat
                   /\ g[x] = IF cargo'[x] = "road" THEN hauls'[x].qty ELSE 0
  BY <1>3, MovingType
<1>8. \A x \in P : f[x] = IF cargo[x] = "road" THEN hauls[x].qty ELSE 0 BY <1>3, MovingType
<1>9. P \in SUBSET S /\ S \ P = {Len(hauls) + 1} BY <1>3, <1>5
<1>10. \A x \in P : g[x] = f[x]
  <2> HIDE DEF f, g
  <2> QED BY <1>5, <1>7, <1>8, <1>9
<1>11. \A x \in S \ P : g[x] = 0
  <2> HIDE DEF g
  <2> QED BY <1>5, <1>7, <1>9
<1> HIDE DEF f, g, P, S
<1>12. SumFunctionOnSet(g, S) = SumFunctionOnSet(f, P)
  <2>1. \A x \in S : g[x] \in Int BY <1>7
  <2>2. P \in SUBSET S BY <1>9
  <2>3. SumFunctionOnSet(g, S) = SumFunctionOnSet(g, P)
    BY <1>6, <1>11, <2>1, <2>2, SumOnSupport
  <2>4. SumFunctionOnSet(g, P) = SumFunctionOnSet(f, P) BY <1>6, <1>10, SumOnSame
  <2> QED BY <2>3, <2>4
<1>13. World(held', escrow', hauls', cargo', fills') = World(held, escrow, hauls, cargo, fills)
  BY <1>2, <1>12 DEF World, f, g, P, S
<1>14. World(held, escrow, hauls, cargo, fills) \in Nat BY WorldBefore
<1>15. NothingAdded BY <1>13, <1>14 DEF NothingAdded
<1> QED BY <1>2, <1>15, WorldBacks DEF OneFill

-----------------------------------------------------------------------------
(* The steps of the books *)

NothingMoved ==
    World(held', escrow', hauls', cargo', fills') = World(held, escrow, hauls, cargo, fills)
NothingLost == BoughtTotal(lots) + RetiredRows(moves) <= BoughtTotal(lots') + RetiredRows(moves')

\* A step that leaves the world and the sales alone and loses no bought unit.
LEMMA BooksBack ==
    ASSUME TypeOK, TypeOK', OneFill, OneFill', OneItem', SuggestionsUnspent',
           UNCHANGED sales, NothingMoved, NothingLost
    PROVE  Backs
<1>1. SoldAtEstimate' = SoldAtEstimate BY TotalsBefore, TotalsAfter
<1>2. InWorld' = InWorld /\ InWorld \in Nat BY WorldBefore, WorldAfter DEF NothingMoved
<1>3. PICK m, r, e, w, n, s : /\ m = MeasuredStock /\ r = RetiredUnits /\ e = SoldAtEstimate
                              /\ w = InWorld /\ n = MeasuredStock' /\ s = RetiredUnits'
  OBVIOUS
<1>4. m \in Nat /\ r \in Nat /\ e \in Nat BY <1>3, TotalsBefore
<1>5. n \in Nat /\ s \in Nat BY <1>3, TotalsAfter
<1>6. m + r <= n + s
  <2>1. m = BoughtTotal(lots) /\ r = RetiredRows(moves) BY <1>3, TotalsBefore
  <2>2. n = BoughtTotal(lots') /\ s = RetiredRows(moves') BY <1>3, TotalsAfter
  <2> QED BY <2>1, <2>2 DEF NothingLost
<1>9. w \in Nat BY <1>2, <1>3
<1>7. m + r + w + e <= n + s + w + e BY <1>4, <1>5, <1>6, <1>9
<1>8. MeasuredStock + RetiredUnits + InWorld' + SoldAtEstimate'
        <= MeasuredStock' + RetiredUnits' + InWorld + SoldAtEstimate
  BY <1>1, <1>2, <1>3, <1>7
<1> QED BY <1>8 DEF Backs

\* A dismissal writes no lot and retires nothing.
LEMMA DismissBacks ==
    ASSUME TypeOK, TypeOK', MovesAnchored, OneItem, SuggestionsUnspent, OneFill,
           NEW i \in DOMAIN moves, DismissMove(i)
    PROVE  Backs
<1>1. /\ UNCHANGED <<lots, sales, held, escrow, hauls, cargo, fills>>
      /\ moves' = [moves EXCEPT ![i].status = "dismissed"]
  BY DEF DismissMove, books, world
<1>2. /\ moves \in Seq(Move) /\ moves' \in Seq(Move) /\ lots \in Seq(Lot) /\ Len(lots) \in Nat
      /\ DOMAIN moves' = DOMAIN moves /\ DOMAIN moves = 1..Len(moves) /\ Len(moves') = Len(moves)
  BY <1>1 DEF TypeOK
<1>3. ASSUME NEW j \in DOMAIN moves
      PROVE  /\ moves'[j].lot = moves[j].lot /\ moves'[j].qty_retired = moves[j].qty_retired
             /\ moves'[j].status = "pending" => moves[j].status = "pending"
  <2>1. moves[j] \in Move BY <1>2
  <2>2. moves'[j] = IF j = i THEN [moves[j] EXCEPT !.status = "dismissed"] ELSE moves[j]
    BY <1>1, <1>2
  <2> QED BY <2>1, <2>2 DEF Move
<1>4. OneItem' BY <1>1 DEF OneItem
<1>5. SuggestionsUnspent'
  <2>1. RowsKept BY <1>1, <1>2 DEF RowsKept
  <2> QED BY <1>2, <1>3, <2>1, UnspentKept
<1>6. RetiredRows(moves') = RetiredRows(moves)
  <2>1. PICK new : new = moves' OBVIOUS
  <2>2. /\ new \in Seq(Move) /\ Len(moves) <= Len(new)
        /\ \A j \in 1..Len(moves) : new[j].qty_retired = moves[j].qty_retired
        /\ \A j \in 1..Len(new) : j > Len(moves) => new[j].qty_retired = 0
    BY <1>2, <1>3, <2>1
  <2> QED BY <1>2, <2>1, <2>2, RetiredSame
<1>7. NothingLost
  <2>1. BoughtTotal(lots) \in Nat /\ RetiredRows(moves) \in Nat BY <1>2, BoughtType, RetiredType
  <2> QED BY <1>1, <1>6, <2>1 DEF NothingLost
<1>8. NothingMoved BY <1>1 DEF NothingMoved
<1> QED BY <1>1, <1>4, <1>5, <1>7, <1>8, BooksBack DEF OneFill

\* A pass enters deemed rows and suggestions that have retired nothing.
LEMMA PassBacks ==
    ASSUME TypeOK, TypeOK', MovesAnchored, OneItem, SuggestionsUnspent, OneFill,
           NEW price \in Prices, ReconcileHangars(price)
    PROVE  Backs
<1>1. PassShape BY PassIs
<1>2. UNCHANGED <<sales, held, escrow, hauls, cargo, fills>> BY DEF ReconcileHangars, world
<1>3. /\ lots \in Seq(Lot) /\ lots' \in Seq(Lot) /\ Len(lots) \in Nat /\ Len(lots') \in Nat
      /\ moves \in Seq(Move) /\ moves' \in Seq(Move) /\ Len(moves) \in Nat /\ Len(moves') \in Nat
      /\ DOMAIN moves = 1..Len(moves) /\ DOMAIN moves' = 1..Len(moves')
  BY DEF TypeOK
<1>4. /\ \A l \in 1..Len(lots) : lots'[l] = lots[l]
      /\ \A l \in 1..Len(lots') : l > Len(lots) => DeemedOf(lots'[l])
  BY <1>1 DEF PassShape
<1>5. OneItem'
  <2> SUFFICES ASSUME NEW l \in 1..Len(lots') PROVE lots'[l].type = Item BY DEF OneItem
  <2>1. CASE l \in 1..Len(lots) BY <1>4, <2>1 DEF OneItem
  <2>2. CASE l \notin 1..Len(lots) BY <1>3, <1>4, <2>2 DEF DeemedOf
  <2> QED BY <2>1, <2>2
<1>6. SuggestionsUnspent'
  <2> SUFFICES ASSUME NEW i \in DOMAIN moves'
               PROVE  /\ moves'[i].lot # 0 => lots'[moves'[i].lot].cost_is_estimated
                      /\ moves'[i].status = "pending" => moves'[i].qty_retired = 0
    BY DEF SuggestionsUnspent
  <2>1. CASE i \in 1..Len(moves)
    <3>1. /\ moves'[i].lot = moves[i].lot /\ moves'[i].qty_retired = moves[i].qty_retired
          /\ moves'[i].status = IF i \in Withdrawn THEN "withdrawn" ELSE moves[i].status
      BY <1>1, <2>1 DEF PassShape
    <3>2. /\ moves[i].lot # 0 => lots[moves[i].lot].cost_is_estimated
          /\ moves[i].status = "pending" => moves[i].qty_retired = 0
      BY <1>3, <2>1 DEF SuggestionsUnspent
    <3>3. moves[i].lot \in 0..Len(lots) BY <1>3, <2>1 DEF MovesAnchored
    <3>4. moves[i].lot # 0 => lots'[moves[i].lot] = lots[moves[i].lot] BY <1>3, <1>4, <3>3
    <3> QED BY <3>1, <3>2, <3>4
  <2>2. CASE i \notin 1..Len(moves)
    <3>1. i \in 1..Len(moves') /\ i > Len(moves) BY <1>3, <2>2
    <3>2. /\ moves'[i].lot \in 0..Len(lots') /\ moves'[i].qty_retired = 0
          /\ moves'[i].lot # 0 => moves'[i].lot > Len(lots)
      BY <1>1, <3>1 DEF PassShape
    <3>3. PICK l : l = moves'[i].lot OBVIOUS
    <3>4. l # 0 => l \in 1..Len(lots') /\ l > Len(lots) BY <1>3, <3>2, <3>3
    <3>5. l # 0 => lots'[l].cost_is_estimated BY <1>4, <3>4 DEF DeemedOf
    <3> QED BY <3>2, <3>3, <3>5
  <2> QED BY <2>1, <2>2
<1>7. RetiredRows(moves') = RetiredRows(moves)
  <2>1. PICK new : new = moves' OBVIOUS
  <2>2. /\ new \in Seq(Move) /\ Len(moves) <= Len(new)
        /\ \A j \in 1..Len(moves) : new[j].qty_retired = moves[j].qty_retired
        /\ \A j \in 1..Len(new) : j > Len(moves) => new[j].qty_retired = 0
    BY <1>1, <1>3, <2>1 DEF PassShape
  <2> QED BY <1>3, <2>1, <2>2, RetiredSame
<1>8. BoughtTotal(lots') = BoughtTotal(lots)
  <2>1. PICK r : r = lots' OBVIOUS
  <2>2. /\ r \in Seq(Lot) /\ Len(lots) <= Len(r) /\ \A l \in 1..Len(lots) : r[l] = lots[l]
        /\ \A l \in 1..Len(r) : l > Len(lots) => r[l].cost_is_estimated
    BY <1>1, <1>3, <1>4, <2>1 DEF PassShape, DeemedOf
  <2> QED BY <1>3, <2>1, <2>2, BoughtAppended
<1>9. NothingLost
  <2>1. BoughtTotal(lots) \in Nat /\ RetiredRows(moves) \in Nat BY <1>3, BoughtType, RetiredType
  <2> QED BY <1>7, <1>8, <2>1 DEF NothingLost
<1>10. NothingMoved BY <1>2 DEF NothingMoved
<1> QED BY <1>2, <1>5, <1>6, <1>9, <1>10, BooksBack DEF OneFill

\* Carried rows are of the one item, and keep their confidence.
LEMMA CarriedOneItem ==
    ASSUME TypeOK, OneItem, NEW take, NEW out, Handed(lots, take, out), NEW to \in Locations,
           NEW r, r = Carried(lots, take, out, to)
    PROVE  /\ r \in Seq(Lot) /\ Len(lots) <= Len(r)
           /\ \A l \in 1..Len(r) : r[l].type = Item
           /\ \A l \in 1..Len(lots) : r[l].cost_is_estimated = lots[l].cost_is_estimated
<1>1. r \in Seq(Lot) /\ Len(lots) <= Len(r) BY CarriedType
<1>2. \A l \in 1..Len(lots) : /\ r[l].cost_is_estimated = lots[l].cost_is_estimated
                              /\ r[l].type = lots[l].type
  BY BoughtCarried
<1>3. \A k \in 1..Len(r) : k > Len(lots) => \E l \in 1..Len(lots) : r[k].type = lots[l].type
  BY BoughtCarried
<1>4. ASSUME NEW k \in 1..Len(r) PROVE r[k].type = Item
  <2>1. CASE k > Len(lots) BY <1>3, <2>1 DEF OneItem
  <2>2. CASE ~ (k > Len(lots))
    <3>1. k \in 1..Len(lots)
      <4>1. Len(lots) \in Nat BY DEF TypeOK
      <4> QED BY <2>2, <4>1
    <3> QED BY <1>2, <3>1 DEF OneItem
  <2> QED BY <2>1, <2>2
<1> QED BY <1>1, <1>2, <1>4

\* A confirmation takes out of the bought rows only what it retires.
LEMMA ConfirmBacks ==
    ASSUME TypeOK, TypeOK', MovesAnchored, OneItem, SuggestionsUnspent, OneFill,
           NEW i \in DOMAIN moves, ConfirmMove(i)
    PROVE  Backs
<1>1. PICK plan, out, ledger, reversal, claimed, retired :
         ConfirmShape(i, plan, out, ledger, reversal, claimed, retired)
  BY ConfirmIs
<1>2. PICK m : m = moves[i] OBVIOUS
<1>3. /\ m.status = "pending" /\ m \in Move
      /\ Handed(lots, plan.take, out)
      /\ DOMAIN out \subseteq 1..Len(lots) /\ \A l \in DOMAIN out : out[l] \in Nat
      /\ retired \in Nat /\ SumFunction(out) <= retired
      /\ ledger = Carried(lots, plan.take, out, m.destination)
      /\ reversal \in Nat /\ reversal <= DeemedLeft(m)
      /\ reversal > 0 => ledger[m.lot].qty_remaining >= reversal
      /\ lots' = Reversed(ledger, m.lot, reversal)
  BY <1>1, <1>2 DEF ConfirmShape
<1>4. UNCHANGED <<sales, held, escrow, hauls, cargo, fills>> BY <1>1 DEF ConfirmShape, world
<1>5. /\ lots \in Seq(Lot) /\ lots' \in Seq(Lot) /\ Len(lots) \in Nat /\ Len(lots') \in Nat
      /\ moves \in Seq(Move) /\ moves' \in Seq(Move)
  BY DEF TypeOK
<1>6. m.destination \in Locations BY <1>3 DEF Move
<1>7. /\ ledger \in Seq(Lot) /\ Len(lots) <= Len(ledger)
      /\ \A l \in 1..Len(ledger) : ledger[l].type = Item
      /\ \A l \in 1..Len(lots) : ledger[l].cost_is_estimated = lots[l].cost_is_estimated
  BY <1>3, <1>6, CarriedOneItem
<1>8. reversal > 0 => ledger[m.lot].qty_remaining >= reversal /\ ledger[m.lot].cost_is_estimated
  <2>1. SUFFICES ASSUME reversal > 0 PROVE ledger[m.lot].cost_is_estimated
    BY <1>3
  <2>2. m.lot # 0 BY <1>3, <2>1 DEF DeemedLeft
  <2>3. m.lot \in 0..Len(lots) BY <1>2 DEF MovesAnchored
  <2>4. m.lot \in 1..Len(lots) BY <1>5, <2>2, <2>3
  <2>5. lots[m.lot].cost_is_estimated BY <1>2, <2>2 DEF SuggestionsUnspent
  <2> QED BY <1>7, <2>4, <2>5
<1>9. /\ BoughtTotal(lots') = BoughtTotal(ledger) /\ Len(lots') = Len(ledger)
      /\ \A k \in 1..Len(ledger) : /\ lots'[k].cost_is_estimated = ledger[k].cost_is_estimated
                                   /\ lots'[k].type = ledger[k].type
  <2>1. PICK l, r : l = m.lot /\ r = lots' OBVIOUS
  <2>2. r = Reversed(ledger, l, reversal) BY <1>3, <2>1
  <2>3. /\ reversal > 0 => ledger[l].qty_remaining >= reversal /\ ledger[l].cost_is_estimated
        /\ reversal > 0 => ledger[l].qty_remaining >= reversal
    BY <1>8, <2>1
  <2>4. /\ BoughtTotal(r) = BoughtTotal(ledger)
        /\ \A k \in 1..Len(ledger) : /\ r[k].cost_is_estimated = ledger[k].cost_is_estimated
                                     /\ r[k].type = ledger[k].type
    BY <1>3, <1>7, <2>2, <2>3, BoughtReversed
  <2>5. Len(r) = Len(ledger) BY <1>3, <1>7, <2>2, <2>3, ReversedIs
  <2> QED BY <2>1, <2>4, <2>5
<1>10. OneItem' BY <1>7, <1>9 DEF OneItem
<1>11. SuggestionsUnspent'
  <2>1. Len(ledger) \in Nat BY <1>7
  <2>2. \A l \in 1..Len(lots) : l \in 1..Len(ledger) BY <1>5, <1>7, <2>1
  <2>3. RowsKept BY <1>7, <1>9, <2>2 DEF RowsKept
  <2>4. DOMAIN moves' = DOMAIN moves BY <1>1 DEF ConfirmShape
  <2>5. ASSUME NEW j \in DOMAIN moves
        PROVE  /\ moves'[j].lot = moves[j].lot
               /\ moves'[j].status = "pending" =>
                     moves[j].status = "pending" /\ moves'[j].qty_retired = moves[j].qty_retired
    <3>1. /\ moves'[j].lot = moves[j].lot
          /\ moves'[j].qty_retired = IF j = i THEN retired ELSE moves[j].qty_retired
          /\ moves'[j].status = IF j \in claimed THEN "withdrawn"
                                ELSE IF j = i THEN "confirmed" ELSE moves[j].status
      BY <1>1 DEF ConfirmShape
    <3> QED BY <3>1
  <2> QED BY <2>3, <2>4, <2>5, UnspentKept
<1>12. RetiredRows(moves') = RetiredRows(moves) + retired
  <2>1. moves[i].qty_retired = 0 BY <1>2, <1>3 DEF SuggestionsUnspent
  <2>2. PICK new : new = moves' OBVIOUS
  <2>3. /\ new \in Seq(Move) /\ DOMAIN new = DOMAIN moves
        /\ \A j \in DOMAIN moves :
              new[j].qty_retired = IF j = i THEN retired ELSE moves[j].qty_retired
    BY <1>1, <1>5, <2>2 DEF ConfirmShape
  <2> QED BY <1>3, <1>5, <2>1, <2>2, <2>3, RetiredMore
<1>13. PICK gone : gone = SumFunctionOnSet(BoughtDrawn(lots, out), 1..Len(lots)) OBVIOUS
<1>14. BoughtTotal(lots) = BoughtTotal(ledger) + gone BY <1>3, <1>6, <1>13, BoughtCarried
<1>15. gone \in Nat /\ gone <= retired
  <2>1. Drawable(lots, out)
    <3>1. ASSUME NEW x \in 1..Len(lots) PROVE Taken(out, x) \in 0..lots[x].qty_remaining
      <4>1. PICK t, o, q : t = Taken(plan.take, x) /\ o = Taken(out, x) /\ q = lots[x].qty_remaining
        OBVIOUS
      <4>2. q \in Nat BY <1>5, <4>1, BoughtType
      <4>3. t \in 0..q /\ o \in 0..t BY <1>3, <4>1 DEF Handed
      <4> QED BY <4>1, <4>2, <4>3
    <3> QED BY <1>3, <1>5, <3>1 DEF Drawable
  <2>2. PICK d, s : d = SumFunctionOnSet(DeemedDrawn(lots, out), 1..Len(lots)) /\ s = SumFunction(out)
    OBVIOUS
  <2>3. gone \in Nat /\ d \in Nat /\ s = gone + d BY <1>13, <2>1, <2>2, DrawnTotals
  <2> QED BY <1>3, <2>2, <2>3
<1>16. NothingLost
  <2>1. /\ BoughtTotal(lots) \in Nat /\ BoughtTotal(ledger) \in Nat /\ RetiredRows(moves) \in Nat
    BY <1>5, <1>7, BoughtType, RetiredType
  <2>2. PICK a, b, c : a = BoughtTotal(lots) /\ b = BoughtTotal(ledger) /\ c = RetiredRows(moves)
    OBVIOUS
  <2>3. a \in Nat /\ b \in Nat /\ c \in Nat /\ a = b + gone BY <1>14, <2>1, <2>2
  <2>4. a + c <= b + (c + retired) BY <1>3, <1>15, <2>3
  <2> QED BY <1>9, <1>12, <2>2, <2>4 DEF NothingLost
<1>17. NothingMoved BY <1>4 DEF NothingMoved
<1> QED BY <1>4, <1>10, <1>11, <1>16, <1>17, BooksBack DEF OneFill

\* An arrival moves rows, and its goods have been where it puts them.
LEMMA ArriveBacks ==
    ASSUME TypeOK, TypeOK', MovesAnchored, OneItem, SuggestionsUnspent, OneFill,
           NEW i \in DOMAIN hauls, MarkArrived(i)
    PROVE  Backs
<1>1. /\ hauls \in Seq(Haul) /\ hauls' \in Seq(Haul) /\ DOMAIN hauls = 1..Len(hauls)
      /\ lots \in Seq(Lot) /\ Len(lots) \in Nat /\ moves \in Seq(Move)
  BY DEF TypeOK
<1>2. PICK h : h = hauls[i] OBVIOUS
<1>3. h \in Haul BY <1>1, <1>2
<1>4. h.origin \in Locations /\ h.destination \in Locations /\ h.qty \in Nat BY <1>3 DEF Haul
<1>5. PICK plan : /\ plan \in FifoPlans(lots, OpenLots(lots, Item, h.origin), h.qty)
                  /\ lots' = Carried(lots, plan.take, <<>>, h.destination)
  BY <1>2 DEF MarkArrived
<1>6. /\ hauls' = [hauls EXCEPT ![i].status = "arrived"]
      /\ UNCHANGED <<sales, moves, held, escrow, cargo, fills>>
  BY DEF MarkArrived, world
<1>7. \A l : Taken(<<>>, l) = 0 BY DEF Taken
<1>8. Handed(lots, plan.take, <<>>)
  <2>1. PICK open : open = OpenLots(lots, Item, h.origin) OBVIOUS
  <2>2. open \in SUBSET (1..Len(lots)) BY <2>1 DEF OpenLots
  <2>3. /\ plan.take \in [open -> Nat]
        /\ \A l \in 1..Len(lots) : Taken(plan.take, l) \in 0..lots[l].qty_remaining
    BY <1>1, <1>4, <1>5, <2>1, <2>2, PlanIs
  <2>4. ASSUME NEW l \in 1..Len(lots)
        PROVE  /\ Taken(plan.take, l) \in 0..lots[l].qty_remaining
               /\ Taken(<<>>, l) \in 0..Taken(plan.take, l)
    <3>1. lots[l].qty_remaining \in Nat BY <1>1, BoughtType
    <3> QED BY <1>7, <2>3, <3>1
  <2> QED BY <1>1, <2>2, <2>3, <2>4 DEF Handed
<1>9. PICK r : r = lots' OBVIOUS
<1>10. r = Carried(lots, plan.take, <<>>, h.destination) BY <1>5, <1>9
<1>11. /\ r \in Seq(Lot) /\ Len(lots) <= Len(r)
       /\ \A l \in 1..Len(r) : r[l].type = Item
       /\ \A l \in 1..Len(lots) : r[l].cost_is_estimated = lots[l].cost_is_estimated
  BY <1>4, <1>8, <1>10, CarriedOneItem
<1>12. OneItem' BY <1>9, <1>11 DEF OneItem
<1>13. SuggestionsUnspent'
  <2>1. RowsKept BY <1>9, <1>11 DEF RowsKept
  <2> QED BY <1>6, <2>1, UnspentKept
<1>14. BoughtTotal(r) = BoughtTotal(lots)
  <2>1. PICK out : out = BoughtDrawn(lots, <<>>) OBVIOUS
  <2>2. \A l \in 1..Len(lots) : out[l] = 0 BY <1>7, <2>1 DEF BoughtDrawn
  <2>3. IsFiniteSet(1..Len(lots)) BY <1>1, BoughtType
  <2>4. SumFunctionOnSet(out, 1..Len(lots)) = 0 BY <2>2, <2>3, SumOnZero
  <2>5. BoughtTotal(lots) = BoughtTotal(r) + SumFunctionOnSet(BoughtDrawn(lots, <<>>), 1..Len(lots))
    BY <1>4, <1>8, <1>10, BoughtCarried
  <2>6. BoughtTotal(r) \in Nat BY <1>11, BoughtType
  <2> QED BY <2>1, <2>4, <2>5, <2>6
<1>15. NothingLost
  <2>1. BoughtTotal(lots) \in Nat /\ RetiredRows(moves) \in Nat BY <1>1, BoughtType, RetiredType
  <2> QED BY <1>6, <1>9, <1>14, <2>1 DEF NothingLost
<1>16. Moving(hauls', cargo') = Moving(hauls, cargo) /\ Len(hauls') = Len(hauls)
  <2>1. Len(hauls') = Len(hauls) BY <1>1, <1>6
  <2>2. ASSUME NEW x \in 1..Len(hauls) PROVE hauls'[x].qty = hauls[x].qty
    <3>1. hauls[x] \in Haul BY <1>1
    <3>2. hauls'[x] = IF x = i THEN [hauls[x] EXCEPT !.status = "arrived"] ELSE hauls[x]
      BY <1>1, <1>6
    <3> QED BY <3>1, <3>2 DEF Haul
  <2> QED BY <1>6, <2>1, <2>2 DEF Moving
<1>17. NothingMoved BY <1>6, <1>16 DEF NothingMoved, World
<1> QED BY <1>6, <1>12, <1>13, <1>15, <1>17, BooksBack DEF OneFill

-----------------------------------------------------------------------------
(* Sales *)

LEMMA CountTo == \A n \in Nat : IsFiniteSet(1..n) /\ Cardinality(1..n) = n
<1> TAKE n \in Nat
<1>1. IsFiniteSet(1..n) BY FS_Interval
<1>2. Cardinality(1..n) = IF 1 > n THEN 0 ELSE n - 1 + 1 BY FS_Interval
<1> QED BY <1>1, <1>2

\* A sale of more than the books have takes the rest from the row entered for it.
LEMMA DeemedTotal ==
    ASSUME NEW s, NEW base, Drawable(s, base), NEW lot \in Lot, NEW known, NEW take,
           known = Append(s, lot),
           take = [x \in Drawn(base) \cup {Len(known)} |->
                      IF x = Len(known) THEN lot.qty_remaining ELSE base[x]]
    PROVE  SumFunction(take) = SumFunction(base) + lot.qty_remaining
<1> DEFINE P == Drawn(base)
           n == Len(known)
<1>1. s \in Seq(Lot) /\ Len(s) \in Nat /\ n = Len(s) + 1 BY DEF Drawable
<1>2. DOMAIN base \in SUBSET (1..Len(s)) /\ P \in SUBSET DOMAIN base BY DEF Drawable, Drawn
<1>3. IsFiniteSet(DOMAIN base) /\ IsFiniteSet(P)
  <2>1. IsFiniteSet(1..Len(s)) BY <1>1, FS_Interval
  <2> QED BY <1>2, <2>1, FS_Subset
<1>4. n \notin P BY <1>1, <1>2
<1>5. \A x \in DOMAIN base : base[x] \in Int /\ base[x] \in Nat BY DEF Drawable
<1>6. \A x \in DOMAIN base \ P : base[x] = 0 BY <1>5 DEF Drawn
<1>7. lot.qty_remaining \in Nat BY DEF Lot
<1>8. /\ DOMAIN take = P \cup {n} /\ take[n] = lot.qty_remaining
      /\ \A x \in P : take[x] = base[x]
  BY <1>4
<1>9. \A x \in P \cup {n} : take[x] \in Int BY <1>2, <1>5, <1>7, <1>8
<1>15. PICK f : f = take OBVIOUS
<1>16. \A x \in P : f[x] = base[x] BY <1>8, <1>15
<1>17. \A x \in P \cup {n} : f[x] \in Int BY <1>9, <1>15
<1> HIDE DEF P, n
<1>10. SumFunctionOnSet(take, P \cup {n}) = take[n] + SumFunctionOnSet(take, P)
  <2>1. IsFiniteSet(P) BY <1>3
  <2>2. SumFunctionOnSet(f, P \cup {n}) = f[n] + SumFunctionOnSet(f, P)
    BY <1>4, <1>17, <2>1, SumOnAdd
  <2> QED BY <1>15, <2>2
<1>11. SumFunctionOnSet(take, P) = SumFunctionOnSet(base, P)
  <2>1. IsFiniteSet(P) BY <1>3
  <2>2. SumFunctionOnSet(f, P) = SumFunctionOnSet(base, P) BY <1>16, <2>1, SumOnSame
  <2> QED BY <1>15, <2>2
<1>12. SumFunctionOnSet(base, DOMAIN base) = SumFunctionOnSet(base, P)
  BY <1>2, <1>3, <1>5, <1>6, SumOnSupport
<1>13. SumFunctionOnSet(base, DOMAIN base) \in Int BY <1>3, <1>5, SumOnInt
<1>14. SumFunctionOnSet(take, P \cup {n})
         = SumFunctionOnSet(base, DOMAIN base) + lot.qty_remaining
  BY <1>7, <1>8, <1>10, <1>11, <1>12, <1>13
<1> QED BY <1>8, <1>14 DEF SumFunction

\* The rows of a sale are booked at an estimate as far as deemed rows were drawn on.
LEMMA SaleTotals ==
    ASSUME NEW s, NEW take, Drawable(s, take), NEW at \in Nat, NEW rows \in SetToSeqs(Drawn(take)),
           NEW new, new = [k \in DOMAIN rows |-> SaleRow(s, rows[k], take[rows[k]], at)]
    PROVE  /\ new \in Seq(Sale)
           /\ EstimateTotal(new) = SumFunctionOnSet(DeemedDrawn(s, take), 1..Len(s))
<1> DEFINE T == Drawn(take)
           c == Cardinality(T)
           S == 1..Len(s)
           d == DeemedDrawn(s, take)
           e == EstimateUnits(new)
<1>1. new \in Seq(Sale) BY SaleRowsType
<1>2. s \in Seq(Lot) /\ T \in SUBSET S /\ IsFiniteSet(S) BY BoughtType DEF Drawable, Drawn
<1>3. IsFiniteSet(T) /\ c \in Nat BY <1>2, FS_Subset, FS_CardinalityType
<1>4. /\ rows \in [1..c -> T] /\ DOMAIN rows = 1..c
      /\ \A j, k \in 1..c : rows[j] = rows[k] => j = k
  BY DEF SetToSeqs
<1>5. \A x \in T : \E k \in 1..c : rows[k] = x
  <2>1. PICK t : t = T OBVIOUS
  <2>2. PICK n : n = c OBVIOUS
  <2>3. rows \in Injection(1..n, t)
    <3> HIDE DEF T, c
    <3> QED BY <1>4, <2>1, <2>2 DEF Injection, IsInjective
  <2>4. IsFiniteSet(1..n) /\ Cardinality(1..n) = n
    <3>1. n \in Nat BY <1>3, <2>2
    <3> QED BY <3>1, CountTo
  <2>5. IsFiniteSet(t) /\ Cardinality(t) = n
    <3> HIDE DEF T
    <3> QED BY <1>3, <2>1, <2>2 DEF c
  <2>6. rows \in Surjection(1..n, t) BY <2>3, <2>4, <2>5, FS_Injection
  <2>7. \A x \in t : \E k \in 1..n : rows[k] = x BY <2>6 DEF Surjection
  <2> HIDE DEF T, c
  <2> QED BY <2>1, <2>2, <2>7
<1>6. Len(new) = c
  <2>1. DOMAIN new = 1..c BY <1>4
  <2> HIDE DEF c
  <2> QED BY <1>1, <1>3, <2>1
<1>7. ASSUME NEW k \in 1..c PROVE e[k] = d[rows[k]]
  <2>1. PICK l : l = rows[k] OBVIOUS
  <2>2. l \in T /\ l \in S
    <3> HIDE DEF T, c, S
    <3> QED BY <1>2, <1>4, <2>1
  <2>3. PICK lot, row : lot = s[l] /\ row = new[k] OBVIOUS
  <2>4. row = SaleRow(s, l, take[l], at)
    <3>1. k \in DOMAIN rows BY <1>4
    <3> QED BY <2>1, <2>3, <3>1
  <2>5. row.qty = take[l] /\ row.cost_is_estimated = lot.cost_is_estimated
    BY <2>3, <2>4 DEF SaleRow
  <2>6. k \in 1..Len(new) BY <1>6
  <2>7. e[k] = IF row.cost_is_estimated THEN row.qty ELSE 0 BY <2>3, <2>6 DEF EstimateUnits
  <2>8. Taken(take, l) = take[l] BY <2>2 DEF Taken, Drawn
  <2>9. d[l] = IF lot.cost_is_estimated THEN take[l] ELSE 0 BY <2>2, <2>3, <2>8 DEF DeemedDrawn
  <2> HIDE DEF d, e
  <2> QED BY <2>1, <2>5, <2>7, <2>9
<1>8. \A l \in S : d[l] \in Int BY DrawnTotals
<1>9. \A l \in S \ T : d[l] = 0
  <2> SUFFICES ASSUME NEW l \in S \ T PROVE d[l] = 0 OBVIOUS
  <2>1. Taken(take, l) = 0
    <3>1. CASE l \notin DOMAIN take BY <3>1 DEF Taken
    <3>2. CASE l \in DOMAIN take
      <4>1. take[l] \in Nat /\ ~ (take[l] > 0) BY <3>2 DEF Drawable, Drawn
      <4> QED BY <3>2, <4>1 DEF Taken
    <3> QED BY <3>1, <3>2
  <2> QED BY <2>1 DEF DeemedDrawn
<1>10. SumFunctionOnSet(e, 1..c) = SumFunctionOnSet(d, T)
  <2>1. PICK I : I = 1..c OBVIOUS
  <2>2. IsFiniteSet(I) BY <1>3, <2>1, FS_Interval
  <2> HIDE DEF T, c, d, e, S
  <2>3. rows \in [I -> T] BY <1>4, <2>1
  <2>4. \A x, y \in I : rows[x] = rows[y] => x = y BY <1>4, <2>1
  <2>5. \A z \in T : \E x \in I : rows[x] = z BY <1>5, <2>1
  <2>6. \A z \in T : d[z] \in Int BY <1>2, <1>8
  <2>7. \A x \in I : e[x] = d[rows[x]] BY <1>7, <2>1
  <2>8. SumFunctionOnSet(e, I) = SumFunctionOnSet(d, T)
    BY <2>2, <2>3, <2>4, <2>5, <2>6, <2>7, SumOnImage
  <2> QED BY <2>1, <2>8
<1>11. SumFunctionOnSet(d, S) = SumFunctionOnSet(d, T)
  <2> HIDE DEF T, d, S
  <2> QED BY <1>2, <1>8, <1>9, SumOnSupport
<1>12. EstimateTotal(new) = SumFunctionOnSet(e, 1..c) BY <1>6 DEF EstimateTotal
<1> QED BY <1>1, <1>10, <1>11, <1>12

\* Rows after other rows: their totals add up.
Joined(s, t, r) ==
    /\ s \in Seq(Sale) /\ t \in Seq(Sale) /\ r \in Seq(Sale)
    /\ Len(r) = Len(s) + Len(t)
    /\ \A k \in 1..Len(s) : r[k] = s[k]
    /\ \A k \in 1..Len(t) : r[Len(s) + k] = t[k]

LEMMA EstimateJoined ==
    ASSUME NEW s, NEW t, NEW r, Joined(s, t, r)
    PROVE  EstimateTotal(r) = EstimateTotal(s) + EstimateTotal(t)
<1> DEFINE f == EstimateUnits(s)
           g == EstimateUnits(t)
           h == EstimateUnits(r)
           m == Len(s)
           n == Len(t)
<1>1. /\ s \in Seq(Sale) /\ t \in Seq(Sale) /\ r \in Seq(Sale)
      /\ m \in Nat /\ n \in Nat /\ Len(r) = m + n
      /\ \A k \in 1..m : r[k] = s[k]
      /\ \A k \in 1..n : r[m + k] = t[k]
  BY DEF Joined
<1>2. ASSUME NEW k \in 1..m PROVE f[k] \in Int /\ h[k] = f[k]
  <2>1. k \in 1..Len(r) /\ r[k] = s[k] BY <1>1
  <2>2. h[k] = IF r[k].cost_is_estimated THEN r[k].qty ELSE 0 BY <2>1 DEF EstimateUnits
  <2>3. f[k] = IF s[k].cost_is_estimated THEN s[k].qty ELSE 0 BY DEF EstimateUnits
  <2>4. f[k] \in Nat BY <1>1, EstimateTotalType
  <2> HIDE DEF f, h
  <2> QED BY <2>1, <2>2, <2>3, <2>4
<1>3. ASSUME NEW k \in 1..n PROVE g[k] \in Int /\ h[m + k] = g[k]
  <2>1. m + k \in 1..Len(r) /\ r[m + k] = t[k] BY <1>1
  <2>2. h[m + k] = IF r[m + k].cost_is_estimated THEN r[m + k].qty ELSE 0
    BY <2>1 DEF EstimateUnits
  <2>3. g[k] = IF t[k].cost_is_estimated THEN t[k].qty ELSE 0 BY DEF EstimateUnits
  <2>4. g[k] \in Nat BY <1>1, EstimateTotalType
  <2> HIDE DEF g, h
  <2> QED BY <2>1, <2>2, <2>3, <2>4
<1>4. EstimateTotal(r) = SumFunctionOnSet(h, 1..(m + n)) BY <1>1 DEF EstimateTotal
<1> HIDE DEF f, g, h, m, n
<1>5. SumFunctionOnSet(h, 1..(m + n)) = SumFunctionOnSet(f, 1..m) + SumFunctionOnSet(g, 1..n)
  <2>1. m \in Nat /\ n \in Nat BY <1>1
  <2>2. \A k \in 1..m : f[k] \in Int /\ h[k] = f[k] BY <1>2
  <2>3. \A k \in 1..n : g[k] \in Int /\ h[m + k] = g[k] BY <1>3
  <2> QED BY <2>1, <2>2, <2>3, SumOnJoined
<1> QED BY <1>4, <1>5 DEF EstimateTotal, f, g, m, n

LEMMA EstimateAppended ==
    ASSUME NEW s \in Seq(Sale), NEW t \in Seq(Sale), NEW r, r = s \o t
    PROVE  EstimateTotal(r) = EstimateTotal(s) + EstimateTotal(t)
<1>1. r \in Seq(Sale) BY Concat
<1>2. Len(r) = Len(s) + Len(t) BY Concat
<1>3. \A k \in 1..Len(s) : r[k] = s[k] BY Concat
<1>4. \A k \in 1..Len(t) : r[Len(s) + k] = t[k] BY Concat
<1> QED BY <1>1, <1>2, <1>3, <1>4, EstimateJoined DEF Joined

\* A sale takes as many units out of bought rows and adds as many at an estimate as it
\* sells.
SaleKept(qty) ==
    BoughtTotal(lots) + EstimateTotal(sales') = BoughtTotal(lots') + EstimateTotal(sales) + qty

LEMMA SaleKeeps ==
    ASSUME TypeOK, OneItem, NEW l \in Locations, NEW qty \in Nat, NEW cost \in Nat,
           NEW at \in Nat, NEW events, Consume(l, qty, cost, at, events)
    PROVE  OneItem' /\ RowsKept /\ SaleKept(qty)
<1>1. lots \in Seq(Lot) /\ Len(lots) \in Nat /\ sales \in Seq(Sale) BY DEF TypeOK
<1> DEFINE known(p) == IF p.shortfall = 0 THEN lots
                       ELSE Append(lots, DeemedLot(l, p.shortfall, cost))
           take(p) == IF p.shortfall = 0 THEN p.take
                      ELSE [x \in Drawn(p.take) \cup {Len(known(p))} |->
                               IF x = Len(known(p)) THEN p.shortfall ELSE p.take[x]]
<1>2. PICK plan \in FifoPlans(lots, OpenLots(lots, Item, l), qty) :
        /\ lots' = Booked(known(plan), take(plan), <<>>)
        /\ \E rows \in SetToSeqs(Drawn(take(plan))) :
              sales' = sales \o [k \in DOMAIN rows |->
                          SaleRow(known(plan), rows[k], take(plan)[rows[k]], at)]
  BY Zenon DEF Consume
<1>3. PICK n : n = plan.shortfall OBVIOUS
<1>4. n \in Nat /\ Drawable(lots, plan.take) /\ SumFunction(plan.take) + n = qty
  <2>1. PICK open : open = OpenLots(lots, Item, l) OBVIOUS
  <2>2. open \in SUBSET (1..Len(lots)) BY <2>1 DEF OpenLots
  <2>3. plan \in FifoPlans(lots, open, qty) BY <2>1
  <2>4. /\ plan.shortfall \in 0..qty /\ plan.take \in [open -> Nat]
        /\ \A x \in 1..Len(lots) : Taken(plan.take, x) \in 0..lots[x].qty_remaining
        /\ SumFunction(plan.take) + plan.shortfall = qty
    BY <1>1, <2>2, <2>3, PlanIs
  <2>5. DOMAIN plan.take \subseteq 1..Len(lots) /\ \A x \in DOMAIN plan.take : plan.take[x] \in Nat
    BY <2>2, <2>4
  <2> QED BY <1>1, <1>3, <2>4, <2>5 DEF Drawable
<1>5. PICK k, t : k = known(plan) /\ t = take(plan) OBVIOUS
<1>6. /\ Drawable(k, t) /\ Len(lots) <= Len(k) /\ SumFunction(t) = qty
      /\ \A x \in 1..Len(lots) : k[x] = lots[x]
      /\ \A x \in 1..Len(k) : x > Len(lots) => DeemedOf(k[x])
  <2>1. CASE n = 0
    <3>1. k = lots /\ t = plan.take BY <1>3, <1>5, <2>1
    <3>2. SumFunction(t) \in Nat BY <1>4, <3>1, DrawnTotals
    <3> QED BY <1>1, <1>4, <2>1, <3>1, <3>2
  <2>2. CASE n # 0
    <3>1. PICK lot : lot = DeemedLot(l, n, cost) OBVIOUS
    <3>2. lot \in Lot /\ lot.qty_remaining = n BY <1>4, <3>1, DeemedLotType
    <3>3. k = Append(lots, lot) BY <1>3, <1>5, <2>2, <3>1
    <3>4. t = [x \in Drawn(plan.take) \cup {Len(k)} |->
                 IF x = Len(k) THEN lot.qty_remaining ELSE plan.take[x]]
      BY <1>3, <1>5, <2>2, <3>2
    <3>5. Drawable(k, t) /\ Len(lots) <= Len(k) BY <1>4, <3>2, <3>3, <3>4, DeemedDrawable
    <3>6. SumFunction(t) = SumFunction(plan.take) + n
      <4>1. PICK base : base = plan.take OBVIOUS
      <4>2. Drawable(lots, base) BY <1>4, <4>1
      <4>3. t = [x \in Drawn(base) \cup {Len(k)} |->
                   IF x = Len(k) THEN lot.qty_remaining ELSE base[x]]
        BY <3>4, <4>1
      <4>4. SumFunction(t) = SumFunction(base) + lot.qty_remaining
        BY <3>2, <3>3, <4>2, <4>3, DeemedTotal
      <4> QED BY <3>2, <4>1, <4>4
    <3>7. DeemedOf(lot)
      <4>1. lot.cost_is_estimated = TRUE /\ lot.type = Item BY <3>1 DEF DeemedLot, NewLot
      <4> QED BY <4>1 DEF DeemedOf
    <3>8. /\ Len(k) = Len(lots) + 1 /\ k[Len(lots) + 1] = lot
          /\ \A x \in 1..Len(lots) : k[x] = lots[x]
      BY <1>1, <3>2, <3>3
    <3>9. \A x \in 1..Len(k) : x > Len(lots) => x = Len(lots) + 1 BY <1>1, <3>8
    <3> QED BY <1>4, <3>5, <3>6, <3>7, <3>8, <3>9
  <2> QED BY <2>1, <2>2
<1>7. lots' = Booked(k, t, <<>>) BY <1>2, <1>5, Zenon
<1>8. PICK r : r = lots' OBVIOUS
<1>9. /\ k \in Seq(Lot) /\ r \in Seq(Lot) /\ Len(r) = Len(k)
      /\ \A x \in 1..Len(k) : r[x] = Consumed(k[x], Taken(t, x))
  <2>1. k \in Seq(Lot) /\ \A x \in 1..Len(k) : Taken(t, x) \in 0..k[x].qty_remaining
    BY <1>6 DEF Drawable
  <2> QED BY <1>7, <1>8, <2>1, BookedType
<1>10. ASSUME NEW x \in 1..Len(k)
       PROVE  r[x].cost_is_estimated = k[x].cost_is_estimated /\ r[x].type = k[x].type
  <2>1. k[x] \in Lot /\ r[x] = Consumed(k[x], Taken(t, x)) BY <1>9
  <2> QED BY <2>1 DEF Consumed, Lot
<1>11. OneItem'
  <2> SUFFICES ASSUME NEW x \in 1..Len(r) PROVE r[x].type = Item BY <1>8 DEF OneItem
  <2>1. x \in 1..Len(k) BY <1>9
  <2>2. k[x].type = Item
    <3>1. CASE x > Len(lots) BY <1>6, <2>1, <3>1 DEF DeemedOf
    <3>2. CASE ~ (x > Len(lots))
      <4>1. x \in 1..Len(lots) BY <1>1, <3>2
      <4> QED BY <1>6, <4>1 DEF OneItem
    <3> QED BY <3>1, <3>2
  <2> QED BY <1>10, <2>1, <2>2
<1>12. RowsKept
  <2>1. Len(lots) <= Len(r) BY <1>6, <1>9
  <2>2. \A x \in 1..Len(lots) : x \in 1..Len(k)
    <3>1. Len(k) \in Nat BY <1>9
    <3> QED BY <1>1, <1>6, <3>1
  <2>3. \A x \in 1..Len(lots) : r[x].cost_is_estimated = lots[x].cost_is_estimated
    BY <1>6, <1>10, <2>2
  <2> QED BY <1>8, <2>1, <2>3 DEF RowsKept
<1>13. SaleKept(qty)
  <2>1. PICK rows \in SetToSeqs(Drawn(t)) :
          sales' = sales \o [j \in DOMAIN rows |-> SaleRow(k, rows[j], t[rows[j]], at)]
    <3> HIDE DEF known, take
    <3> QED BY <1>2, <1>5
  <2>2. PICK new : new = [j \in DOMAIN rows |-> SaleRow(k, rows[j], t[rows[j]], at)] OBVIOUS
  <2>3. PICK b, d : /\ b = SumFunctionOnSet(BoughtDrawn(k, t), 1..Len(k))
                    /\ d = SumFunctionOnSet(DeemedDrawn(k, t), 1..Len(k))
    OBVIOUS
  <2>4. b \in Nat /\ d \in Nat /\ qty = b + d BY <1>6, <2>3, DrawnTotals
  <2>5. new \in Seq(Sale) /\ EstimateTotal(new) = d BY <1>6, <2>2, <2>3, SaleTotals
  <2>6. PICK after : after = sales' OBVIOUS
  <2>7. EstimateTotal(after) = EstimateTotal(sales) + d
    <3>1. after = sales \o new BY <2>1, <2>2, <2>6
    <3> QED BY <1>1, <2>5, <3>1, EstimateAppended
  <2>8. BoughtTotal(k) = BoughtTotal(lots)
    <3>1. \A x \in 1..Len(k) : x > Len(lots) => k[x].cost_is_estimated BY <1>6 DEF DeemedOf
    <3> QED BY <1>1, <1>6, <1>9, <3>1, BoughtAppended
  <2>9. BoughtTotal(k) = BoughtTotal(r) + b BY <1>6, <1>9, <2>3, BoughtConsumed
  <2>10. BoughtTotal(r) \in Nat /\ EstimateTotal(sales) \in Nat
    BY <1>1, <1>9, BoughtType, EstimateTotalType
  <2>11. PICK u, v : u = BoughtTotal(r) /\ v = EstimateTotal(sales) OBVIOUS
  <2>12. (u + b) + (v + d) = u + v + qty BY <2>4, <2>10, <2>11
  <2> QED BY <1>8, <2>6, <2>7, <2>8, <2>9, <2>11, <2>12 DEF SaleKept
<1> QED BY <1>11, <1>12, <1>13

\* What is sold leaves the world.
WorldSheds(qty) ==
    World(held', escrow', hauls', cargo', fills') + qty = World(held, escrow, hauls, cargo, fills)

LEMMA SaleBacks ==
    ASSUME TypeOK, TypeOK', MovesAnchored, SuggestionsUnspent, OneFill, OneFill', OneItem',
           RowsKept, UNCHANGED moves, NEW qty \in Nat, SaleKept(qty), WorldSheds(qty)
    PROVE  Backs
<1>1. SuggestionsUnspent' BY UnspentKept
<1>2. PICK m, e, w, n, f, v, r : /\ m = MeasuredStock /\ e = SoldAtEstimate /\ w = InWorld
                                 /\ n = MeasuredStock' /\ f = SoldAtEstimate' /\ v = InWorld'
                                 /\ r = RetiredUnits
  OBVIOUS
<1>3. m \in Nat /\ e \in Nat /\ r \in Nat /\ m = BoughtTotal(lots) /\ e = EstimateTotal(sales)
  BY <1>2, TotalsBefore
<1>4. n \in Nat /\ f \in Nat /\ n = BoughtTotal(lots') /\ f = EstimateTotal(sales')
  BY <1>2, TotalsAfter
<1>5. RetiredUnits' = r BY <1>2, TotalsBefore, TotalsAfter
<1>6. w \in Nat /\ w = World(held, escrow, hauls, cargo, fills) BY <1>2, WorldBefore
<1>7. v \in Nat /\ v = World(held', escrow', hauls', cargo', fills') BY <1>2, WorldAfter
<1>8. m + f = n + e + qty BY <1>3, <1>4 DEF SaleKept
<1>9. v + qty = w BY <1>6, <1>7 DEF WorldSheds
<1>10. m + r + v + f <= n + r + w + e BY <1>3, <1>4, <1>6, <1>7, <1>8, <1>9
<1>11. MeasuredStock + RetiredUnits + InWorld' + SoldAtEstimate'
         <= MeasuredStock' + RetiredUnits' + InWorld + SoldAtEstimate
  BY <1>2, <1>5, <1>10
<1> QED BY <1>1, <1>11 DEF Backs

\* A poll books the fill that waits.
LEMMA PollBacks ==
    ASSUME TypeOK, TypeOK', MovesAnchored, OneItem, SuggestionsUnspent, OneFill,
           NEW cost \in Prices \ {NoPrice}, IngestMarketSales(cost)
    PROVE  Backs
<1>1. UNCHANGED <<moves, hauls, held, escrow, cargo>> BY DEF IngestMarketSales
<1>2. /\ fills \in Seq(Fill) /\ hauls \in Seq(Haul)
      /\ held \in [Locations -> Nat] /\ escrow \in [Locations -> Nat]
  BY DEF TypeOK
<1>3. CASE UNCHANGED <<books, fills>>
  <2>1. lots' = lots /\ sales' = sales /\ fills' = fills BY <1>3 DEF books
  <2>2. OneItem' BY <2>1 DEF OneItem
  <2>3. SuggestionsUnspent' BY <1>1, <2>1 DEF SuggestionsUnspent
  <2>4. NothingLost
    <3>1. BoughtTotal(lots) \in Nat /\ RetiredRows(moves) \in Nat
      BY BoughtType, RetiredType DEF TypeOK
    <3> QED BY <1>1, <2>1, <3>1 DEF NothingLost
  <2>5. NothingMoved BY <1>1, <2>1 DEF NothingMoved
  <2> QED BY <2>1, <2>2, <2>3, <2>4, <2>5, BooksBack DEF OneFill
<1>4. CASE /\ fills # <<>>
           /\ Consume(fills[1].location, fills[1].qty, cost, fills[1].at, OffDivisionFlags)
           /\ fills' = Tail(fills)
  <2>1. PICK f : f = fills[1] OBVIOUS
  <2>2. f \in Fill BY <1>2, <1>4, <2>1
  <2>3. f.location \in Locations /\ f.qty \in Nat /\ f.at \in Nat BY <2>2 DEF Fill
  <2>4. cost \in Nat BY HangarsAssumption
  <2>5. Consume(f.location, f.qty, cost, f.at, OffDivisionFlags) BY <1>4, <2>1
  <2>6. OneItem' /\ RowsKept /\ SaleKept(f.qty) BY <2>3, <2>4, <2>5, SaleKeeps
  <2>7. fills' = <<>>
    <3>1. Len(fills) \in Nat /\ Len(fills) # 0 BY <1>2, <1>4
    <3>2. Len(fills) = 1 BY SMTT(30), <3>1 DEF OneFill
    <3> QED BY <1>2, <1>4, <3>2
  <2>8. OneFill' BY <2>7 DEF OneFill
  <2>9. WorldSheds(f.qty)
    <3>1. Waiting(fills') = 0 /\ Waiting(fills) = f.qty BY <1>4, <2>1, <2>7 DEF Waiting
    <3>2. /\ SumFunctionOnSet(Have(held, escrow), Locations) \in Nat
          /\ SumFunctionOnSet(Moving(hauls, cargo), 1..Len(hauls)) \in Nat
      BY <1>2, HaveType, MovingType
    <3> QED BY <1>1, <2>3, <3>1, <3>2 DEF WorldSheds, World
  <2> QED BY <1>1, <2>3, <2>6, <2>8, <2>9, SaleBacks
<1> QED BY <1>3, <1>4 DEF IngestMarketSales

\* A direct sale books the goods it hands over.
LEMMA ManualBacks ==
    ASSUME TypeOK, TypeOK', MovesAnchored, OneItem, SuggestionsUnspent, OneFill,
           NEW l \in DirectAt, NEW cost \in Prices \ {NoPrice}, NEW qty \in Nat,
           RecordManualSale(l, qty, cost)
    PROVE  Backs
<1>1. /\ trips < MaxTrips /\ trips' = trips + 1 /\ held[l] >= qty
      /\ held' = [held EXCEPT ![l] = @ - qty]
      /\ UNCHANGED <<moves, hauls, escrow, fills, cargo>>
      /\ Consume(l, qty, cost, trips', [x \in Locations |-> <<>>])
  BY DEF RecordManualSale
<1>2. l \in Locations /\ cost \in Nat BY HangarsAssumption
<1>3. trips' \in Nat BY <1>1 DEF TypeOK
<1>4. PICK at, none : at = trips' /\ none = [x \in Locations |-> <<>>] OBVIOUS
<1>5. OneItem' /\ RowsKept /\ SaleKept(qty)
  <2>1. Consume(l, qty, cost, at, none) BY <1>1, <1>4
  <2>2. at \in Nat BY <1>3, <1>4
  <2> QED BY <1>2, <2>1, <2>2, SaleKeeps
<1>6. OneFill' BY <1>1 DEF OneFill
<1>7. /\ held \in [Locations -> Nat] /\ escrow \in [Locations -> Nat]
      /\ hauls \in Seq(Haul) /\ fills \in Seq(Fill)
  BY DEF TypeOK
<1>8. PICK hn : hn = held' OBVIOUS
<1>9. /\ hn \in [Locations -> Nat] /\ hn[l] = held[l] - qty
      /\ \A x \in Locations \ {l} : hn[x] + escrow[x] = held[x] + escrow[x]
  BY <1>1, <1>2, <1>7, <1>8
<1>10. SumFunctionOnSet(Have(hn, escrow), Locations)
         = SumFunctionOnSet(Have(held, escrow), Locations)
             - (held[l] + escrow[l]) + (hn[l] + escrow[l])
  <2>1. held \in [Locations -> Nat] /\ escrow \in [Locations -> Nat] BY <1>7
  <2>2. hn \in [Locations -> Nat] BY <1>9
  <2>3. \A x \in Locations \ {l} : hn[x] + escrow[x] = held[x] + escrow[x] BY <1>9
  <2> QED BY <1>2, <2>1, <2>2, <2>3, HaveChanged
<1>11. held[l] \in Nat /\ escrow[l] \in Nat BY <1>2, <1>7
<1>12. /\ SumFunctionOnSet(Have(held, escrow), Locations) \in Nat
       /\ SumFunctionOnSet(Moving(hauls, cargo), 1..Len(hauls)) \in Nat
       /\ Waiting(fills) \in Nat
  BY PartsBefore
<1>13. SumFunctionOnSet(Have(hn, escrow), Locations) + qty
         = SumFunctionOnSet(Have(held, escrow), Locations)
  BY <1>9, <1>10, <1>11, <1>12
<1>14. WorldSheds(qty)
  <2>1. PICK a, b, c, d : /\ a = SumFunctionOnSet(Have(hn, escrow), Locations)
                          /\ b = SumFunctionOnSet(Have(held, escrow), Locations)
                          /\ c = SumFunctionOnSet(Moving(hauls, cargo), 1..Len(hauls))
                          /\ d = Waiting(fills)
    OBVIOUS
  <2>2. a \in Nat BY <1>7, <1>9, <2>1, HaveType
  <2>3. b \in Nat /\ c \in Nat /\ d \in Nat /\ a + qty = b BY <1>12, <1>13, <2>1
  <2>4. (a + c + d) + qty = b + c + d BY <2>2, <2>3
  <2>5. World(held', escrow', hauls', cargo', fills') = a + c + d BY <1>1, <1>8, <2>1 DEF World
  <2>6. World(held, escrow, hauls, cargo, fills) = b + c + d BY <2>1 DEF World
  <2> QED BY <2>4, <2>5, <2>6 DEF WorldSheds
<1> QED BY <1>1, <1>5, <1>6, <1>14, SaleBacks

-----------------------------------------------------------------------------
(* Every behaviour keeps every unit backed *)

\* The units of all rows, and the same counted place by place.
AllUnits(s) == [k \in 1..Len(s) |-> s[k].qty_remaining]

LEMMA StockByPlace ==
    ASSUME NEW s \in Seq(Lot), \A k \in 1..Len(s) : s[k].type = Item
    PROVE  SumFunction([l \in Locations |-> Idle(s, Item, l)])
             = SumFunctionOnSet(AllUnits(s), 1..Len(s))
<1> DEFINE S == 1..Len(s)
           f == AllUnits(s)
           key == [k \in S |-> s[k].location]
           part == [h \in Locations |-> {x \in S : key[x] = h}]
           g == [l \in Locations |-> Idle(s, Item, l)]
<1>1. IsFiniteSet(S) /\ IsFiniteSet(Locations) BY BoughtType, HangarsAssumption
<1>2. \A k \in S : f[k] \in Nat /\ f[k] = s[k].qty_remaining BY BoughtType DEF AllUnits
<1>3. \A k \in S : key[k] \in Locations
  <2> SUFFICES ASSUME NEW k \in S PROVE s[k].location \in Locations OBVIOUS
  <2>1. s[k] \in Lot OBVIOUS
  <2> QED BY <2>1 DEF Lot
<1>4. ASSUME NEW h \in Locations PROVE g[h] = SumFunctionOnSet(f, part[h])
  <2> DEFINE P == OpenLots(s, Item, h)
             H == {x \in S : key[x] = h}
             e == [l \in P |-> s[l].qty_remaining]
  <2>1. H \in SUBSET S /\ IsFiniteSet(H) BY <1>1, FS_Subset
  <2>2. P \in SUBSET H BY DEF OpenLots
  <2>3. IsFiniteSet(P) BY <2>1, <2>2, FS_Subset
  <2>4. \A k \in P : e[k] = f[k] BY <1>2, <2>2
  <2>5. \A k \in H \ P : f[k] = 0
    <3> SUFFICES ASSUME NEW k \in H \ P PROVE f[k] = 0 OBVIOUS
    <3>1. k \in S /\ s[k].location = h /\ s[k].type = Item OBVIOUS
    <3>2. ~ (s[k].qty_remaining > 0) BY <3>1 DEF OpenLots
    <3>3. f[k] \in Nat /\ f[k] = s[k].qty_remaining BY <1>2, <3>1
    <3> HIDE DEF f
    <3> QED BY <3>2, <3>3
  <2>6. \A k \in H : f[k] \in Int BY <1>2, <2>1
  <2>7. g[h] = SumFunction(e) BY DEF Idle
  <2>8. DOMAIN e = P /\ part[h] = H OBVIOUS
  <2> HIDE DEF P, H, e, f, g, part, S, key
  <2>9. SumFunctionOnSet(f, H) = SumFunctionOnSet(f, P)
    BY <2>1, <2>2, <2>5, <2>6, SumOnSupport
  <2>10. SumFunctionOnSet(e, P) = SumFunctionOnSet(f, P) BY <2>3, <2>4, SumOnSame
  <2> QED BY <2>7, <2>8, <2>9, <2>10 DEF SumFunction
<1>5. \A h \in Locations : part[h] = {x \in S : key[x] = h} OBVIOUS
<1>6. DOMAIN g = Locations OBVIOUS
<1> HIDE DEF S, f, key, part, g
<1>7. SumFunctionOnSet(g, Locations) = SumFunctionOnSet(f, S)
  <2>1. \A k \in S : f[k] \in Int BY <1>2
  <2>2. \A h \in Locations : g[h] = SumFunctionOnSet(f, part[h]) BY <1>4
  <2> QED BY <1>1, <1>3, <1>5, <2>1, <2>2, SumOnParts
<1> QED BY <1>6, <1>7 DEF SumFunction, S, f, g

LEMMA BoughtAmongAll ==
    ASSUME NEW s \in Seq(Lot)
    PROVE  /\ SumFunctionOnSet(AllUnits(s), 1..Len(s)) \in Nat
           /\ BoughtTotal(s) <= SumFunctionOnSet(AllUnits(s), 1..Len(s))
           /\ (\A k \in 1..Len(s) : ~s[k].cost_is_estimated)
                => BoughtTotal(s) = SumFunctionOnSet(AllUnits(s), 1..Len(s))
<1> DEFINE S == 1..Len(s)
           f == AllUnits(s)
           b == BoughtUnits(s)
<1>1. IsFiniteSet(S) BY BoughtType
<1>2. \A k \in S : /\ f[k] \in Nat /\ f[k] = s[k].qty_remaining
                   /\ b[k] = IF s[k].cost_is_estimated THEN 0 ELSE s[k].qty_remaining
  BY BoughtType DEF AllUnits
<1>3. \A k \in S : b[k] \in Int /\ f[k] \in Int /\ b[k] <= f[k]
  <2> HIDE DEF b, f
  <2> QED BY <1>2
<1>4. (\A k \in S : ~s[k].cost_is_estimated) => \A k \in S : b[k] = f[k]
  <2> HIDE DEF b, f
  <2> QED BY <1>2
<1> HIDE DEF S, f, b
<1>5. SumFunctionOnSet(f, S) \in Nat BY <1>1, <1>2, SumOnNat
<1>6. SumFunctionOnSet(b, S) <= SumFunctionOnSet(f, S) BY <1>1, <1>3, SumOnAtMost
<1>7. (\A k \in S : ~s[k].cost_is_estimated) => SumFunctionOnSet(b, S) = SumFunctionOnSet(f, S)
  BY <1>1, <1>4, SumOnSame
<1> QED BY <1>5, <1>6, <1>7 DEF BoughtTotal, S, f, b

\* The books open with the stock there is.
LEMMA BackInit == Init => BackInv
<1> SUFFICES ASSUME Init PROVE BackInv OBVIOUS
<1>1. FInv BY InitHolds
<1>2. TypeOK BY <1>1 DEF FInv, IInv
<1>3. OneItem /\ \A k \in 1..Len(lots) : ~lots[k].cost_is_estimated
  BY HangarsAssumption DEF Init, OneItem
<1>4. SuggestionsUnspent BY DEF Init, SuggestionsUnspent
<1>5. OneFill BY DEF Init, OneFill
<1>6. UnitsBacked
  <2>1. lots \in Seq(Lot) BY <1>2 DEF TypeOK
  <2>2. PICK a : a = SumFunctionOnSet(AllUnits(lots), 1..Len(lots)) OBVIOUS
  <2>3. a \in Nat /\ MeasuredStock = a BY <1>2, <1>3, <2>1, <2>2, BoughtAmongAll, TotalsBefore
  <2>4. RetiredUnits = 0
    <3>1. DOMAIN [i \in DOMAIN moves |-> moves[i].qty_retired] = {} BY DEF Init
    <3> QED BY <3>1, SumOnEmpty DEF RetiredUnits, SumFunction
  <2>5. SoldAtEstimate = 0
    <3>1. DOMAIN [i \in {x \in DOMAIN sales : sales[x].cost_is_estimated} |-> sales[i].qty] = {}
      BY DEF Init
    <3> QED BY <3>1, SumOnEmpty DEF SoldAtEstimate, SumFunction
  <2>6. InWorld = World(held, escrow, hauls, cargo, fills) BY <1>2, <1>5, WorldBefore
  <2>7. Waiting(fills) = 0 BY DEF Init, Waiting
  <2>8. SumFunctionOnSet(Moving(hauls, cargo), 1..Len(hauls)) = 0
    <3>1. 1..Len(hauls) = {} BY DEF Init
    <3> QED BY <3>1, SumOnEmpty
  <2>9. SumFunctionOnSet(Have(held, escrow), Locations) = a
    <3>1. ASSUME NEW l \in Locations PROVE held[l] + escrow[l] = Idle(lots, Item, l)
      <4>1. held[l] = Idle(lots, Item, l) /\ escrow[l] = 0 BY DEF Init
      <4>2. held[l] \in Nat BY <1>2 DEF TypeOK
      <4> QED BY <4>1, <4>2
    <3>2. Have(held, escrow) = [l \in Locations |-> Idle(lots, Item, l)] BY <3>1 DEF Have
    <3>3. DOMAIN [l \in Locations |-> Idle(lots, Item, l)] = Locations OBVIOUS
    <3>4. SumFunction([l \in Locations |-> Idle(lots, Item, l)]) = a
      BY <1>3, <2>1, <2>2, StockByPlace DEF OneItem
    <3> QED BY <3>2, <3>3, <3>4 DEF SumFunction
  <2>10. InWorld = a BY <2>3, <2>6, <2>7, <2>8, <2>9 DEF World
  <2> QED BY <2>3, <2>4, <2>5, <2>10 DEF UnitsBacked
<1> QED BY <1>1, <1>3, <1>4, <1>5, <1>6 DEF BackInv

\* Every step of the program and of the world.
LEMMA NextBacks ==
    ASSUME TypeOK, TypeOK', MovesAnchored, OneItem, SuggestionsUnspent, OneFill, Next
    PROVE  Backs
<1>1. ASSUME NEW price \in Prices, ReconcileHangars(price) PROVE Backs BY <1>1, PassBacks
<1>2. ASSUME NEW i \in DOMAIN moves, ConfirmMove(i) \/ DismissMove(i) PROVE Backs
  BY <1>2, ConfirmBacks, DismissBacks
<1>3. ASSUME NEW o \in Hangars, NEW d \in Hangars, NEW qty \in Quantities(Stock(o)),
             RecordShipment(o, d, qty)
      PROVE  Backs
  BY <1>3, RecordBacks
<1>4. ASSUME NEW i \in DOMAIN hauls, MarkArrived(i) \/ PickUp(i) \/ Land(i) PROVE Backs
  BY <1>4, ArriveBacks, HaulBacks
<1>5. ASSUME NEW cost \in Prices \ {NoPrice}, IngestMarketSales(cost) PROVE Backs
  BY <1>5, PollBacks
<1>6. ASSUME NEW l \in DirectAt, NEW cost \in Prices \ {NoPrice},
             NEW qty \in Quantities(held[l]), RecordManualSale(l, qty, cost)
      PROVE  Backs
  <2>1. held[l] \in Nat BY HangarsAssumption DEF TypeOK
  <2>2. qty \in Nat BY <2>1 DEF Quantities
  <2> QED BY <1>6, <2>2, ManualBacks
<1>7. ASSUME NEW trip \in Trips, NEW qty \in Quantities(held[trip[1]]),
             Carry(trip[1], trip[2], qty)
      PROVE  Backs
  <2>1. trip[1] \in Locations BY HangarsAssumption
  <2>2. held[trip[1]] \in Nat BY <2>1 DEF TypeOK
  <2>3. qty \in Nat BY <2>2 DEF Quantities
  <2> QED BY <1>7, <2>3, CarryBacks
<1>8. ASSUME NEW l \in SellAt,
             \/ \E qty \in Quantities(held[l]) : ListForSale(l, qty)
             \/ \E qty \in Quantities(escrow[l]) : FillOrder(l, qty)
             \/ CancelOrder(l)
      PROVE  Backs
  <2>1. held[l] \in Nat /\ escrow[l] \in Nat BY HangarsAssumption DEF TypeOK
  <2>2. Quantities(held[l]) \subseteq Nat /\ Quantities(escrow[l]) \subseteq Nat /\ 0 \in Nat
    BY <2>1 DEF Quantities
  <2> QED BY <1>8, <2>2, OrderBacks, FillBacks
<1> QED BY <1>1, <1>2, <1>3, <1>4, <1>5, <1>6, <1>7, <1>8, Zenon DEF Next

LEMMA BackStep == BackInv /\ [Next]_vars => BackInv'
<1> SUFFICES ASSUME BackInv, [Next]_vars PROVE BackInv' OBVIOUS
<1>1. FInv' BY StepHolds DEF BackInv
<1>2. TypeOK /\ TypeOK' /\ MovesAnchored BY <1>1 DEF BackInv, FInv, IInv
<1>3. CASE Next
  <2>1. Backs BY <1>2, <1>3, NextBacks DEF BackInv
  <2>2. OneItem' /\ SuggestionsUnspent' /\ OneFill' BY <2>1 DEF Backs
  <2>3. UnitsBacked'
    <3>1. PICK m, r, w, e : m = MeasuredStock /\ r = RetiredUnits /\ w = InWorld /\ e = SoldAtEstimate
      OBVIOUS
    <3>2. PICK n, s, v, f : /\ n = MeasuredStock' /\ s = RetiredUnits'
                            /\ v = InWorld' /\ f = SoldAtEstimate'
      OBVIOUS
    <3>3. m \in Nat /\ r \in Nat /\ e \in Nat BY <1>2, <3>1, TotalsBefore
    <3>4. n \in Nat /\ s \in Nat /\ f \in Nat BY <1>2, <3>2, TotalsAfter
    <3>5. w \in Nat BY <1>2, <3>1, WorldBefore DEF BackInv
    <3>6. v \in Nat BY <1>2, <2>2, <3>2, WorldAfter
    <3>7. m + r >= w + e BY <3>1 DEF BackInv, UnitsBacked
    <3>8. m + r + v + f <= n + s + w + e BY <2>1, <3>1, <3>2 DEF Backs
    <3>9. n + s >= v + f BY <3>3, <3>4, <3>5, <3>6, <3>7, <3>8
    <3> QED BY <3>2, <3>9 DEF UnitsBacked
  <2> QED BY <1>1, <2>2, <2>3 DEF BackInv
<1>4. CASE UNCHANGED vars
  <2>1. /\ lots' = lots /\ sales' = sales /\ moves' = moves /\ hauls' = hauls /\ held' = held
        /\ escrow' = escrow /\ fills' = fills /\ cargo' = cargo
    BY <1>4 DEF vars, books, world
  <2>2. OneItem' /\ SuggestionsUnspent' /\ OneFill'
    BY <2>1 DEF BackInv, OneItem, SuggestionsUnspent, OneFill
  <2>3. /\ MeasuredStock' = MeasuredStock /\ RetiredUnits' = RetiredUnits
        /\ InWorld' = InWorld /\ SoldAtEstimate' = SoldAtEstimate
    BY <2>1 DEF MeasuredStock, RetiredUnits, InWorld, OnTheRoad, SoldAtEstimate
  <2>4. UnitsBacked' BY <2>3 DEF BackInv, UnitsBacked
  <2> QED BY <1>1, <2>2, <2>4 DEF BackInv
<1> QED BY <1>3, <1>4

LEMMA BackInductive == Spec => []BackInv
  BY BackInit, BackStep, PTL DEF Spec

\* Backed units cover the stock as long as no more is retired than was sold at an
\* estimated cost.
LEMMA BackedCovers == BackInv => BooksSound
<1> SUFFICES ASSUME BackInv PROVE BooksSound OBVIOUS
<1>1. TypeOK /\ OneItem /\ OneFill /\ UnitsBacked BY DEF BackInv, FInv, IInv
<1>2. lots \in Seq(Lot) BY <1>1 DEF TypeOK
<1>3. PICK a : a = SumFunctionOnSet(AllUnits(lots), 1..Len(lots)) OBVIOUS
<1>4. InBooks = a BY <1>1, <1>2, <1>3, StockByPlace DEF InBooks, Stock, OneItem
<1>5. PICK m, r, w, e : m = MeasuredStock /\ r = RetiredUnits /\ w = InWorld /\ e = SoldAtEstimate
  OBVIOUS
<1>6. m \in Nat /\ r \in Nat /\ e \in Nat BY <1>1, <1>5, TotalsBefore
<1>7. w \in Nat BY <1>1, <1>5, WorldBefore
<1>8. a \in Nat /\ m <= a
  <2>1. m = BoughtTotal(lots) BY <1>1, <1>5, TotalsBefore
  <2> QED BY <1>2, <1>3, <2>1, BoughtAmongAll
<1>9. m + r >= w + e BY <1>1, <1>5 DEF UnitsBacked
<1>10. BooksCoverStock
  <2>1. SUFFICES ASSUME RetiredOnce PROVE a >= w BY <1>4, <1>5 DEF BooksCoverStock
  <2>2. r <= e BY <1>5, <2>1 DEF RetiredOnce
  <2> QED BY <1>6, <1>7, <1>8, <1>9, <2>2
<1> QED BY <1>1, <1>10 DEF BooksSound

\* Every unit there is, and every unit sold at an estimated cost, has a bought unit
\* behind it, in the books or retired by a confirmed move: whatever is carried, listed,
\* sold, found, confirmed, dismissed and shipped in whatever order, and for any number of
\* places, lots, hauls and prices.  As long as no more units are retired than were sold
\* at an estimate the books know of all the stock there is.
THEOREM BooksStaySound == Spec => []BooksSound
  BY BackInductive, BackedCovers, PTL

-----------------------------------------------------------------------------
(* The stock of one place *)

\* The units at a place, row by row.
UnitsAt(s, l) == [k \in 1..Len(s) |-> IF s[k].location = l THEN s[k].qty_remaining ELSE 0]

LEMMA IdleForm ==
    ASSUME NEW s \in Seq(Lot), \A k \in 1..Len(s) : s[k].type = Item, NEW l
    PROVE  /\ Idle(s, Item, l) = SumFunctionOnSet(UnitsAt(s, l), 1..Len(s))
           /\ \A k \in 1..Len(s) : UnitsAt(s, l)[k] \in Nat
<1> DEFINE S == 1..Len(s)
           g == UnitsAt(s, l)
           P == OpenLots(s, Item, l)
           e == [k \in P |-> s[k].qty_remaining]
<1>1. IsFiniteSet(S) /\ \A k \in S : s[k].qty_remaining \in Nat BY BoughtType
<1>2. \A k \in S : g[k] = IF s[k].location = l THEN s[k].qty_remaining ELSE 0 BY DEF UnitsAt
<1>3. \A k \in S : g[k] \in Nat
  <2> HIDE DEF g
  <2> QED BY <1>1, <1>2
<1>4. P \in SUBSET S /\ \A k \in P : s[k].location = l BY DEF OpenLots
<1>5. \A k \in P : e[k] = g[k] BY <1>2, <1>4
<1>6. \A k \in S \ P : g[k] = 0
  <2> SUFFICES ASSUME NEW k \in S \ P PROVE g[k] = 0 OBVIOUS
  <2>1. s[k].location = l => ~ (s[k].qty_remaining > 0) BY DEF OpenLots
  <2> HIDE DEF g, P
  <2> QED BY <1>1, <1>2, <2>1
<1>7. DOMAIN e = P OBVIOUS
<1>8. Idle(s, Item, l) = SumFunction(e) BY DEF Idle
<1> HIDE DEF S, g, P, e
<1>9. \A k \in S : g[k] \in Int BY <1>3
<1>10. SumFunctionOnSet(e, P) = SumFunctionOnSet(g, S)
  BY SMTT(30), <1>1, <1>4, <1>5, <1>6, <1>9, SumOnFilter
<1> QED BY <1>3, <1>7, <1>8, <1>10 DEF SumFunction, S, g

-----------------------------------------------------------------------------
(* The declared hauls, place by place *)

\* The units a haul still claims at its origin and at its destination, and those of them
\* that have left the one and reached the other.
Leaving(hs, l) ==
    [i \in 1..Len(hs) |-> IF hs[i].status = "open" /\ hs[i].origin = l THEN hs[i].qty ELSE 0]
Coming(hs, l) ==
    [i \in 1..Len(hs) |-> IF hs[i].status = "open" /\ hs[i].destination = l THEN hs[i].qty ELSE 0]
Gone(hs, cs, l) ==
    [i \in 1..Len(hs) |-> IF /\ hs[i].status = "open" /\ hs[i].origin = l
                             /\ cs[i] # "origin" THEN hs[i].qty ELSE 0]
Come(hs, cs, l) ==
    [i \in 1..Len(hs) |-> IF /\ hs[i].status = "open" /\ hs[i].destination = l
                             /\ cs[i] = "destination" THEN hs[i].qty ELSE 0]

Total(f, n) == SumFunctionOnSet(f, 1..n)

LEMMA HaulTerms ==
    ASSUME NEW hs \in Seq(Haul), NEW cs, NEW l
    PROVE  /\ Len(hs) \in Nat
           /\ \A i \in 1..Len(hs) :
                /\ Leaving(hs, l)[i] = IF hs[i].status = "open" /\ hs[i].origin = l
                                       THEN hs[i].qty ELSE 0
                /\ Coming(hs, l)[i] = IF hs[i].status = "open" /\ hs[i].destination = l
                                      THEN hs[i].qty ELSE 0
                /\ Gone(hs, cs, l)[i] = IF /\ hs[i].status = "open" /\ hs[i].origin = l
                                           /\ cs[i] # "origin" THEN hs[i].qty ELSE 0
                /\ Come(hs, cs, l)[i] = IF /\ hs[i].status = "open" /\ hs[i].destination = l
                                           /\ cs[i] = "destination" THEN hs[i].qty ELSE 0
                /\ Leaving(hs, l)[i] \in Nat /\ Coming(hs, l)[i] \in Nat
                /\ Gone(hs, cs, l)[i] \in Nat /\ Come(hs, cs, l)[i] \in Nat
<1>1. Len(hs) \in Nat OBVIOUS
<1>2. ASSUME NEW i \in 1..Len(hs)
      PROVE  /\ Leaving(hs, l)[i] = IF hs[i].status = "open" /\ hs[i].origin = l
                                    THEN hs[i].qty ELSE 0
             /\ Coming(hs, l)[i] = IF hs[i].status = "open" /\ hs[i].destination = l
                                   THEN hs[i].qty ELSE 0
             /\ Gone(hs, cs, l)[i] = IF /\ hs[i].status = "open" /\ hs[i].origin = l
                                        /\ cs[i] # "origin" THEN hs[i].qty ELSE 0
             /\ Come(hs, cs, l)[i] = IF /\ hs[i].status = "open" /\ hs[i].destination = l
                                        /\ cs[i] = "destination" THEN hs[i].qty ELSE 0
  BY DEF Leaving, Coming, Gone, Come
<1>3. \A i \in 1..Len(hs) : hs[i].qty \in Nat
  <2> SUFFICES ASSUME NEW i \in 1..Len(hs) PROVE hs[i].qty \in Nat OBVIOUS
  <2>1. hs[i] \in Haul OBVIOUS
  <2> QED BY <2>1 DEF Haul
<1> QED BY <1>1, <1>2, <1>3

LEMMA HaulTotals ==
    ASSUME NEW hs \in Seq(Haul), NEW cs, NEW l
    PROVE  /\ Total(Leaving(hs, l), Len(hs)) \in Nat /\ Total(Coming(hs, l), Len(hs)) \in Nat
           /\ Total(Gone(hs, cs, l), Len(hs)) \in Nat /\ Total(Come(hs, cs, l), Len(hs)) \in Nat
           /\ Total(Gone(hs, cs, l), Len(hs)) <= Total(Leaving(hs, l), Len(hs))
           /\ Total(Come(hs, cs, l), Len(hs)) <= Total(Coming(hs, l), Len(hs))
<1> DEFINE S == 1..Len(hs)
           a == Leaving(hs, l)
           b == Coming(hs, l)
           c == Gone(hs, cs, l)
           d == Come(hs, cs, l)
<1>1. Len(hs) \in Nat BY HaulTerms
<1>2. IsFiniteSet(S) BY <1>1, FS_Interval
<1>3. \A i \in S : /\ a[i] = IF hs[i].status = "open" /\ hs[i].origin = l THEN hs[i].qty ELSE 0
                   /\ b[i] = IF hs[i].status = "open" /\ hs[i].destination = l
                             THEN hs[i].qty ELSE 0
                   /\ c[i] = IF /\ hs[i].status = "open" /\ hs[i].origin = l
                                /\ cs[i] # "origin" THEN hs[i].qty ELSE 0
                   /\ d[i] = IF /\ hs[i].status = "open" /\ hs[i].destination = l
                                /\ cs[i] = "destination" THEN hs[i].qty ELSE 0
                   /\ a[i] \in Nat /\ b[i] \in Nat /\ c[i] \in Nat /\ d[i] \in Nat
  BY HaulTerms
<1> HIDE DEF S, a, b, c, d
<1>4. \A i \in S : a[i] \in Int /\ b[i] \in Int /\ c[i] \in Int /\ d[i] \in Int BY <1>3
<1>5. \A i \in S : c[i] <= a[i] BY <1>3
<1>6. \A i \in S : d[i] <= b[i] BY <1>3
<1>7. SumFunctionOnSet(c, S) <= SumFunctionOnSet(a, S) BY <1>2, <1>4, <1>5, SumOnAtMost
<1>8. SumFunctionOnSet(d, S) <= SumFunctionOnSet(b, S) BY <1>2, <1>4, <1>6, SumOnAtMost
<1>9. SumFunctionOnSet(a, S) \in Nat /\ SumFunctionOnSet(b, S) \in Nat BY <1>2, <1>3, SumOnNat
<1>10. SumFunctionOnSet(c, S) \in Nat /\ SumFunctionOnSet(d, S) \in Nat BY <1>2, <1>3, SumOnNat
<1> QED BY <1>7, <1>8, <1>9, <1>10 DEF Total, S, a, b, c, d

LEMMA OpenForm ==
    ASSUME TypeOK, NEW l
    PROVE  /\ OpenFrom(l) = Total(Leaving(hauls, l), Len(hauls))
           /\ OpenTo(l) = Total(Coming(hauls, l), Len(hauls))
<1> DEFINE S == 1..Len(hauls)
           P == {x \in OpenHauls : hauls[x].origin = l}
           Q == {x \in OpenHauls : hauls[x].destination = l}
           e == [i \in P |-> hauls[i].qty]
           f == [i \in Q |-> hauls[i].qty]
           a == Leaving(hauls, l)
           b == Coming(hauls, l)
<1>1. hauls \in Seq(Haul) BY DEF TypeOK
<1>2. Len(hauls) \in Nat /\ DOMAIN hauls = S BY <1>1
<1>3. IsFiniteSet(S) BY <1>2, FS_Interval
<1>4. \A i \in S : /\ a[i] = IF hauls[i].status = "open" /\ hauls[i].origin = l
                             THEN hauls[i].qty ELSE 0
                   /\ b[i] = IF hauls[i].status = "open" /\ hauls[i].destination = l
                             THEN hauls[i].qty ELSE 0
                   /\ a[i] \in Nat /\ b[i] \in Nat
  <2> DEFINE c == Gone(hauls, cargo, l)
             d == Come(hauls, cargo, l)
  <2>1. \A i \in S : /\ a[i] = IF hauls[i].status = "open" /\ hauls[i].origin = l
                               THEN hauls[i].qty ELSE 0
                     /\ b[i] = IF hauls[i].status = "open" /\ hauls[i].destination = l
                               THEN hauls[i].qty ELSE 0
                     /\ c[i] = IF /\ hauls[i].status = "open" /\ hauls[i].origin = l
                                  /\ cargo[i] # "origin" THEN hauls[i].qty ELSE 0
                     /\ d[i] = IF /\ hauls[i].status = "open" /\ hauls[i].destination = l
                                  /\ cargo[i] = "destination" THEN hauls[i].qty ELSE 0
                     /\ a[i] \in Nat /\ b[i] \in Nat /\ c[i] \in Nat /\ d[i] \in Nat
    BY <1>1, HaulTerms
  <2> QED BY <2>1
<1>5. P \in SUBSET S /\ \A i \in S : i \in P <=> hauls[i].status = "open" /\ hauls[i].origin = l
  BY <1>2 DEF OpenHauls
<1>6. /\ Q \in SUBSET S
      /\ \A i \in S : i \in Q <=> hauls[i].status = "open" /\ hauls[i].destination = l
  BY <1>2 DEF OpenHauls
<1>7. DOMAIN e = P /\ DOMAIN f = Q OBVIOUS
<1>8. (\A i \in P : e[i] = hauls[i].qty) /\ (\A i \in Q : f[i] = hauls[i].qty) OBVIOUS
<1>9. OpenFrom(l) = SumFunction(e) /\ OpenTo(l) = SumFunction(f) BY DEF OpenFrom, OpenTo
<1> HIDE DEF S, P, Q, a, b, e, f
<1>10. SumFunctionOnSet(e, P) = SumFunctionOnSet(a, S)
  <2>1. \A i \in P : e[i] = a[i] BY <1>4, <1>5, <1>8
  <2>2. \A i \in S \ P : a[i] = 0 BY <1>4, <1>5
  <2>3. \A i \in S : a[i] \in Int BY <1>4
  <2> QED BY <1>3, <1>5, <2>1, <2>2, <2>3, SumOnFilter
<1>11. SumFunctionOnSet(f, Q) = SumFunctionOnSet(b, S)
  <2>1. \A i \in Q : f[i] = b[i] BY <1>4, <1>6, <1>8
  <2>2. \A i \in S \ Q : b[i] = 0 BY <1>4, <1>6
  <2>3. \A i \in S : b[i] \in Int BY <1>4
  <2> QED BY <1>3, <1>6, <2>1, <2>2, <2>3, SumOnFilter
<1> QED BY <1>7, <1>9, <1>10, <1>11 DEF SumFunction, Total, S, a, b

\* One haul of several changes; one more is declared.
LEMMA OneTerm ==
    ASSUME NEW n \in Nat, NEW f, NEW g, \A x \in 1..n : f[x] \in Nat /\ g[x] \in Nat
    PROVE  \A i \in 1..n :
              /\ f[i] <= Total(f, n)
              /\ (\A x \in (1..n) \ {i} : g[x] = f[x]) => Total(g, n) = Total(f, n) - f[i] + g[i]
<1> DEFINE S == 1..n
<1>1. IsFiniteSet(S) BY FS_Interval
<1>2. \A x \in S : f[x] \in Nat /\ g[x] \in Nat OBVIOUS
<1> HIDE DEF S
<1>3. \A x \in S : f[x] \in Int /\ g[x] \in Int BY <1>2
<1>4. \A x \in S : (\A y \in S \ {x} : g[y] = f[y])
                  => SumFunctionOnSet(g, S) = SumFunctionOnSet(f, S) - f[x] + g[x]
  BY <1>1, <1>3, SumOnChange
<1>5. \A x \in S : f[x] <= SumFunctionOnSet(f, S) BY <1>1, <1>2, SumOnTerm
<1> QED BY <1>4, <1>5 DEF Total, S

LEMMA OneMore ==
    ASSUME NEW n \in Nat, NEW f, NEW g, \A x \in 1..n : g[x] = f[x] /\ f[x] \in Nat,
           g[n + 1] \in Nat
    PROVE  Total(g, n + 1) = Total(f, n) + g[n + 1]
<1>1. PICK S, m : S = 1..n /\ m = n + 1 OBVIOUS
<1>2. IsFiniteSet(S) /\ m \notin S
  <2>1. IsFiniteSet(1..n) BY FS_Interval
  <2> QED BY <1>1, <2>1
<1>7. S \cup {m} = 1..(n + 1)
  <2>1. \A x : x \in 1..(n + 1) <=> x \in 1..n \/ x = n + 1 OBVIOUS
  <2> QED BY <1>1, <2>1
<1>3. \A x \in S \cup {m} : g[x] \in Int BY <1>1
<1>4. SumFunctionOnSet(g, S \cup {m}) = g[m] + SumFunctionOnSet(g, S)
  BY <1>2, <1>3, SumOnAdd
<1>5. SumFunctionOnSet(g, S) = SumFunctionOnSet(f, S) BY <1>1, <1>2, SumOnSame
<1>6. SumFunctionOnSet(f, S) \in Nat BY <1>1, <1>2, SumOnNat
<1>8. Total(g, n + 1) = g[m] + SumFunctionOnSet(g, S) BY <1>4, <1>7 DEF Total
<1>9. Total(f, n) = SumFunctionOnSet(f, S) BY <1>1 DEF Total
<1>10. g[m] \in Nat /\ g[m] = g[n + 1] BY <1>1
<1>11. PICK a, b : a = g[m] /\ b = SumFunctionOnSet(f, S) OBVIOUS
<1>12. a \in Nat /\ b \in Nat /\ a + b = b + a BY <1>6, <1>10, <1>11
<1> QED BY <1>5, <1>8, <1>9, <1>10, <1>11, <1>12

-----------------------------------------------------------------------------
(* What is carried from one place to another *)

\* The units of a plan that leave a place, or come to it.
Passing(s, take, at, l) ==
    [k \in 1..Len(s) |-> IF at = l THEN Taken(take, k) ELSE 0]
\* Those split off rows that keep some.
Splitting(s, take, to, l) ==
    [k \in 1..Len(s) |-> IF k \in SplitRows(s, take, <<>>) /\ to = l THEN Taken(take, k) ELSE 0]

\* A plan that carries rows of one place to another, whole.
Hauled(s, take, from, to) ==
    /\ Handed(s, take, <<>>) /\ from # to
    /\ \A k \in 1..Len(s) : /\ s[k].type = Item
                            /\ Taken(take, k) > 0 => s[k].location = from

LEMMA IdleCarried ==
    ASSUME NEW s, NEW take, NEW from, NEW to \in Locations, Hauled(s, take, from, to),
           NEW r, r = Carried(s, take, <<>>, to), NEW l
    PROVE  Idle(r, Item, l) + (IF from = l THEN SumFunction(take) ELSE 0)
             = Idle(s, Item, l) + (IF to = l THEN SumFunction(take) ELSE 0)
<1> DEFINE n == Len(s)
           S == 1..n
           split == SplitRows(s, take, <<>>)
           list == SetToSeq(split)
           c == Cardinality(split)
           old == UnitsAt(s, l)
           new == UnitsAt(r, l)
           kids == [k \in 1..c |-> new[n + k]]
           going == Splitting(s, take, to, l)
           away == Passing(s, take, from, l)
           here == Passing(s, take, to, l)
<1>0. /\ Handed(s, take, <<>>) /\ from # to
      /\ \A k \in 1..Len(s) : /\ s[k].type = Item
                              /\ Taken(take, k) > 0 => s[k].location = from
  BY DEF Hauled
<1>1. s \in Seq(Lot) /\ n \in Nat BY <1>0 DEF Handed
<1>2. /\ r \in Seq(Lot)
      /\ IsFiniteSet(split) /\ split \in SUBSET (1..Len(s))
      /\ Len(r) = Len(s) + Cardinality(split)
      /\ \A k \in 1..Len(s) : r[k] = CarriedRow(s, take, <<>>, to, k)
      /\ \A k \in 1..Cardinality(split) :
            r[Len(s) + k]
              = SplitChild(s, SetToSeq(split)[k], Carrying(take, <<>>, SetToSeq(split)[k]), to)
  BY <1>0, CarriedIs
<1>3. c \in Nat BY <1>2, FS_CardinalityType
<1>4. /\ list \in Seq(split) /\ Len(list) = c
      /\ \A x \in split : \E k \in 1..c : list[k] = x
      /\ \A j, k \in 1..c : list[j] = list[k] => j = k
  <2> HIDE DEF split
  <2> QED BY <1>2, Listing
<1>5. IsFiniteSet(S) BY <1>1, FS_Interval
<1>6. \A k \in 1..Len(r) : r[k].type = Item
  <2>1. /\ \A k \in 1..Len(s) : r[k].type = s[k].type
        /\ \A k \in 1..Len(r) : k > Len(s) => \E x \in 1..Len(s) : r[k].type = s[x].type
    BY <1>0, BoughtCarried
  <2> SUFFICES ASSUME NEW k \in 1..Len(r) PROVE r[k].type = Item OBVIOUS
  <2>2. CASE k \in 1..Len(s) BY <1>0, <2>1, <2>2
  <2>3. CASE k > Len(s) BY <1>0, <2>1, <2>3
  <2> QED BY <1>1, <1>2, <1>3, <2>2, <2>3
<1>7. /\ Idle(s, Item, l) = SumFunctionOnSet(old, 1..Len(s))
      /\ \A k \in 1..Len(s) : old[k] \in Nat
  BY <1>0, <1>1, IdleForm
<1>8. /\ Idle(r, Item, l) = SumFunctionOnSet(new, 1..Len(r))
      /\ \A k \in 1..Len(r) : new[k] \in Nat
  BY <1>2, <1>6, IdleForm
<1>9. \A k : Taken(<<>>, k) = 0 BY DEF Taken
<1>10. ASSUME NEW k \in S
       PROVE  /\ going[k] \in Nat /\ away[k] \in Nat /\ here[k] \in Nat /\ new[k] \in Nat
              /\ new[k] + away[k] + going[k] = old[k] + here[k]
  <2>1. PICK lot, t, row : lot = s[k] /\ t = Taken(take, k) /\ row = r[k] OBVIOUS
  <2>2. lot \in Lot /\ lot.qty_remaining \in Nat BY <1>1, <2>1, BoughtType
  <2>3. t \in 0..lot.qty_remaining /\ t \in Nat BY <1>0, <2>1, <2>2 DEF Handed
  <2>4. t - 0 = t /\ lot.qty_remaining - 0 = lot.qty_remaining BY <2>2, <2>3
  <2>5. row = IF 0 < t /\ t = lot.qty_remaining
              THEN Relocated(Consumed(lot, 0), to) ELSE Consumed(lot, t)
    BY <1>2, <1>9, <2>1, <2>4 DEF CarriedRow, Carrying
  <2>6. k \in split <=> 0 < t /\ t < lot.qty_remaining
    <3>1. 0 < t => k \in Drawn(take)
      <4>1. 0 < t => t # 0 /\ t > 0 BY <2>3
      <4> QED BY <2>1, <4>1 DEF Drawn, Taken
    <3> QED BY <1>9, <2>1, <2>4, <3>1 DEF SplitRows, Carrying
  <2>7. t > 0 => lot.location = from BY <1>0, <2>1
  <2>8. (IF row.location = l THEN row.qty_remaining ELSE 0) + (IF from = l THEN t ELSE 0)
           + (IF 0 < t /\ t < lot.qty_remaining /\ to = l THEN t ELSE 0)
        = (IF lot.location = l THEN lot.qty_remaining ELSE 0) + (IF to = l THEN t ELSE 0)
    <3>1. CASE 0 < t /\ t = lot.qty_remaining
      <4>1. row.qty_remaining = lot.qty_remaining - 0 /\ row.location = to
        BY <2>2, <2>5, <3>1 DEF Relocated, Consumed, Lot
      <4>2. row.qty_remaining = t /\ lot.location = from /\ from # to
        BY <1>0, <2>3, <2>4, <2>7, <3>1, <4>1
      <4> QED BY <2>3, <3>1, <4>1, <4>2
    <3>2. CASE 0 < t /\ t < lot.qty_remaining
      <4>1. row.qty_remaining = lot.qty_remaining - t /\ row.location = lot.location
        BY <2>2, <2>3, <2>5, <3>2 DEF Consumed, Lot
      <4>2. lot.location = from /\ from # to BY <1>0, <2>3, <2>7, <3>2
      <4> QED BY <2>2, <2>3, <3>2, <4>1, <4>2
    <3>3. CASE t = 0
      <4>1. row.qty_remaining = lot.qty_remaining - 0 /\ row.location = lot.location
        BY <2>2, <2>5, <3>3 DEF Consumed, Lot
      <4> QED BY <2>2, <2>4, <3>3, <4>1
    <3> QED BY <2>2, <2>3, <3>1, <3>2, <3>3
  <2>9. k \in 1..Len(r) BY <1>1, <1>2, <1>3
  <2>10. new[k] = IF row.location = l THEN row.qty_remaining ELSE 0 BY <2>1, <2>9 DEF UnitsAt
  <2>11. old[k] = IF lot.location = l THEN lot.qty_remaining ELSE 0 BY <2>1 DEF UnitsAt
  <2>12. going[k] = IF 0 < t /\ t < lot.qty_remaining /\ to = l THEN t ELSE 0
    BY <2>1, <2>6 DEF Splitting
  <2>13. away[k] = (IF from = l THEN t ELSE 0) /\ here[k] = (IF to = l THEN t ELSE 0)
    BY <2>1 DEF Passing
  <2>14. new[k] \in Nat BY <1>8, <2>9
  <2> HIDE DEF old, new, going, away, here, split
  <2> QED BY <2>3, <2>8, <2>10, <2>11, <2>12, <2>13, <2>14
<1>11. ASSUME NEW k \in 1..c
       PROVE  list[k] \in split /\ kids[k] = going[list[k]]
  <2>1. PICK x : x = list[k] OBVIOUS
  <2>2. x \in split
    <3> HIDE DEF split, list, c
    <3> QED BY <1>4, <2>1
  <2>3. x \in S BY <1>2, <2>2
  <2>4. PICK t : t = Taken(take, x) OBVIOUS
  <2>5. s[x] \in Lot /\ s[x].qty_remaining \in Nat BY <1>1, <2>3, BoughtType
  <2>6. t \in Nat /\ Carrying(take, <<>>, x) = t
    <3>1. t \in Nat BY <1>0, <2>3, <2>4, <2>5 DEF Handed
    <3> QED BY <1>9, <2>4, <3>1 DEF Carrying
  <2>7. PICK row : row = r[n + k] OBVIOUS
  <2>8. row = SplitChild(s, x, t, to) BY <1>2, <2>1, <2>6, <2>7
  <2>9. row.qty_remaining = t /\ row.location = to BY <2>5, <2>8 DEF SplitChild, Lot
  <2>10. n + k \in 1..Len(r) BY <1>1, <1>2, <1>3
  <2>11. new[n + k] = IF row.location = l THEN row.qty_remaining ELSE 0
    BY <2>7, <2>10 DEF UnitsAt
  <2>12. going[x] = IF x \in split /\ to = l THEN t ELSE 0 BY <2>3, <2>4 DEF Splitting
  <2>13. kids[k] = new[n + k] OBVIOUS
  <2> HIDE DEF kids, new, going, split, list
  <2> QED BY <2>1, <2>2, <2>9, <2>11, <2>12, <2>13
<1>12. SumFunctionOnSet(new, 1..(n + c))
         = SumFunctionOnSet(new, 1..n) + SumFunctionOnSet(kids, 1..c)
  <2>1. \A k \in 1..n : new[k] \in Int BY <1>1, <1>2, <1>3, <1>8
  <2>2. \A k \in 1..c : kids[k] \in Int /\ new[n + k] = kids[k] BY <1>1, <1>2, <1>3, <1>8
  <2>3. n \in Nat /\ c \in Nat BY <1>1, <1>3
  <2>4. PICK f, g, h, m, p : f = new /\ g = kids /\ h = new /\ m = n /\ p = c OBVIOUS
  <2> HIDE DEF new, kids, n, c
  <2>5. \A k \in 1..m : f[k] \in Int /\ h[k] = f[k] BY <2>1, <2>4
  <2>6. \A k \in 1..p : g[k] \in Int /\ h[m + k] = g[k] BY <2>2, <2>4
  <2>7. SumFunctionOnSet(h, 1..(m + p))
          = SumFunctionOnSet(f, 1..m) + SumFunctionOnSet(g, 1..p)
    BY <2>3, <2>4, <2>5, <2>6, SumOnJoined
  <2> QED BY <2>4, <2>7
<1>13. SumFunctionOnSet(kids, 1..c) = SumFunctionOnSet(going, split)
  <2>1. PICK I : I = 1..c OBVIOUS
  <2>2. IsFiniteSet(I) BY <1>3, <2>1, FS_Interval
  <2>3. list \in [I -> split]
    <3> HIDE DEF list, split, c
    <3> QED BY <1>4, <2>1
  <2>6. \A z \in split : going[z] \in Int BY <1>2, <1>10
  <2> HIDE DEF list, split, c, going, kids
  <2>4. \A x, y \in I : list[x] = list[y] => x = y BY <1>4, <2>1
  <2>5. \A z \in split : \E x \in I : list[x] = z BY <1>4, <2>1
  <2>7. \A x \in I : kids[x] = going[list[x]] BY <1>11, <2>1
  <2>8. SumFunctionOnSet(kids, I) = SumFunctionOnSet(going, split)
    BY <2>2, <2>3, <2>4, <2>5, <2>6, <2>7, SumOnImage
  <2> QED BY <2>1, <2>8
<1>14. SumFunctionOnSet(going, split) = SumFunctionOnSet(going, S)
  <2>1. \A k \in S \ split : going[k] = 0 BY DEF Splitting
  <2>2. split \in SUBSET S BY <1>2
  <2>3. \A k \in S : going[k] \in Int BY <1>10
  <2> HIDE DEF S, split, going
  <2> QED BY <1>5, <2>1, <2>2, <2>3, SumOnSupport
<1>15. /\ SumFunctionOnSet(new, S) + SumFunctionOnSet(away, S) + SumFunctionOnSet(going, S)
            = SumFunctionOnSet(old, S) + SumFunctionOnSet(here, S)
       /\ SumFunctionOnSet(new, S) \in Nat /\ SumFunctionOnSet(away, S) \in Nat
       /\ SumFunctionOnSet(going, S) \in Nat /\ SumFunctionOnSet(old, S) \in Nat
       /\ SumFunctionOnSet(here, S) \in Nat
  <2> DEFINE kept == [k \in S |-> new[k] + away[k]]
             all == [k \in S |-> old[k] + here[k]]
  <2>1. \A k \in S : /\ going[k] \in Nat /\ away[k] \in Nat /\ here[k] \in Nat
                     /\ new[k] \in Nat /\ old[k] \in Nat
                     /\ new[k] + away[k] + going[k] = old[k] + here[k]
    BY <1>7, <1>10
  <2>2. \A k \in S : kept[k] = new[k] + away[k] /\ all[k] = old[k] + here[k] OBVIOUS
  <2> HIDE DEF S, old, new, going, away, here, kept, all
  <2>3. \A k \in S : /\ going[k] \in Int /\ away[k] \in Int /\ here[k] \in Int
                     /\ new[k] \in Int /\ old[k] \in Int /\ kept[k] \in Int
    BY <2>1, <2>2
  <2>4. \A k \in S : all[k] = kept[k] + going[k] BY <2>1, <2>2
  <2>5. SumFunctionOnSet(kept, S) = SumFunctionOnSet(new, S) + SumFunctionOnSet(away, S)
    BY <1>5, <2>2, <2>3, SumOnPlus
  <2>6. SumFunctionOnSet(all, S) = SumFunctionOnSet(old, S) + SumFunctionOnSet(here, S)
    BY <1>5, <2>2, <2>3, SumOnPlus
  <2>7. SumFunctionOnSet(all, S) = SumFunctionOnSet(kept, S) + SumFunctionOnSet(going, S)
    BY <1>5, <2>3, <2>4, SumOnPlus
  <2>8. SumFunctionOnSet(new, S) \in Nat BY <1>5, <2>1, SumOnNat
  <2>9. SumFunctionOnSet(away, S) \in Nat BY <1>5, <2>1, SumOnNat
  <2>10. SumFunctionOnSet(going, S) \in Nat BY <1>5, <2>1, SumOnNat
  <2>11. SumFunctionOnSet(old, S) \in Nat BY <1>5, <2>1, SumOnNat
  <2>12. SumFunctionOnSet(here, S) \in Nat BY <1>5, <2>1, SumOnNat
  <2> QED BY <2>5, <2>6, <2>7, <2>8, <2>9, <2>10, <2>11, <2>12
<1>16. ASSUME NEW at
       PROVE  SumFunctionOnSet(Passing(s, take, at, l), S)
                = IF at = l THEN SumFunction(take) ELSE 0
  <2> DEFINE g == Passing(s, take, at, l)
  <2>1. \A k \in S : g[k] = IF at = l THEN Taken(take, k) ELSE 0 BY DEF Passing
  <2>2. \A k \in S : Taken(take, k) \in Nat
    <3> TAKE k \in S
    <3>1. s[k].qty_remaining \in Nat BY <1>1, BoughtType
    <3> QED BY <1>0, <3>1 DEF Handed
  <2>3. DOMAIN take \in SUBSET S BY <1>0 DEF Handed
  <2> HIDE DEF S, g
  <2>4. CASE at = l
    <3>1. \A k \in S : g[k] \in Int BY <2>1, <2>2, <2>4
    <3>2. \A k \in DOMAIN take : take[k] = g[k] BY <2>1, <2>3, <2>4 DEF Taken
    <3>3. \A k \in S \ DOMAIN take : g[k] = 0 BY <2>1, <2>4 DEF Taken
    <3>4. SumFunctionOnSet(take, DOMAIN take) = SumFunctionOnSet(g, S)
      BY <1>5, <2>3, <3>1, <3>2, <3>3, SumOnFilter
    <3> QED BY <2>4, <3>4 DEF SumFunction, g
  <2>5. CASE at # l
    <3>1. \A k \in S : g[k] = 0 BY <2>1, <2>5
    <3>2. SumFunctionOnSet(g, S) = 0 BY <1>5, <3>1, SumOnZero
    <3> QED BY <2>5, <3>2 DEF g
  <2> QED BY <2>4, <2>5
<1>17. /\ SumFunctionOnSet(away, S) = (IF from = l THEN SumFunction(take) ELSE 0)
       /\ SumFunctionOnSet(here, S) = (IF to = l THEN SumFunction(take) ELSE 0)
  BY <1>16
<1>18. Idle(r, Item, l) = SumFunctionOnSet(new, 1..(n + c)) BY <1>2, <1>8
<1>19. Idle(s, Item, l) = SumFunctionOnSet(old, S) BY <1>7
<1>20. S = 1..n OBVIOUS
<1> HIDE DEF S, old, new, going, away, here, kids, n, c, split, list
<1>21. Idle(r, Item, l) = SumFunctionOnSet(new, S) + SumFunctionOnSet(going, S)
  BY <1>12, <1>13, <1>14, <1>18, <1>20
<1>22. Idle(r, Item, l) + SumFunctionOnSet(away, S)
         = Idle(s, Item, l) + SumFunctionOnSet(here, S)
  BY <1>15, <1>19, <1>21
<1> QED BY <1>17, <1>22

-----------------------------------------------------------------------------
(* While every haul is declared *)

\* What is gone from a place for good has left its books too, and no more is claimed
\* there than the books know of.
Level(hd, s, hs, cs, l) ==
    /\ hd[l] + Total(Gone(hs, cs, l), Len(hs)) = Idle(s, Item, l) + Total(Come(hs, cs, l), Len(hs))
    /\ Total(Leaving(hs, l), Len(hs)) <= Idle(s, Item, l)

Annotated(lg) == \A l \in Locations : \A k \in 1..Len(lg[l]) : lg[l][k].kind \in AnnotationKinds
Directed(hs, cs) ==
    \A i \in 1..Len(hs) : /\ hs[i].origin # hs[i].destination
                          /\ cs[i] # "destination" => hs[i].status = "open"

Quiet ==
    /\ moves = <<>> /\ fills = <<>>
    /\ \A l \in Locations : orders[l] = 0 /\ escrow[l] = 0
    /\ \A l \in Locations : Level(held, lots, hauls, cargo, l)
    /\ Directed(hauls, cargo)
    /\ Annotated(log)

QuietInv == BackInv /\ (trips = 0 => Quiet)

LEMMA AnnotatedLogged ==
    ASSUME TypeOK, Annotated(log), NEW added, Logged(added),
           \A l \in Locations : /\ added[l] \in Seq(Event)
                                /\ \A k \in 1..Len(added[l]) : added[l][k].kind \in AnnotationKinds
    PROVE  Annotated(log')
<1> SUFFICES ASSUME NEW l \in Locations, NEW k \in 1..Len(log'[l])
             PROVE  log'[l][k].kind \in AnnotationKinds
  BY DEF Annotated
<1>1. PICK old, new, add : old = log[l] /\ new = log'[l] /\ add = added[l] OBVIOUS
<1>2. old \in Seq(Event) /\ add \in Seq(Event) /\ new = old \o add
  BY <1>1 DEF TypeOK, Logged
<1>3. /\ \A x \in 1..Len(old) : old[x].kind \in AnnotationKinds
      /\ \A x \in 1..Len(add) : add[x].kind \in AnnotationKinds
  BY <1>1 DEF Annotated
<1>4. /\ Len(old) \in Nat /\ Len(new) \in Nat
      /\ \A x \in 1..Len(old) : new[x] = old[x]
      /\ \A x \in 1..Len(new) : x > Len(old) =>
            x - Len(old) \in 1..Len(add) /\ new[x] = add[x - Len(old)]
  BY <1>2, Concat
<1>5. k \in 1..Len(new) BY <1>1
<1>6. CASE k \in 1..Len(old) BY <1>1, <1>3, <1>4, <1>6
<1>7. CASE k > Len(old)
  <2>1. PICK j : j = k - Len(old) OBVIOUS
  <2>2. j \in 1..Len(add) /\ new[k] = add[j] BY <1>4, <1>5, <1>7, <2>1
  <2> QED BY <1>1, <1>3, <2>2
<1> QED BY <1>4, <1>5, <1>6, <1>7

LEMMA AnnotatedAt ==
    ASSUME TypeOK, Annotated(log), NEW l, NEW kind \in AnnotationKinds, NEW qty \in Nat,
           LoggedAt(l, <<Entry(kind, qty, 0)>>)
    PROVE  Annotated(log')
<1> DEFINE e == Entry(kind, qty, 0)
           added == [x \in Locations |-> IF x = l THEN <<e>> ELSE <<>>]
<1>1. e \in Event /\ e.kind \in AnnotationKinds BY DEF Entry, Event
<1>2. Logged(added) BY DEF LoggedAt
<1> HIDE DEF e
<1>3. \A x \in Locations : /\ added[x] \in Seq(Event)
                           /\ \A k \in 1..Len(added[x]) : added[x][k].kind \in AnnotationKinds
  <2> TAKE x \in Locations
  <2>1. added[x] = IF x = l THEN <<e>> ELSE <<>> OBVIOUS
  <2> HIDE DEF added
  <2>2. <<e>> \in Seq(Event) /\ Len(<<e>>) = 1 /\ <<e>>[1] = e BY <1>1
  <2>3. <<>> \in Seq(Event) /\ Len(<<>>) = 0 OBVIOUS
  <2>4. CASE x = l BY <2>1, <2>2, <2>4, <1>1
  <2>5. CASE x # l BY <2>1, <2>3, <2>5
  <2> QED BY <2>4, <2>5
<1> HIDE DEF added
<1> QED BY <1>2, <1>3, AnnotatedLogged

\* Nothing is too little or too much.
LEMMA QuietMeasures ==
    ASSUME TypeOK, Quiet
    PROVE  Short = {} /\ Over = {}
<1>1. ASSUME NEW l \in Locations PROVE Shortfall(l) = 0 /\ Excess(l) = 0
  <2>1. PICK s, g, c, o, t, h : /\ s = Stock(l) /\ h = held[l]
                                /\ g = Total(Gone(hauls, cargo, l), Len(hauls))
                                /\ c = Total(Come(hauls, cargo, l), Len(hauls))
                                /\ o = Total(Leaving(hauls, l), Len(hauls))
                                /\ t = Total(Coming(hauls, l), Len(hauls))
    OBVIOUS
  <2>2. hauls \in Seq(Haul) BY DEF TypeOK
  <2>3. /\ g \in Nat /\ c \in Nat /\ o \in Nat /\ t \in Nat /\ g <= o /\ c <= t
    BY <2>1, <2>2, HaulTotals
  <2>4. s \in Nat /\ h \in Nat BY <2>1, Measures
  <2>5. h + g = s + c /\ o <= s BY <2>1 DEF Quiet, Level, Stock
  <2>6. OpenFrom(l) = o /\ OpenTo(l) = t BY <2>1, OpenForm
  <2>7. orders[l] = 0 BY DEF Quiet
  <2>8. Minus(s, 0) = s
    <3>1. CASE s > 0 BY <2>4, <3>1 DEF Minus
    <3>2. CASE ~ (s > 0) BY <2>4, <3>2 DEF Minus
    <3> QED BY <3>1, <3>2
  <2>9. Expected(l) = Minus(s, o) BY <2>1, <2>6, <2>7, <2>8 DEF Expected
  <2>10. Minus(s, o) = s - o BY <2>3, <2>4, <2>5 DEF Minus
  <2>11. Minus(s - o, h) = 0 BY <2>3, <2>4, <2>5 DEF Minus
  <2>12. Minus(h, s - o) \in Nat /\ Minus(h, s - o) <= o + t
    <3>1. h - (s - o) <= o + t BY <2>3, <2>4, <2>5
    <3> QED BY <2>3, <2>4, <2>5, <3>1 DEF Minus
  <2>13. Minus(Minus(h, s - o), o + t) = 0
    <3>1. PICK m : m = Minus(h, s - o) OBVIOUS
    <3>2. m \in Nat /\ m <= o + t BY <2>12, <3>1
    <3>3. Minus(m, o + t) = 0 BY <2>3, <3>2 DEF Minus
    <3> QED BY <3>1, <3>3
  <2>14. Shortfall(l) = 0 BY <2>1, <2>9, <2>10, <2>11 DEF Shortfall
  <2>15. Excess(l) = 0 BY <2>1, <2>6, <2>9, <2>10, <2>13 DEF Excess
  <2> QED BY <2>14, <2>15
<1>2. \A h \in Hangars : Shortfall(h) = 0 /\ Excess(h) = 0 BY <1>1, HangarsAssumption
<1> QED BY <1>2 DEF Short, Over

\* A check finds nothing and asks nothing.
LEMMA PassQuiet ==
    ASSUME TypeOK, TypeOK', Quiet, NEW price \in Prices, ReconcileHangars(price)
    PROVE  Quiet'
<1>1. Short = {} /\ Over = {} BY QuietMeasures
<1>2. PassShape BY PassIs
<1>3. /\ UNCHANGED <<hauls, orders, held, escrow, fills, cargo>>
  BY DEF ReconcileHangars, world
<1>4. moves' = <<>>
  <2>1. moves' \in Seq(Move) /\ Len(moves) = 0 BY <1>2 DEF PassShape, Quiet
  <2>2. MovePairs = {} BY <1>1, PairsAre
  <2>3. \A i \in 1..Len(moves') : ~ (i > 0) BY <1>2, <2>1, <2>2 DEF PassShape
  <2>4. PICK r : r = moves' OBVIOUS
  <2>5. Len(r) \in Nat /\ r \in Seq(Move) BY <2>1, <2>4
  <2>6. Len(r) = 0
    <3> SUFFICES ASSUME Len(r) # 0 PROVE FALSE OBVIOUS
    <3>1. 1 \in 1..Len(r) BY <2>5
    <3> QED BY <2>3, <2>4, <3>1
  <2> QED BY <2>4, <2>5, <2>6
<1>5. ASSUME NEW l \in Locations PROVE Level(held', lots', hauls', cargo', l)
  <2>1. Idle(lots', Item, l) = Idle(lots, Item, l) BY <1>1, <1>2 DEF PassShape, Stock
  <2>2. Level(held, lots, hauls, cargo, l) BY DEF Quiet
  <2> QED BY <1>3, <2>1, <2>2 DEF Level
<1>6. Annotated(log')
  <2> DEFINE booked == SetToSeq(IF price = NoPrice THEN {} ELSE Over)
             lotOf(h) == IF \E i \in DOMAIN booked : booked[i] = h
                         THEN Len(lots) + (CHOOSE i \in DOMAIN booked : booked[i] = h) ELSE 0
             unpriced(h) == /\ AlreadyLogged(h, "excess", Excess(h))
                            /\ log[h][LatestAt(h)].lot = 0
             observed(h) ==
               CASE h \in Over /\ (lotOf(h) # 0 \/ ~unpriced(h)) ->
                       <<Entry("excess", Excess(h), lotOf(h))>>
                 [] h \in Short /\ StandingFlag(h) > Len(log[h]) ->
                       <<Entry("shortfall", Shortfall(h), 0)>>
                 [] OTHER -> <<>>
             added == [l \in Locations |-> observed(l) \o WithdrawNotes(Withdrawn, l)]
  <2>1. Logged(added) BY Zenon DEF ReconcileHangars
  <2>2. ASSUME NEW l \in Locations
        PROVE  /\ added[l] \in Seq(Event)
               /\ \A k \in 1..Len(added[l]) : added[l][k].kind \in AnnotationKinds
    <3>1. observed(l) = <<>> BY <1>1
    <3>2. added[l] = observed(l) \o WithdrawNotes(Withdrawn, l) OBVIOUS
    <3> HIDE DEF observed, added
    <3>3. PICK notes : notes = WithdrawNotes(Withdrawn, l) OBVIOUS
    <3>4. Withdrawn \in SUBSET DOMAIN moves BY DEF Withdrawn, Pending
    <3>5. /\ notes \in Seq(Event)
          /\ \A k \in 1..Len(notes) : notes[k].kind = "move_withdrawn"
      BY <3>3, <3>4, NotesAre
    <3>6. added[l] = notes BY <3>1, <3>2, <3>3, <3>5
    <3> QED BY <3>5, <3>6 DEF AnnotationKinds
  <2> HIDE DEF added
  <2> QED BY <2>1, <2>2, AnnotatedLogged DEF Quiet
<1> QED BY <1>3, <1>4, <1>5, <1>6 DEF Quiet

\* A declared haul claims stock that no other claims.
LEMMA RecordQuiet ==
    ASSUME TypeOK, TypeOK', Quiet, NEW o \in Hangars, NEW d \in Hangars, NEW qty \in Nat,
           RecordShipment(o, d, qty)
    PROVE  Quiet'
<1>1. PICK haul : haul = [origin |-> o, destination |-> d, qty |-> qty, status |-> "open"]
  OBVIOUS
<1>2. /\ UNCHANGED <<lots, moves, orders, held, escrow, fills>>
      /\ hauls' = Append(hauls, haul) /\ cargo' = Append(cargo, "origin")
      /\ o # d /\ qty <= QtyIdle(o)
  BY <1>1 DEF RecordShipment, books
<1>3. hauls \in Seq(Haul) /\ hauls' \in Seq(Haul) /\ Len(hauls) \in Nat /\ o \in Locations
  BY HangarsAssumption DEF TypeOK
<1>4. cargo \in Seq({"origin", "road", "destination"}) /\ Len(cargo) = Len(hauls)
  BY DEF TypeOK
<1>5. PICK n, hs, cs : n = Len(hauls) /\ hs = hauls' /\ cs = cargo' OBVIOUS
<1>6. /\ Len(hs) = n + 1 /\ n \in Nat /\ hs \in Seq(Haul)
      /\ \A x \in 1..n : hs[x] = hauls[x] /\ cs[x] = cargo[x]
      /\ hs[n + 1] = haul /\ cs[n + 1] = "origin"
  <2>1. Len(hauls') = Len(hauls) + 1 /\ hauls'[Len(hauls) + 1] = haul BY <1>2, <1>3
  <2>2. \A x \in 1..Len(hauls) : hauls'[x] = hauls[x] BY <1>2, <1>3
  <2>3. \A x \in 1..Len(hauls) : cargo'[x] = cargo[x] BY <1>2, <1>4
  <2>4. cargo'[Len(hauls) + 1] = "origin" BY <1>2, <1>4
  <2> QED BY <1>3, <1>5, <2>1, <2>2, <2>3, <2>4
<1>7. haul.origin = o /\ haul.destination = d /\ haul.qty = qty /\ haul.status = "open" BY <1>1
<1>8. ASSUME NEW l \in Locations PROVE Level(held, lots, hs, cs, l)
  <2> DEFINE a == Leaving(hauls, l)
             g == Gone(hauls, cargo, l)
             c == Come(hauls, cargo, l)
             an == Leaving(hs, l)
             gn == Gone(hs, cs, l)
             cn == Come(hs, cs, l)
  <2>1. \A i \in 1..n :
           /\ a[i] = IF hauls[i].status = "open" /\ hauls[i].origin = l THEN hauls[i].qty ELSE 0
           /\ g[i] = IF /\ hauls[i].status = "open" /\ hauls[i].origin = l
                        /\ cargo[i] # "origin" THEN hauls[i].qty ELSE 0
           /\ c[i] = IF /\ hauls[i].status = "open" /\ hauls[i].destination = l
                        /\ cargo[i] = "destination" THEN hauls[i].qty ELSE 0
           /\ a[i] \in Nat /\ g[i] \in Nat /\ c[i] \in Nat
    BY <1>3, <1>5, HaulTerms
  <2>2. \A i \in 1..(n + 1) :
           /\ an[i] = IF hs[i].status = "open" /\ hs[i].origin = l THEN hs[i].qty ELSE 0
           /\ gn[i] = IF /\ hs[i].status = "open" /\ hs[i].origin = l
                         /\ cs[i] # "origin" THEN hs[i].qty ELSE 0
           /\ cn[i] = IF /\ hs[i].status = "open" /\ hs[i].destination = l
                         /\ cs[i] = "destination" THEN hs[i].qty ELSE 0
           /\ an[i] \in Nat /\ gn[i] \in Nat /\ cn[i] \in Nat
    BY <1>6, HaulTerms
  <2>8. n + 1 \in 1..(n + 1) /\ \A i \in 1..n : i \in 1..(n + 1) BY <1>6
  <2> HIDE DEF a, g, c, an, gn, cn
  <2>3. an[n + 1] = (IF o = l THEN qty ELSE 0) /\ gn[n + 1] = 0 /\ cn[n + 1] = 0
    BY <1>6, <1>7, <2>2, <2>8
  <2>4. \A i \in 1..n : an[i] = a[i] /\ gn[i] = g[i] /\ cn[i] = c[i] BY SMTT(30), <1>6, <2>1, <2>2, <2>8
  <2>5. Total(an, n + 1) = Total(a, n) + an[n + 1]
    <3>1. \A i \in 1..n : an[i] = a[i] /\ a[i] \in Nat BY <2>1, <2>4
    <3>2. an[n + 1] \in Nat BY <2>3
    <3> QED BY <1>6, <3>1, <3>2, OneMore
  <2>6. Total(gn, n + 1) = Total(g, n) + gn[n + 1]
    <3>1. \A i \in 1..n : gn[i] = g[i] /\ g[i] \in Nat BY <2>1, <2>4
    <3>2. gn[n + 1] \in Nat BY <2>3
    <3> QED BY <1>6, <3>1, <3>2, OneMore
  <2>7. Total(cn, n + 1) = Total(c, n) + cn[n + 1]
    <3>1. \A i \in 1..n : cn[i] = c[i] /\ c[i] \in Nat BY <2>1, <2>4
    <3>2. cn[n + 1] \in Nat BY <2>3
    <3> QED BY <1>6, <3>1, <3>2, OneMore
  <2>9. /\ Total(a, n) \in Nat /\ Total(g, n) \in Nat /\ Total(c, n) \in Nat
    BY <1>3, <1>5, HaulTotals DEF a, g, c
  <2>10. Stock(l) \in Nat /\ held[l] \in Nat /\ OpenFrom(l) = Total(a, n)
    BY <1>5, Measures, OpenForm DEF a
  <2>11. held[l] + Total(g, n) = Stock(l) + Total(c, n) /\ Total(a, n) <= Stock(l)
    BY <1>5 DEF Quiet, Level, Stock, a, g, c
  <2>12. o = l => qty <= Stock(l) - 0 - Total(a, n)
    BY <1>2, <2>10 DEF QtyIdle, Quiet
  <2>13. Total(an, n + 1) <= Stock(l) BY <2>3, <2>5, <2>9, <2>10, <2>11, <2>12
  <2>14. held[l] + Total(gn, n + 1) = Stock(l) + Total(cn, n + 1)
    BY <2>3, <2>6, <2>7, <2>9, <2>10, <2>11
  <2> QED BY <1>6, <2>13, <2>14 DEF Level, Stock, an, gn, cn
<1>9. Directed(hs, cs)
  <2> SUFFICES ASSUME NEW i \in 1..Len(hs)
               PROVE  hs[i].origin # hs[i].destination /\ (cs[i] # "destination" => hs[i].status = "open")
    BY DEF Directed
  <2>1. CASE i = n + 1 BY <1>2, <1>6, <1>7, <2>1
  <2>2. CASE i # n + 1
    <3>1. i \in 1..n BY <1>6, <2>2
    <3> QED BY <1>5, <1>6, <3>1 DEF Quiet, Directed
  <2> QED BY <2>1, <2>2
<1>10. Annotated(log')
  <2>1. LoggedAt(o, <<Entry("shipment_recorded", qty, 0)>>) BY DEF RecordShipment
  <2> QED BY <2>1, AnnotatedAt DEF Quiet, AnnotationKinds
<1>11. \A l \in Locations : Level(held', lots', hauls', cargo', l) BY <1>2, <1>5, <1>8
<1>12. Directed(hauls', cargo') BY <1>5, <1>9
<1> QED BY <1>2, <1>10, <1>11, <1>12 DEF Quiet

\* A haul that leaves or lands takes along what the books will follow with.
LEMMA HaulQuiet ==
    ASSUME TypeOK, TypeOK', Quiet, NEW i \in DOMAIN hauls, PickUp(i) \/ Land(i)
    PROVE  Quiet'
<1>1. /\ UNCHANGED <<lots, log, moves, hauls, orders, escrow, fills>> BY DEF PickUp, Land, books
<1>2. PICK n, cs, hd, h : n = Len(hauls) /\ cs = cargo' /\ hd = held' /\ h = hauls[i] OBVIOUS
<1>3. /\ hauls \in Seq(Haul) /\ n \in Nat /\ i \in 1..n /\ h \in Haul
      /\ cargo \in [1..n -> {"origin", "road", "destination"}] /\ held \in [Locations -> Nat]
  BY <1>2 DEF TypeOK
<1>4. h.origin \in Locations /\ h.destination \in Locations /\ h.qty \in Nat BY <1>3 DEF Haul
<1>5. h.origin # h.destination /\ (cargo[i] # "destination" => h.status = "open")
  BY <1>2, <1>3 DEF Quiet, Directed
<1>6. /\ cargo[i] # "destination" /\ cs[i] # "origin"
      /\ \A x \in (1..n) \ {i} : cs[x] = cargo[x]
  BY <1>2, <1>3 DEF PickUp, Land
<1>7. ASSUME NEW l \in Locations PROVE Level(hd, lots, hauls, cs, l)
  <2> DEFINE g == Gone(hauls, cargo, l)
             c == Come(hauls, cargo, l)
             gn == Gone(hauls, cs, l)
             cn == Come(hauls, cs, l)
  <2>1. \A x \in 1..n :
           /\ g[x] = IF /\ hauls[x].status = "open" /\ hauls[x].origin = l
                        /\ cargo[x] # "origin" THEN hauls[x].qty ELSE 0
           /\ c[x] = IF /\ hauls[x].status = "open" /\ hauls[x].destination = l
                        /\ cargo[x] = "destination" THEN hauls[x].qty ELSE 0
           /\ g[x] \in Nat /\ c[x] \in Nat
    BY <1>2, <1>3, HaulTerms
  <2>2. \A x \in 1..n :
           /\ gn[x] = IF /\ hauls[x].status = "open" /\ hauls[x].origin = l
                         /\ cs[x] # "origin" THEN hauls[x].qty ELSE 0
           /\ cn[x] = IF /\ hauls[x].status = "open" /\ hauls[x].destination = l
                         /\ cs[x] = "destination" THEN hauls[x].qty ELSE 0
           /\ gn[x] \in Nat /\ cn[x] \in Nat
    BY <1>2, <1>3, HaulTerms
  <2> HIDE DEF g, c, gn, cn
  <2>3. /\ \A x \in 1..n : g[x] \in Nat /\ gn[x] \in Nat
        /\ \A x \in 1..n : c[x] \in Nat /\ cn[x] \in Nat
        /\ \A x \in (1..n) \ {i} : gn[x] = g[x]
        /\ \A x \in (1..n) \ {i} : cn[x] = c[x]
    BY <1>6, <2>1, <2>2
  <2>4. Total(gn, n) = Total(g, n) - g[i] + gn[i]
    <3>1. \A k \in 1..n : (\A x \in (1..n) \ {k} : gn[x] = g[x])
                              => Total(gn, n) = Total(g, n) - g[k] + gn[k]
      <4>1. \A x \in 1..n : g[x] \in Nat /\ gn[x] \in Nat BY <2>3
      <4>2. n \in Nat BY <1>3
      <4> QED BY <4>1, <4>2, OneTerm
    <3> QED BY <1>3, <2>3, <3>1
  <2>5. Total(cn, n) = Total(c, n) - c[i] + cn[i]
    <3>1. \A k \in 1..n : (\A x \in (1..n) \ {k} : cn[x] = c[x])
                              => Total(cn, n) = Total(c, n) - c[k] + cn[k]
      <4>1. \A x \in 1..n : c[x] \in Nat /\ cn[x] \in Nat BY <2>3
      <4>2. n \in Nat BY <1>3
      <4> QED BY <4>1, <4>2, OneTerm
    <3> QED BY <1>3, <2>3, <3>1
  <2>6. /\ Total(g, n) \in Nat /\ Total(c, n) \in Nat /\ Stock(l) \in Nat /\ held[l] \in Nat
    BY <1>2, <1>3, HaulTotals, Measures DEF g, c
  <2>7. held[l] + Total(g, n) = Stock(l) + Total(c, n)
    BY <1>2 DEF Quiet, Level, Stock, g, c
  <2>8. Total(Leaving(hauls, l), n) <= Stock(l) BY <1>2 DEF Quiet, Level, Stock
  <2>9. hd[l] + gn[i] - g[i] = held[l] + cn[i] - c[i] /\ hd[l] \in Nat
        /\ gn[i] \in Nat /\ g[i] \in Nat /\ cn[i] \in Nat /\ c[i] \in Nat
    <3>1. /\ g[i] = (IF h.origin = l /\ cargo[i] # "origin" THEN h.qty ELSE 0)
          /\ c[i] = 0
          /\ gn[i] = (IF h.origin = l THEN h.qty ELSE 0)
          /\ cn[i] = (IF h.destination = l /\ cs[i] = "destination" THEN h.qty ELSE 0)
      BY <1>2, <1>3, <1>5, <1>6, <2>1, <2>2
    <3>2. CASE PickUp(i)
      <4>1. /\ cargo[i] = "origin" /\ cs[i] = "road"
            /\ hd = [held EXCEPT ![h.origin] = @ - h.qty] /\ held[h.origin] >= h.qty
        BY <1>2, <1>3, <3>2 DEF PickUp
      <4>2. hd[l] = (IF h.origin = l THEN held[l] - h.qty ELSE held[l]) /\ hd[l] \in Nat
        BY <1>3, <1>4, <4>1
      <4> QED BY <1>4, <2>6, <3>1, <4>1, <4>2
    <3>3. CASE Land(i)
      <4>1. /\ cargo[i] = "road" /\ cs[i] = "destination"
            /\ hd = [held EXCEPT ![h.destination] = @ + h.qty]
        BY <1>2, <1>3, <3>3 DEF Land
      <4>2. hd[l] = (IF h.destination = l THEN held[l] + h.qty ELSE held[l]) /\ hd[l] \in Nat
        BY <1>3, <1>4, <4>1
      <4> QED BY <1>4, <2>6, <3>1, <4>1, <4>2
    <3> QED BY <3>2, <3>3
  <2>10. hd[l] + Total(gn, n) = Stock(l) + Total(cn, n)
    <3>1. PICK p, q, u, v : /\ p = g[i] /\ q = gn[i] /\ u = c[i] /\ v = cn[i] OBVIOUS
    <3>2. PICK gs, ks, hn, ho, st : /\ gs = Total(g, n) /\ ks = Total(c, n) /\ hn = hd[l]
                                    /\ ho = held[l] /\ st = Stock(l)
      OBVIOUS
    <3>3. /\ p \in Nat /\ q \in Nat /\ u \in Nat /\ v \in Nat /\ gs \in Nat /\ ks \in Nat
          /\ hn \in Nat /\ ho \in Nat /\ st \in Nat
      BY <2>6, <2>9, <3>1, <3>2
    <3>4. hn + q - p = ho + v - u /\ ho + gs = st + ks BY <2>7, <2>9, <3>1, <3>2
    <3>5. hn + (gs - p + q) = st + (ks - u + v) BY <3>3, <3>4
    <3>6. Total(gn, n) = gs - p + q /\ Total(cn, n) = ks - u + v BY <2>4, <2>5, <3>1, <3>2
    <3> QED BY <3>2, <3>5, <3>6
  <2> QED BY <1>2, <2>8, <2>10 DEF Level, Stock, gn, cn
<1>8. Directed(hauls, cs)
  <2> SUFFICES ASSUME NEW x \in 1..n
               PROVE  /\ hauls[x].origin # hauls[x].destination
                      /\ cs[x] # "destination" => hauls[x].status = "open"
    BY <1>2 DEF Directed
  <2>1. /\ hauls[x].origin # hauls[x].destination
        /\ cargo[x] # "destination" => hauls[x].status = "open"
    BY <1>2 DEF Quiet, Directed
  <2> QED BY <1>2, <1>5, <1>6, <2>1
<1>9. \A l \in Locations : Level(held', lots', hauls', cargo', l) BY <1>1, <1>2, <1>7
<1>10. Directed(hauls', cargo') BY <1>1, <1>2, <1>8
<1> QED BY <1>1, <1>9, <1>10 DEF Quiet, Annotated

\* An arrival finds all it claims at the origin, and the books follow the goods.
LEMMA ArriveQuiet ==
    ASSUME TypeOK, TypeOK', OneItem, Quiet, NEW i \in DOMAIN hauls, MarkArrived(i)
    PROVE  Quiet'
<1>1. PICK n, hs, h, r : n = Len(hauls) /\ hs = hauls' /\ h = hauls[i] /\ r = lots' OBVIOUS
<1>2. /\ hauls \in Seq(Haul) /\ n \in Nat /\ i \in 1..n /\ h \in Haul
      /\ hs \in Seq(Haul) /\ lots \in Seq(Lot) /\ Len(lots) \in Nat
  BY <1>1 DEF TypeOK
<1>3. h.origin \in Locations /\ h.destination \in Locations /\ h.qty \in Nat BY <1>2 DEF Haul
<1>4. /\ h.status = "open" /\ cargo[i] = "destination"
      /\ hs = [hauls EXCEPT ![i].status = "arrived"]
      /\ UNCHANGED <<moves, orders, held, escrow, fills, cargo>>
  BY <1>1 DEF MarkArrived, world
<1>5. PICK plan \in FifoPlans(lots, OpenLots(lots, Item, h.origin), h.qty) :
        /\ r = Carried(lots, plan.take, <<>>, h.destination)
        /\ LoggedAt(h.destination, <<Entry("shipment_arrived", h.qty - plan.shortfall, 0)>>)
  BY <1>1 DEF MarkArrived
<1>6. h.origin # h.destination BY <1>1, <1>2 DEF Quiet, Directed
<1>7. PICK open : open = OpenLots(lots, Item, h.origin) OBVIOUS
<1>8. /\ open \in SUBSET (1..Len(lots)) /\ \A k \in open : lots[k].location = h.origin
  BY <1>7 DEF OpenLots
<1>9. /\ plan.shortfall \in 0..h.qty /\ plan.take \in [open -> Nat]
      /\ \A l \in 1..Len(lots) : Taken(plan.take, l) \in 0..lots[l].qty_remaining
      /\ SumFunction(plan.take) + plan.shortfall = h.qty
      /\ plan.shortfall > 0 => \A l \in open : plan.take[l] = lots[l].qty_remaining
  BY <1>2, <1>3, <1>5, <1>7, <1>8, PlanIs
<1>10. Handed(lots, plan.take, <<>>)
  <2>1. \A l : Taken(<<>>, l) = 0 BY DEF Taken
  <2>2. DOMAIN plan.take \subseteq 1..Len(lots) BY <1>8, <1>9
  <2>3. ASSUME NEW l \in 1..Len(lots)
        PROVE  /\ Taken(plan.take, l) \in 0..lots[l].qty_remaining
               /\ Taken(<<>>, l) \in 0..Taken(plan.take, l)
    <3>1. lots[l].qty_remaining \in Nat BY <1>2, BoughtType
    <3> QED BY <1>9, <2>1, <3>1
  <2> QED BY <1>2, <2>2, <2>3 DEF Handed
<1>11. h.qty <= Stock(h.origin)
  <2> DEFINE a == Leaving(hauls, h.origin)
             g == Gone(hauls, cargo, h.origin)
             c == Come(hauls, cargo, h.origin)
  <2>1. \A x \in 1..n :
           /\ a[x] = IF hauls[x].status = "open" /\ hauls[x].origin = h.origin
                     THEN hauls[x].qty ELSE 0
           /\ a[x] \in Nat /\ g[x] \in Nat /\ c[x] \in Nat
    BY <1>1, <1>2, HaulTerms
  <2>2. Total(a, n) \in Nat /\ Total(g, n) \in Nat /\ Total(c, n) \in Nat
    BY <1>1, <1>2, HaulTotals
  <2>3. Total(a, n) <= Stock(h.origin) BY <1>1, <1>3 DEF Quiet, Level, Stock
  <2>4. Stock(h.origin) \in Nat BY <1>3, Measures
  <2> HIDE DEF a, g, c
  <2>5. a[i] = h.qty BY <1>1, <1>2, <1>4, <2>1
  <2>6. \A k \in 1..n : a[k] <= Total(a, n)
    <3>1. \A x \in 1..n : a[x] \in Nat /\ a[x] \in Nat BY <2>1
    <3>2. n \in Nat BY <1>2
    <3> QED BY <3>1, <3>2, OneTerm
  <2>7. h.qty <= Total(a, n) BY <1>2, <2>5, <2>6
  <2> QED BY <1>3, <2>2, <2>3, <2>4, <2>7
<1>12. SumFunction(plan.take) = h.qty
  <2>1. PICK t, q : t = SumFunction(plan.take) /\ q = plan.shortfall OBVIOUS
  <2>2. DOMAIN plan.take = open /\ IsFiniteSet(open) /\ \A k \in open : plan.take[k] \in Nat
    <3>1. DOMAIN plan.take = open /\ \A k \in open : plan.take[k] \in Nat BY <1>9
    <3>2. PICK m \in Nat : 1..m = 1..Len(lots) BY <1>2
    <3>3. IsFiniteSet(1..m) BY <3>2, FS_Interval
    <3>4. open \subseteq 1..m BY <1>8, <3>2
    <3>5. IsFiniteSet(open) BY <3>3, <3>4, FS_Subset
    <3> QED BY <3>1, <3>5
  <2>3. t \in Nat BY <2>1, <2>2, TotalType
  <2>4. q \in Nat /\ t + q = h.qty BY <1>3, <1>9, <2>1
  <2>5. q > 0 => t = Stock(h.origin)
    <3> SUFFICES ASSUME q > 0 PROVE t = Stock(h.origin) OBVIOUS
    <3>1. \A k \in open : plan.take[k] = lots[k].qty_remaining BY <1>9, <2>1
    <3>2. plan.take = [k \in open |-> lots[k].qty_remaining] BY <1>9, <3>1
    <3> QED BY <1>7, <2>1, <3>2 DEF Stock, Idle
  <2>6. Stock(h.origin) \in Nat BY <1>3, Measures
  <2>7. ~ (q > 0) BY <1>3, <1>11, <2>3, <2>4, <2>5, <2>6
  <2> QED BY <1>3, <2>1, <2>3, <2>4, <2>7
<1>13. ASSUME NEW l
       PROVE  Idle(r, Item, l) + (IF h.origin = l THEN h.qty ELSE 0)
                = Idle(lots, Item, l) + (IF h.destination = l THEN h.qty ELSE 0)
  <2>1. \A k \in 1..Len(lots) : lots[k].type = Item BY DEF OneItem
  <2>2. \A k \in 1..Len(lots) : Taken(plan.take, k) > 0 => lots[k].location = h.origin
    BY <1>8, <1>9 DEF Taken
  <2>3. PICK from, to, take : from = h.origin /\ to = h.destination /\ take = plan.take OBVIOUS
  <2>4. Idle(r, Item, l) + (IF from = l THEN SumFunction(take) ELSE 0)
          = Idle(lots, Item, l) + (IF to = l THEN SumFunction(take) ELSE 0)
    <3>1. Hauled(lots, take, from, to)
      BY <1>6, <1>10, <2>1, <2>2, <2>3 DEF Hauled
    <3>2. to \in Locations /\ r = Carried(lots, take, <<>>, to) BY <1>3, <1>5, <2>3
    <3> QED BY <3>1, <3>2, IdleCarried
  <2> QED BY <1>12, <2>3, <2>4
<1>14. /\ Len(hs) = n /\ hs[i].status = "arrived"
       /\ \A x \in (1..n) \ {i} : hs[x] = hauls[x]
       /\ hs[i].origin = h.origin /\ hs[i].destination = h.destination
  <2>1. hs = [hauls EXCEPT ![i] = [h EXCEPT !.status = "arrived"]] BY <1>1, <1>4
  <2>2. hs[i] = [h EXCEPT !.status = "arrived"] BY <1>1, <1>2, <2>1
  <2>3. Len(hs) = n /\ \A x \in (1..n) \ {i} : hs[x] = hauls[x] BY <1>1, <1>2, <2>1
  <2> QED BY <1>2, <2>2, <2>3 DEF Haul
<1>15. ASSUME NEW l \in Locations PROVE Level(held, r, hs, cargo, l)
  <2> DEFINE a == Leaving(hauls, l)
             g == Gone(hauls, cargo, l)
             c == Come(hauls, cargo, l)
             an == Leaving(hs, l)
             gn == Gone(hs, cargo, l)
             cn == Come(hs, cargo, l)
  <2>1. \A x \in 1..n :
           /\ a[x] = IF hauls[x].status = "open" /\ hauls[x].origin = l THEN hauls[x].qty ELSE 0
           /\ g[x] = IF /\ hauls[x].status = "open" /\ hauls[x].origin = l
                        /\ cargo[x] # "origin" THEN hauls[x].qty ELSE 0
           /\ c[x] = IF /\ hauls[x].status = "open" /\ hauls[x].destination = l
                        /\ cargo[x] = "destination" THEN hauls[x].qty ELSE 0
           /\ a[x] \in Nat /\ g[x] \in Nat /\ c[x] \in Nat
    BY <1>1, <1>2, HaulTerms
  <2>2. \A x \in 1..n :
           /\ an[x] = IF hs[x].status = "open" /\ hs[x].origin = l THEN hs[x].qty ELSE 0
           /\ gn[x] = IF /\ hs[x].status = "open" /\ hs[x].origin = l
                         /\ cargo[x] # "origin" THEN hs[x].qty ELSE 0
           /\ cn[x] = IF /\ hs[x].status = "open" /\ hs[x].destination = l
                         /\ cargo[x] = "destination" THEN hs[x].qty ELSE 0
           /\ an[x] \in Nat /\ gn[x] \in Nat /\ cn[x] \in Nat
    BY <1>2, <1>14, HaulTerms
  <2> HIDE DEF a, g, c, an, gn, cn
  <2>3. \A x \in (1..n) \ {i} : an[x] = a[x] /\ gn[x] = g[x] /\ cn[x] = c[x]
    BY <1>14, <2>1, <2>2
  <2>4. /\ a[i] = (IF h.origin = l THEN h.qty ELSE 0) /\ an[i] = 0
        /\ g[i] = (IF h.origin = l THEN h.qty ELSE 0) /\ gn[i] = 0
        /\ c[i] = (IF h.destination = l THEN h.qty ELSE 0) /\ cn[i] = 0
    BY <1>1, <1>2, <1>4, <1>14, <2>1, <2>2
  <2>5. Total(an, n) = Total(a, n) - a[i] + an[i]
    <3>1. \A x \in 1..n : a[x] \in Nat /\ an[x] \in Nat BY <2>1, <2>2
    <3>2. n \in Nat BY <1>2
    <3>3. \A k \in 1..n : (\A x \in (1..n) \ {k} : an[x] = a[x])
                              => Total(an, n) = Total(a, n) - a[k] + an[k]
      BY <3>1, <3>2, OneTerm
    <3> QED BY <1>2, <2>3, <3>3
  <2>6. Total(gn, n) = Total(g, n) - g[i] + gn[i]
    <3>1. \A x \in 1..n : g[x] \in Nat /\ gn[x] \in Nat BY <2>1, <2>2
    <3>2. n \in Nat BY <1>2
    <3>3. \A k \in 1..n : (\A x \in (1..n) \ {k} : gn[x] = g[x])
                              => Total(gn, n) = Total(g, n) - g[k] + gn[k]
      BY <3>1, <3>2, OneTerm
    <3> QED BY <1>2, <2>3, <3>3
  <2>7. Total(cn, n) = Total(c, n) - c[i] + cn[i]
    <3>1. \A x \in 1..n : c[x] \in Nat /\ cn[x] \in Nat BY <2>1, <2>2
    <3>2. n \in Nat BY <1>2
    <3>3. \A k \in 1..n : (\A x \in (1..n) \ {k} : cn[x] = c[x])
                              => Total(cn, n) = Total(c, n) - c[k] + cn[k]
      BY <3>1, <3>2, OneTerm
    <3> QED BY <1>2, <2>3, <3>3
  <2>8. held[l] + Total(g, n) = Idle(lots, Item, l) + Total(c, n)
        /\ Total(a, n) <= Idle(lots, Item, l)
    BY <1>1 DEF Quiet, Level, a, g, c
  <2>9. Total(a, n) \in Nat /\ Total(g, n) \in Nat /\ Total(c, n) \in Nat
    BY <1>1, <1>2, HaulTotals DEF a, g, c
  <2>10. Idle(r, Item, l) \in Nat /\ Idle(lots, Item, l) \in Nat /\ held[l] \in Nat
    BY <1>1, IdleType DEF TypeOK
  <2>11. PICK u, v : u = a[i] /\ v = c[i] OBVIOUS
  <2>12. /\ u \in Nat /\ v \in Nat /\ g[i] = u
         /\ Idle(r, Item, l) + u = Idle(lots, Item, l) + v
    BY <1>3, <1>13, <2>4, <2>11
  <2>13. PICK at, gt, ct, ir, is, hl : /\ at = Total(a, n) /\ gt = Total(g, n) /\ ct = Total(c, n)
                                       /\ ir = Idle(r, Item, l) /\ is = Idle(lots, Item, l)
                                       /\ hl = held[l]
    OBVIOUS
  <2>14. /\ at \in Nat /\ gt \in Nat /\ ct \in Nat /\ ir \in Nat /\ is \in Nat /\ hl \in Nat
         /\ ir + u = is + v /\ hl + gt = is + ct /\ at <= is
    BY <2>8, <2>9, <2>10, <2>12, <2>13
  <2>15. Total(an, n) = at - u /\ Total(gn, n) = gt - u /\ Total(cn, n) = ct - v
    BY <2>4, <2>5, <2>6, <2>7, <2>11, <2>12, <2>13, <2>14
  <2>16. hl + (gt - u) = ir + (ct - v) /\ at - u <= ir BY <2>12, <2>14
  <2> QED BY <1>14, <2>13, <2>15, <2>16 DEF Level, an, gn, cn
<1>16. Directed(hs, cargo)
  <2> SUFFICES ASSUME NEW x \in 1..n
               PROVE  /\ hs[x].origin # hs[x].destination
                      /\ cargo[x] # "destination" => hs[x].status = "open"
    BY <1>14 DEF Directed
  <2>1. /\ hauls[x].origin # hauls[x].destination
        /\ cargo[x] # "destination" => hauls[x].status = "open"
    BY <1>1 DEF Quiet, Directed
  <2> QED BY <1>4, <1>6, <1>14, <2>1
<1>17. Annotated(log')
  <2>1. h.qty - plan.shortfall \in Nat BY <1>3, <1>9
  <2> QED BY <1>5, <2>1, AnnotatedAt DEF Quiet, AnnotationKinds
<1>18. \A l \in Locations : Level(held', lots', hauls', cargo', l) BY <1>1, <1>4, <1>15
<1>19. Directed(hauls', cargo') BY <1>1, <1>4, <1>16
<1> QED BY <1>4, <1>17, <1>18, <1>19 DEF Quiet

\* A poll with nothing sold and nothing listed says nothing.
LEMMA PollQuiet ==
    ASSUME TypeOK, TypeOK', Quiet, NEW cost, IngestMarketSales(cost)
    PROVE  Quiet'
<1>1. /\ UNCHANGED <<moves, hauls, held, escrow, cargo>> /\ orders' = escrow
      /\ Logged(OffDivisionFlags) /\ UNCHANGED <<books, fills>>
  BY DEF IngestMarketSales, Quiet
<1>2. \A l \in Locations : OffDivisionFlags[l] = <<>>
  <2> SUFFICES ASSUME NEW l \in Locations PROVE OffDivisionFlags[l] = <<>> OBVIOUS
  <2>1. ~ (escrow[l] > 0) BY DEF Quiet
  <2> QED BY <2>1 DEF OffDivisionFlags
<1>3. Annotated(log')
  <2>1. PICK flags : flags = OffDivisionFlags OBVIOUS
  <2>2. \A l \in Locations : /\ flags[l] \in Seq(Event)
                             /\ \A k \in 1..Len(flags[l]) : flags[l][k].kind \in AnnotationKinds
    <3> TAKE l \in Locations
    <3>1. flags[l] = <<>> BY <1>2, <2>1
    <3> QED BY <3>1
  <2> QED BY <1>1, <2>1, <2>2, AnnotatedLogged DEF Quiet
<1>4. lots' = lots BY <1>1 DEF books
<1> QED BY <1>1, <1>3, <1>4 DEF Quiet

LEMMA QuietInit == Init => QuietInv
<1> SUFFICES ASSUME Init PROVE QuietInv OBVIOUS
<1>1. BackInv BY BackInit
<1>2. TypeOK BY <1>1 DEF BackInv, FInv, IInv
<1>3. ASSUME NEW l \in Locations PROVE Level(held, lots, hauls, cargo, l)
  <2>1. Len(hauls) = 0 /\ 1..Len(hauls) = {} BY DEF Init
  <2>2. /\ Total(Gone(hauls, cargo, l), Len(hauls)) = 0
        /\ Total(Come(hauls, cargo, l), Len(hauls)) = 0
        /\ Total(Leaving(hauls, l), Len(hauls)) = 0
    BY <2>1, SumOnEmpty DEF Total
  <2>3. held[l] = Idle(lots, Item, l) BY DEF Init
  <2>4. held[l] \in Nat BY <1>2 DEF TypeOK
  <2> QED BY <2>2, <2>3, <2>4 DEF Level
<1>4. moves = <<>> /\ fills = <<>> /\ \A l \in Locations : orders[l] = 0 /\ escrow[l] = 0
  BY DEF Init
<1>5. Directed(hauls, cargo) BY DEF Init, Directed
<1>6. Annotated(log) BY DEF Init, Annotated
<1>7. Quiet BY <1>3, <1>4, <1>5, <1>6 DEF Quiet
<1> QED BY <1>1, <1>7 DEF QuietInv

LEMMA QuietNext ==
    ASSUME TypeOK, TypeOK', OneItem, Quiet, Next, trips' = trips
    PROVE  Quiet'
<1>1. ASSUME NEW price \in Prices, ReconcileHangars(price) PROVE Quiet' BY <1>1, PassQuiet
<1>2. ASSUME NEW i \in DOMAIN moves, ConfirmMove(i) \/ DismissMove(i) PROVE Quiet'
  <2>1. DOMAIN moves = {} BY DEF Quiet
  <2> QED BY <2>1
<1>3. ASSUME NEW o \in Hangars, NEW d \in Hangars, NEW qty \in Quantities(Stock(o)),
             RecordShipment(o, d, qty)
      PROVE  Quiet'
  <2>1. Stock(o) \in Nat BY HangarsAssumption, Measures
  <2>2. qty \in Nat BY <2>1 DEF Quantities
  <2> QED BY <1>3, <2>2, RecordQuiet
<1>4. ASSUME NEW i \in DOMAIN hauls, MarkArrived(i) \/ PickUp(i) \/ Land(i) PROVE Quiet'
  BY <1>4, ArriveQuiet, HaulQuiet
<1>5. ASSUME NEW cost \in Prices \ {NoPrice}, IngestMarketSales(cost) PROVE Quiet'
  BY <1>5, PollQuiet
<1>6. trips \in Nat BY DEF TypeOK
<1>7. ASSUME NEW l \in DirectAt, NEW cost \in Prices \ {NoPrice},
             NEW qty \in Quantities(held[l]), RecordManualSale(l, qty, cost)
      PROVE  Quiet'
  BY <1>6, <1>7 DEF RecordManualSale
<1>8. ASSUME NEW trip \in Trips, NEW qty \in Quantities(held[trip[1]]),
             Carry(trip[1], trip[2], qty)
      PROVE  Quiet'
  BY <1>6, <1>8 DEF Carry, Undeclared
<1>9. ASSUME NEW l \in SellAt,
             \/ \E qty \in Quantities(held[l]) : ListForSale(l, qty)
             \/ \E qty \in Quantities(escrow[l]) : FillOrder(l, qty)
             \/ CancelOrder(l)
      PROVE  Quiet'
  BY <1>6, <1>9 DEF ListForSale, FillOrder, CancelOrder, Undeclared
<1> QED BY <1>1, <1>2, <1>3, <1>4, <1>5, <1>7, <1>8, <1>9, Zenon DEF Next

\* The clock of undeclared events never goes back.
LEMMA ClockRuns == ASSUME TypeOK, Next PROVE trips' = trips \/ trips' = trips + 1
<1>1. ASSUME NEW price \in Prices, ReconcileHangars(price) PROVE trips' = trips
  BY <1>1 DEF ReconcileHangars, world
<1>2. ASSUME NEW i \in DOMAIN moves, ConfirmMove(i) \/ DismissMove(i) PROVE trips' = trips
  BY <1>2 DEF ConfirmMove, DismissMove, world
<1>3. ASSUME NEW o \in Hangars, NEW d \in Hangars, NEW qty, RecordShipment(o, d, qty)
      PROVE  trips' = trips
  BY <1>3 DEF RecordShipment
<1>4. ASSUME NEW i \in DOMAIN hauls, MarkArrived(i) \/ PickUp(i) \/ Land(i) PROVE trips' = trips
  BY <1>4 DEF MarkArrived, PickUp, Land, world
<1>5. ASSUME NEW cost, IngestMarketSales(cost) PROVE trips' = trips
  BY <1>5 DEF IngestMarketSales
<1>6. ASSUME NEW l \in DirectAt, NEW cost, NEW qty, RecordManualSale(l, qty, cost)
      PROVE  trips' = trips + 1
  BY <1>6 DEF RecordManualSale
<1>7. ASSUME NEW a, NEW b, NEW qty, Carry(a, b, qty) PROVE trips' = trips + 1
  BY <1>7 DEF Carry, Undeclared
<1>8. ASSUME NEW l \in SellAt, NEW qty,
             ListForSale(l, qty) \/ FillOrder(l, qty) \/ CancelOrder(l)
      PROVE  trips' = trips + 1
  BY <1>8 DEF ListForSale, FillOrder, CancelOrder, Undeclared
<1> QED BY <1>1, <1>2, <1>3, <1>4, <1>5, <1>6, <1>7, <1>8, Zenon DEF Next

LEMMA QuietStep == QuietInv /\ [Next]_vars => QuietInv'
<1> SUFFICES ASSUME QuietInv, [Next]_vars PROVE QuietInv' OBVIOUS
<1>1. BackInv /\ BackInv' BY BackStep DEF QuietInv
<1>2. TypeOK /\ TypeOK' /\ OneItem BY <1>1 DEF BackInv, FInv, IInv
<1>3. trips \in Nat /\ trips' \in Nat BY <1>2 DEF TypeOK
<1>4. CASE Next
  <2> SUFFICES ASSUME trips' = 0 PROVE Quiet' BY <1>1 DEF QuietInv
  <2>1. trips' = trips \/ trips' = trips + 1 BY <1>2, <1>4, ClockRuns
  <2>2. trips = 0 /\ trips' = trips BY <1>3, <2>1
  <2>3. Quiet BY <2>2 DEF QuietInv
  <2> QED BY <1>2, <1>4, <2>2, <2>3, QuietNext
<1>5. CASE UNCHANGED vars
  <2>1. /\ trips' = trips /\ moves' = moves /\ fills' = fills /\ orders' = orders
        /\ escrow' = escrow /\ held' = held /\ lots' = lots /\ hauls' = hauls
        /\ cargo' = cargo /\ log' = log
    BY <1>5 DEF vars, books, world
  <2>2. Quiet => Quiet' BY <2>1 DEF Quiet
  <2> QED BY <1>1, <2>1, <2>2 DEF QuietInv
<1> QED BY <1>4, <1>5

\* While every haul is declared and nothing is listed or sold, no check finds or misses a
\* unit: whatever is recorded, picked up, landed and marked arrived in whatever order, for
\* any number of hauls and hangars, the log holds nothing but what managers declared.
THEOREM HaulsStayQuiet == Spec => []HaulsAreQuiet
<1>1. QuietInv => HaulsAreQuiet
  <2> SUFFICES ASSUME QuietInv, trips = 0
               PROVE  /\ moves = <<>>
                      /\ \A l \in Locations : \A i \in DOMAIN log[l] : log[l][i].kind \in AnnotationKinds
    BY DEF HaulsAreQuiet
  <2>1. Quiet /\ TypeOK BY DEF QuietInv, BackInv, FInv, IInv
  <2>2. \A l \in Locations : DOMAIN log[l] = 1..Len(log[l]) BY <2>1 DEF TypeOK
  <2> QED BY <2>1, <2>2 DEF Quiet, Annotated
<1> QED BY <1>1, QuietInit, QuietStep, PTL DEF Spec

=============================================================================
