---------------------------- MODULE LedgerProofs ----------------------------
(***************************************************************************)
(* Proofs about Ledger and about SalesIngest, which consumes its lots, for *)
(* every value of their constants.                                         *)
(*                                                                         *)
(* Each invariant speaks of one lot and of the rows that reference it, or  *)
(* of a lot and its parent.  RowOK and LineOK are those two statements;    *)
(* IInv says them of every lot, and Extension shows that a unit of work    *)
(* keeps IInv when every row it leaves or adds is RowOK and LineOK.        *)
(*                                                                         *)
(* Capital is a statement about all lots at once.  Its invariant, Balanced, *)
(* says that what lots handed on is what the lots carved from them entered  *)
(* with; Moved says how much of it one unit of work hands on, and the laws  *)
(* of SumLaws carry it to the totals.                                       *)
(*                                                                         *)
(* The second half is about the sales ingestion.  SalesInv says that the   *)
(* committed books and the draft of the running pass are sound, that the   *)
(* draft only adds to what is committed, and that the fills still to be    *)
(* booked are newer than all that is booked of their division.             *)
(***************************************************************************)
EXTENDS Ledger, SalesIngest, SumLaws, SequenceTheorems, FiniteSetTheorems, TLAPS

\* What the invariants say of one lot and of the rows that reference it.
RowOK(lot, b) ==
    /\ lot \in Lot
    /\ b \in Entry
    /\ lot.qty_original = lot.qty_remaining + b.sold + b.split + b.reprocessed
    /\ b.entry = lot.qty_remaining * Landed(lot) + b.cogs + b.carried + b.loss
    /\ lot.written_down_to # NoFloor => lot.written_down_to < lot.unit_cost

\* What LineageHonest says of one lot of a ledger s.
LineOK(s, l) ==
    /\ s[l].source = "opening_balance" => s[l].cost_is_estimated
    /\ LET p == s[l].source_lot
       IN  p # 0 => /\ p < l
                    /\ s[l].acquired_at = s[p].acquired_at
                    /\ s[p].cost_is_estimated => s[l].cost_is_estimated

IInv ==
    /\ TypeOK
    /\ \A l \in DOMAIN lots : RowOK(lots[l], book[l])
    /\ \A l \in DOMAIN lots : LineOK(lots, l)

-----------------------------------------------------------------------------
(* One row *)

LEMMA LandedType == ASSUME NEW lot \in Lot PROVE Landed(lot) \in Nat
  BY NoFloorAssumption DEF Landed, Lot

\* Splitting a product, the only nonlinear fact the proofs need.
LEMMA Distribute ==
    ASSUME NEW r \in Nat, NEW t \in 0..r, NEW c \in Nat
    PROVE  /\ t \in Nat /\ r - t \in Nat
           /\ r * c = (r - t) * c + t * c
           /\ t * c \in Nat /\ (r - t) * c \in Nat
  OBVIOUS

\* A lot enters the books with the row Opened gives it.
LEMMA OpenedRow ==
    ASSUME NEW lot \in Lot, lot.qty_remaining = lot.qty_original,
           lot.written_down_to # NoFloor => lot.written_down_to < lot.unit_cost
    PROVE  RowOK(lot, Opened(lot))
  <1>1. /\ lot.qty_original \in Nat
        /\ lot.qty_original * Landed(lot) \in Nat
    BY LandedType DEF Lot
  <1>2. Opened(lot) \in Entry
    BY <1>1 DEF Opened, Entry
  <1> QED
    BY <1>1, <1>2 DEF RowOK, Opened

\* Units drawn from a lot keep its row, whichever rows record them.
LEMMA DrawnRow ==
    ASSUME NEW lot, NEW b, RowOK(lot, b), NEW t \in 0..lot.qty_remaining
    PROVE  /\ RowOK(Consumed(lot, t), Sold(b, lot, t))
           /\ RowOK(Consumed(lot, t), Reprocessed(b, lot, t))
           /\ RowOK(Consumed(lot, t), SplitOff(b, lot, t))
  <1> DEFINE rest == Consumed(lot, t)
             c == Landed(lot)
  <1>1. /\ lot \in Lot /\ b \in Entry
        /\ lot.qty_remaining \in Nat
        /\ b.sold \in Nat /\ b.cogs \in Nat /\ b.split \in Nat /\ b.loss \in Nat
        /\ b.reprocessed \in Nat /\ b.carried \in Nat /\ b.entry \in Nat
    BY DEF RowOK, Lot, Entry
  <1>2. c \in Nat
    BY <1>1, LandedType
  <1>3. rest \in Lot /\ Landed(rest) = c /\ rest.qty_remaining = lot.qty_remaining - t
        /\ rest.qty_original = lot.qty_original
        /\ rest.written_down_to = lot.written_down_to /\ rest.unit_cost = lot.unit_cost
    BY <1>1 DEF Lot, Landed, Consumed
  <1>4. /\ t \in Nat
        /\ lot.qty_remaining * c = rest.qty_remaining * c + t * c
        /\ t * c \in Nat /\ rest.qty_remaining * c \in Nat
    BY <1>1, <1>2, <1>3, Distribute
  <1>5. /\ b.sold + t \in Nat /\ b.cogs + t * c \in Nat
        /\ b.reprocessed + t \in Nat /\ b.carried + t * c \in Nat
        /\ b.split + t \in Nat
    BY <1>1, <1>4
  <1>6. RowOK(rest, Sold(b, lot, t))
    <2>1. Sold(b, lot, t) \in Entry
      BY <1>1, <1>5, Zenon DEF Entry, Sold
    <2>2. /\ Sold(b, lot, t).sold = b.sold + t
          /\ Sold(b, lot, t).cogs = b.cogs + t * c
          /\ Sold(b, lot, t).split = b.split
          /\ Sold(b, lot, t).reprocessed = b.reprocessed
          /\ Sold(b, lot, t).carried = b.carried
          /\ Sold(b, lot, t).loss = b.loss
          /\ Sold(b, lot, t).entry = b.entry
      BY <1>1 DEF Sold, Entry
    <2> QED
      BY <1>1, <1>3, <1>4, <2>1, <2>2 DEF RowOK
  <1>7. RowOK(rest, Reprocessed(b, lot, t))
    <2>1. Reprocessed(b, lot, t) \in Entry
      BY <1>1, <1>5, Zenon DEF Entry, Reprocessed
    <2>2. /\ Reprocessed(b, lot, t).sold = b.sold
          /\ Reprocessed(b, lot, t).cogs = b.cogs
          /\ Reprocessed(b, lot, t).split = b.split
          /\ Reprocessed(b, lot, t).reprocessed = b.reprocessed + t
          /\ Reprocessed(b, lot, t).carried = b.carried + t * c
          /\ Reprocessed(b, lot, t).loss = b.loss
          /\ Reprocessed(b, lot, t).entry = b.entry
      BY <1>1 DEF Reprocessed, Entry
    <2> QED
      BY <1>1, <1>3, <1>4, <2>1, <2>2 DEF RowOK
  <1>8. RowOK(rest, SplitOff(b, lot, t))
    <2>1. SplitOff(b, lot, t) \in Entry
      BY <1>1, <1>5, Zenon DEF Entry, SplitOff
    <2>2. /\ SplitOff(b, lot, t).sold = b.sold
          /\ SplitOff(b, lot, t).cogs = b.cogs
          /\ SplitOff(b, lot, t).split = b.split + t
          /\ SplitOff(b, lot, t).reprocessed = b.reprocessed
          /\ SplitOff(b, lot, t).carried = b.carried + t * c
          /\ SplitOff(b, lot, t).loss = b.loss
          /\ SplitOff(b, lot, t).entry = b.entry
      BY <1>1 DEF SplitOff, Entry
    <2> QED
      BY <1>1, <1>3, <1>4, <2>1, <2>2 DEF RowOK
  <1> QED
    BY <1>6, <1>7, <1>8

\* A due write-down expenses exactly what it takes off the carried value.
LEMMA WrittenDownRow ==
    ASSUME NEW lot, NEW b, RowOK(lot, b), NEW nrv \in Nat, WriteDownDue(lot, nrv)
    PROVE  RowOK(WrittenDown(lot, nrv), Expensed(b, lot, nrv))
  <1> DEFINE low == WrittenDown(lot, nrv)
             c == Landed(lot)
             loss == WriteDownLoss(lot, nrv)
             b2 == Expensed(b, lot, nrv)
  <1>1. /\ lot \in Lot /\ b \in Entry
        /\ lot.qty_remaining \in Nat /\ lot.unit_cost \in Nat
        /\ b.sold \in Nat /\ b.cogs \in Nat /\ b.split \in Nat /\ b.loss \in Nat
        /\ b.reprocessed \in Nat /\ b.carried \in Nat /\ b.entry \in Nat
    BY DEF RowOK, Lot, Entry
  <1>2. c \in Nat /\ nrv < c
    BY <1>1, LandedType DEF WriteDownDue
  <1>3. c <= lot.unit_cost
    BY <1>1, NoFloorAssumption DEF Landed, Lot
  <1>4. low \in Lot /\ low.written_down_to = nrv /\ low.unit_cost = lot.unit_cost
        /\ low.qty_remaining = lot.qty_remaining /\ low.qty_original = lot.qty_original
    BY <1>1 DEF Lot, WrittenDown
  <1>5. Landed(low) = nrv
    BY <1>1, <1>2, <1>3, <1>4, NoFloorAssumption DEF Landed
  <1>6. /\ loss \in Nat
        /\ lot.qty_remaining * c = lot.qty_remaining * nrv + loss
        /\ lot.qty_remaining * nrv \in Nat
    <2>1. c - nrv \in Nat /\ c = nrv + (c - nrv)
      BY <1>2
    <2>2. \A q, x, y \in Nat : q * (x + y) = q * x + y * q /\ y * q \in Nat /\ q * x \in Nat
      OBVIOUS
    <2> QED
      BY <1>1, <2>1, <2>2 DEF WriteDownLoss
  <1>7. b2 \in Entry
    BY <1>1, <1>6 DEF Entry, Expensed
  <1>8. /\ b2.sold = b.sold /\ b2.cogs = b.cogs /\ b2.split = b.split
        /\ b2.reprocessed = b.reprocessed /\ b2.carried = b.carried
        /\ b2.loss = b.loss + loss /\ b2.entry = b.entry
    BY <1>1 DEF Entry, Expensed
  <1> HIDE DEF low, b2, loss
  <1>9. RowOK(low, b2)
    BY <1>1, <1>2, <1>3, <1>4, <1>5, <1>6, <1>7, <1>8 DEF RowOK
  <1> QED
    BY <1>9 DEF low, b2, loss

\* Relocating a lot touches no quantity and no cost.
LEMMA RelocatedRow ==
    ASSUME NEW lot, NEW b, RowOK(lot, b), NEW to \in Locations
    PROVE  RowOK(Relocated(lot, to), b)
  <1> DEFINE gone == Relocated(lot, to)
  <1>1. lot \in Lot
    BY DEF RowOK
  <1>2. gone \in Lot /\ Landed(gone) = Landed(lot) /\ gone.qty_remaining = lot.qty_remaining
        /\ gone.qty_original = lot.qty_original
        /\ gone.written_down_to = lot.written_down_to /\ gone.unit_cost = lot.unit_cost
    BY <1>1 DEF Lot, Landed, Relocated
  <1> QED
    BY <1>2 DEF RowOK

\* None of the updates above touches the fields lineage is read from.
SameLineage(lot, other) ==
    /\ other.source = lot.source
    /\ other.source_lot = lot.source_lot
    /\ other.acquired_at = lot.acquired_at
    /\ other.cost_is_estimated = lot.cost_is_estimated

LEMMA UpdatesKeepLineage ==
    ASSUME NEW lot \in Lot, NEW x
    PROVE  /\ SameLineage(lot, Consumed(lot, x))
           /\ SameLineage(lot, WrittenDown(lot, x))
           /\ SameLineage(lot, Relocated(lot, x))
           /\ SameLineage(lot, lot)
  BY DEF Lot, SameLineage, Consumed, WrittenDown, Relocated

LEMMA UntouchedRow ==
    ASSUME NEW lot, NEW b, RowOK(lot, b)
    PROVE  RowOK(Consumed(lot, 0), b)
  <1> DEFINE same == Consumed(lot, 0)
  <1>1. lot \in Lot
    BY DEF RowOK
  <1>2. same \in Lot /\ Landed(same) = Landed(lot) /\ same.qty_remaining = lot.qty_remaining
        /\ same.qty_original = lot.qty_original
        /\ same.written_down_to = lot.written_down_to /\ same.unit_cost = lot.unit_cost
    BY <1>1 DEF Lot, Landed, Consumed
  <1> QED
    BY <1>2 DEF RowOK

-----------------------------------------------------------------------------
(* One unit of work *)

LEMMA Tabulated ==
    ASSUME NEW S, NEW m \in Nat, NEW f \in [1..m -> S]
    PROVE  f \in Seq(S) /\ Len(f) = m /\ DOMAIN f = 1..m
  <1>1. f \in Seq(S)
    BY SeqDef
  <1> QED
    BY <1>1, LenProperties

\* A unit of work never touches the lineage of an existing lot.
LineageKept(l) == SameLineage(lots[l], lots'[l])

\* A lot it creates has no parent, or one that was in the books before.
LineageFrom(l) ==
    /\ lots'[l].source = "opening_balance" => lots'[l].cost_is_estimated
    /\ LET p == lots'[l].source_lot
       IN  p # 0 => /\ p \in 1..Len(lots)
                    /\ lots'[l].acquired_at = lots[p].acquired_at
                    /\ lots[p].cost_is_estimated => lots'[l].cost_is_estimated

LEMMA Extension ==
    ASSUME IInv, NEW k \in Nat,
           lots' = [l \in 1..(Len(lots) + k) |-> lots'[l]],
           book' = [l \in 1..(Len(lots) + k) |-> book'[l]],
           \A l \in 1..(Len(lots) + k) : RowOK(lots'[l], book'[l]),
           \A l \in 1..Len(lots) : LineageKept(l),
           \A l \in (Len(lots) + 1)..(Len(lots) + k) : LineageFrom(l)
    PROVE  IInv'
  <1> DEFINE n == Len(lots)
             m == Len(lots) + k
  <1>1. n \in Nat /\ m \in Nat /\ DOMAIN lots = 1..n
    BY LenProperties DEF IInv, TypeOK
  <1>2. lots' \in [1..m -> Lot] /\ book' \in [1..m -> Entry]
    BY DEF RowOK
  <1>3. TypeOK' /\ DOMAIN lots' = 1..m
    <2> HIDE DEF m
    <2>1. lots' \in Seq(Lot) /\ Len(lots') = m /\ DOMAIN lots' = 1..m
      BY <1>1, <1>2, Tabulated
    <2>2. book' \in Seq(Entry) /\ Len(book') = m
      BY <1>1, <1>2, Tabulated
    <2> QED
      BY <2>1, <2>2 DEF TypeOK
  <1>4. ASSUME NEW l \in 1..m PROVE LineOK(lots', l)
    <2>1. CASE l \in 1..n
      <3>1. LineOK(lots, l) /\ LineageKept(l)
        BY <1>1, <2>1 DEF IInv
      <3>2. lots[l].source_lot \in Nat
        BY <1>1, <2>1 DEF IInv, RowOK, Lot
      <3>3. ASSUME lots[l].source_lot # 0 PROVE LineageKept(lots[l].source_lot)
        BY <3>1, <3>2, <3>3, <1>1, <2>1 DEF LineOK
      <3> QED
        BY <3>1, <3>2, <3>3 DEF LineOK, LineageKept, SameLineage
    <2>2. CASE l \in (n + 1)..m
      <3>1. LineageFrom(l)
        BY <2>2
      <3>2. ASSUME lots'[l].source_lot # 0
            PROVE  lots'[l].source_lot < l /\ LineageKept(lots'[l].source_lot)
        BY <3>1, <3>2, <1>1, <2>2 DEF LineageFrom
      <3> QED
        BY <3>1, <3>2 DEF LineOK, LineageFrom, LineageKept, SameLineage
    <2> QED
      BY <1>1, <2>1, <2>2
  <1> QED
    BY <1>3, <1>4 DEF IInv

\* What every step below starts from.
LEMMA Known ==
    ASSUME IInv
    PROVE  /\ Len(lots) \in Nat /\ Len(book) = Len(lots)
           /\ DOMAIN lots = 1..Len(lots) /\ DOMAIN book = 1..Len(lots)
           /\ \A l \in 1..Len(lots) :
                 /\ lots[l] \in Lot /\ book[l] \in Entry
                 /\ RowOK(lots[l], book[l])
  BY LenProperties DEF IInv, TypeOK, RowOK

\* Units of work that only create lots.
LEMMA EnterBooks ==
    ASSUME IInv, NEW new \in Seq(Lot),
           lots' = Booked(lots, <<>>, new), book' = Posted(book, new),
           \A i \in 1..Len(new) :
              /\ new[i].qty_remaining = new[i].qty_original
              /\ new[i].written_down_to = NoFloor
              /\ new[i].source_lot = 0
              /\ new[i].source # "opening_balance"
    PROVE  IInv'
  <1> DEFINE n == Len(lots)
             k == Len(new)
  <1>1. n \in Nat /\ k \in Nat /\ DOMAIN new = 1..k
    BY Known, LenProperties
  <1>2. ASSUME NEW l \in 1..n
        PROVE  /\ lots'[l] = Consumed(lots[l], 0)
               /\ book'[l] = book[l]
    BY <1>1 DEF Booked, Posted, Taken
  <1>3. ASSUME NEW l \in (n + 1)..(n + k)
        PROVE  /\ l - n \in 1..k
               /\ lots'[l] = new[l - n]
               /\ book'[l] = Opened(new[l - n])
    BY <1>1 DEF Booked, Posted
  <1>4. \A l \in 1..n : RowOK(lots'[l], book'[l]) /\ LineageKept(l)
    <2> SUFFICES ASSUME NEW l \in 1..n
                 PROVE  RowOK(lots'[l], book'[l]) /\ LineageKept(l)
      OBVIOUS
    <2>1. lots[l] \in Lot /\ RowOK(lots[l], book[l])
      BY Known
    <2>2. RowOK(lots'[l], book'[l])
      BY <1>2, <2>1, UntouchedRow
    <2>3. LineageKept(l)
      BY <1>2, <2>1, UpdatesKeepLineage DEF LineageKept
    <2> QED
      BY <2>2, <2>3
  <1>5. \A l \in (n + 1)..(n + k) : RowOK(lots'[l], book'[l]) /\ LineageFrom(l)
    <2> SUFFICES ASSUME NEW l \in (n + 1)..(n + k)
                 PROVE  RowOK(lots'[l], book'[l]) /\ LineageFrom(l)
      OBVIOUS
    <2>1. new[l - n] \in Lot
      BY <1>1, <1>3
    <2> QED
      BY <2>1, <1>3, OpenedRow DEF LineageFrom
  <1>6. /\ lots' = [l \in 1..(n + k) |-> lots'[l]]
        /\ book' = [l \in 1..(n + k) |-> book'[l]]
    BY DEF Booked, Posted
  <1>7. \A l \in 1..(n + k) : l \in 1..n \/ l \in (n + 1)..(n + k)
    BY <1>1
  <1> QED
    BY <1>1, <1>4, <1>5, <1>6, <1>7, Extension

-----------------------------------------------------------------------------
(* Totals over the ledger, and what a Transform hands from lots to children *)

\* What each lot entered with, what it has handed on, and what it still stands for:
\* its carried rest, its sales and its losses.
Entries == [l \in DOMAIN book |-> book[l].entry]
Carried == [l \in DOMAIN book |-> book[l].carried]

\* The lots carved from others, and those whose cost is an estimate.
Born == {l \in DOMAIN lots : lots[l].source_lot # 0}
Estimated == {l \in DOMAIN lots : lots[l].cost_is_estimated}
Value == [l \in DOMAIN lots |-> lots[l].qty_remaining * Landed(lots[l])
                                  + book[l].cogs + book[l].loss]

TotalsOK ==
    /\ IsFiniteSet(DOMAIN lots) /\ DOMAIN book = DOMAIN lots
    /\ IsFiniteSet(Born) /\ Born \subseteq DOMAIN lots
    /\ IsFiniteSet(Estimated) /\ Estimated \subseteq DOMAIN lots
    /\ \A l \in DOMAIN lots :
          /\ Entries[l] = book[l].entry /\ Entries[l] \in Nat
          /\ Carried[l] = book[l].carried /\ Carried[l] \in Nat
          /\ Value[l] \in Nat
          /\ Entries[l] = Value[l] + Carried[l]

\* A lot that satisfies IInv entered with what it stands for and what it handed on.
LEMMA Totals == IInv => TotalsOK
<1> SUFFICES ASSUME IInv PROVE TotalsOK
  OBVIOUS
<1>1. Len(lots) \in Nat /\ DOMAIN lots = 1..Len(lots) /\ DOMAIN book = DOMAIN lots
  BY Known
<1>2. IsFiniteSet(DOMAIN lots)
  <2>1. 1 \in Int /\ Len(lots) \in Int BY <1>1
  <2> QED BY <1>1, <2>1, FS_Interval
<1>3. Born \in SUBSET DOMAIN lots /\ Estimated \in SUBSET DOMAIN lots
  BY DEF Born, Estimated
<1>4. IsFiniteSet(Born) /\ IsFiniteSet(Estimated)
  BY <1>2, <1>3, FS_Subset
<1>5. ASSUME NEW l \in DOMAIN lots
      PROVE  /\ Entries[l] = book[l].entry /\ Entries[l] \in Nat
             /\ Carried[l] = book[l].carried /\ Carried[l] \in Nat
             /\ Value[l] \in Nat
             /\ Entries[l] = Value[l] + Carried[l]
  <2>1. lots[l] \in Lot /\ book[l] \in Entry /\ RowOK(lots[l], book[l])
    BY <1>1, Known
  <2>2. Landed(lots[l]) \in Nat /\ lots[l].qty_remaining \in Nat
    BY <2>1, LandedType DEF Lot
  <2>3. lots[l].qty_remaining * Landed(lots[l]) \in Nat
    BY <2>2
  <2>4. /\ book[l].entry \in Nat /\ book[l].cogs \in Nat /\ book[l].carried \in Nat
        /\ book[l].loss \in Nat
    BY <2>1 DEF Entry
  <2>5. book[l].entry = lots[l].qty_remaining * Landed(lots[l]) + book[l].cogs
                          + book[l].carried + book[l].loss
    BY <2>1 DEF RowOK
  <2>6. /\ Entries[l] = book[l].entry /\ Carried[l] = book[l].carried
        /\ Value[l] = lots[l].qty_remaining * Landed(lots[l]) + book[l].cogs + book[l].loss
    BY <1>1 DEF Entries, Carried, Value
  <2> QED BY <2>3, <2>4, <2>5, <2>6
<1> QED BY <1>1, <1>2, <1>3, <1>4, <1>5 DEF TotalsOK

\* What the units taken hand on, lot by lot, and what Transform must be told.
Handed(take) == [l \in DOMAIN lots |-> Taken(take, l) * Landed(lots[l])]
HandsOn(take, portion, cost, estimated) ==
    /\ \A h \in DOMAIN portion : cost[h] \in Nat
    /\ SumFunctionOnSet(cost, DOMAIN portion) = SumFunctionOnSet(Handed(take), DOMAIN lots)
    /\ SumFunctionOnSet(Handed(take), Estimated)
          <= SumFunctionOnSet(cost, {h \in DOMAIN portion : estimated[h]})

\* Only the lots drawn on hand cost on.
LEMMA HandedDrawn ==
    ASSUME IInv, NEW take, NEW drawn \in SUBSET (DOMAIN lots),
           \A l \in 1..Len(lots) : Taken(take, l) \in 0..lots[l].qty_remaining,
           \A l \in (DOMAIN lots) \ drawn : Taken(take, l) = 0
    PROVE  /\ \A l \in DOMAIN lots : Handed(take)[l] \in Nat
           /\ SumFunctionOnSet(Handed(take), DOMAIN lots) = SumFunctionOnSet(Handed(take), drawn)
           /\ SumFunctionOnSet(Handed(take), Estimated)
                = SumFunctionOnSet(Handed(take), Estimated \cap drawn)
<1>1. TotalsOK BY Totals
<1>2. ASSUME NEW l \in DOMAIN lots
      PROVE  /\ Handed(take)[l] = Taken(take, l) * Landed(lots[l])
             /\ Taken(take, l) \in Nat /\ Landed(lots[l]) \in Nat
             /\ Handed(take)[l] \in Nat
  <2>1. l \in 1..Len(lots) /\ lots[l] \in Lot BY Known
  <2>2. lots[l].qty_remaining \in Nat /\ Landed(lots[l]) \in Nat BY <2>1, LandedType DEF Lot
  <2>3. Taken(take, l) \in Nat BY <2>1, <2>2
  <2>4. Taken(take, l) * Landed(lots[l]) \in Nat BY <2>2, <2>3
  <2>5. Handed(take)[l] = Taken(take, l) * Landed(lots[l]) BY DEF Handed
  <2> QED BY <2>2, <2>3, <2>4, <2>5
<1>3. \A l \in (DOMAIN lots) \ drawn : Handed(take)[l] = 0
  <2> TAKE l \in (DOMAIN lots) \ drawn
  <2>1. Taken(take, l) = 0 OBVIOUS
  <2>2. \A x \in Nat : 0 * x = 0 OBVIOUS
  <2> QED BY <1>2, <2>1, <2>2
<1>4. \A l \in DOMAIN lots : Handed(take)[l] \in Int BY <1>2
<1>5. SumFunctionOnSet(Handed(take), DOMAIN lots) = SumFunctionOnSet(Handed(take), drawn)
  BY <1>1, <1>3, <1>4, SumOnSupport DEF TotalsOK
<1>6. SumFunctionOnSet(Handed(take), Estimated)
        = SumFunctionOnSet(Handed(take), Estimated \cap drawn)
  <2>1. IsFiniteSet(Estimated) /\ Estimated \subseteq DOMAIN lots BY <1>1 DEF TotalsOK
  <2>2. Estimated \cap drawn \in SUBSET Estimated OBVIOUS
  <2>3. \A l \in Estimated : Handed(take)[l] \in Int BY <1>4, <2>1
  <2>4. \A l \in Estimated \ (Estimated \cap drawn) : Handed(take)[l] = 0 BY <1>3, <2>1
  <2> QED BY <2>1, <2>2, <2>3, <2>4, SumOnSupport
<1> QED BY <1>2, <1>5, <1>6

\* Every lot under its own children: each hands on its own cost, its own confidence.
LEMMA HandsOwn ==
    ASSUME IInv, NEW take, NEW portion, NEW cost, NEW estimated,
           \A l \in 1..Len(lots) : Taken(take, l) \in 0..lots[l].qty_remaining,
           DOMAIN portion \subseteq DOMAIN lots,
           \A l \in (DOMAIN lots) \ DOMAIN portion : Taken(take, l) = 0,
           \A l \in DOMAIN portion : /\ cost[l] = Taken(take, l) * Landed(lots[l])
                                      /\ estimated[l] = lots[l].cost_is_estimated
    PROVE  HandsOn(take, portion, cost, estimated)
<1> DEFINE drawn == DOMAIN portion
           est == {h \in drawn : estimated[h]}
<1>1. /\ \A l \in DOMAIN lots : Handed(take)[l] \in Nat
      /\ SumFunctionOnSet(Handed(take), DOMAIN lots) = SumFunctionOnSet(Handed(take), drawn)
      /\ SumFunctionOnSet(Handed(take), Estimated)
           = SumFunctionOnSet(Handed(take), Estimated \cap drawn)
  BY HandedDrawn
<1>2. \A l \in drawn : cost[l] = Handed(take)[l] /\ cost[l] \in Nat
  BY <1>1 DEF Handed
<1>3. Estimated \cap drawn = est BY DEF Estimated
<1>4. IsFiniteSet(drawn) /\ IsFiniteSet(est)
  <2>1. drawn \in SUBSET (DOMAIN lots) /\ est \in SUBSET (DOMAIN lots) OBVIOUS
  <2> HIDE DEF drawn, est
  <2> QED BY <2>1, Totals, FS_Subset DEF TotalsOK
<1>5. SumFunctionOnSet(cost, drawn) = SumFunctionOnSet(Handed(take), drawn)
  <2> HIDE DEF drawn
  <2> QED BY <1>2, <1>4, SumOnSame
<1>6. SumFunctionOnSet(cost, est) = SumFunctionOnSet(Handed(take), est)
  <2>1. \A l \in est : cost[l] = Handed(take)[l] BY <1>2
  <2> HIDE DEF est
  <2> QED BY <1>4, <2>1, SumOnSame
<1>7. SumFunctionOnSet(cost, est) \in Nat
  <2>1. \A l \in est : cost[l] \in Nat BY <1>2
  <2> HIDE DEF est
  <2> QED BY <1>4, <2>1, SumOnNat
<1>8. SumFunctionOnSet(Handed(take), Estimated) <= SumFunctionOnSet(cost, est)
  <2>1. SumFunctionOnSet(Handed(take), Estimated) = SumFunctionOnSet(cost, est)
    <3> HIDE DEF est, drawn
    <3> QED BY <1>1, <1>3, <1>6
  <2> HIDE DEF est
  <2> QED BY <1>7, <2>1
<1>9. SumFunctionOnSet(cost, drawn) = SumFunctionOnSet(Handed(take), DOMAIN lots)
  BY <1>1, <1>5
<1> QED BY <1>2, <1>8, <1>9 DEF HandsOn

\* All the cost under one head: the confidence must cover every lot drawn on.
LEMMA HandsBatch ==
    ASSUME IInv, NEW take, NEW drawn \in SUBSET (DOMAIN lots), NEW h,
           NEW portion, NEW cost, NEW estimated,
           DOMAIN portion = {h}, estimated[h] \in BOOLEAN,
           \A l \in 1..Len(lots) : Taken(take, l) \in 0..lots[l].qty_remaining,
           \A l \in (DOMAIN lots) \ drawn : Taken(take, l) = 0,
           cost[h] = SumFunctionOnSet(Handed(take), drawn),
           (\E l \in drawn : lots[l].cost_is_estimated) => estimated[h]
    PROVE  HandsOn(take, portion, cost, estimated)
<1> DEFINE c == cost[h]
           blended == estimated[h]
           est == {x \in DOMAIN portion : estimated[x]}
<1>1. /\ \A l \in DOMAIN lots : Handed(take)[l] \in Nat
      /\ SumFunctionOnSet(Handed(take), DOMAIN lots) = c
      /\ SumFunctionOnSet(Handed(take), Estimated)
           = SumFunctionOnSet(Handed(take), Estimated \cap drawn)
  BY HandedDrawn
<1>2. IsFiniteSet(DOMAIN lots) /\ IsFiniteSet(Estimated) /\ Estimated \in SUBSET DOMAIN lots
  BY Totals DEF TotalsOK
<1>3. c \in Nat BY <1>1, <1>2, SumOnNat
<1>4. h \in {h} /\ IsFiniteSet({h})
  BY FS_Singleton
<1>5. SumFunctionOnSet(cost, {h}) = c
  <2>1. \A y \in {h} \ {h} : cost[y] = 0 OBVIOUS
  <2> QED BY <1>3, <1>4, <2>1, SumOnOne
<1>6. SumFunctionOnSet(Handed(take), Estimated) <= SumFunctionOnSet(cost, est)
  <2>1. CASE blended
    <3>1. est = {h} BY <2>1
    <3>2. SumFunctionOnSet(Handed(take), Estimated) <= c BY <1>1, <1>2, SumOnPart
    <3> QED BY <1>5, <3>1, <3>2
  <2>2. CASE ~blended
    <3>1. est = {} /\ Estimated \cap drawn = {} BY <2>2 DEF Estimated
    <3> HIDE DEF est
    <3>2. SumFunctionOnSet(cost, est) = 0 BY <3>1, SumOnEmpty
    <3>3. SumFunctionOnSet(Handed(take), Estimated) = 0 BY <1>1, <3>1, SumOnEmpty
    <3> QED BY <3>2, <3>3
  <2> QED BY <2>1, <2>2
<1>7. \A x \in DOMAIN portion : cost[x] \in Nat BY <1>3
<1>8. SumFunctionOnSet(cost, DOMAIN portion) = SumFunctionOnSet(Handed(take), DOMAIN lots)
  BY <1>1, <1>4, <1>5
<1> QED BY <1>6, <1>7, <1>8 DEF HandsOn

-----------------------------------------------------------------------------
(* The actions *)

LEMMA BuybackLotType ==
    ASSUME NEW link \in Link, NEW line \in Line
    PROVE  LET lot == BuybackLot(link, line)
           IN  /\ lot \in Lot
               /\ lot.qty_remaining = lot.qty_original
               /\ lot.written_down_to = NoFloor
               /\ lot.source = "buyback" /\ lot.source_lot = 0
  <1> DEFINE base == NewLot(line.type, line.location, line.qty, line.unit_cost,
                            link.completed_at, "buyback", 0, FALSE)
  <1>0. /\ line.type \in Types /\ line.location \in Locations
        /\ line.qty \in Nat /\ line.unit_cost \in Nat
        /\ link.completed_at \in Nat /\ "buyback" \in Sources
        /\ 0 \in Nat /\ FALSE \in BOOLEAN
    BY DEF Line, Link, Sources
  <1>1. /\ base \in Lot
        /\ base.qty_remaining = base.qty_original
        /\ base.written_down_to = NoFloor
        /\ base.source = "buyback" /\ base.source_lot = 0
    BY <1>0, NoFloorAssumption DEF NewLot, Lot
  <1>2. link.appraisal \in Nat
    BY DEF Link
  <1> QED
    BY <1>1, <1>2 DEF BuybackLot, Lot

LEMMA MaterializeStep ==
    ASSUME IInv, NEW link \in Links, MaterializeBuybackLots(link)
    PROVE  IInv'
  <1> DEFINE new == [i \in 1..Len(link.lines) |-> BuybackLot(link, link.lines[i])]
  <1>1. link \in Link /\ link.lines \in Seq(Line)
    BY InputsAssumption DEF Link
  <1>2. Len(link.lines) \in Nat /\ \A i \in 1..Len(link.lines) : link.lines[i] \in Line
    BY <1>1, LenProperties
  <1>3. new \in [1..Len(link.lines) -> Lot]
    BY <1>1, <1>2, BuybackLotType
  <1>4. new \in Seq(Lot) /\ Len(new) = Len(link.lines)
    BY <1>2, <1>3, Tabulated
  <1>5. \A i \in 1..Len(new) :
           /\ new[i].qty_remaining = new[i].qty_original
           /\ new[i].written_down_to = NoFloor
           /\ new[i].source_lot = 0
           /\ new[i].source # "opening_balance"
    BY <1>1, <1>2, <1>4, BuybackLotType
  <1>6. lots' = Booked(lots, <<>>, new) /\ book' = Posted(book, new)
    BY DEF MaterializeBuybackLots
  <1> HIDE DEF new
  <1> QED
    BY <1>4, <1>5, <1>6, EnterBooks

LEMMA ManualLotStep ==
    ASSUME IInv, NEW e \in ManualEntries, RecordManualLot(e)
    PROVE  IInv'
  <1>1. e \in ManualEntry
    BY InputsAssumption
  <1>0. /\ e.type \in Types /\ e.location \in Locations
        /\ e.qty \in Nat /\ e.unit_cost \in Nat /\ e.acquired_at \in Nat
        /\ e.cost_is_estimated \in BOOLEAN /\ "manual" \in Sources /\ 0 \in Nat
    BY <1>1 DEF ManualEntry, Sources
  <1>2. /\ ManualLot(e) \in Lot
        /\ ManualLot(e).qty_remaining = ManualLot(e).qty_original
        /\ ManualLot(e).written_down_to = NoFloor
        /\ ManualLot(e).source = "manual" /\ ManualLot(e).source_lot = 0
    BY <1>0 DEF NewLot, Lot, ManualLot
  <1>3. /\ <<ManualLot(e)>> \in Seq(Lot)
        /\ \A i \in 1..Len(<<ManualLot(e)>>) : <<ManualLot(e)>>[i] = ManualLot(e)
    BY <1>2
  <1>4. /\ lots' = Booked(lots, <<>>, <<ManualLot(e)>>)
        /\ book' = Posted(book, <<ManualLot(e)>>)
    BY DEF RecordManualLot
  <1>5. \A i \in 1..Len(<<ManualLot(e)>>) :
           LET lot == <<ManualLot(e)>>[i]
           IN  /\ lot.qty_remaining = lot.qty_original
               /\ lot.written_down_to = NoFloor
               /\ lot.source_lot = 0 /\ lot.source # "opening_balance"
    BY <1>2, <1>3
  <1> QED
    BY <1>3, <1>4, <1>5, EnterBooks

LEMMA WriteDownStep ==
    ASSUME IInv, NEW nrv \in Markets, ApplyWriteDowns(nrv)
    PROVE  IInv'
  <1> DEFINE n == Len(lots)
  <1>1. n \in Nat /\ DOMAIN lots = 1..n /\ DOMAIN book = 1..n
    BY Known
  <1>2. \A l \in 1..n : RowOK(lots'[l], book'[l]) /\ LineageKept(l)
    <2> SUFFICES ASSUME NEW l \in 1..n
                 PROVE  RowOK(lots'[l], book'[l]) /\ LineageKept(l)
      OBVIOUS
    <2>1. lots[l] \in Lot /\ RowOK(lots[l], book[l])
      BY Known
    <2>2. CASE l \in DueLots(nrv)
      <3>1. /\ lots'[l] = WrittenDown(lots[l], nrv[lots[l].type])
            /\ book'[l] = Expensed(book[l], lots[l], nrv[lots[l].type])
        BY <1>1, <2>2 DEF ApplyWriteDowns
      <3>2. nrv[lots[l].type] \in Nat /\ WriteDownDue(lots[l], nrv[lots[l].type])
        BY <2>2, InputsAssumption DEF DueLots, PerType
      <3> QED
        BY <2>1, <3>1, <3>2, WrittenDownRow, UpdatesKeepLineage DEF LineageKept
    <2>3. CASE l \notin DueLots(nrv)
      <3>1. lots'[l] = lots[l] /\ book'[l] = book[l]
        BY <1>1, <2>3 DEF ApplyWriteDowns
      <3> QED
        BY <2>1, <3>1, UpdatesKeepLineage DEF LineageKept
    <2> QED
      BY <2>2, <2>3
  <1>3. /\ lots' = [l \in 1..(n + 0) |-> lots'[l]]
        /\ book' = [l \in 1..(n + 0) |-> book'[l]]
    BY <1>1 DEF ApplyWriteDowns
  <1>4. (n + 1)..(n + 0) = {} /\ n + 0 = n
    BY <1>1
  <1> QED
    BY <1>2, <1>3, <1>4, Extension

\* A plan never takes more than a lot holds, and nothing from other lots.
LEMMA PlanBounds ==
    ASSUME IInv, NEW type, NEW location, NEW qty \in Nat,
           NEW plan \in FifoPlans(lots, OpenLots(lots, type, location), qty)
    PROVE  /\ plan.shortfall \in Nat
           /\ DOMAIN plan.take = OpenLots(lots, type, location)
           /\ \A l \in 1..Len(lots) : Taken(plan.take, l) \in 0..lots[l].qty_remaining
  <1> DEFINE open == OpenLots(lots, type, location)
  <1>1. plan \in Plans(open, qty) /\ Fits(lots, plan, qty)
    BY DEF FifoPlans
  <1>2. plan.take \in [open -> 0..qty] /\ plan.shortfall \in 0..qty
    BY <1>1 DEF Plans
  <1>3. \A l \in open : plan.take[l] \in 0..lots[l].qty_remaining
    <2> SUFFICES ASSUME NEW l \in open PROVE plan.take[l] \in 0..lots[l].qty_remaining
      OBVIOUS
    <2>1. l \in 1..Len(lots)
      BY DEF OpenLots
    <2>2. lots[l].qty_remaining \in Nat
      BY <2>1, Known DEF Lot
    <2> QED
      BY <1>1, <1>2, <2>2 DEF Fits
  <1>4. \A l \in 1..Len(lots) : lots[l].qty_remaining \in Nat
    BY Known DEF Lot
  <1> QED
    BY <1>2, <1>3, <1>4 DEF Taken

LEMMA SaleShape ==
    ASSUME IInv, NEW d \in Disposals,
           NEW plan \in FifoPlans(lots, OpenLots(lots, d.type, d.location), d.qty),
           Dispose(d, plan)
    PROVE  \E k \in {0, 1} :
             /\ lots' = [l \in 1..(Len(lots) + k) |-> lots'[l]]
             /\ book' = [l \in 1..(Len(lots) + k) |-> book'[l]]
             /\ \A l \in 1..Len(lots) :
                   /\ lots'[l] = Consumed(lots[l], Taken(plan.take, l))
                   /\ book'[l] = Sold(book[l], lots[l], Taken(plan.take, l))
             /\ k = 1 =>
                  LET l == Len(lots) + 1
                      new == DeemedLot(d, plan.shortfall)
                  IN  /\ plan.shortfall > 0
                      /\ lots'[l] = Consumed(new, plan.shortfall)
                      /\ book'[l] = Sold(Opened(new), new, plan.shortfall)
  <1> DEFINE n == Len(lots)
             new == DeemedLot(d, plan.shortfall)
             deemed == IF plan.shortfall > 0 THEN <<new>> ELSE <<>>
             k == IF plan.shortfall > 0 THEN 1 ELSE 0
             known == lots \o deemed
             take == [l \in 1..Len(known) |->
                        IF l <= n THEN Taken(plan.take, l) ELSE plan.shortfall]
  <1>1. lots \in Seq(Lot) /\ n \in Nat /\ plan.shortfall \in Nat
    <2>1. d.qty \in Nat
      BY InputsAssumption DEF Disposal
    <2> QED
      BY <2>1, PlanBounds, Known DEF IInv, TypeOK
  <1>2. /\ new \in Lot
        /\ plan.shortfall > 0 => new.qty_remaining = plan.shortfall
    <2>1. d \in Disposal
      BY InputsAssumption
    <2> QED
      BY <1>1, <2>1 DEF Disposal, DeemedLot, NewLot, Lot, Sources
  <1>3. /\ Len(known) = n + k
        /\ \A l \in 1..n : known[l] = lots[l]
        /\ k = 1 => known[n + 1] = new
    <2> HIDE DEF new
    <2>1. deemed \in Seq(Lot) /\ Len(deemed) = k /\ (k = 1 => deemed[1] = new)
      BY <1>2
    <2> QED
      BY <1>1, <2>1
  <1>4. /\ lots' = Booked(known, take, <<>>)
        /\ book' = [l \in 1..Len(known) |->
                      Sold(IF l <= n THEN book[l] ELSE Opened(known[l]), known[l], take[l])]
    BY DEF Dispose
  <1> HIDE DEF known, new
  <1>5. /\ lots' = [l \in 1..(n + k) |-> Consumed(known[l], take[l])]
        /\ book' = [l \in 1..(n + k) |->
                      Sold(IF l <= n THEN book[l] ELSE Opened(known[l]), known[l], take[l])]
    <2>1. Len(known) + Len(<<>>) = n + k
      BY <1>1, <1>3
    <2>2. \A l \in 1..(n + k) : l <= Len(known) /\ Taken(take, l) = take[l]
      BY <1>1, <1>3 DEF Taken
    <2> QED
      BY <1>3, <1>4, <2>1, <2>2 DEF Booked
  <1>6. \A l \in 1..n : /\ lots'[l] = Consumed(lots[l], Taken(plan.take, l))
                        /\ book'[l] = Sold(book[l], lots[l], Taken(plan.take, l))
    BY <1>1, <1>3, <1>5
  <1>7. k = 1 => /\ lots'[n + 1] = Consumed(new, plan.shortfall)
                 /\ book'[n + 1] = Sold(Opened(new), new, plan.shortfall)
    BY <1>1, <1>3, <1>5
  <1>8. k \in {0, 1} /\ (k = 1 => plan.shortfall > 0)
    OBVIOUS
  <1>9. /\ lots' = [l \in 1..(n + k) |-> lots'[l]]
        /\ book' = [l \in 1..(n + k) |-> book'[l]]
    BY <1>5
  <1> HIDE DEF k
  <1> QED
    BY <1>6, <1>7, <1>8, <1>9 DEF new

LEMMA SaleStep ==
    ASSUME IInv, NEW d \in Disposals, ConsumeAndRecordSale(d)
    PROVE  IInv'
  <1> DEFINE n == Len(lots)
  <1>1. PICK plan \in FifoPlans(lots, OpenLots(lots, d.type, d.location), d.qty) :
           Dispose(d, plan)
    BY DEF ConsumeAndRecordSale
  <1> DEFINE s == plan.shortfall
             new == DeemedLot(d, s)
  <1>2. PICK k \in {0, 1} :
           /\ lots' = [l \in 1..(n + k) |-> lots'[l]]
           /\ book' = [l \in 1..(n + k) |-> book'[l]]
           /\ \A l \in 1..n : /\ lots'[l] = Consumed(lots[l], Taken(plan.take, l))
                              /\ book'[l] = Sold(book[l], lots[l], Taken(plan.take, l))
           /\ k = 1 => /\ s > 0
                       /\ lots'[n + 1] = Consumed(new, s)
                       /\ book'[n + 1] = Sold(Opened(new), new, s)
    BY <1>1, SaleShape
  <1>3. d \in Disposal /\ d.qty \in Nat
    BY InputsAssumption DEF Disposal
  <1>4. n \in Nat /\ s \in Nat /\ \A l \in 1..n : Taken(plan.take, l) \in 0..lots[l].qty_remaining
    BY <1>1, <1>3, Known, PlanBounds
  <1>5. \A l \in 1..n : RowOK(lots'[l], book'[l]) /\ LineageKept(l)
    BY <1>2, <1>4, Known, DrawnRow, UpdatesKeepLineage DEF LineageKept
  <1>6. k = 1 => RowOK(lots'[n + 1], book'[n + 1]) /\ LineageFrom(n + 1)
    <2>1. /\ new \in Lot /\ new.qty_remaining = s /\ new.qty_original = s
          /\ new.written_down_to = NoFloor
          /\ new.source_lot = 0 /\ new.cost_is_estimated = TRUE
      BY <1>3, <1>4 DEF Disposal, DeemedLot, NewLot, Lot, Sources
    <2> HIDE DEF new
    <2>2. RowOK(new, Opened(new))
      BY <2>1, OpenedRow
    <2>3. k = 1 => RowOK(lots'[n + 1], book'[n + 1])
      BY <1>2, <1>4, <2>1, <2>2, DrawnRow
    <2>4. k = 1 => LineageFrom(n + 1)
      BY <1>2, <2>1, UpdatesKeepLineage DEF LineageFrom, SameLineage
    <2> QED
      BY <2>3, <2>4
  <1>7. \A l \in 1..(n + k) : l \in 1..n \/ (k = 1 /\ l = n + 1)
    BY <1>4
  <1>8. \A l \in (n + 1)..(n + k) : k = 1 /\ l = n + 1
    BY <1>4
  <1> HIDE DEF n, s, new
  <1> QED
    BY <1>2, <1>5, <1>6, <1>7, <1>8, Extension DEF n

\* What the callers of Transform hand it.
Transformable(take, portion, estimated) ==
    /\ \A l \in 1..Len(lots) : Taken(take, l) \in 0..lots[l].qty_remaining
    /\ DOMAIN portion \subseteq 1..Len(lots)
    /\ \A h \in DOMAIN portion :
          /\ \A m \in DOMAIN portion[h] : portion[h][m] \in Nat /\ portion[h][m] > 0
          /\ estimated[h] \in BOOLEAN
          /\ lots[h].cost_is_estimated => estimated[h]

LEMMA ChildrenFinite ==
    ASSUME IInv, NEW portion, DOMAIN portion \subseteq 1..Len(lots)
    PROVE  Cardinality(Children(portion)) \in Nat
  <1>1. IsFiniteSet(1..Len(lots))
    BY Known, FS_Interval
  <1>2. IsFiniteSet(DOMAIN portion) /\ IsFiniteSet(Types)
    BY <1>1, FS_Subset, InputsAssumption
  <1>3. IsFiniteSet((DOMAIN portion) \X Types)
    BY <1>2, FS_Product
  <1>4. Children(portion) \in SUBSET ((DOMAIN portion) \X Types)
    BY DEF Children
  <1> QED
    BY <1>3, <1>4, FS_Subset, FS_CardinalityType

LEMMA TransformShape ==
    ASSUME IInv, NEW take, NEW portion, NEW cost, NEW estimated,
           Transformable(take, portion, estimated),
           Transform(take, portion, cost, estimated)
    PROVE  \E k \in Nat :
             /\ lots' = [l \in 1..(Len(lots) + k) |-> lots'[l]]
             /\ book' = [l \in 1..(Len(lots) + k) |-> book'[l]]
             /\ \A l \in 1..Len(lots) :
                   /\ lots'[l] = Consumed(lots[l], Taken(take, l))
                   /\ book'[l] = Reprocessed(book[l], lots[l], Taken(take, l))
             /\ \A l \in (Len(lots) + 1)..(Len(lots) + k) :
                   /\ book'[l] = Opened(lots'[l])
                   /\ \E h \in DOMAIN portion, m \in Types, q, t \in Nat :
                        q > 0 /\ lots'[l] = Child(h, m, q, t, estimated[h])
  <1> DEFINE n == Len(lots)
             kids == Children(portion)
             k == Cardinality(kids)
  <1>1. PICK total \in Allocations(cost, portion), order \in Orderings(kids) :
           LET child(c) == Child(c[1], c[2], portion[c[1]][c[2]], total[c],
                                 estimated[c[1]])
               new == [i \in 1..k |-> child(order[i])]
           IN  /\ lots' = Booked(lots, take, new)
               /\ book' = Posted([l \in DOMAIN book |->
                                    Reprocessed(book[l], lots[l], Taken(take, l))], new)
    BY DEF Transform
  <1> DEFINE child(c) == Child(c[1], c[2], portion[c[1]][c[2]], total[c], estimated[c[1]])
             new == [i \in 1..k |-> child(order[i])]
  <1>2. n \in Nat /\ DOMAIN book = 1..n
    BY Known
  <1>3. k \in Nat
    BY ChildrenFinite DEF Transformable
  <1>4. order \in [1..k -> kids]
    BY DEF Orderings
  <1>5. total \in [kids -> Nat]
    BY DEF Allocations
  <1>6. ASSUME NEW i \in 1..k
        PROVE  \E h \in DOMAIN portion, m \in Types, q, t \in Nat :
                  q > 0 /\ new[i] = Child(h, m, q, t, estimated[h])
    <2>1. order[i] \in kids
      BY <1>4
    <2>2. /\ order[i][1] \in DOMAIN portion /\ order[i][2] \in Types
          /\ order[i][2] \in DOMAIN portion[order[i][1]]
      BY <2>1 DEF Children
    <2>3. /\ portion[order[i][1]][order[i][2]] \in Nat
          /\ portion[order[i][1]][order[i][2]] > 0
      BY <2>2 DEF Transformable
    <2>4. total[order[i]] \in Nat
      BY <1>5, <2>1
    <2>5. new[i] = child(order[i])
      OBVIOUS
    <2> QED
      BY <2>2, <2>3, <2>4, <2>5
  <1>7. Len(new) = k
    <2>1. new \in [1..k -> {new[i] : i \in 1..k}]
      OBVIOUS
    <2> HIDE DEF new, k
    <2> QED
      BY <1>3, <2>1, Tabulated
  <1>8. /\ lots' = Booked(lots, take, new)
        /\ book' = Posted([l \in DOMAIN book |->
                             Reprocessed(book[l], lots[l], Taken(take, l))], new)
    BY <1>1
  <1> HIDE DEF k, new
  <1>9. /\ lots' = [l \in 1..(n + k) |-> lots'[l]]
        /\ book' = [l \in 1..(n + k) |-> book'[l]]
    BY <1>7, <1>8 DEF Booked, Posted
  <1>10. \A l \in 1..n : /\ lots'[l] = Consumed(lots[l], Taken(take, l))
                         /\ book'[l] = Reprocessed(book[l], lots[l], Taken(take, l))
    BY <1>2, <1>3, <1>7, <1>8 DEF Booked, Posted
  <1>11. \A l \in (n + 1)..(n + k) : /\ l - n \in 1..k
                                     /\ lots'[l] = new[l - n]
                                     /\ book'[l] = Opened(lots'[l])
    BY <1>2, <1>3, <1>7, <1>8 DEF Booked, Posted
  <1>12. \A l \in (n + 1)..(n + k) :
            /\ book'[l] = Opened(lots'[l])
            /\ \E h \in DOMAIN portion, m \in Types, q, t \in Nat :
                  q > 0 /\ lots'[l] = Child(h, m, q, t, estimated[h])
    <2> SUFFICES ASSUME NEW l \in (n + 1)..(n + k)
                 PROVE  /\ book'[l] = Opened(lots'[l])
                        /\ \E h \in DOMAIN portion, m \in Types, q, t \in Nat :
                              q > 0 /\ lots'[l] = Child(h, m, q, t, estimated[h])
      OBVIOUS
    <2>1. /\ l - n \in 1..k /\ lots'[l] = new[l - n] /\ book'[l] = Opened(lots'[l])
      BY <1>11
    <2> QED
      BY <1>6, <2>1
  <1> QED
    BY <1>3, <1>9, <1>10, <1>12

LEMMA ChildRow ==
    ASSUME IInv, NEW h \in 1..Len(lots), NEW m \in Types, NEW q \in Nat, q > 0,
           NEW t \in Nat, NEW estimated \in BOOLEAN
    PROVE  LET lot == Child(h, m, q, t, estimated)
           IN  /\ RowOK(lot, Opened(lot))
               /\ lot.source = "reprocess" /\ lot.source_lot = h
               /\ lot.acquired_at = lots[h].acquired_at
               /\ lot.cost_is_estimated = estimated
  <1> DEFINE lot == Child(h, m, q, t, estimated)
  <1>1. /\ lots[h].location \in Locations /\ lots[h].acquired_at \in Nat
        /\ h \in Nat /\ t \div q \in Nat
    <2>1. t \div q \in Nat
      OBVIOUS
    <2>2. lots[h] \in Lot /\ h \in Nat
      BY Known
    <2> QED
      BY <2>1, <2>2 DEF Lot
  <1>2. /\ lot \in Lot /\ lot.qty_remaining = lot.qty_original
        /\ lot.written_down_to = NoFloor
        /\ lot.source = "reprocess" /\ lot.source_lot = h
        /\ lot.acquired_at = lots[h].acquired_at
        /\ lot.cost_is_estimated = estimated
    BY <1>1 DEF Child, NewLot, Lot, Sources
  <1> QED
    BY <1>2, OpenedRow

LEMMA TransformStep ==
    ASSUME IInv, NEW take, NEW portion, NEW cost, NEW estimated,
           Transformable(take, portion, estimated),
           Transform(take, portion, cost, estimated)
    PROVE  IInv'
  <1> DEFINE n == Len(lots)
  <1>1. PICK k \in Nat :
             /\ lots' = [l \in 1..(n + k) |-> lots'[l]]
             /\ book' = [l \in 1..(n + k) |-> book'[l]]
             /\ \A l \in 1..n :
                   /\ lots'[l] = Consumed(lots[l], Taken(take, l))
                   /\ book'[l] = Reprocessed(book[l], lots[l], Taken(take, l))
             /\ \A l \in (n + 1)..(n + k) :
                   /\ book'[l] = Opened(lots'[l])
                   /\ \E h \in DOMAIN portion, m \in Types, q, t \in Nat :
                        q > 0 /\ lots'[l] = Child(h, m, q, t, estimated[h])
    BY TransformShape
  <1>2. n \in Nat
    BY Known
  <1>3. \A l \in 1..n : RowOK(lots'[l], book'[l]) /\ LineageKept(l)
    <2> SUFFICES ASSUME NEW l \in 1..n
                 PROVE  RowOK(lots'[l], book'[l]) /\ LineageKept(l)
      OBVIOUS
    <2>1. /\ lots[l] \in Lot /\ RowOK(lots[l], book[l])
          /\ Taken(take, l) \in 0..lots[l].qty_remaining
      BY Known DEF Transformable
    <2>2. /\ lots'[l] = Consumed(lots[l], Taken(take, l))
          /\ book'[l] = Reprocessed(book[l], lots[l], Taken(take, l))
      BY <1>1
    <2> QED
      BY <2>1, <2>2, DrawnRow, UpdatesKeepLineage DEF LineageKept
  <1>4. ASSUME NEW l \in (n + 1)..(n + k)
        PROVE  RowOK(lots'[l], book'[l]) /\ LineageFrom(l)
    <2>1. PICK h \in DOMAIN portion, m \in Types, q \in Nat, t \in Nat :
             q > 0 /\ lots'[l] = Child(h, m, q, t, estimated[h])
      BY <1>1
    <2>2. /\ h \in 1..n /\ estimated[h] \in BOOLEAN
          /\ lots[h].cost_is_estimated => estimated[h]
      BY DEF Transformable
    <2>3. /\ RowOK(lots'[l], Opened(lots'[l]))
          /\ lots'[l].source = "reprocess" /\ lots'[l].source_lot = h
          /\ lots'[l].acquired_at = lots[h].acquired_at
          /\ lots'[l].cost_is_estimated = estimated[h]
      BY <2>1, <2>2, ChildRow
    <2> QED
      BY <1>1, <2>2, <2>3 DEF LineageFrom
  <1>5. \A l \in 1..(n + k) : l \in 1..n \/ l \in (n + 1)..(n + k)
    BY <1>2
  <1> QED
    BY <1>1, <1>3, <1>4, <1>5, Extension

LEMMA ReprocessStep ==
    ASSUME IInv, NEW l \in DOMAIN lots, NEW r \in Reprocesses,
           RecordReprocess(l, r.qty, r.outputs)
    PROVE  /\ IInv'
           /\ Transformable([h \in {l} |-> r.qty], [h \in {l} |-> r.outputs],
                            [h \in {l} |-> lots[l].cost_is_estimated])
  <1> DEFINE take == [h \in {l} |-> r.qty]
             portion == [h \in {l} |-> r.outputs]
             estimated == [h \in {l} |-> lots[l].cost_is_estimated]
             cost == [h \in {l} |-> r.qty * Landed(lots[l])]
  <1>1. l \in 1..Len(lots) /\ lots[l].cost_is_estimated \in BOOLEAN
    BY Known DEF Lot
  <1>2. \A k \in 1..Len(lots) : lots[k].qty_remaining \in Nat
    BY Known DEF Lot
  <1>3. r.qty \in 0..lots[l].qty_remaining /\ Transform(take, portion, cost, estimated)
    BY <1>1, <1>2 DEF RecordReprocess
  <1>4. \A m \in DOMAIN r.outputs : r.outputs[m] \in Nat /\ r.outputs[m] > 0
    BY InputsAssumption DEF PerType
  <1>5. \A k \in 1..Len(lots) : Taken(take, k) \in 0..lots[k].qty_remaining
    BY <1>2, <1>3 DEF Taken
  <1>6. Transformable(take, portion, estimated)
    BY <1>1, <1>4, <1>5 DEF Transformable
  <1> QED
    BY <1>3, <1>6, TransformStep

\* Both outcomes of record_observed_reprocess are a Transform of the plan, under
\* every drawn lot or under one of them with the blended confidence, and either hands
\* on what the plan takes.
LEMMA ObservedShape ==
    ASSUME IInv, NEW r \in Reprocesses, RecordObservedReprocess(r)
    PROVE  \E take, portion, cost, estimated :
             /\ Transformable(take, portion, estimated)
             /\ HandsOn(take, portion, cost, estimated)
             /\ Transform(take, portion, cost, estimated)
  <1> DEFINE some(share, drawn) ==
               [l \in drawn |-> [m \in {x \in DOMAIN r.outputs : share[l][x] > 0} |->
                                   share[l][m]]]
  <1>1. PICK plan \in FifoPlans(lots, OpenLots(lots, r.type, r.location), r.qty) :
          LET drawn == Drawn(plan.take)
              cost == [l \in drawn |-> plan.take[l] * Landed(lots[l])]
          IN  \E share \in Apportionments(plan.take, drawn, r.outputs) :
                \/ Transform(plan.take, some(share, drawn), cost,
                             [l \in drawn |-> lots[l].cost_is_estimated])
                \/ \E h \in FirstOf(plan.take, drawn) :
                      Transform(plan.take, [x \in {h} |-> r.outputs],
                                [x \in {h} |-> SumFunction(cost)],
                                [x \in {h} |-> BlendEstimated(drawn)])
    BY DEF RecordObservedReprocess
  <1> DEFINE drawn == Drawn(plan.take)
             cost == [l \in drawn |-> plan.take[l] * Landed(lots[l])]
  <1>2. PICK share \in Apportionments(plan.take, drawn, r.outputs) :
                \/ Transform(plan.take, some(share, drawn), cost,
                             [l \in drawn |-> lots[l].cost_is_estimated])
                \/ \E h \in FirstOf(plan.take, drawn) :
                      Transform(plan.take, [x \in {h} |-> r.outputs],
                                [x \in {h} |-> SumFunction(cost)],
                                [x \in {h} |-> BlendEstimated(drawn)])
    BY <1>1
  <1>3. /\ r.qty \in Nat
        /\ \A m \in DOMAIN r.outputs : r.outputs[m] \in Nat /\ r.outputs[m] > 0
    BY InputsAssumption DEF PerType
  <1>4. \A l \in 1..Len(lots) : Taken(plan.take, l) \in 0..lots[l].qty_remaining
    BY <1>3, PlanBounds
  <1>5. drawn \subseteq 1..Len(lots)
    <2>1. DOMAIN plan.take = OpenLots(lots, r.type, r.location)
      BY <1>3, PlanBounds
    <2> QED
      BY <2>1 DEF Drawn, OpenLots
  <1>6. \A l \in drawn : lots[l].cost_is_estimated \in BOOLEAN
    BY <1>5, Known DEF Lot
  <1>7. /\ drawn \in SUBSET DOMAIN lots
        /\ \A l \in (DOMAIN lots) \ drawn : Taken(plan.take, l) = 0
        /\ \A l \in drawn : Taken(plan.take, l) = plan.take[l]
    <2>1. DOMAIN lots = 1..Len(lots) /\ \A l \in 1..Len(lots) : lots[l].qty_remaining \in Nat
      BY Known DEF Lot
    <2>2. ASSUME NEW l \in (DOMAIN lots) \ drawn PROVE Taken(plan.take, l) = 0
      <3>1. Taken(plan.take, l) \in Nat BY <1>4, <2>1
      <3>2. ~(Taken(plan.take, l) > 0) BY DEF Drawn, Taken
      <3> QED BY <3>1, <3>2
    <2> QED BY <1>5, <2>1, <2>2 DEF Drawn, Taken
  <1>8. CASE Transform(plan.take, some(share, drawn), cost,
                       [l \in drawn |-> lots[l].cost_is_estimated])
    <2> DEFINE portion == some(share, drawn)
               estimated == [l \in drawn |-> lots[l].cost_is_estimated]
    <2>1. share \in [drawn -> [DOMAIN r.outputs -> Nat]]
      BY DEF Apportionments
    <2>2. \A h \in drawn : \A m \in DOMAIN portion[h] :
             portion[h][m] \in Nat /\ portion[h][m] > 0
      BY <2>1
    <2>3. Transformable(plan.take, portion, estimated)
      BY <1>4, <1>5, <1>6, <2>2 DEF Transformable
    <2>4. HandsOn(plan.take, portion, cost, estimated)
      <3>1. /\ DOMAIN portion = drawn
            /\ \A l \in drawn : /\ cost[l] = Taken(plan.take, l) * Landed(lots[l])
                                  /\ estimated[l] = lots[l].cost_is_estimated
        BY <1>7
      <3> HIDE DEF portion, cost, estimated, drawn
      <3> QED BY <1>4, <1>7, <3>1, HandsOwn
    <2> QED
      BY <1>8, <2>3, <2>4
  <1>9. CASE \E h \in FirstOf(plan.take, drawn) :
               Transform(plan.take, [x \in {h} |-> r.outputs],
                         [x \in {h} |-> SumFunction(cost)],
                         [x \in {h} |-> BlendEstimated(drawn)])
    <2>1. PICK h \in FirstOf(plan.take, drawn) :
               Transform(plan.take, [x \in {h} |-> r.outputs],
                         [x \in {h} |-> SumFunction(cost)],
                         [x \in {h} |-> BlendEstimated(drawn)])
      BY <1>9
    <2>2. h \in drawn /\ h \in 1..Len(lots)
      BY <1>5 DEF FirstOf
    <2>3. /\ BlendEstimated(drawn) \in BOOLEAN
          /\ lots[h].cost_is_estimated => BlendEstimated(drawn)
          /\ (\E l \in drawn : lots[l].cost_is_estimated) => BlendEstimated(drawn)
      BY <2>2 DEF BlendEstimated
    <2>4. Transformable(plan.take, [x \in {h} |-> r.outputs],
                        [x \in {h} |-> BlendEstimated(drawn)])
      BY <1>3, <1>4, <2>2, <2>3 DEF Transformable
    <2>5. SumFunction(cost) = SumFunctionOnSet(Handed(plan.take), drawn)
      <3>1. SumFunction(cost) = SumFunctionOnSet(cost, drawn) BY DEF SumFunction
      <3>2. \A l \in drawn : cost[l] = Handed(plan.take)[l] BY <1>7 DEF Handed
      <3>3. IsFiniteSet(drawn) BY <1>7, Totals, FS_Subset DEF TotalsOK
      <3> HIDE DEF cost, drawn
      <3> QED BY <3>1, <3>2, <3>3, SumOnSame
    <2>6. HandsOn(plan.take, [x \in {h} |-> r.outputs], [x \in {h} |-> SumFunction(cost)],
                  [x \in {h} |-> BlendEstimated(drawn)])
      <3> DEFINE portion == [x \in {h} |-> r.outputs]
                 batch == [x \in {h} |-> SumFunction(cost)]
                 blended == [x \in {h} |-> BlendEstimated(drawn)]
      <3>1. /\ DOMAIN portion = {h} /\ batch[h] = SumFunction(cost)
            /\ blended[h] = BlendEstimated(drawn)
        OBVIOUS
      <3> HIDE DEF cost, drawn, portion, batch, blended
      <3>2. HandsOn(plan.take, portion, batch, blended)
        BY <1>4, <1>7, <2>3, <2>5, <3>1, HandsBatch
      <3> QED BY <3>2 DEF portion, batch, blended
    <2> QED
      BY <2>1, <2>4, <2>6
  <1> QED
    BY <1>2, <1>8, <1>9

LEMMA ObservedStep ==
    ASSUME IInv, NEW r \in Reprocesses, RecordObservedReprocess(r)
    PROVE  IInv'
  BY ObservedShape, TransformStep

LEMMA MoveStep ==
    ASSUME IInv, NEW l \in DOMAIN lots, NEW to \in Locations, NEW qty,
           MoveToLocation(l, qty, to)
    PROVE  IInv'
  <1> DEFINE n == Len(lots)
  <1>1. n \in Nat /\ DOMAIN lots = 1..n /\ DOMAIN book = 1..n /\ l \in 1..n
    BY Known
  <1>2. lots[l] \in Lot /\ lots[l].qty_remaining \in Nat /\ RowOK(lots[l], book[l])
    BY <1>1, Known DEF Lot
  <1>3. qty \in 1..lots[l].qty_remaining
    BY DEF MoveToLocation
  <1>4. CASE lots' = [lots EXCEPT ![l] = Relocated(@, to)] /\ UNCHANGED book
    <2>1. \A k \in 1..n : RowOK(lots'[k], book'[k]) /\ LineageKept(k)
      <3> SUFFICES ASSUME NEW k \in 1..n
                   PROVE  RowOK(lots'[k], book'[k]) /\ LineageKept(k)
        OBVIOUS
      <3>1. lots[k] \in Lot /\ RowOK(lots[k], book[k])
        BY Known
      <3>2. /\ lots'[k] = IF k = l THEN Relocated(lots[l], to) ELSE lots[k]
            /\ book'[k] = book[k]
        BY <1>1, <1>4
      <3> QED
        BY <3>1, <3>2, RelocatedRow, UpdatesKeepLineage DEF LineageKept
    <2>2. /\ lots' = [k \in 1..(n + 0) |-> lots'[k]]
          /\ book' = [k \in 1..(n + 0) |-> book'[k]]
      <3>1. n + 0 = n
        BY <1>1
      <3>2. lots \in [1..n -> Lot] /\ book \in [1..n -> Entry]
        BY LenProperties DEF IInv, TypeOK
      <3> HIDE DEF n
      <3> QED
        BY <1>4, <3>1, <3>2
    <2>3. (n + 1)..(n + 0) = {} /\ n + 0 = n
      BY <1>1
    <2> QED
      BY <2>1, <2>2, <2>3, Extension
  <1>5. CASE /\ lots' = Booked(lots, [h \in {l} |-> qty], <<SplitChild(lots, l, qty, to)>>)
             /\ book' = Posted([book EXCEPT ![l] = SplitOff(@, lots[l], qty)],
                               <<SplitChild(lots, l, qty, to)>>)
    <2> DEFINE child == SplitChild(lots, l, qty, to)
    <2>1. /\ child \in Lot /\ child.qty_remaining = child.qty_original
          /\ child.written_down_to # NoFloor => child.written_down_to < child.unit_cost
          /\ child.source = lots[l].source /\ child.source_lot = l
          /\ child.acquired_at = lots[l].acquired_at
          /\ child.cost_is_estimated = lots[l].cost_is_estimated
      <3>1. qty \in Nat /\ l \in Nat /\ 0 \in Nat
        BY <1>1, <1>2, <1>3
      <3>2. child \in Lot
        BY <1>2, <3>1, Zenon DEF SplitChild, Lot
      <3>3. /\ child.qty_remaining = qty /\ child.qty_original = qty
            /\ child.written_down_to = lots[l].written_down_to
            /\ child.unit_cost = lots[l].unit_cost
            /\ child.source = lots[l].source /\ child.source_lot = l
            /\ child.acquired_at = lots[l].acquired_at
            /\ child.cost_is_estimated = lots[l].cost_is_estimated
        BY <1>2 DEF SplitChild, Lot
      <3> QED
        BY <1>2, <3>2, <3>3 DEF RowOK
    <2> HIDE DEF child
    <2>2. <<child>> \in Seq(Lot) /\ Len(<<child>>) = 1 /\ <<child>>[1] = child
      BY <2>1
    <2>3. \A k \in 1..n : /\ lots'[k] = Consumed(lots[k], IF k = l THEN qty ELSE 0)
                          /\ book'[k] = IF k = l THEN SplitOff(book[l], lots[l], qty)
                                                 ELSE book[k]
      BY <1>1, <1>5, <2>2 DEF Booked, Posted, Taken, child
    <2>4. lots'[n + 1] = child /\ book'[n + 1] = Opened(child)
      BY <1>1, <1>5, <2>2 DEF Booked, Posted, child
    <2>5. \A k \in 1..n : RowOK(lots'[k], book'[k]) /\ LineageKept(k)
      <3> SUFFICES ASSUME NEW k \in 1..n
                   PROVE  RowOK(lots'[k], book'[k]) /\ LineageKept(k)
        OBVIOUS
      <3>1. lots[k] \in Lot /\ RowOK(lots[k], book[k])
        BY Known
      <3>2. qty \in 0..lots[l].qty_remaining
        BY <1>2, <1>3
      <3> QED
        BY <2>3, <3>1, <3>2, DrawnRow, UntouchedRow, UpdatesKeepLineage DEF LineageKept
    <2>6. RowOK(lots'[n + 1], book'[n + 1]) /\ LineageFrom(n + 1)
      <3>1. RowOK(child, Opened(child))
        BY <2>1, OpenedRow
      <3>2. lots[l].source = "opening_balance" => lots[l].cost_is_estimated
        BY <1>1 DEF IInv, LineOK
      <3> QED
        BY <1>1, <2>1, <2>4, <3>1, <3>2 DEF LineageFrom
    <2>7. /\ lots' = [k \in 1..(n + 1) |-> lots'[k]]
          /\ book' = [k \in 1..(n + 1) |-> book'[k]]
      BY <1>5, <2>2 DEF Booked, Posted, child
    <2>8. /\ \A k \in 1..(n + 1) : k \in 1..n \/ k = n + 1
          /\ \A k \in (n + 1)..(n + 1) : k = n + 1
      BY <1>1
    <2> QED
      BY <2>5, <2>6, <2>7, <2>8, Extension
  <1>6. \/ lots' = [lots EXCEPT ![l] = Relocated(@, to)] /\ UNCHANGED book
        \/ /\ lots' = Booked(lots, [h \in {l} |-> qty], <<SplitChild(lots, l, qty, to)>>)
           /\ book' = Posted([book EXCEPT ![l] = SplitOff(@, lots[l], qty)],
                             <<SplitChild(lots, l, qty, to)>>)
    BY DEF MoveToLocation
  <1> QED
    BY <1>4, <1>5, <1>6

-----------------------------------------------------------------------------
(* The theorems *)

LEMMA InitStep == Init => IInv
  <1> SUFFICES ASSUME Init PROVE IInv
    OBVIOUS
  <1>1. /\ lots \in Seq(Lot) /\ book \in Seq(Entry) /\ Len(book) = Len(lots)
        /\ DOMAIN lots = {}
    BY DEF Init
  <1> QED
    BY <1>1 DEF IInv, TypeOK

LEMMA NextStep == IInv /\ [Next]_vars => IInv'
  <1> SUFFICES ASSUME IInv, [Next]_vars PROVE IInv'
    OBVIOUS
  <1>1. CASE \E link \in Links : MaterializeBuybackLots(link)
    BY <1>1, MaterializeStep
  <1>2. CASE \E e \in ManualEntries : RecordManualLot(e)
    BY <1>2, ManualLotStep
  <1>3. CASE \E d \in Disposals : ConsumeAndRecordSale(d)
    BY <1>3, SaleStep
  <1>4. CASE \E nrv \in Markets : ApplyWriteDowns(nrv)
    BY <1>4, WriteDownStep
  <1>5. CASE \E l \in DOMAIN lots, r \in Reprocesses : RecordReprocess(l, r.qty, r.outputs)
    BY <1>5, ReprocessStep
  <1>6. CASE \E r \in Reprocesses : RecordObservedReprocess(r)
    BY <1>6, ObservedStep
  <1>7. CASE \E l \in DOMAIN lots, to \in Locations :
                \E qty \in 1..lots[l].qty_remaining : MoveToLocation(l, qty, to)
    BY <1>7, MoveStep
  <1>8. CASE UNCHANGED vars
    <2>1. UNCHANGED lots /\ UNCHANGED book
      BY <1>8 DEF vars
    <2> QED
      BY <2>1 DEF IInv, TypeOK, LineOK
  <1> QED
    BY <1>1, <1>2, <1>3, <1>4, <1>5, <1>6, <1>7, <1>8 DEF Next

\* IInv is inductive: whatever the contracts, sales, markets, reprocesses and
\* moves, every lot and the rows that reference it stay consistent.
THEOREM Inductive == Spec => []IInv
  BY InitStep, NextStep, PTL DEF Spec

\* Every operation of the ledger leaves well-formed rows.
THEOREM TypeCorrect == Spec => []TypeOK
  <1>1. IInv => TypeOK
    BY DEF IInv
  <1> QED
    BY <1>1, Inductive, PTL

\* create_lot, consume and move_to_location never lose a unit or use one twice.
THEOREM UnitsAreConserved == Spec => []UnitsConserved
  <1>1. IInv => UnitsConserved
    BY DEF IInv, RowOK, UnitsConserved
  <1> QED
    BY <1>1, Inductive, PTL

\* The frozen COGS, the cost handed to children and the expensed losses account
\* for every grain of the cost a lot entered with.
THEOREM CostIsConserved == Spec => []CostConserved
  <1>1. IInv => CostConserved
    BY DEF IInv, RowOK, CostConserved
  <1> QED
    BY <1>1, Inductive, PTL

\* A write-down floor is below the cost it floors, through splits and sweeps.
THEOREM FloorsAlwaysBind == Spec => []FloorsBind
  <1>1. IInv => FloorsBind
    BY DEF IInv, RowOK, FloorsBind
  <1> QED
    BY <1>1, Inductive, PTL

\* Children keep the age and at least the doubt of what they were carved from.
THEOREM LineageIsHonest == Spec => []LineageHonest
  <1>1. IInv => LineageHonest
    BY DEF IInv, LineOK, LineageHonest
  <1> QED
    BY <1>1, Inductive, PTL

-----------------------------------------------------------------------------
(* The action properties: only a disposal sells or deems, and it follows its *)
(* plan.                                                                      *)

SellsNothing ==
    /\ \A l \in DOMAIN lots : book'[l].sold = book[l].sold
    /\ \A l \in (DOMAIN lots') \ DOMAIN lots :
          lots'[l].source = "opening_balance" => lots'[l].source_lot # 0

LEMMA EnteringSellsNothing ==
    ASSUME IInv, NEW new \in Seq(Lot),
           lots' = Booked(lots, <<>>, new), book' = Posted(book, new),
           \A i \in 1..Len(new) : new[i].source # "opening_balance"
    PROVE  SellsNothing
  <1> DEFINE n == Len(lots)
             k == Len(new)
  <1>1. n \in Nat /\ k \in Nat /\ DOMAIN lots = 1..n
    BY Known, LenProperties
  <1>2. DOMAIN lots' = 1..(n + k) /\ \A l \in 1..n : book'[l] = book[l]
    BY <1>1 DEF Booked, Posted
  <1>3. \A l \in (n + 1)..(n + k) : l - n \in 1..k /\ lots'[l] = new[l - n]
    BY <1>1 DEF Booked
  <1>4. \A l \in (1..(n + k)) \ (1..n) : l \in (n + 1)..(n + k)
    BY <1>1
  <1> QED
    BY <1>1, <1>2, <1>3, <1>4 DEF SellsNothing

LEMMA TransformSellsNothing ==
    ASSUME IInv, NEW take, NEW portion, NEW cost, NEW estimated,
           Transformable(take, portion, estimated),
           Transform(take, portion, cost, estimated)
    PROVE  SellsNothing
  <1> DEFINE n == Len(lots)
  <1>1. PICK k \in Nat :
             /\ lots' = [l \in 1..(n + k) |-> lots'[l]]
             /\ \A l \in 1..n : book'[l] = Reprocessed(book[l], lots[l], Taken(take, l))
             /\ \A l \in (n + 1)..(n + k) :
                   \E h \in DOMAIN portion, m \in Types, q, t \in Nat :
                      q > 0 /\ lots'[l] = Child(h, m, q, t, estimated[h])
    BY TransformShape
  <1>2. n \in Nat /\ DOMAIN lots = 1..n
    BY Known
  <1>3. ASSUME NEW l \in 1..n PROVE book'[l].sold = book[l].sold
    <2>1. book[l] \in Entry
      BY Known
    <2>2. \A x : Reprocessed(book[l], lots[l], x).sold = book[l].sold
      BY <2>1 DEF Reprocessed, Entry
    <2> QED
      BY <1>1, <2>2
  <1>4. ASSUME NEW l \in (n + 1)..(n + k) PROVE lots'[l].source # "opening_balance"
    <2>1. PICK h \in DOMAIN portion, m \in Types, q \in Nat, t \in Nat :
             q > 0 /\ lots'[l] = Child(h, m, q, t, estimated[h])
      BY <1>1
    <2>2. h \in 1..n /\ estimated[h] \in BOOLEAN
      BY DEF Transformable
    <2>3. lots'[l].source = "reprocess"
      BY <2>1, <2>2, ChildRow
    <2> QED
      BY <2>3
  <1>5. DOMAIN lots' = 1..(n + k)
    BY <1>1
  <1>6. \A l \in (1..(n + k)) \ (1..n) : l \in (n + 1)..(n + k)
    BY <1>2
  <1> QED
    BY <1>2, <1>3, <1>4, <1>5, <1>6 DEF SellsNothing

LEMMA OtherStepsSellNothing ==
    ASSUME IInv, Next, ~\E d \in Disposals : ConsumeAndRecordSale(d)
    PROVE  SellsNothing
  <1>1. CASE \E link \in Links : MaterializeBuybackLots(link)
    <2>1. PICK link \in Links : MaterializeBuybackLots(link)
      BY <1>1
    <2> DEFINE new == [i \in 1..Len(link.lines) |-> BuybackLot(link, link.lines[i])]
    <2>2. link \in Link /\ Len(link.lines) \in Nat
          /\ \A i \in 1..Len(link.lines) : link.lines[i] \in Line
      BY InputsAssumption, LenProperties DEF Link
    <2>3. new \in [1..Len(link.lines) -> Lot]
      BY <2>2, BuybackLotType
    <2>4. new \in Seq(Lot) /\ Len(new) = Len(link.lines)
      BY <2>2, <2>3, Tabulated
    <2>5. \A i \in 1..Len(new) : new[i].source = "buyback"
      BY <2>2, <2>4, BuybackLotType
    <2>6. lots' = Booked(lots, <<>>, new) /\ book' = Posted(book, new)
      BY <2>1 DEF MaterializeBuybackLots
    <2> HIDE DEF new
    <2> QED
      BY <2>4, <2>5, <2>6, EnteringSellsNothing
  <1>2. CASE \E e \in ManualEntries : RecordManualLot(e)
    <2>1. PICK e \in ManualEntries : RecordManualLot(e)
      BY <1>2
    <2>2. ManualLot(e) \in Lot /\ ManualLot(e).source = "manual"
      BY InputsAssumption DEF ManualEntry, ManualLot, NewLot, Lot, Sources
    <2>3. /\ <<ManualLot(e)>> \in Seq(Lot)
          /\ \A i \in 1..Len(<<ManualLot(e)>>) : <<ManualLot(e)>>[i] = ManualLot(e)
      BY <2>2
    <2>4. /\ lots' = Booked(lots, <<>>, <<ManualLot(e)>>)
          /\ book' = Posted(book, <<ManualLot(e)>>)
      BY <2>1 DEF RecordManualLot
    <2>5. \A i \in 1..Len(<<ManualLot(e)>>) :
             <<ManualLot(e)>>[i].source # "opening_balance"
      BY <2>2, <2>3
    <2> QED
      BY <2>3, <2>4, <2>5, EnteringSellsNothing
  <1>3. CASE \E nrv \in Markets : ApplyWriteDowns(nrv)
    <2>1. PICK nrv \in Markets : ApplyWriteDowns(nrv)
      BY <1>3
    <2>2. DOMAIN lots' = DOMAIN lots
      BY <2>1 DEF ApplyWriteDowns
    <2>3. ASSUME NEW l \in DOMAIN lots PROVE book'[l].sold = book[l].sold
      <3>1. book[l] \in Entry /\ l \in DOMAIN book
        BY Known
      <3>2. \A x : Expensed(book[l], lots[l], x).sold = book[l].sold
        BY <3>1 DEF Expensed, Entry
      <3> QED
        BY <2>1, <3>1, <3>2 DEF ApplyWriteDowns
    <2> QED
      BY <2>2, <2>3 DEF SellsNothing
  <1>4. CASE \E l \in DOMAIN lots, r \in Reprocesses : RecordReprocess(l, r.qty, r.outputs)
    <2>1. PICK l \in DOMAIN lots, r \in Reprocesses : RecordReprocess(l, r.qty, r.outputs)
      BY <1>4
    <2>2. Transformable([h \in {l} |-> r.qty], [h \in {l} |-> r.outputs],
                        [h \in {l} |-> lots[l].cost_is_estimated])
      BY <2>1, ReprocessStep
    <2>3. Transform([h \in {l} |-> r.qty], [h \in {l} |-> r.outputs],
                    [h \in {l} |-> r.qty * Landed(lots[l])],
                    [h \in {l} |-> lots[l].cost_is_estimated])
      BY <2>1 DEF RecordReprocess
    <2> QED
      BY <2>2, <2>3, TransformSellsNothing
  <1>5. CASE \E r \in Reprocesses : RecordObservedReprocess(r)
    BY <1>5, ObservedShape, TransformSellsNothing
  <1>6. CASE \E l \in DOMAIN lots, to \in Locations :
                \E qty \in 1..lots[l].qty_remaining : MoveToLocation(l, qty, to)
    <2>1. PICK l \in DOMAIN lots, to \in Locations : \E qty : MoveToLocation(l, qty, to)
      BY <1>6
    <2>0. PICK qty : MoveToLocation(l, qty, to)
      BY <2>1
    <2> DEFINE n == Len(lots)
    <2>2. n \in Nat /\ DOMAIN lots = 1..n /\ DOMAIN book = 1..n /\ lots[l] \in Lot
      BY Known
    <2>3. CASE lots' = [lots EXCEPT ![l] = Relocated(@, to)] /\ UNCHANGED book
      BY <2>2, <2>3 DEF SellsNothing
    <2>4. CASE /\ lots' = Booked(lots, [h \in {l} |-> qty], <<SplitChild(lots, l, qty, to)>>)
               /\ book' = Posted([book EXCEPT ![l] = SplitOff(@, lots[l], qty)],
                                 <<SplitChild(lots, l, qty, to)>>)
      <3> DEFINE child == SplitChild(lots, l, qty, to)
      <3>1. child.source_lot = l
        BY <2>2 DEF SplitChild, Lot
      <3>2. SplitOff(book[l], lots[l], qty).sold = book[l].sold
        BY <2>2, Known DEF SplitOff, Entry
      <3> HIDE DEF child
      <3>3. Len(<<child>>) = 1 /\ <<child>>[1] = child
        OBVIOUS
      <3>4. \A k \in 1..n : book'[k].sold = book[k].sold
        BY <2>2, <2>4, <3>2, <3>3 DEF Posted, child
      <3>5. DOMAIN lots' = 1..(n + 1) /\ lots'[n + 1] = child
        BY <2>2, <2>4, <3>3 DEF Booked, child
      <3>6. \A k \in (1..(n + 1)) \ (1..n) : k = n + 1
        BY <2>2
      <3> QED
        BY <2>2, <3>1, <3>4, <3>5, <3>6 DEF SellsNothing
    <2> QED
      BY <2>0, <2>3, <2>4 DEF MoveToLocation
  <1> QED
    BY <1>1, <1>2, <1>3, <1>4, <1>5, <1>6 DEF Next

LEMMA FifoStep ==
    ASSUME IInv, [Next]_vars, NEW k \in DOMAIN lots, NEW l \in DOMAIN lots,
           book'[l].sold > book[l].sold,
           lots[k].type = lots[l].type, lots[k].location = lots[l].location,
           lots[k].acquired_at < lots[l].acquired_at
    PROVE  lots'[k].qty_remaining = 0
  <1> DEFINE n == Len(lots)
  <1>0. /\ DOMAIN lots = 1..n
        /\ lots[k] \in Lot /\ lots[l] \in Lot /\ book[l] \in Entry
    BY Known
  <1>1. book[l].sold \in Nat
    BY <1>0 DEF Entry
  <1>2. ~UNCHANGED vars
    BY <1>1 DEF vars
  <1>3. ~SellsNothing
    BY <1>1 DEF SellsNothing
  <1>4. PICK d \in Disposals : ConsumeAndRecordSale(d)
    BY <1>2, <1>3, OtherStepsSellNothing
  <1>5. PICK plan \in FifoPlans(lots, OpenLots(lots, d.type, d.location), d.qty) :
           Dispose(d, plan)
    BY <1>4 DEF ConsumeAndRecordSale
  <1> DEFINE open == OpenLots(lots, d.type, d.location)
  <1>6. \A x \in 1..n : /\ lots'[x] = Consumed(lots[x], Taken(plan.take, x))
                        /\ book'[x] = Sold(book[x], lots[x], Taken(plan.take, x))
    BY <1>5, SaleShape
  <1>7. d.qty \in Nat
    BY InputsAssumption DEF Disposal
  <1>8. /\ DOMAIN plan.take = open
        /\ \A x \in 1..n : Taken(plan.take, x) \in 0..lots[x].qty_remaining
    BY <1>5, <1>7, PlanBounds
  <1>9. Taken(plan.take, l) > 0
    <2>1. book'[l].sold = book[l].sold + Taken(plan.take, l)
      BY <1>0, <1>6 DEF Sold, Entry
    <2>2. lots[l].qty_remaining \in Nat
      BY <1>0 DEF Lot
    <2> QED
      BY <1>0, <1>1, <1>8, <2>1, <2>2
  <1>10. l \in open /\ plan.take[l] > 0
    BY <1>8, <1>9 DEF Taken
  <1>11. lots[k].qty_remaining \in Nat
    BY <1>0 DEF Lot
  <1>12. Taken(plan.take, k) = lots[k].qty_remaining
    <2>1. CASE k \in open
      <3>1. OldestFirst(lots, plan)
        BY <1>5 DEF FifoPlans
      <3> QED
        BY <1>8, <1>10, <2>1, <3>1 DEF OldestFirst, Taken
    <2>2. CASE k \notin open
      <3>1. lots[k].qty_remaining = 0
        BY <1>0, <1>10, <1>11, <2>2 DEF OpenLots
      <3> QED
        BY <1>8, <2>2, <3>1 DEF Taken
    <2> QED
      BY <2>1, <2>2
  <1>13. lots'[k].qty_remaining = lots[k].qty_remaining - Taken(plan.take, k)
    BY <1>0, <1>6 DEF Consumed, Lot
  <1> QED
    BY <1>11, <1>12, <1>13

LEMMA DeemedStep ==
    ASSUME IInv, [Next]_vars, NEW l \in (DOMAIN lots') \ DOMAIN lots,
           lots'[l].source = "opening_balance", lots'[l].source_lot = 0
    PROVE  OpenLots(lots', lots'[l].type, lots'[l].location) = {}
  <1> DEFINE n == Len(lots)
  <1>0. n \in Nat /\ DOMAIN lots = 1..n
    BY Known
  <1>1. ~UNCHANGED vars /\ ~SellsNothing
    BY DEF vars, SellsNothing
  <1>2. PICK d \in Disposals : ConsumeAndRecordSale(d)
    BY <1>1, OtherStepsSellNothing
  <1>3. PICK plan \in FifoPlans(lots, OpenLots(lots, d.type, d.location), d.qty) :
           Dispose(d, plan)
    BY <1>2 DEF ConsumeAndRecordSale
  <1> DEFINE open == OpenLots(lots, d.type, d.location)
             new == DeemedLot(d, plan.shortfall)
  <1>4. PICK k \in {0, 1} :
           /\ lots' = [x \in 1..(n + k) |-> lots'[x]]
           /\ \A x \in 1..n : lots'[x] = Consumed(lots[x], Taken(plan.take, x))
           /\ k = 1 => plan.shortfall > 0 /\ lots'[n + 1] = Consumed(new, plan.shortfall)
    BY <1>3, SaleShape
  <1>5. DOMAIN lots' = 1..(n + k)
    BY <1>4
  <1>6. k = 1 /\ l = n + 1
    BY <1>0, <1>5
  <1>7. d \in Disposal /\ d.qty \in Nat
    BY InputsAssumption DEF Disposal
  <1>8. /\ plan.shortfall \in Nat /\ DOMAIN plan.take = open
    BY <1>3, <1>7, PlanBounds
  <1>9. /\ lots'[l].type = d.type /\ lots'[l].location = d.location
        /\ lots'[l].qty_remaining = 0
    <2>1. /\ new \in Lot /\ new.type = d.type /\ new.location = d.location
          /\ new.qty_remaining = plan.shortfall
      BY <1>7, <1>8 DEF Disposal, DeemedLot, NewLot, Lot, Sources
    <2> HIDE DEF new
    <2> QED
      BY <1>4, <1>6, <1>8, <2>1 DEF Consumed, Lot
  <1>10. \A x \in 1..n : /\ lots'[x].type = lots[x].type
                         /\ lots'[x].location = lots[x].location
                         /\ lots[x].qty_remaining \in Nat
                         /\ lots'[x].qty_remaining
                              = lots[x].qty_remaining - Taken(plan.take, x)
    <2> SUFFICES ASSUME NEW x \in 1..n
                 PROVE  /\ lots'[x].type = lots[x].type
                        /\ lots'[x].location = lots[x].location
                        /\ lots[x].qty_remaining \in Nat
                        /\ lots'[x].qty_remaining
                             = lots[x].qty_remaining - Taken(plan.take, x)
      OBVIOUS
    <2>1. lots[x] \in Lot
      BY Known
    <2> QED
      BY <1>4, <2>1 DEF Consumed, Lot
  <1>11. \A x \in open : plan.take[x] = lots[x].qty_remaining
    <2>1. Exhausts(lots, plan)
      BY <1>3 DEF FifoPlans
    <2> QED
      BY <1>4, <1>6, <1>8, <2>1 DEF Exhausts
  <1>12. ASSUME NEW x \in 1..(n + 1), lots'[x].type = d.type, lots'[x].location = d.location,
                lots'[x].qty_remaining > 0
         PROVE  FALSE
    <2>1. x \in 1..n
      BY <1>0, <1>6, <1>9, <1>12
    <2>2. CASE x \in open
      BY <1>8, <1>10, <1>11, <1>12, <2>1, <2>2 DEF Taken
    <2>3. CASE x \notin open
      <3>1. lots[x].qty_remaining = 0
        BY <1>10, <1>12, <2>1, <2>3 DEF OpenLots
      <3> QED
        BY <1>8, <1>10, <1>12, <2>1, <2>3, <3>1 DEF Taken
    <2> QED
      BY <2>2, <2>3
  <1>13. Len(lots') = n + 1
    <2>1. Len(lots') \in Nat /\ DOMAIN lots' = 1..Len(lots')
      <3>1. IInv'
        BY NextStep
      <3>2. lots' \in Seq(Lot)
        BY <3>1 DEF IInv, TypeOK
      <3> QED
        BY <3>2, LenProperties
    <2> QED
      BY <1>0, <1>5, <1>6, <2>1
  <1> QED
    BY <1>9, <1>12, <1>13 DEF OpenLots

\* A sale never reaches a lot while an older one of its slot has units left.
THEOREM FifoIsRespected == Spec => FifoRespected
  <1>1. IInv /\ [Next]_vars =>
          [\A k, l \in DOMAIN lots :
             /\ book'[l].sold > book[l].sold
             /\ lots[k].type = lots[l].type /\ lots[k].location = lots[l].location
             /\ lots[k].acquired_at < lots[l].acquired_at
             => lots'[k].qty_remaining = 0]_vars
    BY FifoStep
  <1> QED
    BY <1>1, Inductive, PTL DEF Spec, FifoRespected

\* Whatever the books did before, stock is deemed only into an emptied slot.
THEOREM DeemedIsLastResort == Spec => DeemedOnlyWhenDry
  <1>1. IInv /\ [Next]_vars =>
          [\A l \in (DOMAIN lots') \ DOMAIN lots :
             lots'[l].source = "opening_balance" /\ lots'[l].source_lot = 0
                 => OpenLots(lots', lots'[l].type, lots'[l].location) = {}]_vars
    BY DeemedStep
  <1> QED
    BY <1>1, Inductive, PTL DEF Spec, DeemedOnlyWhenDry

\* The rows of the ledger are sound for any types, prices, links, entries and number of
\* lots: the five parts follow from the same invariant.
THEOREM LotsStaySound == Spec => []LotsSound
  <1>1. TypeOK /\ UnitsConserved /\ CostConserved /\ FloorsBind /\ LineageHonest
           => LotsSound
    BY DEF LotsSound
  <1> QED
    BY <1>1, TypeCorrect, UnitsAreConserved, CostIsConserved, FloorsAlwaysBind,
       LineageIsHonest, PTL

\* A sale never passes over an older lot, nor deems a cost for what a lot could cover.
THEOREM SalesAreInOrder == Spec => SoldInOrder
  BY FifoIsRespected, DeemedIsLastResort DEF SoldInOrder

-----------------------------------------------------------------------------
(* Capital: what one lot hands on another enters with, so the totals keep. *)

\* The invariant behind CapitalConserved: what was handed on is what the lots carved
\* from others entered with.
Balanced == SumFunctionOnSet(Carried, DOMAIN lots) = SumFunctionOnSet(Entries, Born)

\* A unit of work hands on g of old lots: they keep their lineage and what they
\* entered with, the lots carved by it enter with g in all, and those of them that
\* are estimates with at least what it takes off estimates.
Moved(g) ==
    LET old == DOMAIN lots
        new == (DOMAIN lots') \ old
    IN  /\ g \in [old -> Nat]
        /\ \A l \in old : /\ l \in DOMAIN lots'
                          /\ LineageKept(l)
                          /\ book'[l].entry = book[l].entry
                          /\ book'[l].carried = book[l].carried + g[l]
        /\ \A l \in new : book'[l].carried = 0
        /\ SumFunctionOnSet(Entries', Born' \ old) = SumFunctionOnSet(g, old)
        /\ SumFunctionOnSet(g, Estimated) <= SumFunctionOnSet(Entries', Estimated' \ old)

LEMMA TotalsAfter == IInv' => TotalsOK'
BY Totals, PTL

\* What Moved is for: both totals follow.
LEMMA BalancedStep ==
    ASSUME IInv, IInv', Balanced, NEW g, Moved(g)
    PROVE  Balanced'
<1> DEFINE old == DOMAIN lots
           new == (DOMAIN lots') \ old
           both == [l \in old |-> Carried[l] + g[l]]
<1>1. TotalsOK /\ TotalsOK' BY Totals, TotalsAfter
<1>2. /\ old \subseteq DOMAIN lots' /\ DOMAIN lots' = old \cup new /\ old \cap new = {}
      /\ IsFiniteSet(old) /\ IsFiniteSet(new)
      /\ \A l \in old : g[l] \in Nat
  BY <1>1, FS_Subset DEF Moved, TotalsOK
<1>3. SumFunctionOnSet(Carried', old) = SumFunctionOnSet(Carried, old) + SumFunctionOnSet(g, old)
  <2>1. \A l \in old : Carried[l] \in Int /\ g[l] \in Int /\ Carried'[l] = Carried[l] + g[l]
    BY <1>1, <1>2 DEF Moved, TotalsOK
  <2> HIDE DEF old
  <2> QED BY <1>2, <2>1, SumOnPlus
<1>4. SumFunctionOnSet(Carried', new) = 0
  <2>1. \A l \in new : Carried'[l] = 0
    BY <1>1 DEF Moved, TotalsOK
  <2> HIDE DEF new
  <2> QED BY <1>2, <2>1, SumOnZero
<1>5. SumFunctionOnSet(Carried', DOMAIN lots') = SumFunctionOnSet(Carried', old) + SumFunctionOnSet(Carried', new)
  <2>1. \A l \in old \cup new : Carried'[l] \in Int
    BY <1>1, <1>2 DEF TotalsOK
  <2>2. SumFunctionOnSet(Carried', old \cup new) = SumFunctionOnSet(Carried', old) + SumFunctionOnSet(Carried', new)
    <3> HIDE DEF old, new
    <3> QED BY <1>2, <2>1, SumOnUnion
  <2> QED BY <1>2, <2>2
<1>6. SumFunctionOnSet(Entries', Born) = SumFunctionOnSet(Entries, Born)
  <2>1. \A l \in Born : Entries'[l] = Entries[l]
    BY <1>1 DEF Moved, TotalsOK
  <2> QED BY <1>1, <2>1, SumOnSame DEF TotalsOK
<1>7. SumFunctionOnSet(Entries', Born')
        = SumFunctionOnSet(Entries', Born) + SumFunctionOnSet(Entries', Born' \ old)
  <2>1. /\ Born' = Born \cup (Born' \ old) /\ Born \cap (Born' \ old) = {}
    <3>1. \A l \in old : l \in Born <=> l \in Born'
      BY <1>2 DEF Moved, Born, LineageKept, SameLineage
    <3> QED BY <1>1, <3>1 DEF TotalsOK
  <2>2. IsFiniteSet(Born) /\ IsFiniteSet(Born' \ old)
    <3>1. IsFiniteSet(Born') BY <1>1 DEF TotalsOK
    <3> QED BY <1>1, <3>1, FS_Difference DEF TotalsOK
  <2>3. \A l \in Born' : Entries'[l] \in Int
    BY <1>1 DEF TotalsOK
  <2> HIDE DEF old
  <2>4. SumFunctionOnSet(Entries', Born \cup (Born' \ old))
          = SumFunctionOnSet(Entries', Born) + SumFunctionOnSet(Entries', Born' \ old)
    BY <2>1, <2>2, <2>3, SumOnUnion
  <2> QED BY <2>1, <2>4
<1>8. SumFunctionOnSet(Entries', Born' \ old) = SumFunctionOnSet(g, old)
  BY DEF Moved
<1>9. /\ SumFunctionOnSet(g, old) \in Nat /\ SumFunctionOnSet(Carried, old) \in Nat
  <2>1. \A l \in old : Carried[l] \in Nat BY <1>1 DEF TotalsOK
  <2> HIDE DEF old
  <2> QED BY <1>2, <2>1, SumOnNat
<1>10. SumFunctionOnSet(Carried, old) = SumFunctionOnSet(Entries, Born)
  BY DEF Balanced
<1>11. SumFunctionOnSet(Carried', DOMAIN lots') = SumFunctionOnSet(Entries', Born')
  <2> HIDE DEF old, new
  <2> QED BY <1>3, <1>4, <1>5, <1>6, <1>7, <1>8, <1>9, <1>10
<1> QED BY <1>11 DEF Balanced

\* Estimated capital does not shrink: the estimates carved enter with what was taken.
LEMMA EstimatedStep ==
    ASSUME IInv, IInv', NEW g, Moved(g)
    PROVE  SumFunctionOnSet(Value', Estimated') >= SumFunctionOnSet(Value, Estimated)
<1> DEFINE old == DOMAIN lots
           more == Estimated' \ old
<1>1. TotalsOK /\ TotalsOK' BY Totals, TotalsAfter
<1>2. /\ IsFiniteSet(Estimated) /\ IsFiniteSet(more) /\ Estimated \cap more = {}
      /\ Estimated' = Estimated \cup more /\ Estimated \subseteq old
  <2>1. IsFiniteSet(Estimated') BY <1>1 DEF TotalsOK
  <2>2. IsFiniteSet(Estimated' \ old) BY <2>1, FS_Difference
  <2>3. \A l \in old : l \in Estimated <=> l \in Estimated'
    BY DEF Moved, Estimated, LineageKept, SameLineage
  <2> QED BY <1>1, <2>2, <2>3 DEF TotalsOK
<1>3. \A l \in Estimated : /\ Value'[l] \in Int /\ g[l] \in Int
                            /\ Value[l] = Value'[l] + g[l]
  <2> SUFFICES ASSUME NEW l \in Estimated
               PROVE  /\ Value'[l] \in Int /\ g[l] \in Int
                      /\ Value[l] = Value'[l] + g[l]
    OBVIOUS
  <2>1. /\ l \in DOMAIN lots' /\ g[l] \in Nat
        /\ book'[l].entry = book[l].entry /\ book'[l].carried = book[l].carried + g[l]
    BY <1>2 DEF Moved
  <2>2. /\ Value[l] \in Nat /\ book[l].entry = Value[l] + book[l].carried
        /\ book[l].carried \in Nat
    BY <1>1, <1>2 DEF TotalsOK
  <2>3. Value'[l] \in Nat /\ book'[l].entry = Value'[l] + book'[l].carried
    BY <1>1, <2>1 DEF TotalsOK
  <2> QED BY <2>1, <2>2, <2>3
<1>4. SumFunctionOnSet(Value, Estimated) = SumFunctionOnSet(Value', Estimated) + SumFunctionOnSet(g, Estimated)
  BY <1>2, <1>3, SumOnPlus
<1>5. \A l \in more : Value'[l] = Entries'[l]
  BY <1>1, <1>2 DEF Moved, TotalsOK
<1>6. SumFunctionOnSet(Value', more) = SumFunctionOnSet(Entries', more)
  <2> HIDE DEF more
  <2> QED BY <1>2, <1>5, SumOnSame
<1>7. \A l \in Estimated \cup more : Value'[l] \in Nat
  BY <1>1, <1>2 DEF TotalsOK
<1>8. SumFunctionOnSet(Value', Estimated')
        = SumFunctionOnSet(Value', Estimated) + SumFunctionOnSet(Value', more)
  <2>1. SumFunctionOnSet(Value', Estimated \cup more)
        = SumFunctionOnSet(Value', Estimated) + SumFunctionOnSet(Value', more)
    <3>1. \A l \in Estimated \cup more : Value'[l] \in Int BY <1>7
    <3> HIDE DEF more
    <3> QED BY <1>2, <3>1, SumOnUnion
  <2> QED BY <1>2, <2>1
<1>9. /\ SumFunctionOnSet(Value', Estimated) \in Nat /\ SumFunctionOnSet(Value', more) \in Nat
      /\ SumFunctionOnSet(g, Estimated) \in Int
  <2>1. (\A l \in Estimated : Value'[l] \in Nat) /\ (\A l \in more : Value'[l] \in Nat)
    BY <1>7
  <2>2. \A l \in Estimated : g[l] \in Int BY <1>3
  <2> HIDE DEF more
  <2> QED BY <1>2, <2>1, <2>2, SumOnNat, SumOnInt
<1>10. SumFunctionOnSet(g, Estimated) <= SumFunctionOnSet(Entries', more)
  BY DEF Moved
<1> HIDE DEF more
<1> QED BY <1>4, <1>6, <1>8, <1>9, <1>10

\* Steps that hand no cost on.
LEMMA NothingMoved ==
    ASSUME IInv, IInv',
           \A l \in DOMAIN lots : /\ l \in DOMAIN lots'
                                  /\ LineageKept(l)
                                  /\ book'[l].entry = book[l].entry
                                  /\ book'[l].carried = book[l].carried,
           \A l \in (DOMAIN lots') \ DOMAIN lots :
              lots'[l].source_lot = 0 /\ book'[l].carried = 0
    PROVE  \E g : Moved(g)
<1> DEFINE old == DOMAIN lots
           g == [l \in old |-> 0]
<1>1. TotalsOK /\ TotalsOK' BY Totals, TotalsAfter
<1>2. \A l \in old : g[l] = 0 /\ book[l].carried \in Nat
  BY <1>1 DEF TotalsOK
<1>3. SumFunctionOnSet(g, old) = 0 /\ SumFunctionOnSet(g, Estimated) = 0
  <2>1. Estimated \subseteq old /\ IsFiniteSet(old) /\ IsFiniteSet(Estimated)
    BY <1>1 DEF TotalsOK
  <2>2. \A l \in Estimated : g[l] = 0 BY <1>2, <2>1
  <2> HIDE DEF g, old
  <2> QED BY <1>2, <2>1, <2>2, SumOnZero
<1>4. SumFunctionOnSet(Entries', Born' \ old) = 0
  <2>1. Born' \ old = {} BY DEF Born
  <2> HIDE DEF old
  <2> QED BY <2>1, SumOnEmpty
<1>5. SumFunctionOnSet(Entries', Estimated' \ old) \in Nat
  <2>1. IsFiniteSet(Estimated' \ old) BY <1>1, FS_Difference DEF TotalsOK
  <2>2. \A l \in Estimated' \ old : Entries'[l] \in Nat BY <1>1 DEF TotalsOK
  <2> HIDE DEF old
  <2> QED BY <2>1, <2>2, SumOnNat
<1>6. g \in [old -> Nat] OBVIOUS
<1>7. \A l \in old : book'[l].carried = book[l].carried + g[l]
  <2> TAKE l \in old
  <2>1. g[l] = 0 /\ book[l].carried \in Nat BY <1>2
  <2>2. book'[l].carried = book[l].carried OBVIOUS
  <2> HIDE DEF g
  <2> QED BY <2>1, <2>2
<1>8. Moved(g)
  <2> HIDE DEF g
  <2> QED BY <1>3, <1>4, <1>5, <1>6, <1>7 DEF Moved
<1> QED BY <1>8

\* Lots that enter from outside: buybacks and manual entries.
LEMMA EnterMoves ==
    ASSUME IInv, IInv', NEW new \in Seq(Lot),
           lots' = Booked(lots, <<>>, new), book' = Posted(book, new),
           \A i \in 1..Len(new) : new[i].source_lot = 0
    PROVE  \E g : Moved(g)
<1> DEFINE n == Len(lots)
           k == Len(new)
<1>1. n \in Nat /\ k \in Nat /\ DOMAIN lots = 1..n
  BY Known, LenProperties
<1>2. DOMAIN lots' = 1..(n + k) BY DEF Booked
<1>3. \A l \in 1..n : lots'[l] = Consumed(lots[l], 0) /\ book'[l] = book[l]
  BY <1>1 DEF Booked, Posted, Taken
<1>4. ASSUME NEW l \in (1..(n + k)) \ (1..n)
      PROVE  lots'[l].source_lot = 0 /\ book'[l].carried = 0
  <2>1. l - n \in 1..k /\ lots'[l] = new[l - n] /\ book'[l] = Opened(new[l - n])
    BY <1>1 DEF Booked, Posted
  <2> QED BY <2>1 DEF Opened
<1>5. \A l \in 1..n : LineageKept(l) BY <1>3, Known, UpdatesKeepLineage DEF LineageKept
<1>6. \A l \in 1..n : l \in 1..(n + k) BY <1>1
<1> QED BY <1>1, <1>2, <1>3, <1>4, <1>5, <1>6, NothingMoved

\* A sale turns carried cost into COGS; a deemed lot has no parent.
LEMMA SaleMoves ==
    ASSUME IInv, IInv', NEW d \in Disposals, ConsumeAndRecordSale(d)
    PROVE  \E g : Moved(g)
<1> DEFINE n == Len(lots)
<1>1. PICK plan \in FifoPlans(lots, OpenLots(lots, d.type, d.location), d.qty) :
         Dispose(d, plan)
  BY DEF ConsumeAndRecordSale
<1> DEFINE new == DeemedLot(d, plan.shortfall)
<1>2. PICK k \in {0, 1} :
         /\ lots' = [l \in 1..(n + k) |-> lots'[l]]
         /\ \A l \in 1..n : /\ lots'[l] = Consumed(lots[l], Taken(plan.take, l))
                            /\ book'[l] = Sold(book[l], lots[l], Taken(plan.take, l))
         /\ k = 1 => /\ lots'[n + 1] = Consumed(new, plan.shortfall)
                     /\ book'[n + 1] = Sold(Opened(new), new, plan.shortfall)
  BY <1>1, SaleShape
<1>3. n \in Nat /\ DOMAIN lots = 1..n BY Known
<1>4. DOMAIN lots' = 1..(n + k) BY <1>2
<1>5. ASSUME NEW l \in 1..n
      PROVE  /\ l \in 1..(n + k) /\ LineageKept(l)
             /\ book'[l].entry = book[l].entry /\ book'[l].carried = book[l].carried
  <2>1. lots[l] \in Lot /\ book[l] \in Entry BY Known
  <2>2. \A x : /\ Sold(book[l], lots[l], x).entry = book[l].entry
               /\ Sold(book[l], lots[l], x).carried = book[l].carried
    BY <2>1 DEF Sold, Entry
  <2>3. LineageKept(l) BY <1>2, <2>1, UpdatesKeepLineage DEF LineageKept
  <2> QED BY <1>2, <1>3, <2>2, <2>3
<1>6. ASSUME NEW l \in (1..(n + k)) \ (1..n)
      PROVE  lots'[l].source_lot = 0 /\ book'[l].carried = 0
  <2>1. k = 1 /\ l = n + 1 BY <1>3
  <2>2. new.source_lot = 0 /\ Consumed(new, plan.shortfall).source_lot = new.source_lot
    BY DEF DeemedLot, NewLot, Consumed
  <2>3. Sold(Opened(new), new, plan.shortfall).carried = 0
    BY DEF Sold, Opened
  <2> QED BY <1>2, <2>1, <2>2, <2>3
<1> QED BY <1>3, <1>4, <1>5, <1>6, NothingMoved

\* A sweep turns carried cost into losses.
LEMMA WriteDownMoves ==
    ASSUME IInv, IInv', NEW nrv \in Markets, ApplyWriteDowns(nrv)
    PROVE  \E g : Moved(g)
<1>1. DOMAIN lots' = DOMAIN lots /\ DOMAIN lots = 1..Len(lots) /\ DOMAIN book = 1..Len(lots)
  BY Known DEF ApplyWriteDowns
<1>2. ASSUME NEW l \in DOMAIN lots
      PROVE  /\ LineageKept(l)
             /\ book'[l].entry = book[l].entry /\ book'[l].carried = book[l].carried
  <2>1. lots[l] \in Lot /\ book[l] \in Entry BY Known
  <2>2. \/ lots'[l] = WrittenDown(lots[l], nrv[lots[l].type])
        \/ lots'[l] = lots[l]
    BY <1>1 DEF ApplyWriteDowns
  <2>3. \/ book'[l] = Expensed(book[l], lots[l], nrv[lots[l].type])
        \/ book'[l] = book[l]
    BY <1>1 DEF ApplyWriteDowns
  <2>4. \A x : /\ Expensed(book[l], lots[l], x).entry = book[l].entry
               /\ Expensed(book[l], lots[l], x).carried = book[l].carried
    BY <2>1 DEF Expensed, Entry
  <2>5. LineageKept(l) BY <2>1, <2>2, UpdatesKeepLineage DEF LineageKept
  <2> QED BY <2>3, <2>4, <2>5
<1> QED BY <1>1, <1>2, NothingMoved

\* However the new rows are ordered, every child gets one.
LEMMA OrderingsAreOnto ==
    ASSUME NEW S, IsFiniteSet(S), NEW order \in Orderings(S)
    PROVE  /\ order \in [1..Cardinality(S) -> S]
           /\ \A c \in S : \E i \in 1..Cardinality(S) : order[i] = c
<1> DEFINE k == Cardinality(S)
<1>1. k \in Nat BY FS_CardinalityType
<1>2. order \in [1..k -> S] /\ \A i, j \in 1..k : order[i] = order[j] => i = j
  BY DEF Orderings
<1>3. order \in Injection(1..k, S)
  <2> HIDE DEF k
  <2> QED BY <1>2 DEF Injection, IsInjective
<1>4. Cardinality(1..k) = k
  <2>1. 1 \in Int /\ k \in Int BY <1>1
  <2>2. Cardinality(1..k) = IF 1 > k THEN 0 ELSE k - 1 + 1 BY <2>1, FS_Interval
  <2> HIDE DEF k
  <2> QED BY <1>1, <2>2
<1>5. order \in Surjection(1..k, S) BY <1>3, <1>4, FS_Injection
<1> QED BY <1>2, <1>5 DEF Surjection

\* A child enters with the cost its allocation gives it, under its head.
LEMMA ChildEntry ==
    ASSUME NEW h, NEW m, NEW q \in Nat, q > 0, NEW t \in Nat, t = (t \div q) * q, NEW est
    PROVE  LET lot == Child(h, m, q, t, est)
           IN  /\ lot.source_lot = h /\ lot.cost_is_estimated = est
               /\ Opened(lot).entry = t /\ Opened(lot).carried = 0
<1> DEFINE lot == Child(h, m, q, t, est)
<1>1. /\ lot.source_lot = h /\ lot.cost_is_estimated = est
      /\ lot.qty_original = q /\ lot.unit_cost = t \div q /\ lot.written_down_to = NoFloor
  BY DEF Child, NewLot
<1>2. t \div q \in Nat OBVIOUS
<1>3. Landed(lot) = t \div q BY <1>1 DEF Landed
<1>4. q * (t \div q) = t
  <2>1. \A x \in Nat : q * x = x * q OBVIOUS
  <2> QED BY <1>2, <2>1
<1> HIDE DEF lot
<1>5. Opened(lot).entry = t /\ Opened(lot).carried = 0
  BY <1>1, <1>3, <1>4 DEF Opened
<1> QED BY <1>1, <1>5 DEF lot

\* The children of a reprocess enter with what their heads hand on: the rows renamed
\* to children, the children grouped by head, each group adding up to its cost.
LEMMA TransformMoves ==
    ASSUME IInv, IInv', NEW take, NEW portion, NEW cost, NEW estimated,
           Transformable(take, portion, estimated),
           HandsOn(take, portion, cost, estimated),
           Transform(take, portion, cost, estimated)
    PROVE  \E g : Moved(g)
<1> DEFINE n == Len(lots)
           old == 1..n
           kids == Children(portion)
           k == Cardinality(kids)
           fresh == (n + 1)..(n + k)
<1>1. PICK total \in Allocations(cost, portion), order \in Orderings(kids) :
         LET child(c) == Child(c[1], c[2], portion[c[1]][c[2]], total[c],
                               estimated[c[1]])
             new == [i \in 1..k |-> child(order[i])]
         IN  /\ lots' = Booked(lots, take, new)
             /\ book' = Posted([l \in DOMAIN book |->
                                  Reprocessed(book[l], lots[l], Taken(take, l))], new)
  BY DEF Transform
<1> DEFINE child(c) == Child(c[1], c[2], portion[c[1]][c[2]], total[c], estimated[c[1]])
           new == [i \in 1..k |-> child(order[i])]
           drawn == [l \in DOMAIN book |-> Reprocessed(book[l], lots[l], Taken(take, l))]
<1>2. lots' = Booked(lots, take, new) /\ book' = Posted(drawn, new)
  BY <1>1
<1>3. /\ n \in Nat /\ DOMAIN lots = old /\ DOMAIN book = old
      /\ k \in Nat /\ IsFiniteSet(old)
  <2>1. k \in Nat BY ChildrenFinite DEF Transformable
  <2>2. n \in Nat /\ DOMAIN lots = old /\ DOMAIN book = old BY Known
  <2>3. 1 \in Int /\ n \in Int BY <2>2
  <2> QED BY <2>1, <2>2, <2>3, FS_Interval
<1>4. IsFiniteSet(kids) /\ IsFiniteSet(DOMAIN portion)
  <2>1. DOMAIN portion \in SUBSET old BY DEF Transformable
  <2>2. IsFiniteSet(DOMAIN portion) BY <1>3, <2>1, FS_Subset
  <2>3. IsFiniteSet((DOMAIN portion) \X Types) BY <2>2, InputsAssumption, FS_Product
  <2>4. kids \in SUBSET ((DOMAIN portion) \X Types) BY DEF Children
  <2> QED BY <2>2, <2>3, <2>4, FS_Subset
<1>5. Len(new) = k
  <2>1. new \in [1..k -> {new[i] : i \in 1..k}] OBVIOUS
  <2> HIDE DEF new, k
  <2> QED BY <1>3, <2>1, Tabulated
<1>6. /\ order \in [1..k -> kids]
      /\ \A c \in kids : \E i \in 1..k : order[i] = c
      /\ \A i, j \in 1..k : order[i] = order[j] => i = j
  <2>1. order \in [1..k -> kids] /\ \A c \in kids : \E i \in 1..k : order[i] = c
    BY <1>4, OrderingsAreOnto
  <2>2. \A i, j \in 1..k : order[i] = order[j] => i = j BY DEF Orderings
  <2> QED BY <2>1, <2>2
<1>7. /\ total \in [kids -> Nat]
      /\ \A h \in DOMAIN portion : SumFunctionOnSet(total, {c \in kids : c[1] = h}) = cost[h]
      /\ \A c \in kids : total[c] = (total[c] \div portion[c[1]][c[2]]) * portion[c[1]][c[2]]
  <2>1. total \in [kids -> 0..SumFunction(cost)] BY DEF Allocations
  <2>2. total \in [kids -> Nat] BY <2>1
  <2> QED BY <2>2, Zenon DEF Allocations
<1>8. \A c \in kids : /\ c[1] \in DOMAIN portion /\ c[2] \in DOMAIN portion[c[1]]
                      /\ c[1] \in old /\ c[1] # 0
  BY <1>3 DEF Children, Transformable
<1>9. ASSUME NEW l \in fresh
      PROVE  /\ l - n \in 1..k /\ order[l - n] \in kids
             /\ lots'[l].source_lot = order[l - n][1]
             /\ lots'[l].cost_is_estimated = estimated[order[l - n][1]]
             /\ book'[l].entry = total[order[l - n]]
             /\ book'[l].carried = 0
  <2>1. l - n \in 1..k BY <1>3
  <2> DEFINE c == order[l - n]
             q == portion[c[1]][c[2]]
  <2>2. c \in kids BY <1>6, <2>1
  <2>3. q \in Nat /\ q > 0 BY <1>8, <2>2 DEF Transformable
  <2>4. total[c] \in Nat /\ total[c] = (total[c] \div q) * q BY <1>7, <2>2
  <2>5. lots'[l] = new[l - n] /\ book'[l] = Opened(new[l - n])
    <3> HIDE DEF new
    <3> QED BY <1>2, <1>3, <1>5, <2>1 DEF Booked, Posted
  <2>6. new[l - n] = Child(c[1], c[2], q, total[c], estimated[c[1]]) BY <2>1
  <2> HIDE DEF c, q, new
  <2>7. /\ new[l - n].source_lot = c[1] /\ new[l - n].cost_is_estimated = estimated[c[1]]
        /\ Opened(new[l - n]).entry = total[c] /\ Opened(new[l - n]).carried = 0
    BY <2>3, <2>4, <2>6, ChildEntry
  <2> QED BY <2>1, <2>2, <2>5, <2>7 DEF c
<1>10. DOMAIN lots' = 1..(n + k) /\ DOMAIN book' = 1..(n + k) /\ DOMAIN lots' \ old = fresh
  <2>1. DOMAIN lots' = 1..(n + k) /\ DOMAIN book' = 1..(n + k)
    <3> HIDE DEF new
    <3> QED BY <1>2, <1>5 DEF Booked, Posted
  <2>2. (1..(n + k)) \ (1..n) = (n + 1)..(n + k) BY <1>3
  <2> QED BY <2>1, <2>2
<1>11. \A l \in fresh : Entries'[l] = total[order[l - n]]
  <2>1. \A l \in fresh : l \in 1..(n + k) BY <1>3
  <2> QED BY <1>9, <1>10, <2>1 DEF Entries
<1>12. ASSUME NEW P \in SUBSET DOMAIN portion
       PROVE  SumFunctionOnSet(Entries', {l \in fresh : order[l - n][1] \in P})
                = SumFunctionOnSet(cost, P)
  <2> DEFINE F == {l \in fresh : order[l - n][1] \in P}
             K == {c \in kids : c[1] \in P}
             b == [l \in F |-> order[l - n]]
             head == [c \in K |-> c[1]]
             under == [h \in P |-> {c \in K : head[c] = h}]
  <2>1. IsFiniteSet(F) /\ IsFiniteSet(K) /\ IsFiniteSet(P)
    <3>1. n + 1 \in Int /\ n + k \in Int BY <1>3
    <3>2. IsFiniteSet(fresh) BY <3>1, FS_Interval
    <3>3. F \in SUBSET fresh /\ K \in SUBSET kids OBVIOUS
    <3> QED BY <1>4, <3>2, <3>3, FS_Subset
  <2>2. b \in [F -> K] BY <1>9
  <2>3. \A x, y \in F : b[x] = b[y] => x = y
    <3> SUFFICES ASSUME NEW x \in F, NEW y \in F, b[x] = b[y] PROVE x = y
      OBVIOUS
    <3>1. x - n \in 1..k /\ y - n \in 1..k /\ order[x - n] = order[y - n] BY <1>9
    <3>2. x - n = y - n BY <1>6, <3>1
    <3> QED BY <1>3, <3>2
  <2>4. \A c \in K : \E x \in F : b[x] = c
    <3> SUFFICES ASSUME NEW c \in K PROVE \E x \in F : b[x] = c
      OBVIOUS
    <3>1. PICK i \in 1..k : order[i] = c BY <1>6
    <3>2. n + i \in fresh /\ (n + i) - n = i BY <1>3
    <3>3. n + i \in F BY <3>1, <3>2
    <3> QED BY <3>1, <3>2, <3>3
  <2>5. \A c \in K : total[c] \in Int BY <1>7
  <2>6. \A x \in F : Entries'[x] = total[b[x]] BY <1>11
  <2>7. SumFunctionOnSet(Entries', F) = SumFunctionOnSet(total, K)
    <3> HIDE DEF F, K, b
    <3> QED BY <2>1, <2>2, <2>3, <2>4, <2>5, <2>6, SumOnImage
  <2>8. \A h \in P : cost[h] = SumFunctionOnSet(total, under[h])
    <3> TAKE h \in P
    <3>1. under[h] = {c \in kids : c[1] = h} OBVIOUS
    <3> HIDE DEF under
    <3> QED BY <1>7, <3>1
  <2>9. \A c \in K : head[c] \in P OBVIOUS
  <2>10. SumFunctionOnSet(cost, P) = SumFunctionOnSet(total, K)
    <3>1. IsFiniteSet(K) /\ IsFiniteSet(P) BY <2>1
    <3>2. \A h \in P : under[h] = {c \in K : head[c] = h} OBVIOUS
    <3> HIDE DEF K, head, under
    <3> QED BY <3>1, <3>2, <2>5, <2>8, <2>9, SumOnParts
  <2> QED BY <2>7, <2>10
<1>13. Born' \ old = {l \in fresh : order[l - n][1] \in DOMAIN portion}
  BY <1>8, <1>9, <1>10 DEF Born
<1>14. Estimated' \ old = {l \in fresh : order[l - n][1] \in {h \in DOMAIN portion : estimated[h]}}
  BY <1>8, <1>9, <1>10 DEF Estimated
<1>15. ASSUME NEW l \in old
       PROVE  /\ l \in 1..(n + k) /\ LineageKept(l)
              /\ book'[l].entry = book[l].entry
              /\ book'[l].carried = book[l].carried + Handed(take)[l]
              /\ Handed(take)[l] \in Nat
  <2>1. lots[l] \in Lot /\ book[l] \in Entry /\ Taken(take, l) \in 0..lots[l].qty_remaining
    BY Known DEF Transformable
  <2>2. lots[l].qty_remaining \in Nat /\ Landed(lots[l]) \in Nat
    BY <2>1, LandedType DEF Lot
  <2>3. /\ lots'[l] = Consumed(lots[l], Taken(take, l))
        /\ book'[l] = Reprocessed(book[l], lots[l], Taken(take, l))
    <3> HIDE DEF new
    <3> QED BY <1>2, <1>3, <1>5 DEF Booked, Posted
  <2>4. LineageKept(l) BY <2>1, <2>3, UpdatesKeepLineage DEF LineageKept
  <2>5. Handed(take)[l] = Taken(take, l) * Landed(lots[l]) BY <1>3 DEF Handed
  <2>6. Taken(take, l) * Landed(lots[l]) \in Nat
    BY <2>1, <2>2, Distribute
  <2>7. /\ book'[l].entry = book[l].entry
        /\ book'[l].carried = book[l].carried + Taken(take, l) * Landed(lots[l])
    BY <2>1, <2>3 DEF Reprocessed, Entry
  <2> QED BY <1>3, <2>4, <2>5, <2>6, <2>7
<1>16. Moved(Handed(take))
  <2> DEFINE est == {h \in DOMAIN portion : estimated[h]}
  <2>1. SumFunctionOnSet(Entries', Born' \ old) = SumFunctionOnSet(Handed(take), old)
    BY <1>3, <1>12, <1>13 DEF HandsOn
  <2>2. SumFunctionOnSet(Handed(take), Estimated) <= SumFunctionOnSet(Entries', Estimated' \ old)
    <3>1. est \in SUBSET DOMAIN portion OBVIOUS
    <3>2. Estimated' \ old = {l \in fresh : order[l - n][1] \in est} BY <1>14
    <3>3. SumFunctionOnSet(Entries', Estimated' \ old) = SumFunctionOnSet(cost, est)
      <4> HIDE DEF est, fresh, old
      <4> QED BY <1>12, <3>1, <3>2
    <3> QED BY <3>3 DEF HandsOn
  <2>3. Handed(take) \in [old -> Nat]
    <3>1. Handed(take) = [l \in old |-> Handed(take)[l]] BY <1>3 DEF Handed
    <3> QED BY <1>15, <3>1
  <2> HIDE DEF est, fresh
  <2> QED BY <1>3, <1>9, <1>10, <1>15, <2>1, <2>2, <2>3 DEF Moved
<1> QED BY <1>16

\* A manager's reprocess hands on the cost of the units it names.
LEMMA ReprocessMoves ==
    ASSUME IInv, IInv', NEW l \in DOMAIN lots, NEW r \in Reprocesses,
           RecordReprocess(l, r.qty, r.outputs)
    PROVE  \E g : Moved(g)
<1> DEFINE take == [h \in {l} |-> r.qty]
           portion == [h \in {l} |-> r.outputs]
           estimated == [h \in {l} |-> lots[l].cost_is_estimated]
           cost == [h \in {l} |-> r.qty * Landed(lots[l])]
<1>1. Transformable(take, portion, estimated) BY ReprocessStep
<1>2. Transform(take, portion, cost, estimated) BY DEF RecordReprocess
<1>3. HandsOn(take, portion, cost, estimated)
  <2>1. /\ DOMAIN portion = {l} /\ Taken(take, l) = r.qty
        /\ \A k \in (DOMAIN lots) \ {l} : Taken(take, k) = 0
        /\ cost[l] = r.qty * Landed(lots[l]) /\ estimated[l] = lots[l].cost_is_estimated
    BY DEF Taken
  <2>2. \A k \in 1..Len(lots) : Taken(take, k) \in 0..lots[k].qty_remaining
    BY <1>1 DEF Transformable
  <2> HIDE DEF take, portion, estimated, cost
  <2> QED BY <2>1, <2>2, HandsOwn
<1> HIDE DEF take, portion, estimated, cost
<1> QED BY <1>1, <1>2, <1>3, TransformMoves

\* An observed one hands on the cost of the units its plan takes.
LEMMA ObservedMoves ==
    ASSUME IInv, IInv', NEW r \in Reprocesses, RecordObservedReprocess(r)
    PROVE  \E g : Moved(g)
BY ObservedShape, TransformMoves

\* A partial move carves one lot, with the cost of its units.
LEMMA MoveMoves ==
    ASSUME IInv, IInv', NEW l \in DOMAIN lots, NEW to \in Locations, NEW qty,
           MoveToLocation(l, qty, to)
    PROVE  \E g : Moved(g)
<1> DEFINE n == Len(lots)
           child == SplitChild(lots, l, qty, to)
<1>1. /\ n \in Nat /\ DOMAIN lots = 1..n /\ DOMAIN book = 1..n /\ l \in 1..n
      /\ lots[l] \in Lot /\ book[l] \in Entry
  BY Known
<1>2. qty \in Nat /\ lots[l].qty_remaining \in Nat /\ Landed(lots[l]) \in Nat
  BY <1>1, LandedType DEF MoveToLocation, Lot
<1>3. CASE lots' = [lots EXCEPT ![l] = Relocated(@, to)] /\ UNCHANGED book
  <2>1. DOMAIN lots' = DOMAIN lots BY <1>3
  <2>2. \A k \in DOMAIN lots : LineageKept(k)
    <3> TAKE k \in DOMAIN lots
    <3>1. lots[k] \in Lot BY Known
    <3>2. lots'[k] = Relocated(lots[k], to) \/ lots'[k] = lots[k] BY <1>3
    <3> QED BY <3>1, <3>2, UpdatesKeepLineage DEF LineageKept
  <2> QED BY <1>3, <2>1, <2>2, NothingMoved
<1>4. CASE /\ lots' = Booked(lots, [h \in {l} |-> qty], <<child>>)
           /\ book' = Posted([book EXCEPT ![l] = SplitOff(@, lots[l], qty)], <<child>>)
  <2> DEFINE cost == qty * Landed(lots[l])
             g == [k \in 1..n |-> IF k = l THEN cost ELSE 0]
             old == DOMAIN lots
  <2>1. cost \in Nat BY <1>2
  <2>2. /\ child.source_lot = l /\ child.cost_is_estimated = lots[l].cost_is_estimated
        /\ Opened(child).entry = cost /\ Opened(child).carried = 0
    <3>1. /\ child.source_lot = l /\ child.cost_is_estimated = lots[l].cost_is_estimated
          /\ child.qty_original = qty /\ child.unit_cost = lots[l].unit_cost
          /\ child.written_down_to = lots[l].written_down_to
      BY <1>1 DEF SplitChild, Lot
    <3>2. Landed(child) = Landed(lots[l]) BY <3>1 DEF Landed
    <3> HIDE DEF child
    <3> QED BY <3>1, <3>2 DEF Opened
  <2>3. Len(<<child>>) = 1 /\ <<child>>[1] = child OBVIOUS
  <2> HIDE DEF child
  <2>4. \A k \in 1..n : /\ lots'[k] = Consumed(lots[k], IF k = l THEN qty ELSE 0)
                        /\ book'[k] = IF k = l THEN SplitOff(book[l], lots[l], qty)
                                               ELSE book[k]
    BY <1>1, <1>4, <2>3 DEF Booked, Posted, Taken
  <2>5. /\ lots'[n + 1] = child /\ book'[n + 1] = Opened(child)
        /\ DOMAIN lots' = 1..(n + 1) /\ DOMAIN book' = 1..(n + 1)
    BY <1>1, <1>4, <2>3 DEF Booked, Posted
  <2>6. DOMAIN lots' \ old = {n + 1} /\ n + 1 \in 1..(n + 1)
    BY <1>1, <2>5
  <2>7. ASSUME NEW k \in old
        PROVE  /\ k \in DOMAIN lots' /\ LineageKept(k)
               /\ book'[k].entry = book[k].entry
               /\ book'[k].carried = book[k].carried + g[k]
    <3>1. k \in 1..n /\ lots[k] \in Lot /\ book[k] \in Entry BY <1>1, Known
    <3>2. LineageKept(k) BY <2>4, <3>1, UpdatesKeepLineage DEF LineageKept
    <3>3. k \in 1..(n + 1) BY <1>1, <3>1
    <3>4. /\ SplitOff(book[l], lots[l], qty).entry = book[l].entry
          /\ SplitOff(book[l], lots[l], qty).carried = book[l].carried + cost
      BY <1>1 DEF SplitOff, Entry
    <3>5. book[k].carried \in Nat BY <3>1 DEF Entry
    <3>6. CASE k = l BY <2>4, <2>5, <3>1, <3>2, <3>3, <3>4, <3>6
    <3>7. CASE k # l
      <4>1. g[k] = 0 /\ book'[k] = book[k] BY <2>4, <3>1, <3>7
      <4> HIDE DEF g
      <4> QED BY <2>5, <3>2, <3>3, <3>5, <4>1
    <3> QED BY <3>6, <3>7
  <2>8. Entries'[n + 1] = cost BY <2>2, <2>5, <2>6 DEF Entries
  <2>9. SumFunctionOnSet(g, old) = cost /\ g \in [old -> Nat]
    <3>1. g[l] = cost /\ (\A y \in old \ {l} : g[y] = 0) /\ g \in [old -> Nat]
      BY <1>1, <2>1
    <3>2. IsFiniteSet(old) BY Totals DEF TotalsOK
    <3> HIDE DEF g, cost
    <3> QED BY <1>1, <2>1, <3>1, <3>2, SumOnOne
  <2>10. SumFunctionOnSet(Entries', {n + 1}) = cost
    <3>1. IsFiniteSet({n + 1}) /\ n + 1 \in {n + 1} /\ \A y \in {n + 1} \ {n + 1} : Entries'[y] = 0
      BY FS_Singleton
    <3> HIDE DEF cost
    <3> QED BY <2>1, <2>8, <3>1, SumOnOne
  <2>11. Born' \ old = {n + 1}
    BY <1>1, <2>2, <2>5, <2>6 DEF Born
  <2>12. SumFunctionOnSet(g, Estimated) <= SumFunctionOnSet(Entries', Estimated' \ old)
    <3>1. IsFiniteSet(Estimated) /\ Estimated \subseteq old BY Totals DEF TotalsOK
    <3>2. CASE lots[l].cost_is_estimated
      <4>1. Estimated' \ old = {n + 1} BY <2>2, <2>5, <2>6, <3>2 DEF Estimated
      <4>2. l \in Estimated /\ g[l] = cost /\ (\A y \in Estimated \ {l} : g[y] = 0)
        BY <1>1, <3>1, <3>2 DEF Estimated
      <4>3. SumFunctionOnSet(g, Estimated) = cost
        <5> HIDE DEF g, cost
        <5> QED BY <2>1, <3>1, <4>2, SumOnOne
      <4>4. SumFunctionOnSet(Entries', Estimated' \ old) = cost BY <2>10, <4>1
      <4> HIDE DEF g, cost, old
      <4> QED BY <2>1, <4>3, <4>4
    <3>3. CASE ~lots[l].cost_is_estimated
      <4>1. Estimated' \ old = {} BY <2>2, <2>5, <2>6, <3>3 DEF Estimated
      <4>2. l \notin Estimated BY <3>3 DEF Estimated
      <4>3. \A y \in Estimated : g[y] = 0 BY <1>1, <3>1, <4>2
      <4>4. SumFunctionOnSet(g, Estimated) = 0
        <5> HIDE DEF g
        <5> QED BY <3>1, <4>3, SumOnZero
      <4>5. SumFunctionOnSet(Entries', Estimated' \ old) = 0
        BY <4>1, SumOnEmpty
      <4> QED BY <4>4, <4>5
    <3> QED BY <3>2, <3>3
  <2>13. \A k \in (DOMAIN lots') \ old : book'[k].carried = 0 BY <2>2, <2>5, <2>6
  <2>14. SumFunctionOnSet(Entries', Born' \ old) = SumFunctionOnSet(g, old)
    <3> HIDE DEF g, old
    <3> QED BY <2>9, <2>10, <2>11
  <2>15. Moved(g)
    <3> HIDE DEF g
    <3> QED BY <2>7, <2>9, <2>12, <2>13, <2>14 DEF Moved
  <2> QED BY <2>15
<1> QED BY <1>3, <1>4 DEF MoveToLocation

\* Every step hands on some g.
LEMMA StepMoves == ASSUME IInv, IInv', [Next]_vars PROVE \E g : Moved(g)
<1>1. ASSUME NEW link \in Links, MaterializeBuybackLots(link) PROVE \E g : Moved(g)
  <2> DEFINE new == [i \in 1..Len(link.lines) |-> BuybackLot(link, link.lines[i])]
  <2>1. /\ link \in Link /\ Len(link.lines) \in Nat
        /\ \A i \in 1..Len(link.lines) : link.lines[i] \in Line
    BY InputsAssumption, LenProperties DEF Link
  <2>2. new \in [1..Len(link.lines) -> Lot] BY <2>1, BuybackLotType
  <2>3. new \in Seq(Lot) /\ Len(new) = Len(link.lines) BY <2>1, <2>2, Tabulated
  <2>4. \A i \in 1..Len(new) : new[i].source_lot = 0 BY <2>1, <2>3, BuybackLotType
  <2>5. lots' = Booked(lots, <<>>, new) /\ book' = Posted(book, new)
    BY <1>1 DEF MaterializeBuybackLots
  <2> HIDE DEF new
  <2> QED BY <2>3, <2>4, <2>5, EnterMoves
<1>2. ASSUME NEW e \in ManualEntries, RecordManualLot(e) PROVE \E g : Moved(g)
  <2>1. ManualLot(e) \in Lot /\ ManualLot(e).source_lot = 0
    <3>1. /\ e.type \in Types /\ e.location \in Locations
          /\ e.qty \in Nat /\ e.unit_cost \in Nat /\ e.acquired_at \in Nat
          /\ e.cost_is_estimated \in BOOLEAN /\ "manual" \in Sources /\ 0 \in Nat
      BY InputsAssumption DEF ManualEntry, Sources
    <3> QED BY <3>1 DEF NewLot, Lot, ManualLot
  <2>2. /\ <<ManualLot(e)>> \in Seq(Lot)
        /\ \A i \in 1..Len(<<ManualLot(e)>>) : <<ManualLot(e)>>[i].source_lot = 0
    BY <2>1
  <2>3. /\ lots' = Booked(lots, <<>>, <<ManualLot(e)>>)
        /\ book' = Posted(book, <<ManualLot(e)>>)
    BY <1>2 DEF RecordManualLot
  <2> QED BY <2>2, <2>3, EnterMoves
<1>3. CASE \E d \in Disposals : ConsumeAndRecordSale(d) BY <1>3, SaleMoves
<1>4. CASE \E nrv \in Markets : ApplyWriteDowns(nrv) BY <1>4, WriteDownMoves
<1>5. CASE \E l \in DOMAIN lots, r \in Reprocesses : RecordReprocess(l, r.qty, r.outputs)
  BY <1>5, ReprocessMoves
<1>6. CASE \E r \in Reprocesses : RecordObservedReprocess(r) BY <1>6, ObservedMoves
<1>7. CASE \E l \in DOMAIN lots, to \in Locations :
              \E qty \in 1..lots[l].qty_remaining : MoveToLocation(l, qty, to)
  BY <1>7, MoveMoves
<1>8. CASE UNCHANGED vars
  <2>1. lots' = lots /\ book' = book BY <1>8 DEF vars
  <2>2. \A l \in DOMAIN lots : LineageKept(l)
    BY <2>1 DEF LineageKept, SameLineage
  <2> QED BY <2>1, <2>2, NothingMoved
<1> QED BY <1>1, <1>2, <1>3, <1>4, <1>5, <1>6, <1>7, <1>8 DEF Next

-----------------------------------------------------------------------------
(* An appraisal owns its lots once *)

\* A step that gives no lot to an appraisal, and takes none from it.
Unappraised ==
    /\ \A l \in DOMAIN lots : l \in DOMAIN lots' /\ lots'[l].appraisal = lots[l].appraisal
    /\ \A l \in (DOMAIN lots') \ DOMAIN lots : lots'[l].appraisal = 0

\* No update of a row touches its appraisal.
LEMMA UpdatesKeepAppraisal ==
    ASSUME NEW lot \in Lot, NEW x
    PROVE  /\ Consumed(lot, x).appraisal = lot.appraisal
           /\ WrittenDown(lot, x).appraisal = lot.appraisal
           /\ Relocated(lot, x).appraisal = lot.appraisal
BY DEF Lot, Consumed, WrittenDown, Relocated

\* Children belong to no appraisal, or the guard of the watcher would count them.
LEMMA TransformUnappraised ==
    ASSUME IInv, NEW take, NEW portion, NEW cost, NEW estimated,
           Transformable(take, portion, estimated),
           Transform(take, portion, cost, estimated)
    PROVE  Unappraised
<1> DEFINE n == Len(lots)
<1>1. PICK k \in Nat :
         /\ lots' = [l \in 1..(n + k) |-> lots'[l]]
         /\ \A l \in 1..n : lots'[l] = Consumed(lots[l], Taken(take, l))
         /\ \A l \in (n + 1)..(n + k) :
               \E h \in DOMAIN portion, m \in Types, q, t \in Nat :
                  q > 0 /\ lots'[l] = Child(h, m, q, t, estimated[h])
  BY TransformShape
<1>2. n \in Nat /\ DOMAIN lots = 1..n /\ \A l \in 1..n : lots[l] \in Lot BY Known
<1>3. \A h, m, q, t, e : Child(h, m, q, t, e).appraisal = 0 BY DEF Child, NewLot
<1>4. \A l \in (1..(n + k)) \ (1..n) : l \in (n + 1)..(n + k) BY <1>2
<1>5. \A l \in 1..n : l \in 1..(n + k) BY <1>2
<1>6. DOMAIN lots' = 1..(n + k) BY <1>1
<1>7. \A l \in 1..n : lots'[l].appraisal = lots[l].appraisal
  BY <1>1, <1>2, UpdatesKeepAppraisal
<1>8. \A l \in (n + 1)..(n + k) : lots'[l].appraisal = 0
  BY <1>1, <1>3
<1> HIDE DEF n
<1> QED BY <1>2, <1>4, <1>5, <1>6, <1>7, <1>8 DEF Unappraised

\* Nor do manual, deemed and split-off lots.
LEMMA OtherStepsUnappraised ==
    ASSUME IInv, [Next]_vars, ~\E link \in Links : MaterializeBuybackLots(link)
    PROVE  Unappraised
<1> DEFINE n == Len(lots)
<1>0. /\ n \in Nat /\ DOMAIN lots = 1..n /\ DOMAIN book = 1..n
      /\ \A l \in 1..n : lots[l] \in Lot
  BY Known
<1>1. CASE \E e \in ManualEntries : RecordManualLot(e)
  <2>1. PICK e \in ManualEntries : RecordManualLot(e) BY <1>1
  <2> DEFINE lot == ManualLot(e)
  <2>2. lot.appraisal = 0 BY DEF ManualLot, NewLot
  <2> HIDE DEF lot
  <2>3. lots' = Booked(lots, <<>>, <<lot>>) BY <2>1 DEF RecordManualLot, lot
  <2>4. Len(<<lot>>) = 1 /\ <<lot>>[1] = lot OBVIOUS
  <2>5. /\ DOMAIN lots' = 1..(n + 1) /\ lots'[n + 1] = lot
        /\ \A l \in 1..n : lots'[l] = Consumed(lots[l], 0)
    BY <1>0, <2>3, <2>4 DEF Booked, Taken
  <2>6. /\ \A l \in (1..(n + 1)) \ (1..n) : l = n + 1
        /\ \A l \in 1..n : l \in 1..(n + 1)
    BY <1>0
  <2> QED BY <1>0, <2>2, <2>5, <2>6, UpdatesKeepAppraisal DEF Unappraised
<1>2. CASE \E d \in Disposals : ConsumeAndRecordSale(d)
  <2>1. PICK d \in Disposals : ConsumeAndRecordSale(d) BY <1>2
  <2>2. PICK plan \in FifoPlans(lots, OpenLots(lots, d.type, d.location), d.qty) :
           Dispose(d, plan)
    BY <2>1 DEF ConsumeAndRecordSale
  <2> DEFINE new == DeemedLot(d, plan.shortfall)
  <2>3. PICK k \in {0, 1} :
           /\ lots' = [l \in 1..(n + k) |-> lots'[l]]
           /\ \A l \in 1..n : lots'[l] = Consumed(lots[l], Taken(plan.take, l))
           /\ k = 1 => lots'[n + 1] = Consumed(new, plan.shortfall)
    BY <2>2, SaleShape
  <2>4. Consumed(new, plan.shortfall).appraisal = 0
    BY DEF Consumed, DeemedLot, NewLot
  <2>5. /\ \A l \in (1..(n + k)) \ (1..n) : k = 1 /\ l = n + 1
        /\ \A l \in 1..n : l \in 1..(n + k)
    BY <1>0
  <2>6. DOMAIN lots' = 1..(n + k) BY <2>3
  <2>7. \A l \in 1..n : lots'[l].appraisal = lots[l].appraisal
    BY <1>0, <2>3, UpdatesKeepAppraisal
  <2> QED BY <1>0, <2>3, <2>4, <2>5, <2>6, <2>7 DEF Unappraised
<1>3. CASE \E nrv \in Markets : ApplyWriteDowns(nrv)
  <2>1. PICK nrv \in Markets : ApplyWriteDowns(nrv) BY <1>3
  <2>2. DOMAIN lots' = DOMAIN lots BY <2>1 DEF ApplyWriteDowns
  <2>3. \A l \in DOMAIN lots : lots'[l] = lots[l] \/ \E x : lots'[l] = WrittenDown(lots[l], x)
    BY <2>1 DEF ApplyWriteDowns
  <2> QED BY <1>0, <2>2, <2>3, UpdatesKeepAppraisal DEF Unappraised
<1>4. CASE \E l \in DOMAIN lots, r \in Reprocesses : RecordReprocess(l, r.qty, r.outputs)
  <2>1. PICK l \in DOMAIN lots, r \in Reprocesses : RecordReprocess(l, r.qty, r.outputs)
    BY <1>4
  <2>2. Transformable([h \in {l} |-> r.qty], [h \in {l} |-> r.outputs],
                      [h \in {l} |-> lots[l].cost_is_estimated])
    BY <2>1, ReprocessStep
  <2>3. Transform([h \in {l} |-> r.qty], [h \in {l} |-> r.outputs],
                  [h \in {l} |-> r.qty * Landed(lots[l])],
                  [h \in {l} |-> lots[l].cost_is_estimated])
    BY <2>1 DEF RecordReprocess
  <2> QED BY <2>2, <2>3, TransformUnappraised
<1>5. CASE \E r \in Reprocesses : RecordObservedReprocess(r)
  BY <1>5, ObservedShape, TransformUnappraised
<1>6. CASE \E l \in DOMAIN lots, to \in Locations :
              \E qty \in 1..lots[l].qty_remaining : MoveToLocation(l, qty, to)
  <2>1. PICK l \in DOMAIN lots, to \in Locations : \E qty : MoveToLocation(l, qty, to)
    BY <1>6
  <2>2. PICK qty : MoveToLocation(l, qty, to) BY <2>1
  <2>3. CASE lots' = [lots EXCEPT ![l] = Relocated(@, to)]
    BY <1>0, <2>3, UpdatesKeepAppraisal DEF Unappraised
  <2>4. CASE lots' = Booked(lots, [h \in {l} |-> qty], <<SplitChild(lots, l, qty, to)>>)
    <3> DEFINE child == SplitChild(lots, l, qty, to)
    <3>1. child.appraisal = 0 BY <1>0 DEF SplitChild, Lot
    <3> HIDE DEF child
    <3>2. Len(<<child>>) = 1 /\ <<child>>[1] = child OBVIOUS
    <3>3. /\ DOMAIN lots' = 1..(n + 1) /\ lots'[n + 1] = child
          /\ \A k \in 1..n : \E x : lots'[k] = Consumed(lots[k], x)
      BY <1>0, <2>4, <3>2 DEF Booked, child
    <3>4. /\ \A k \in (1..(n + 1)) \ (1..n) : k = n + 1
          /\ \A k \in 1..n : k \in 1..(n + 1)
      BY <1>0
    <3> QED BY <1>0, <3>1, <3>3, <3>4, UpdatesKeepAppraisal DEF Unappraised
  <2> QED BY <2>2, <2>3, <2>4 DEF MoveToLocation
<1>7. CASE UNCHANGED vars BY <1>7 DEF vars, Unappraised
<1> QED BY <1>1, <1>2, <1>3, <1>4, <1>5, <1>6, <1>7 DEF Next

\* The watcher gives an appraisal its lots only when it has none, consumed ones
\* included.
LEMMA MaterializedStep ==
    ASSUME IInv, IInv', MaterializedOnce, [Next]_vars
    PROVE  MaterializedOnce'
<1> DEFINE owned(id) == {l \in DOMAIN lots : lots[l].appraisal = id}
           after(id) == {l \in DOMAIN lots' : lots'[l].appraisal = id}
<1>1. SUFFICES ASSUME NEW link \in Links
               PROVE  Cardinality(after(link.appraisal)) \in {0, Len(link.lines)}
  BY DEF MaterializedOnce
<1>2. Cardinality(owned(link.appraisal)) \in {0, Len(link.lines)} /\ link.appraisal # 0
  BY InputsAssumption DEF MaterializedOnce, Link
<1>3. CASE ~\E x \in Links : MaterializeBuybackLots(x)
  <2>1. Unappraised BY <1>3, OtherStepsUnappraised
  <2>2. after(link.appraisal) = owned(link.appraisal) BY <1>2, <2>1 DEF Unappraised
  <2> QED BY <1>2, <2>2
<1>4. ASSUME NEW x \in Links, MaterializeBuybackLots(x)
      PROVE  Cardinality(after(link.appraisal)) \in {0, Len(link.lines)}
  <2> DEFINE n == Len(lots)
             k == Len(x.lines)
             new == [i \in 1..k |-> BuybackLot(x, x.lines[i])]
  <2>1. x \in Link /\ k \in Nat /\ \A i \in 1..k : x.lines[i] \in Line
    BY InputsAssumption, LenProperties DEF Link
  <2>2. \A i \in 1..k : new[i].appraisal = x.appraisal
    BY DEF BuybackLot, NewLot
  <2>3. Len(new) = k
    <3>1. new \in [1..k -> Lot] BY <2>1, BuybackLotType
    <3> HIDE DEF new, k
    <3> QED BY <2>1, <3>1, Tabulated
  <2>4. lots' = Booked(lots, <<>>, new) /\ ~ExistsForAppraisal(x.appraisal)
    BY <1>4 DEF MaterializeBuybackLots
  <2> HIDE DEF new
  <2>5. n \in Nat /\ DOMAIN lots = 1..n /\ \A l \in 1..n : lots[l] \in Lot BY Known
  <2>6. /\ DOMAIN lots' = 1..(n + k)
        /\ \A l \in 1..n : lots'[l] = Consumed(lots[l], 0)
    BY <2>3, <2>4, <2>5 DEF Booked, Taken
  <2>7. \A l \in (n + 1)..(n + k) : l - n \in 1..k /\ lots'[l] = new[l - n]
    BY <2>1, <2>3, <2>4, <2>5 DEF Booked
  <2>8. \A l \in 1..n : lots'[l].appraisal = lots[l].appraisal
    BY <2>5, <2>6, UpdatesKeepAppraisal
  <2>9. \A l \in (n + 1)..(n + k) : lots'[l].appraisal = x.appraisal
    BY <2>2, <2>7
  <2>10. \A l : l \in 1..(n + k) <=> l \in 1..n \/ l \in (n + 1)..(n + k)
    BY <2>1, <2>5
  <2>11. CASE link.appraisal = x.appraisal
    <3>1. link = x BY <2>11, InputsAssumption
    <3>2. after(link.appraisal) = (n + 1)..(n + k)
      <4>1. \A l \in 1..n : lots[l].appraisal # x.appraisal
        BY <2>4, <2>5 DEF ExistsForAppraisal
      <4> QED BY <2>6, <2>8, <2>9, <2>10, <2>11, <4>1
    <3>3. Cardinality((n + 1)..(n + k)) = k
      <4>1. n + 1 \in Int /\ n + k \in Int BY <2>1, <2>5
      <4>2. Cardinality((n + 1)..(n + k)) = IF n + 1 > n + k THEN 0 ELSE (n + k) - (n + 1) + 1
        BY <4>1, FS_Interval
      <4> HIDE DEF n, k
      <4> QED BY <2>1, <2>5, <4>2
    <3> QED BY <3>1, <3>2, <3>3
  <2>12. CASE link.appraisal # x.appraisal
    <3>1. after(link.appraisal) = owned(link.appraisal)
      BY <2>5, <2>6, <2>8, <2>9, <2>10, <2>12
    <3> QED BY <1>2, <3>1
  <2> QED BY <2>11, <2>12
<1> QED BY <1>3, <1>4

\* With the handed-on cost out of both sides, the roots paid for everything that is
\* carried, sold or lost.
LEMMA BalancedConserves == IInv /\ Balanced => CapitalConserved
<1> SUFFICES ASSUME IInv, Balanced PROVE CapitalConserved
  OBVIOUS
<1> DEFINE all == DOMAIN lots
           roots == {l \in all : lots[l].source_lot = 0}
           paid == [l \in roots |-> book[l].entry]
<1>1. TotalsOK BY Totals
<1>2. /\ IsFiniteSet(roots) /\ IsFiniteSet(Born) /\ roots \cap Born = {}
      /\ roots \cup Born = all /\ IsFiniteSet(all)
  <2>1. roots \in SUBSET all OBVIOUS
  <2> QED BY <1>1, <2>1, FS_Subset DEF TotalsOK, Born
<1>3. \A l \in all : /\ Entries[l] \in Int /\ Value[l] \in Int /\ Carried[l] \in Int
                      /\ Entries[l] = Value[l] + Carried[l] /\ Entries[l] = book[l].entry
                      /\ Carried[l] \in Nat /\ Value[l] \in Nat
  BY <1>1 DEF TotalsOK
<1>4. SumFunctionOnSet(Entries, all) = SumFunctionOnSet(Value, all) + SumFunctionOnSet(Carried, all)
  <2> HIDE DEF all
  <2> QED BY <1>2, <1>3, SumOnPlus
<1>5. SumFunctionOnSet(Entries, all) = SumFunctionOnSet(Entries, roots) + SumFunctionOnSet(Entries, Born)
  <2>1. \A l \in roots \cup Born : Entries[l] \in Int BY <1>2, <1>3
  <2>2. SumFunctionOnSet(Entries, roots \cup Born)
          = SumFunctionOnSet(Entries, roots) + SumFunctionOnSet(Entries, Born)
    <3> HIDE DEF roots
    <3> QED BY <1>2, <2>1, SumOnUnion
  <2> QED BY <1>2, <2>2
<1>6. SumFunction(paid) = SumFunctionOnSet(Entries, roots)
  <2>1. \A l \in roots : paid[l] = Entries[l] BY <1>3
  <2>2. SumFunction(paid) = SumFunctionOnSet(paid, roots) BY DEF SumFunction
  <2> HIDE DEF paid, roots
  <2> QED BY <1>2, <2>1, <2>2, SumOnSame
<1>7. SumFunction(Value) = SumFunctionOnSet(Value, all) BY DEF SumFunction, Value
<1>8. /\ SumFunctionOnSet(Value, all) \in Nat /\ SumFunctionOnSet(Carried, all) \in Nat
      /\ SumFunctionOnSet(Entries, roots) \in Int
  <2>1. \A l \in roots : Entries[l] \in Int BY <1>3
  <2> HIDE DEF all, roots
  <2> QED BY <1>2, <1>3, <2>1, SumOnNat, SumOnInt
<1>9. SumFunctionOnSet(Carried, all) = SumFunctionOnSet(Entries, Born) BY DEF Balanced
<1>10. SumFunction(paid) = SumFunction(Value)
  <2> HIDE DEF all, roots, paid
  <2> QED BY <1>4, <1>5, <1>6, <1>7, <1>8, <1>9
<1> QED BY <1>10 DEF CapitalConserved, Value

\* Empty books are balanced.
LEMMA InitCapital == Init => Balanced /\ MaterializedOnce
<1> SUFFICES ASSUME Init PROVE Balanced /\ MaterializedOnce
  OBVIOUS
<1>1. DOMAIN lots = {} BY DEF Init
<1>2. Born = {} BY <1>1 DEF Born
<1>3. Balanced BY <1>1, <1>2, SumOnEmpty DEF Balanced
<1>4. MaterializedOnce
  <2>1. \A id : {l \in DOMAIN lots : lots[l].appraisal = id} = {} BY <1>1
  <2> QED BY <2>1, FS_EmptySet DEF MaterializedOnce
<1> QED BY <1>3, <1>4

\* Capital enters once and is neither written up nor lost, for any links, prices,
\* reprocess outputs and length of the ledger.
THEOREM CapitalIsKept == Spec => []CapitalKept
<1>1. Init => Balanced /\ MaterializedOnce BY InitCapital
<1>2. IInv /\ IInv' /\ Balanced /\ MaterializedOnce /\ [Next]_vars => (Balanced /\ MaterializedOnce)'
  <2> SUFFICES ASSUME IInv, IInv', Balanced, MaterializedOnce, [Next]_vars
               PROVE  Balanced' /\ MaterializedOnce'
    OBVIOUS
  <2> QED BY StepMoves, BalancedStep, MaterializedStep
<1>3. IInv /\ Balanced /\ MaterializedOnce => CapitalKept
  BY BalancedConserves DEF CapitalKept
<1> QED BY <1>1, <1>2, <1>3, Inductive, PTL DEF Spec

\* EstimatedCapital is the total of what the estimated lots stand for.
EstimatedIsTotal == EstimatedCapital = SumFunctionOnSet(Value, Estimated)

LEMMA EstimatedTotal == IInv => EstimatedIsTotal
<1> SUFFICES ASSUME IInv PROVE EstimatedIsTotal
  OBVIOUS
<1> DEFINE marked == [l \in Estimated |-> lots[l].qty_remaining * Landed(lots[l])
                                             + book[l].cogs + book[l].loss]
<1>1. IsFiniteSet(Estimated) /\ Estimated \subseteq DOMAIN lots BY Totals DEF TotalsOK
<1>2. \A l \in Estimated : marked[l] = Value[l] BY <1>1 DEF Value
<1>3. SumFunction(marked) = SumFunctionOnSet(marked, Estimated) BY DEF SumFunction
<1>4. EstimatedCapital = SumFunction(marked) BY DEF EstimatedCapital, Estimated
<1> HIDE DEF marked
<1> QED BY <1>1, <1>2, <1>3, <1>4, SumOnSame DEF EstimatedIsTotal

LEMMA EstimatedTotalAfter == IInv' => EstimatedIsTotal'
BY EstimatedTotal, PTL

\* No step, a batch blended from several lots included, turns estimated cost into
\* measured cost.
THEOREM EstimatesAreNeverLaundered == Spec => EstimatesNeverLaundered
<1>1. IInv /\ IInv' /\ [Next]_vars => [EstimatedCapital' >= EstimatedCapital]_vars
  <2> SUFFICES ASSUME IInv, IInv', [Next]_vars PROVE EstimatedCapital' >= EstimatedCapital
    OBVIOUS
  <2>1. SumFunctionOnSet(Value', Estimated') >= SumFunctionOnSet(Value, Estimated)
    BY StepMoves, EstimatedStep
  <2> QED BY <2>1, EstimatedTotal, EstimatedTotalAfter DEF EstimatedIsTotal
<1> QED BY <1>1, Inductive, PTL DEF Spec, EstimatesNeverLaundered

-----------------------------------------------------------------------------
(* The sales ingestion: what a fill and the books say *)

\* Units of lot l that the books say fill f took, and the tax they put on it.
Sells(books, f, l) == LET took == books.sales[f].took IN IF l \in DOMAIN took THEN took[l] ELSE 0
TaxOn(books, f) == SumFunction(books.sales[f].tax)

\* A fill's rows show no tax, or the whole of it on the leading row.
TaxStates(sale) == {[l \in DOMAIN sale.took |-> 0],
                    [l \in DOMAIN sale.took |-> IF l = sale.lead THEN Tax ELSE 0]}

\* With fs the fills so far.
Pays(fs, f) == Division[fs[f].order]

SaleOK(books, fs, f) ==
    LET sale == books.sales[f] IN
    /\ sale = [took |-> sale.took, lead |-> sale.lead, tax |-> sale.tax]
    /\ DOMAIN sale.took \subseteq Lots \cup {0}
    /\ \A l \in DOMAIN sale.took : sale.took[l] \in Nat \ {0}
    /\ IsBooked(books, f) =>
         /\ f \in DOMAIN fs /\ SumFunction(sale.took) = fs[f].qty
         /\ sale.lead \in DOMAIN sale.took /\ sale.tax \in TaxStates(sale)

BooksOK(books, fs) ==
    /\ books = [lots |-> books.lots, sales |-> books.sales, fees |-> books.fees,
                listed |-> books.listed, flagged |-> books.flagged]
    /\ books.lots \in [Lots -> Nat] /\ books.fees \in [OrderFees -> {0, 1}]
    /\ DOMAIN books.listed \subseteq Orders
    /\ books.sales = [f \in 1 .. MaxFills |-> books.sales[f]]
    /\ \A f \in 1 .. MaxFills : SaleOK(books, fs, f)

\* What left a lot is in the sale rows.
AddsUp(books) ==
    \A l \in Lots :
        Stock[l] = books.lots[l] + SumFunction([f \in 1 .. MaxFills |-> Sells(books, f, l)])

\* A fill that took from a lot left none of the older ones anything.
OlderDry(books) ==
    \A f \in 1 .. MaxFills, l \in Lots :
        Sells(books, f, l) > 0 => \A k \in 1 .. l - 1 : books.lots[k] = 0

\* Of two fills of one division the older took the older lots.
InTurn(books, fs) ==
    \A f, g \in 1 .. MaxFills :
      IsBooked(books, f) /\ IsBooked(books, g) /\ f < g /\ Pays(fs, f) = Pays(fs, g) =>
        \A k, l \in Lots : Sells(books, f, l) > 0 /\ Sells(books, g, k) > 0 => l <= k

SoundBooks(books, fs) ==
    BooksOK(books, fs) /\ AddsUp(books) /\ OlderDry(books) /\ InTurn(books, fs)

\* Fill f still shows on the wallet page of its division.
Newer(fs, f) == {j \in DOMAIN fs : Pays(fs, j) = Pays(fs, f) /\ j > f}
Paged(fs, f) == Cardinality(Newer(fs, f)) < Page

\* A fill that is booked, or about to be, has no older one on its page that is not.
NoneSkipped(books, left, fs) ==
    \A f, g \in DOMAIN fs :
      /\ f < g /\ Pays(fs, f) = Pays(fs, g) /\ Paged(fs, f)
      /\ IsBooked(books, g) \/ g \in left
      => IsBooked(books, f) \/ f \in left

Fills == [order : Orders, qty : Nat \ {0}]

World ==
    /\ hangar \in Nat /\ orders \in [Orders -> Nat \cup {Nil}]
    /\ fills \in Seq(Fills) /\ Len(fills) <= MaxFills
    /\ division \in Divisions \cup {Nil} /\ of \in Divisions \cup {Nil}
    /\ pc \in {"idle", "orders", "fills", "book", "commit"}
    /\ switches \in 0 .. MaxSwitches /\ failures \in 0 .. MaxFailures

\* What a pass drafted is what is committed, and more of its own division.
Drafted ==
   /\ \A f \in 1 .. MaxFills : IsBooked(db, f) =>
        draft.sales[f].took = db.sales[f].took /\ TaxOn(db, f) <= TaxOn(draft, f)
   /\ \A o \in OrderFees : db.fees[o] <= draft.fees[o]
   /\ pc \in {"orders", "fills"} => draft.sales = db.sales
   /\ \A f \in 1 .. MaxFills : IsBooked(draft, f) /\ ~IsBooked(db, f) => Pays(fills, f) = of

\* What it has still to book is newer than all it has booked.
Ahead ==
   /\ todo \in SUBSET DOMAIN fills
   /\ pc # "book" => todo = {}
   /\ \A f \in todo :
        /\ Pays(fills, f) = of /\ ~IsBooked(draft, f)
        /\ \A g \in 1 .. MaxFills : IsBooked(draft, g) /\ Pays(fills, g) = of => g < f

SalesInv ==
    /\ World /\ SoundBooks(db, fills) /\ SoundBooks(draft, fills) /\ Ahead
    /\ NoneSkipped(db, {}, fills)
    /\ pc # "idle" => Drafted
    /\ pc \in {"book", "commit"} => NoneSkipped(draft, todo, fills)

-----------------------------------------------------------------------------
(* plan_fifo *)

\* The lesser and the greater of two numbers.
LEMMA Extremes ==
    ASSUME NEW a \in Int, NEW b \in Int
    PROVE  /\ Min({a, b}) = IF a <= b THEN a ELSE b
           /\ Max({a, b}) = IF a >= b THEN a ELSE b
<1>1. \E x \in {a, b} : \A y \in {a, b} : x <= y OBVIOUS
<1>2. \E x \in {a, b} : \A y \in {a, b} : x >= y OBVIOUS
<1>3. Min({a, b}) \in {a, b} /\ \A y \in {a, b} : Min({a, b}) <= y BY <1>1 DEF Min
<1>4. Max({a, b}) \in {a, b} /\ \A y \in {a, b} : Max({a, b}) >= y BY <1>2 DEF Max
<1> QED BY <1>3, <1>4

LEMMA NotBelowZero == ASSUME NEW m \in Int PROVE Max({0, m}) = IF 0 >= m THEN 0 ELSE m
<1>1. PICK z \in Int : z = 0 OBVIOUS
<1>2. Max({z, m}) = IF z >= m THEN z ELSE m BY Extremes
<1> QED BY <1>1, <1>2

LEMMA StockKnown ==
    /\ Stock \in Seq(Nat \ {0}) /\ Len(Stock) \in Nat /\ DOMAIN Stock = Lots
    /\ Lots = 1..Len(Stock) /\ IsFiniteSet(Lots) /\ 0 \notin Lots
    /\ \A l \in Lots : Stock[l] \in Nat
    /\ MaxFills \in Nat /\ Tax \in Nat /\ Page \in Nat /\ Extra \in Nat
    /\ IsFiniteSet(1 .. MaxFills)
<1>1. Stock \in Seq(Nat \ {0}) /\ MaxFills \in Nat /\ Tax \in Nat /\ Page \in Nat /\ Extra \in Nat
  BY NumbersAssumption
<1>2. Len(Stock) \in Nat /\ DOMAIN Stock = 1..Len(Stock) BY <1>1
<1>3. \A l \in 1..Len(Stock) : Stock[l] \in Nat BY <1>1
<1>4. IsFiniteSet(1..Len(Stock)) /\ IsFiniteSet(1..MaxFills) BY <1>1, <1>2, FS_Interval
<1> QED BY <1>1, <1>2, <1>3, <1>4 DEF Lots

\* What plan_fifo takes of the lots up to l is all of them, or all there is to take.
LEMMA TakenSoFar ==
    ASSUME NEW open \in [Lots -> Nat], NEW q \in Nat,
           NEW took, \A l \in Lots : took[l] = FromLot(open, l, q), NEW n \in 0..Len(Stock)
    PROVE  LET s == SumFunctionOnSet(open, 1..n) IN
           /\ s \in Nat
           /\ SumFunctionOnSet(took, 1..n) = IF q <= s THEN q ELSE s
<1> DEFINE S(k) == SumFunctionOnSet(open, 1..k)
           T(k) == SumFunctionOnSet(took, 1..k)
<1>1. \A k \in 0..Len(Stock) : S(k) \in Nat /\ IsFiniteSet(1..k) /\ 1..k \in SUBSET Lots
  <2> SUFFICES ASSUME NEW k \in 0..Len(Stock)
               PROVE  S(k) \in Nat /\ IsFiniteSet(1..k) /\ 1..k \in SUBSET Lots
    OBVIOUS
  <2>1. IsFiniteSet(1..k) /\ 1..k \in SUBSET Lots BY StockKnown, FS_Interval
  <2>2. \A x \in 1..k : open[x] \in Nat BY <2>1
  <2> QED BY <2>1, <2>2, SumOnNat
<1>2. \A l \in Lots : /\ l - 1 \in 0..Len(Stock) /\ l \in 0..Len(Stock)
                      /\ took[l] = LET left == q - S(l - 1) IN
                            IF left <= 0 THEN 0 ELSE IF left <= open[l] THEN left ELSE open[l]
  <2> SUFFICES ASSUME NEW l \in Lots
               PROVE  /\ l - 1 \in 0..Len(Stock) /\ l \in 0..Len(Stock)
                      /\ took[l] = LET left == q - S(l - 1) IN
                            IF left <= 0 THEN 0 ELSE IF left <= open[l] THEN left ELSE open[l]
    OBVIOUS
  <2>1. l - 1 \in 0..Len(Stock) /\ l \in 0..Len(Stock) BY StockKnown
  <2>2. S(l - 1) \in Nat BY <1>1, <2>1
  <2>3. took[l] = Max({0, Min({q - S(l - 1), open[l]})}) BY DEF FromLot, Before
  <2> HIDE DEF S
  <2>4. Min({q - S(l - 1), open[l]}) = IF q - S(l - 1) <= open[l] THEN q - S(l - 1) ELSE open[l]
    BY <2>2, Extremes
  <2>5. PICK m : m = Min({q - S(l - 1), open[l]}) OBVIOUS
  <2>6. open[l] \in Nat /\ m \in Int
        /\ m = IF q - S(l - 1) <= open[l] THEN q - S(l - 1) ELSE open[l]
    BY <2>2, <2>4, <2>5
  <2>7. Max({0, m}) = IF 0 >= m THEN 0 ELSE m BY <2>6, NotBelowZero
  <2>8. took[l] = IF 0 >= m THEN 0 ELSE m BY <2>3, <2>5, <2>7
  <2> QED BY <2>1, <2>2, <2>6, <2>8
<1> HIDE DEF S
<1>3. \A l \in Lots : took[l] \in Nat
  <2> SUFFICES ASSUME NEW l \in Lots PROVE took[l] \in Nat OBVIOUS
  <2>1. S(l - 1) \in Nat /\ open[l] \in Nat BY <1>1, <1>2
  <2> QED BY <1>2, <2>1
<1>4. \A l \in Lots : S(l) = open[l] + S(l - 1) /\ T(l) = took[l] + T(l - 1)
  <2> SUFFICES ASSUME NEW l \in Lots PROVE S(l) = open[l] + S(l - 1) /\ T(l) = took[l] + T(l - 1)
    OBVIOUS
  <2>1. l \in 1..l /\ (1..l) \ {l} = 1..(l - 1) /\ IsFiniteSet(1..l) /\ 1..l \in SUBSET Lots
    <3>1. l \in Nat /\ l >= 1 /\ l \in 0..Len(Stock) BY StockKnown
    <3> QED BY <1>1, <3>1
  <2>2. (\A x \in 1..l : open[x] \in Int) /\ (\A x \in 1..l : took[x] \in Int) BY <1>3, <2>1
  <2>3. SumFunctionOnSet(open, 1..l) = open[l] + SumFunctionOnSet(open, (1..l) \ {l})
    BY <2>1, <2>2, SumOnRemove
  <2>4. SumFunctionOnSet(took, 1..l) = took[l] + SumFunctionOnSet(took, (1..l) \ {l})
    BY <2>1, <2>2, SumOnRemove
  <2> QED BY <2>1, <2>3, <2>4 DEF S
<1>5. S(0) = 0 /\ T(0) = 0
  <2>1. 1..0 = {} OBVIOUS
  <2> QED BY <2>1, SumOnEmpty DEF S
<1> DEFINE Bad == {k \in 0..Len(Stock) : T(k) # IF q <= S(k) THEN q ELSE S(k)}
<1> HIDE DEF T
<1>6. Bad = {}
  <2> SUFFICES ASSUME Bad # {} PROVE FALSE OBVIOUS
  <2>1. PICK k \in Bad : \A j \in Bad : k <= j
    <3>1. Bad \in SUBSET Nat OBVIOUS
    <3> HIDE DEF Bad
    <3> QED BY <3>1, LeastNumber
  <2>2. k # 0 BY <1>5, <2>1
  <2>3. k \in Lots /\ k - 1 \in 0..Len(Stock) /\ k - 1 \notin Bad BY <2>1, <2>2, StockKnown
  <2>4. T(k - 1) = IF q <= S(k - 1) THEN q ELSE S(k - 1) BY <2>3
  <2>5. S(k - 1) \in Nat /\ S(k) \in Nat /\ open[k] \in Nat BY <1>1, <2>1, <2>3
  <2>6. T(k) = IF q <= S(k) THEN q ELSE S(k) BY <1>2, <1>4, <2>3, <2>4, <2>5
  <2> QED BY <2>1, <2>6
<1> QED BY <1>1, <1>6 DEF S, T

Got(took, l) == IF l \in DOMAIN took THEN took[l] ELSE 0

\* A plan takes all it is asked for, of each lot at most what it has, and of a
\* lot only what the older ones could not give.
LEMMA PlanTakes ==
    ASSUME NEW open \in [Lots -> Nat], NEW q \in Nat \ {0}, NEW plan, plan = Plan(open, q)
    PROVE  /\ DOMAIN plan \subseteq Lots \cup {0} /\ IsFiniteSet(DOMAIN plan)
           /\ \A l \in DOMAIN plan : plan[l] \in Nat \ {0}
           /\ DOMAIN plan # {} /\ plan # NoRows
           /\ SumFunction(plan) = q
           /\ \A l \in Lots : /\ Got(plan, l) \in 0..open[l]
                              /\ Got(plan, l) > 0 => \A k \in 1..l - 1 : Got(plan, k) = open[k]
<1> DEFINE n == Len(Stock)
<1>1. PICK took : took = [l \in Lots |-> FromLot(open, l, q)] OBVIOUS
<1>2. PICK short : short = q - SumFunction(took) OBVIOUS
<1>3. PICK A : A = {m \in Lots : took[m] > 0} OBVIOUS
<1>4. PICK D : D = A \cup (IF short > 0 THEN {0} ELSE {}) OBVIOUS
<1>5. plan = [l \in D |-> IF l = 0 THEN short ELSE took[l]]
  BY <1>1, <1>2, <1>3, <1>4 DEF Plan
<1>6. DOMAIN took = Lots /\ \A l \in Lots : took[l] = FromLot(open, l, q) BY <1>1
<1>7. \A l \in 0..n : SumFunctionOnSet(open, 1..l) \in Nat
  BY <1>6, TakenSoFar
<1>8. \A l \in Lots : /\ l - 1 \in 0..n
                      /\ took[l] = LET left == q - SumFunctionOnSet(open, 1..(l - 1)) IN
                            IF 0 >= left THEN 0 ELSE IF left <= open[l] THEN left ELSE open[l]
  <2> SUFFICES ASSUME NEW l \in Lots
               PROVE  /\ l - 1 \in 0..n
                      /\ took[l] = LET left == q - SumFunctionOnSet(open, 1..(l - 1)) IN
                            IF 0 >= left THEN 0 ELSE IF left <= open[l] THEN left ELSE open[l]
    OBVIOUS
  <2>1. l - 1 \in 0..n BY StockKnown
  <2>2. PICK left : left = q - SumFunctionOnSet(open, 1..(l - 1)) OBVIOUS
  <2>3. left \in Int /\ open[l] \in Nat BY <1>7, <2>1, <2>2
  <2>4. took[l] = Max({0, Min({left, open[l]})}) BY <1>6, <2>2 DEF FromLot, Before
  <2>5. PICK m : m = Min({left, open[l]}) OBVIOUS
  <2>6. m = IF left <= open[l] THEN left ELSE open[l] BY <2>3, <2>5, Extremes
  <2>7. took[l] = IF 0 >= m THEN 0 ELSE m BY <2>3, <2>4, <2>5, <2>6, NotBelowZero
  <2> QED BY <2>1, <2>2, <2>3, <2>6, <2>7
<1>9. \A l \in Lots : took[l] \in 0..open[l]
  <2> SUFFICES ASSUME NEW l \in Lots PROVE took[l] \in 0..open[l] OBVIOUS
  <2>1. SumFunctionOnSet(open, 1..(l - 1)) \in Nat /\ open[l] \in Nat BY <1>7, <1>8
  <2> QED BY <1>8, <2>1
<1>10. SumFunction(took) \in Nat /\ SumFunction(took) <= q
  <2>1. n \in 0..n BY StockKnown
  <2>2. /\ SumFunctionOnSet(open, 1..n) \in Nat
        /\ SumFunctionOnSet(took, 1..n) = IF q <= SumFunctionOnSet(open, 1..n) THEN q
                                          ELSE SumFunctionOnSet(open, 1..n)
    BY <1>6, <2>1, TakenSoFar
  <2>3. SumFunction(took) = SumFunctionOnSet(took, 1..n) BY <1>6, StockKnown DEF SumFunction
  <2> QED BY <2>2, <2>3
<1>11. short \in Nat BY <1>2, <1>10
<1>12. SumFunctionOnSet(took, A) = SumFunction(took)
  <2>1. \A x \in Lots : took[x] \in Int BY <1>9
  <2>2. \A x \in Lots \ A : took[x] = 0 BY <1>3, <1>9
  <2>3. A \in SUBSET Lots /\ IsFiniteSet(Lots) BY <1>3, StockKnown
  <2>4. SumFunctionOnSet(took, A) = SumFunctionOnSet(took, Lots)
    BY <2>1, <2>2, <2>3, SumOnFilter
  <2> QED BY <1>6, <2>4 DEF SumFunction
<1>13. IsFiniteSet(A) /\ A \in SUBSET Lots /\ IsFiniteSet(D) /\ D \in SUBSET (Lots \cup {0})
  <2>1. IsFiniteSet(A) /\ A \in SUBSET Lots BY <1>3, StockKnown, FS_Subset
  <2>2. IsFiniteSet(A \cup {0}) BY <2>1, FS_AddElement
  <2> QED BY <1>4, <2>1, <2>2
<1>14. DOMAIN plan = D /\ (\A l \in A : plan[l] = took[l]) /\ (0 \in D => plan[0] = short)
  <2>1. 0 \notin A BY <1>13, StockKnown
  <2> QED BY <1>4, <1>5, <2>1
<1>15. SumFunctionOnSet(plan, A) = SumFunction(took)
  BY <1>12, <1>13, <1>14, SumOnSame
<1>16. SumFunction(plan) = q
  <2>1. CASE short > 0
    <3>1. D = A \cup {0} /\ 0 \notin A BY <1>4, <1>13, <2>1, StockKnown
    <3>2. \A y \in A \cup {0} : plan[y] \in Int BY <1>9, <1>11, <1>13, <1>14, <3>1
    <3>3. SumFunctionOnSet(plan, A \cup {0}) = plan[0] + SumFunctionOnSet(plan, A)
      BY <1>13, <3>1, <3>2, SumOnAdd
    <3>4. SumFunction(plan) = short + SumFunction(took)
      BY <1>14, <1>15, <3>1, <3>3 DEF SumFunction
    <3> QED BY <1>2, <1>10, <3>4
  <2>2. CASE short = 0
    <3>1. D = A BY <1>4, <2>2
    <3>2. SumFunction(plan) = SumFunction(took) BY <1>14, <1>15, <3>1 DEF SumFunction
    <3> QED BY <1>2, <1>10, <2>2, <3>2
  <2> QED BY <1>11, <2>1, <2>2
<1>17. D # {}
  <2>1. SUFFICES ASSUME D = {} PROVE FALSE OBVIOUS
  <2>2. SumFunction(plan) = 0 BY <1>14, <2>1, SumOnEmpty DEF SumFunction
  <2> QED BY <1>16, <2>2
<1>18. plan # NoRows BY <1>14, <1>17 DEF NoRows
<1>19. \A l \in DOMAIN plan : plan[l] \in Nat \ {0}
  <2> SUFFICES ASSUME NEW l \in D PROVE plan[l] \in Nat \ {0} BY <1>14
  <2>1. CASE l \in A BY <1>3, <1>9, <1>14, <2>1
  <2>2. CASE l \notin A
    <3>1. l = 0 /\ short > 0 BY <1>4, <2>2
    <3> QED BY <1>11, <1>14, <3>1
  <2> QED BY <2>1, <2>2
<1>20. \A l \in Lots : Got(plan, l) = took[l]
  <2> SUFFICES ASSUME NEW l \in Lots PROVE Got(plan, l) = took[l] OBVIOUS
  <2>1. l \in D <=> l \in A BY <1>4, StockKnown
  <2>2. l \notin A => took[l] = 0 BY <1>3, <1>9
  <2> QED BY <1>14, <2>1, <2>2 DEF Got
<1>21. ASSUME NEW l \in Lots, took[l] > 0, NEW k \in 1..l - 1
       PROVE  k \in Lots /\ took[k] = open[k]
  <2>1. k \in Lots /\ l \in Nat /\ k \in Nat /\ k >= 1 /\ k <= l - 1 BY StockKnown
  <2>2. PICK s, t, u : /\ s = SumFunctionOnSet(open, 1..(k - 1)) /\ t = SumFunctionOnSet(open, 1..k)
                       /\ u = SumFunctionOnSet(open, 1..(l - 1))
    OBVIOUS
  <2>3. k \in 0..n /\ l - 1 \in 0..n /\ k - 1 \in 0..n BY <1>8, <2>1, StockKnown
  <2>4. s \in Nat /\ t \in Nat /\ u \in Nat /\ open[k] \in Nat BY <1>7, <2>1, <2>2, <2>3
  <2>5. t = open[k] + s
    <3>1. k \in 1..k /\ (1..k) \ {k} = 1..(k - 1) /\ IsFiniteSet(1..k)
      <4>1. k \in 1..k /\ (1..k) \ {k} = 1..(k - 1) BY <2>1
      <4>2. IsFiniteSet(1..k) BY <2>1, FS_Interval
      <4> QED BY <4>1, <4>2
    <3>2. \A x \in 1..k : open[x] \in Int
      <4>1. \A x \in 1..k : x \in Lots BY <2>3, StockKnown
      <4> QED BY <4>1
    <3>3. SumFunctionOnSet(open, 1..k) = open[k] + SumFunctionOnSet(open, (1..k) \ {k})
      BY <3>1, <3>2, SumOnRemove
    <3> QED BY <2>2, <3>1, <3>3
  <2>6. t <= u
    <3>1. 1..k \in SUBSET (1..(l - 1)) /\ IsFiniteSet(1..(l - 1))
      <4>1. 1..k \in SUBSET (1..(l - 1)) /\ l - 1 \in Int BY <2>1
      <4>2. IsFiniteSet(1..(l - 1)) BY <4>1, FS_Interval
      <4> QED BY <4>1, <4>2
    <3>2. \A x \in 1..(l - 1) : open[x] \in Nat BY <2>3, StockKnown
    <3> QED BY <2>2, <3>1, <3>2, SumOnPart
  <2>7. q - u > 0
    <3>1. took[l] = IF 0 >= q - u THEN 0 ELSE IF q - u <= open[l] THEN q - u ELSE open[l]
      BY <1>8, <2>2
    <3> QED BY <1>21, <2>4, <3>1
  <2>8. took[k] = IF 0 >= q - s THEN 0 ELSE IF q - s <= open[k] THEN q - s ELSE open[k]
    BY <1>8, <2>1, <2>2
  <2> QED BY <2>1, <2>4, <2>5, <2>6, <2>7, <2>8
<1>22. ASSUME NEW l \in Lots
       PROVE  /\ Got(plan, l) \in 0..open[l]
              /\ Got(plan, l) > 0 => \A k \in 1..l - 1 : Got(plan, k) = open[k]
  <2>1. Got(plan, l) \in 0..open[l] BY <1>9, <1>20
  <2>2. ASSUME Got(plan, l) > 0, NEW k \in 1..l - 1 PROVE Got(plan, k) = open[k]
    BY <1>20, <1>21, <2>2
  <2> QED BY <2>1, <2>2
<1> QED BY <1>13, <1>14, <1>16, <1>17, <1>18, <1>19, <1>22

SaleKept(b, c, fs, f) ==
    /\ SoundBooks(c, fs) /\ IsBooked(c, f)
    /\ \A g \in 1 .. MaxFills : g # f => c.sales[g] = b.sales[g]
    /\ c.fees = b.fees

\* A fill that is booked from the lots as they stand, after all older ones of its
\* division, leaves sound books.
LEMMA SaleKeeps ==
    ASSUME NEW fs \in Seq(Fills), Len(fs) <= MaxFills, NEW b, SoundBooks(b, fs),
           NEW f \in DOMAIN fs, ~IsBooked(b, f),
           \A g \in 1 .. MaxFills : IsBooked(b, g) /\ Pays(fs, g) = Pays(fs, f) => g < f,
           NEW took, took = Plan(b.lots, fs[f].qty), NEW lead \in DOMAIN took,
           NEW c, c = WithSale(b, f, took, lead)
    PROVE  SaleKept(b, c, fs, f)
<1>1. /\ Len(fs) \in Nat /\ DOMAIN fs = 1..Len(fs) /\ f \in 1..MaxFills
      /\ fs[f] \in Fills /\ fs[f].qty \in Nat \ {0}
  <2>1. Len(fs) \in Nat /\ DOMAIN fs = 1..Len(fs) /\ fs[f] \in Fills OBVIOUS
  <2> QED BY <2>1, StockKnown DEF Fills
<1>2. /\ b = [lots |-> b.lots, sales |-> b.sales, fees |-> b.fees,
              listed |-> b.listed, flagged |-> b.flagged]
      /\ b.lots \in [Lots -> Nat] /\ b.fees \in [OrderFees -> {0, 1}]
      /\ DOMAIN b.listed \subseteq Orders
      /\ b.sales = [g \in 1 .. MaxFills |-> b.sales[g]]
  BY DEF SoundBooks, BooksOK
<1>3. PICK row : row = [took |-> took, lead |-> lead, tax |-> [l \in DOMAIN took |-> 0]] OBVIOUS
<1>4. /\ c.lots = [l \in Lots |-> b.lots[l] - Got(took, l)]
      /\ c.sales = [b.sales EXCEPT ![f] = row] /\ c.fees = b.fees /\ c.listed = b.listed
      /\ c = [lots |-> c.lots, sales |-> c.sales, fees |-> c.fees,
              listed |-> c.listed, flagged |-> c.flagged]
  BY <1>2, <1>3 DEF WithSale, Got
<1>5. /\ DOMAIN took \subseteq Lots \cup {0} /\ IsFiniteSet(DOMAIN took)
      /\ \A l \in DOMAIN took : took[l] \in Nat \ {0}
      /\ took # NoRows /\ SumFunction(took) = fs[f].qty
      /\ \A l \in Lots : /\ Got(took, l) \in 0..b.lots[l]
                         /\ Got(took, l) > 0 => \A k \in 1..l - 1 : Got(took, k) = b.lots[k]
  BY <1>1, <1>2, PlanTakes
<1>6. DOMAIN c.sales = 1..MaxFills /\ c.sales[f] = row
      /\ \A g \in 1 .. MaxFills : g # f => c.sales[g] = b.sales[g]
  BY <1>1, <1>2, <1>4
<1>7. IsBooked(c, f) /\ \A g \in 1 .. MaxFills : g # f => (IsBooked(c, g) <=> IsBooked(b, g))
  BY <1>3, <1>5, <1>6 DEF IsBooked
<1>8. \A l \in Lots : Sells(c, f, l) = Got(took, l) /\ Sells(b, f, l) = 0
  <2>1. b.sales[f].took = NoRows BY DEF IsBooked
  <2> QED BY <1>3, <1>6, <2>1 DEF Sells, Got, NoRows
<1>9. \A g \in 1 .. MaxFills, l \in Lots : g # f => Sells(c, g, l) = Sells(b, g, l)
  BY <1>6 DEF Sells
<1>10. \A g \in 1 .. MaxFills, l \in Lots : Sells(b, g, l) \in Nat /\ Sells(c, g, l) \in Nat
  <2>1. \A g \in 1 .. MaxFills, l \in Lots : Sells(b, g, l) \in Nat
    BY DEF SoundBooks, BooksOK, SaleOK, Sells
  <2> QED BY <1>5, <1>8, <1>9, <2>1
<1>11. c.lots \in [Lots -> Nat] /\ \A l \in Lots : c.lots[l] = b.lots[l] - Got(took, l)
  BY <1>2, <1>4, <1>5
<1>12. BooksOK(c, fs)
  <2>1. c.sales = [g \in 1 .. MaxFills |-> c.sales[g]] BY <1>2, <1>4, <1>6
  <2>2. SaleOK(c, fs, f)
    BY <1>1, <1>3, <1>5, <1>6 DEF SaleOK, TaxStates
  <2>3. ASSUME NEW g \in 1 .. MaxFills, g # f PROVE SaleOK(c, fs, g)
    <3>1. SaleOK(b, fs, g) BY DEF SoundBooks, BooksOK
    <3>2. c.sales[g] = b.sales[g] /\ (IsBooked(c, g) <=> IsBooked(b, g)) BY <1>6, <1>7, <2>3
    <3> QED BY <3>1, <3>2 DEF SaleOK
  <2> QED BY <1>2, <1>4, <1>11, <2>1, <2>2, <2>3 DEF BooksOK
<1>13. AddsUp(c)
  <2> SUFFICES ASSUME NEW l \in Lots
               PROVE  Stock[l] = c.lots[l] + SumFunction([g \in 1 .. MaxFills |-> Sells(c, g, l)])
    BY DEF AddsUp
  <2> DEFINE x == [g \in 1 .. MaxFills |-> Sells(b, g, l)]
             y == [g \in 1 .. MaxFills |-> Sells(c, g, l)]
  <2>1. DOMAIN x = 1..MaxFills /\ DOMAIN y = 1..MaxFills OBVIOUS
  <2>2. x[f] = 0 /\ y[f] = Got(took, l) BY <1>1, <1>8
  <2>3. \A g \in 1..MaxFills : x[g] \in Nat /\ y[g] \in Nat BY <1>10
  <2>4. \A g \in (1..MaxFills) \ {f} : y[g] = x[g] BY <1>9
  <2>5. Stock[l] = b.lots[l] + SumFunction(x) BY DEF SoundBooks, AddsUp
  <2> HIDE DEF x, y
  <2>6. \A g \in 1..MaxFills : x[g] \in Int /\ y[g] \in Int BY <2>3
  <2>7. SumFunctionOnSet(y, 1..MaxFills) = SumFunctionOnSet(x, 1..MaxFills) - x[f] + y[f]
    <3>1. IsFiniteSet(1..MaxFills) /\ f \in 1..MaxFills BY <1>1, StockKnown
    <3>2. PICK I : I = 1..MaxFills OBVIOUS
    <3>3. IsFiniteSet(I) /\ f \in I /\ (\A g \in I : x[g] \in Int /\ y[g] \in Int)
          /\ \A g \in I \ {f} : y[g] = x[g]
      BY <2>4, <2>6, <3>1, <3>2
    <3>4. SumFunctionOnSet(y, I) = SumFunctionOnSet(x, I) - x[f] + y[f] BY <3>3, SumOnChange
    <3> QED BY <3>2, <3>4
  <2>8. SumFunctionOnSet(x, 1..MaxFills) \in Nat BY <2>3, SumOnNat, StockKnown
  <2>9. SumFunction(y) = SumFunction(x) + Got(took, l) /\ SumFunction(x) \in Nat
    BY <2>1, <2>2, <2>7, <2>8, <1>5, <1>2 DEF SumFunction
  <2>10. c.lots[l] = b.lots[l] - Got(took, l) /\ b.lots[l] \in Nat /\ Got(took, l) \in Nat
    BY <1>2, <1>5, <1>11
  <2>11. Stock[l] = c.lots[l] + SumFunction(y) BY <2>5, <2>9, <2>10
  <2> QED BY <2>11 DEF y
<1>14. OlderDry(c)
  <2> SUFFICES ASSUME NEW g \in 1 .. MaxFills, NEW l \in Lots, Sells(c, g, l) > 0,
                      NEW k \in 1 .. l - 1
               PROVE  c.lots[k] = 0
    BY DEF OlderDry
  <2>1. k \in Lots BY StockKnown
  <2>2. b.lots[k] \in Nat /\ Got(took, k) \in 0..b.lots[k] /\ c.lots[k] = b.lots[k] - Got(took, k)
    BY <1>2, <1>5, <1>11, <2>1
  <2>3. CASE g = f BY <1>5, <1>8, <2>2, <2>3
  <2>4. CASE g # f
    <3>1. b.lots[k] = 0 BY <1>9, <2>4 DEF SoundBooks, OlderDry
    <3> QED BY <2>2, <3>1
  <2> QED BY <2>3, <2>4
<1>15. InTurn(c, fs)
  <2> SUFFICES ASSUME NEW g \in 1 .. MaxFills, NEW h \in 1 .. MaxFills,
                      IsBooked(c, g), IsBooked(c, h), g < h, Pays(fs, g) = Pays(fs, h),
                      NEW k \in Lots, NEW l \in Lots, Sells(c, g, l) > 0, Sells(c, h, k) > 0
               PROVE  l <= k
    BY DEF InTurn
  <2>1. CASE g # f /\ h # f
    <3>1. IsBooked(b, g) /\ IsBooked(b, h) /\ Sells(b, g, l) > 0 /\ Sells(b, h, k) > 0
      BY <1>7, <1>9, <2>1
    <3> QED BY <3>1 DEF SoundBooks, InTurn
  <2>2. CASE h = f
    <3>1. g # f /\ Sells(b, g, l) > 0 /\ Got(took, k) > 0 BY <1>8, <1>9, <2>2
    <3>2. \A j \in 1 .. l - 1 : b.lots[j] = 0 BY <3>1 DEF SoundBooks, OlderDry
    <3>3. b.lots[k] > 0 BY <1>2, <1>5, <3>1
    <3>4. k \in Nat /\ l \in Nat /\ k >= 1 BY StockKnown
    <3> QED BY <3>2, <3>3, <3>4
  <2>3. CASE g = f /\ h # f
    <3>1. IsBooked(b, h) BY <1>7, <2>3
    <3>2. h < f BY <2>3, <3>1
    <3> QED BY <1>1, <2>3, <3>2
  <2> QED BY <2>1, <2>2, <2>3
<1> QED BY <1>4, <1>6, <1>7, <1>12, <1>13, <1>14, <1>15 DEF SoundBooks, SaleKept


\* The whole tax on the leading row, and a sale row that gets it.
TaxShows(sale) == sale.tax = [l \in DOMAIN sale.took |-> IF l = sale.lead THEN Tax ELSE 0]
WithTax(sale) == [took |-> sale.took, lead |-> sale.lead,
                  tax |-> [l \in DOMAIN sale.took |-> IF l = sale.lead THEN Tax ELSE 0]]

\* A fill that shows no tax, and one that shows it on its leading row.
LEMMA TaxShown ==
    ASSUME NEW b, NEW fs, BooksOK(b, fs), NEW f \in 1 .. MaxFills, IsBooked(b, f)
    PROVE  TaxOn(b, f) \in {0, Tax} /\ (TaxShows(b.sales[f]) => TaxOn(b, f) = Tax)
<1> DEFINE sale == b.sales[f]
           D == DOMAIN sale.took
<1>1. D \subseteq Lots \cup {0} /\ sale.lead \in D /\ sale.tax \in TaxStates(sale)
  BY DEF BooksOK, SaleOK
<1>2. IsFiniteSet(D)
  <2>1. IsFiniteSet(Lots \cup {0}) BY StockKnown, FS_AddElement
  <2> QED BY <1>1, <2>1, FS_Subset
<1>3. ASSUME sale.tax = [l \in D |-> 0] PROVE TaxOn(b, f) = 0
  <2>1. DOMAIN sale.tax = D /\ \A l \in D : sale.tax[l] = 0 BY <1>3
  <2>2. SumFunctionOnSet(sale.tax, D) = 0 BY <1>2, <2>1, SumOnZero
  <2> QED BY <2>1, <2>2 DEF TaxOn, SumFunction
<1>4. ASSUME sale.tax = [l \in D |-> IF l = sale.lead THEN Tax ELSE 0] PROVE TaxOn(b, f) = Tax
  <2>1. DOMAIN sale.tax = D /\ sale.tax[sale.lead] = Tax
        /\ \A l \in D \ {sale.lead} : sale.tax[l] = 0
    BY <1>1, <1>4
  <2>2. sale.tax[sale.lead] \in Int BY <2>1, StockKnown
  <2>3. SumFunctionOnSet(sale.tax, D) = sale.tax[sale.lead]
    BY <1>1, <1>2, <2>1, <2>2, SumOnOne
  <2> QED BY <2>1, <2>3 DEF TaxOn, SumFunction
<1> QED BY <1>1, <1>3, <1>4 DEF TaxStates, TaxShows

\* Books that show the same units for every fill are as sound.
LEMMA SameUnits ==
    ASSUME NEW fs, NEW b, SoundBooks(b, fs), NEW c, BooksOK(c, fs), c.lots = b.lots,
           \A f \in 1 .. MaxFills : c.sales[f].took = b.sales[f].took
    PROVE  SoundBooks(c, fs) /\ \A f \in 1 .. MaxFills : IsBooked(c, f) <=> IsBooked(b, f)
<1>1. \A f \in 1 .. MaxFills : IsBooked(c, f) <=> IsBooked(b, f) BY DEF IsBooked
<1>2. \A f \in 1 .. MaxFills, l \in Lots : Sells(c, f, l) = Sells(b, f, l) BY DEF Sells
<1>3. AddsUp(c)
  <2> SUFFICES ASSUME NEW l \in Lots
               PROVE  Stock[l] = c.lots[l] + SumFunction([f \in 1 .. MaxFills |-> Sells(c, f, l)])
    BY DEF AddsUp
  <2>1. [f \in 1 .. MaxFills |-> Sells(c, f, l)] = [f \in 1 .. MaxFills |-> Sells(b, f, l)]
    BY <1>2
  <2> QED BY <2>1 DEF SoundBooks, AddsUp
<1>4. OlderDry(c) BY <1>2 DEF SoundBooks, OlderDry
<1>5. InTurn(c, fs)
  <2>1. InTurn(b, fs) BY DEF SoundBooks
  <2> QED BY <1>1, <1>2, <2>1 DEF InTurn
<1> QED BY <1>1, <1>3, <1>4, <1>5 DEF SoundBooks

Journalled(b, entries) ==
    [b EXCEPT !.sales = Taxed(b, entries), !.fees = Charged(b, entries)]

JournalKept(b, c, fs) ==
    /\ SoundBooks(c, fs)
    /\ \A f \in 1 .. MaxFills : c.sales[f].took = b.sales[f].took
    /\ \A f \in 1 .. MaxFills : IsBooked(c, f) <=> IsBooked(b, f)
    /\ \A f \in 1 .. MaxFills : IsBooked(b, f) => TaxOn(b, f) <= TaxOn(c, f)
    /\ \A o \in OrderFees : b.fees[o] <= c.fees[o]

\* A pass over the journal leaves sound books, on which no tax and no fee went down.
LEMMA JournalKeeps ==
    ASSUME NEW fs, NEW b, SoundBooks(b, fs), NEW entries,
           NEW c, c = Journalled(b, entries)
    PROVE  JournalKept(b, c, fs)
<1>1. /\ b = [lots |-> b.lots, sales |-> b.sales, fees |-> b.fees,
              listed |-> b.listed, flagged |-> b.flagged]
      /\ b.lots \in [Lots -> Nat] /\ b.fees \in [OrderFees -> {0, 1}]
      /\ DOMAIN b.listed \subseteq Orders /\ \A f \in 1 .. MaxFills : SaleOK(b, fs, f)
  BY DEF SoundBooks, BooksOK
<1>2. PICK sales, fees : sales = Taxed(b, entries) /\ fees = Charged(b, entries) OBVIOUS
<1>3. c.lots = b.lots /\ c.sales = sales /\ c.fees = fees /\ c.listed = b.listed
      /\ c = [lots |-> c.lots, sales |-> c.sales, fees |-> c.fees,
              listed |-> c.listed, flagged |-> c.flagged]
  BY <1>1, <1>2 DEF Journalled
<1>4. fees \in [OrderFees -> {0, 1}] /\ \A o \in OrderFees : b.fees[o] <= fees[o]
  BY <1>1, <1>2 DEF Charged
<1>5. sales = [f \in 1 .. MaxFills |-> sales[f]]
      /\ \A f \in 1 .. MaxFills :
           \/ sales[f] = b.sales[f]
           \/ IsBooked(b, f) /\ sales[f] = TaxSet(b.sales[f])
  BY <1>2 DEF Taxed
<1>6. \A f \in 1 .. MaxFills :
         sales[f] = b.sales[f] \/ (IsBooked(b, f) /\ sales[f] = WithTax(b.sales[f]))
  <2> SUFFICES ASSUME NEW f \in 1 .. MaxFills, sales[f] # b.sales[f]
               PROVE  IsBooked(b, f) /\ sales[f] = WithTax(b.sales[f])
    OBVIOUS
  <2>1. PICK sale : sale = b.sales[f] OBVIOUS
  <2>2. PICK tax : tax = [l \in DOMAIN sale.took |-> IF l = sale.lead THEN Tax ELSE 0] OBVIOUS
  <2>3. sale = [took |-> sale.took, lead |-> sale.lead, tax |-> sale.tax]
    BY <1>1, <2>1 DEF SaleOK
  <2>4. IsBooked(b, f) /\ sales[f] = [sale EXCEPT !.tax = tax] BY <1>5, <2>1, <2>2 DEF TaxSet
  <2>5. sales[f] = [took |-> sale.took, lead |-> sale.lead, tax |-> tax] BY <2>3, <2>4
  <2> QED BY <2>1, <2>2, <2>4, <2>5 DEF WithTax
<1>7. \A f \in 1 .. MaxFills : c.sales[f].took = b.sales[f].took
  <2>1. \A sale : WithTax(sale).took = sale.took BY DEF WithTax
  <2> QED BY <1>3, <1>6, <2>1
<1>8. BooksOK(c, fs)
  <2>1. ASSUME NEW f \in 1 .. MaxFills PROVE SaleOK(c, fs, f)
    <3>1. SaleOK(b, fs, f) /\ (IsBooked(c, f) <=> IsBooked(b, f)) BY <1>1, <1>7 DEF IsBooked
    <3>2. CASE sales[f] = b.sales[f] BY <1>3, <3>1, <3>2 DEF SaleOK
    <3>3. CASE sales[f] # b.sales[f]
      <4>1. PICK sale, new : sale = b.sales[f] /\ new = c.sales[f] OBVIOUS
      <4>2. IsBooked(b, f)
            /\ new = [took |-> sale.took, lead |-> sale.lead,
                      tax |-> [l \in DOMAIN sale.took |-> IF l = sale.lead THEN Tax ELSE 0]]
        BY <1>3, <1>6, <3>3, <4>1 DEF WithTax
      <4>3. /\ DOMAIN sale.took \subseteq Lots \cup {0}
            /\ \A l \in DOMAIN sale.took : sale.took[l] \in Nat \ {0}
            /\ f \in DOMAIN fs /\ SumFunction(sale.took) = fs[f].qty
            /\ sale.lead \in DOMAIN sale.took
        BY <3>1, <4>1, <4>2 DEF SaleOK
      <4>4. new.took = sale.took /\ new.lead = sale.lead
            /\ new = [took |-> new.took, lead |-> new.lead, tax |-> new.tax]
            /\ new.tax = [l \in DOMAIN sale.took |-> IF l = sale.lead THEN Tax ELSE 0]
        BY <4>2
      <4>5. new.tax \in TaxStates(new) BY <4>4 DEF TaxStates
      <4> QED BY <4>1, <4>3, <4>4, <4>5 DEF SaleOK
    <3> QED BY <3>2, <3>3
  <2> QED BY <1>1, <1>3, <1>4, <1>5, <2>1 DEF BooksOK
<1>9. SoundBooks(c, fs) /\ \A f \in 1 .. MaxFills : IsBooked(c, f) <=> IsBooked(b, f)
  BY <1>3, <1>7, <1>8, SameUnits
<1>10. ASSUME NEW f \in 1 .. MaxFills, IsBooked(b, f) PROVE TaxOn(b, f) <= TaxOn(c, f)
  <2>1. TaxOn(b, f) \in {0, Tax} BY <1>10, TaxShown DEF SoundBooks
  <2>2. CASE sales[f] = b.sales[f]
    <3>1. TaxOn(c, f) = TaxOn(b, f) BY <1>3, <2>2 DEF TaxOn
    <3> QED BY <2>1, <3>1, StockKnown
  <2>3. CASE sales[f] # b.sales[f]
    <3>1. PICK sale, new : sale = b.sales[f] /\ new = c.sales[f] OBVIOUS
    <3>2. new = [took |-> sale.took, lead |-> sale.lead,
                 tax |-> [l \in DOMAIN sale.took |-> IF l = sale.lead THEN Tax ELSE 0]]
      BY <1>3, <1>6, <2>3, <3>1 DEF WithTax
    <3>3. TaxShows(new) BY <3>2 DEF TaxShows
    <3>4. TaxOn(c, f) = Tax BY <1>8, <1>9, <1>10, <3>1, <3>3, TaxShown
    <3> QED BY <2>1, <3>4, StockKnown
  <2> QED BY <2>2, <2>3
<1> QED BY <1>3, <1>4, <1>7, <1>9, <1>10 DEF JournalKept

FillKept(fs, gs) ==
    /\ gs \in Seq(Fills) /\ Len(gs) <= MaxFills /\ DOMAIN fs \subseteq DOMAIN gs
    /\ \A f \in DOMAIN fs : Pays(gs, f) = Pays(fs, f)
    /\ \A b : SoundBooks(b, fs) =>
         /\ SoundBooks(b, gs)
         /\ \A left \in SUBSET DOMAIN fs : NoneSkipped(b, left, fs) => NoneSkipped(b, left, gs)

\* Another fill takes nothing from the books, and pushes others off their page.
LEMMA FillKeeps ==
    ASSUME NEW fs \in Seq(Fills), NEW x \in Fills, Len(fs) < MaxFills, NEW gs, gs = Append(fs, x)
    PROVE  FillKept(fs, gs)
<1>1. /\ Len(fs) \in Nat /\ DOMAIN fs = 1..Len(fs) /\ gs \in Seq(Fills)
      /\ Len(gs) = Len(fs) + 1 /\ DOMAIN gs = 1..Len(gs)
      /\ \A f \in DOMAIN fs : gs[f] = fs[f]
  OBVIOUS
<1>2. \A f \in DOMAIN fs : Pays(gs, f) = Pays(fs, f) BY <1>1 DEF Pays
<1>3. Len(gs) <= MaxFills /\ DOMAIN fs \subseteq DOMAIN gs BY <1>1, StockKnown
<1>4. ASSUME NEW b, SoundBooks(b, fs)
      PROVE  /\ SoundBooks(b, gs)
             /\ \A f \in 1 .. MaxFills : IsBooked(b, f) => f \in DOMAIN fs
  <2>1. \A f \in 1 .. MaxFills : SaleOK(b, fs, f) BY <1>4 DEF SoundBooks, BooksOK
  <2>2. \A f \in 1 .. MaxFills : IsBooked(b, f) => f \in DOMAIN fs BY <2>1 DEF SaleOK
  <2>3. \A f \in 1 .. MaxFills : SaleOK(b, gs, f) BY <1>1, <1>3, <2>1 DEF SaleOK
  <2>4. BooksOK(b, gs) BY <1>4, <2>3 DEF SoundBooks, BooksOK
  <2>5. InTurn(b, gs)
    <3>1. InTurn(b, fs) BY <1>4 DEF SoundBooks
    <3> QED BY <1>2, <2>2, <3>1 DEF InTurn
  <2> QED BY <1>4, <2>2, <2>4, <2>5 DEF SoundBooks
<1>5. ASSUME NEW f \in DOMAIN fs, Paged(gs, f) PROVE Paged(fs, f)
  <2>1. Newer(fs, f) \subseteq Newer(gs, f) BY <1>2, <1>3 DEF Newer
  <2>2. IsFiniteSet(DOMAIN gs) BY <1>1, FS_Interval
  <2>3. IsFiniteSet(Newer(gs, f)) BY <2>2, FS_Subset DEF Newer
  <2>4. /\ Cardinality(Newer(fs, f)) <= Cardinality(Newer(gs, f))
        /\ Cardinality(Newer(gs, f)) \in Nat /\ Cardinality(Newer(fs, f)) \in Nat
    BY <2>1, <2>3, FS_Subset, FS_CardinalityType
  <2> QED BY <1>5, <2>4, StockKnown DEF Paged
<1>6. ASSUME NEW b, SoundBooks(b, fs), NEW left \in SUBSET DOMAIN fs, NoneSkipped(b, left, fs)
      PROVE  NoneSkipped(b, left, gs)
  <2> SUFFICES ASSUME NEW f \in DOMAIN gs, NEW g \in DOMAIN gs, f < g, Pays(gs, f) = Pays(gs, g),
                      Paged(gs, f), IsBooked(b, g) \/ g \in left
               PROVE  IsBooked(b, f) \/ f \in left
    BY DEF NoneSkipped
  <2>1. f \in 1..MaxFills /\ g \in 1..MaxFills BY <1>1, <1>3, StockKnown
  <2>2. g \in DOMAIN fs BY <1>4, <1>6, <2>1
  <2>3. f \in DOMAIN fs BY <1>1, <2>2
  <2>4. Pays(fs, f) = Pays(fs, g) /\ Paged(fs, f) BY <1>2, <1>5, <2>2, <2>3
  <2> QED BY <1>6, <2>2, <2>3, <2>4 DEF NoneSkipped
<1> QED BY <1>1, <1>2, <1>3, <1>4, <1>6 DEF FillKept

\* Books with nothing in them are sound.
LEMMA NothingBooked ==
    ASSUME NEW fs
    PROVE  /\ SoundBooks(Books, fs)
           /\ \A f \in 1 .. MaxFills : ~IsBooked(Books, f)
<1> DEFINE none == [took |-> NoRows, lead |-> 0, tax |-> NoRows]
<1>1. /\ Books.lots = Stock /\ Books.sales = [f \in 1 .. MaxFills |-> none]
      /\ Books.fees = [o \in OrderFees |-> 0] /\ Books.listed = [o \in {} |-> 0]
      /\ Books = [lots |-> Books.lots, sales |-> Books.sales, fees |-> Books.fees,
                  listed |-> Books.listed, flagged |-> Books.flagged]
  BY DEF Books
<1>2. \A f \in 1 .. MaxFills : Books.sales[f] = none BY <1>1
<1>3. \A f \in 1 .. MaxFills : ~IsBooked(Books, f) BY <1>2 DEF IsBooked
<1>4. DOMAIN NoRows = {} BY DEF NoRows
<1>5. Stock \in [Lots -> Nat] BY StockKnown
<1>6. BooksOK(Books, fs)
  <2>1. \A f \in 1 .. MaxFills : SaleOK(Books, fs, f) BY <1>2, <1>3, <1>4 DEF SaleOK
  <2>2. Books.sales = [f \in 1 .. MaxFills |-> Books.sales[f]] BY <1>1
  <2> QED BY <1>1, <1>5, <2>1, <2>2 DEF BooksOK
<1>7. \A f \in 1 .. MaxFills, l \in Lots : Sells(Books, f, l) = 0 BY <1>2, <1>4 DEF Sells
<1>8. AddsUp(Books)
  <2> SUFFICES ASSUME NEW l \in Lots
               PROVE  Stock[l] = Books.lots[l] + SumFunction([f \in 1 .. MaxFills |-> Sells(Books, f, l)])
    BY DEF AddsUp
  <2> DEFINE x == [f \in 1 .. MaxFills |-> Sells(Books, f, l)]
  <2>1. DOMAIN x = 1..MaxFills /\ \A f \in 1..MaxFills : x[f] = 0 BY <1>7
  <2>2. SumFunctionOnSet(x, 1..MaxFills) = 0 BY <2>1, StockKnown, SumOnZero
  <2>3. SumFunction(x) = 0 BY <2>1, <2>2 DEF SumFunction
  <2> QED BY <1>1, <2>3, StockKnown
<1>9. OlderDry(Books) /\ InTurn(Books, fs) BY <1>3, <1>7 DEF OlderDry, InTurn
<1> QED BY <1>3, <1>6, <1>8, <1>9 DEF SoundBooks

\* What shows on the page of a division.
LEMMA PageShows ==
    ASSUME NEW d
    PROVE  \A f : f \in WalletPage(d)
                    <=> f \in DOMAIN fills /\ Pays(fills, f) = d /\ Paged(fills, f)
<1> DEFINE paid == {f \in DOMAIN fills : FillDivision(f) = d}
<1>1. \A f \in DOMAIN fills : FillDivision(f) = Pays(fills, f) BY DEF FillDivision, Pays
<1>2. \A f \in paid : {j \in paid : j > f} = Newer(fills, f) BY <1>1 DEF Newer
<1>3. WalletPage(d) = {f \in paid : Cardinality({j \in paid : j > f}) < Page}
  BY DEF WalletPage, Latest
<1> QED BY <1>1, <1>2, <1>3 DEF Paged

LEMMA FillsKnown ==
    ASSUME World
    PROVE  /\ fills \in Seq(Fills) /\ Len(fills) \in Nat /\ DOMAIN fills = 1 .. Len(fills)
           /\ DOMAIN fills \subseteq 1 .. MaxFills /\ Len(fills) <= MaxFills
           /\ \A f \in DOMAIN fills : /\ fills[f].order \in Orders
                                      /\ fills[f].qty \in Nat \ {0}
<1>1. fills \in Seq(Fills) /\ Len(fills) <= MaxFills BY DEF World
<1>2. Len(fills) \in Nat /\ DOMAIN fills = 1..Len(fills) BY <1>1
<1>3. \A f \in DOMAIN fills : fills[f] \in Fills BY <1>1, <1>2
<1> QED BY <1>1, <1>2, <1>3, StockKnown DEF Fills

LEMMA BookedIsFill ==
    ASSUME NEW b, NEW fs, SoundBooks(b, fs), NEW f \in 1 .. MaxFills, IsBooked(b, f)
    PROVE  f \in DOMAIN fs
BY DEF SoundBooks, BooksOK, SaleOK

LEMMA SalesInvInit == SalesInit => SalesInv
<1> SUFFICES ASSUME SalesInit PROVE SalesInv OBVIOUS
<1>1. /\ fills = <<>> /\ db = Books /\ draft = Books /\ pc = "idle" /\ todo = {}
      /\ division \in Divisions /\ of = Nil /\ switches = 0 /\ failures = 0
      /\ orders = [o \in Orders |-> Nil] /\ hangar = SumFunction(Stock) + Extra
  BY DEF SalesInit
<1>2. SumFunction(Stock) \in Nat
  <2>1. SumFunctionOnSet(Stock, Lots) \in Nat BY StockKnown, SumOnNat
  <2> QED BY <2>1, StockKnown DEF SumFunction
<1>3. MaxSwitches \in Nat /\ MaxFailures \in Nat /\ MaxFills \in Nat /\ Extra \in Nat
  BY NumbersAssumption
<1>4. World BY <1>1, <1>2, <1>3 DEF World
<1>5. DOMAIN fills = {} BY <1>1
<1>6. SoundBooks(db, fills) /\ SoundBooks(draft, fills) BY <1>1, NothingBooked
<1>7. Ahead /\ NoneSkipped(db, {}, fills) BY <1>1, <1>5 DEF Ahead, NoneSkipped
<1> QED BY <1>1, <1>4, <1>6, <1>7 DEF SalesInv

LEMMA StartStep ==
    ASSUME SalesInv, Start PROVE SalesInv'
<1>1. /\ pc = "idle" /\ division # Nil /\ of' = division /\ draft' = db /\ pc' = "orders"
      /\ UNCHANGED <<hangar, orders, fills, journal, division, db, todo, switches, failures>>
  BY DEF Start, eve
<1>2. World /\ SoundBooks(db, fills) /\ Ahead /\ NoneSkipped(db, {}, fills) BY DEF SalesInv
<1>3. World' BY <1>1, <1>2 DEF World
<1>4. todo' = {} BY <1>1, <1>2 DEF Ahead
<1>5. Ahead' BY <1>1, <1>4 DEF Ahead
<1>6. Drafted'
  <2>1. \A f \in 1 .. MaxFills : IsBooked(db, f) => TaxOn(db, f) \in {0, Tax}
    BY <1>2, TaxShown DEF SoundBooks
  <2>2. \A f \in 1 .. MaxFills : IsBooked(db, f) => TaxOn(db, f) <= TaxOn(db, f)
    BY <2>1, StockKnown
  <2>3. \A o \in OrderFees : db.fees[o] <= db.fees[o] BY <1>2 DEF SoundBooks, BooksOK
  <2> QED BY <1>1, <2>2, <2>3 DEF Drafted
<1> QED BY <1>1, <1>2, <1>3, <1>5, <1>6 DEF SalesInv

LEMMA FetchOrdersStep ==
    ASSUME SalesInv, FetchOrders PROVE SalesInv'
<1>1. /\ pc = "orders" /\ pc' = "fills"
      /\ UNCHANGED <<hangar, orders, fills, journal, division, db, of, todo, switches, failures>>
  BY DEF FetchOrders, eve
<1>2. World /\ SoundBooks(db, fills) /\ SoundBooks(draft, fills) /\ Ahead /\ Drafted
      /\ NoneSkipped(db, {}, fills)
  BY <1>1 DEF SalesInv
<1>3. PICK x : draft' = [draft EXCEPT !.listed = Snapshot, !.flagged = x]
  BY ZenonT(40) DEF FetchOrders
<1>4. draft = [lots |-> draft.lots, sales |-> draft.sales, fees |-> draft.fees,
               listed |-> draft.listed, flagged |-> draft.flagged]
  BY <1>2 DEF SoundBooks, BooksOK
<1>5. PICK listed : listed = Snapshot OBVIOUS
<1>6. DOMAIN listed \subseteq Orders BY <1>5 DEF Snapshot, Live
<1>7. /\ draft'.lots = draft.lots /\ draft'.sales = draft.sales /\ draft'.fees = draft.fees
      /\ draft'.listed = listed
      /\ draft' = [lots |-> draft'.lots, sales |-> draft'.sales, fees |-> draft'.fees,
                   listed |-> draft'.listed, flagged |-> draft'.flagged]
  BY <1>3, <1>4, <1>5
<1>8. BooksOK(draft', fills)
  <2>1. BooksOK(draft, fills) BY <1>2 DEF SoundBooks
  <2>2. \A f \in 1 .. MaxFills : SaleOK(draft', fills, f)
    BY <1>7, <2>1 DEF BooksOK, SaleOK, IsBooked
  <2> QED BY <1>6, <1>7, <2>1, <2>2 DEF BooksOK
<1>9. SoundBooks(draft', fills) /\ \A f \in 1 .. MaxFills : IsBooked(draft', f) <=> IsBooked(draft, f)
  BY <1>2, <1>7, <1>8, SameUnits
<1>10. World' BY <1>1, <1>2 DEF World
<1>11. Ahead' BY <1>1, <1>2 DEF Ahead
<1>12. Drafted' BY <1>1, <1>2, <1>7, <1>9 DEF Drafted, TaxOn
<1>13. SoundBooks(db', fills') /\ SoundBooks(draft', fills') /\ NoneSkipped(db', {}, fills')
  BY <1>1, <1>2, <1>9
<1> QED BY <1>1, <1>10, <1>11, <1>12, <1>13 DEF SalesInv

LEMMA FetchFillsStep ==
    ASSUME SalesInv, FetchFills PROVE SalesInv'
<1>1. /\ pc = "fills" /\ pc' = "book" /\ todo' = {f \in WalletPage(of) : ~IsBooked(db, f)}
      /\ UNCHANGED <<hangar, orders, fills, journal, division, db, of, draft, switches, failures>>
  BY DEF FetchFills, Unseen, eve
<1>2. World /\ SoundBooks(db, fills) /\ SoundBooks(draft, fills) /\ Drafted
      /\ NoneSkipped(db, {}, fills) /\ draft.sales = db.sales
  BY <1>1 DEF SalesInv, Drafted
<1>3. \A f : f \in todo' <=> /\ f \in DOMAIN fills /\ Pays(fills, f) = of /\ Paged(fills, f)
                             /\ ~IsBooked(db, f)
  BY <1>1, PageShows
<1>4. DOMAIN fills \subseteq 1 .. MaxFills BY <1>2, FillsKnown
<1>5. \A f \in 1 .. MaxFills : IsBooked(draft, f) <=> IsBooked(db, f) BY <1>2 DEF IsBooked
<1>6. Ahead'
  <2>1. todo' \in SUBSET DOMAIN fills BY <1>3
  <2>2. ASSUME NEW f \in todo', NEW g \in 1 .. MaxFills, IsBooked(draft, g), Pays(fills, g) = of
        PROVE  g < f
    <3> SUFFICES ASSUME g >= f PROVE FALSE BY <1>3, <1>4
    <3>1. IsBooked(db, g) /\ g \in DOMAIN fills BY <1>2, <1>5, <2>2, BookedIsFill
    <3>2. f # g /\ f < g BY <1>3, <1>4, <3>1
    <3> QED BY <1>2, <1>3, <2>2, <3>1, <3>2 DEF NoneSkipped
  <2>3. \A f \in todo' : Pays(fills, f) = of /\ ~IsBooked(draft, f) BY <1>3, <1>4, <1>5
  <2> QED BY <1>1, <2>1, <2>2, <2>3 DEF Ahead
<1>7. NoneSkipped(draft, todo', fills)
  <2> SUFFICES ASSUME NEW f \in DOMAIN fills, NEW g \in DOMAIN fills, f < g,
                      Pays(fills, f) = Pays(fills, g), Paged(fills, f),
                      IsBooked(draft, g) \/ g \in todo'
               PROVE  IsBooked(draft, f) \/ f \in todo'
    BY DEF NoneSkipped
  <2>1. CASE IsBooked(draft, g)
    <3>1. IsBooked(db, g) BY <1>4, <1>5, <2>1
    <3>2. IsBooked(db, f) BY <1>2, <3>1 DEF NoneSkipped
    <3> QED BY <1>4, <1>5, <3>2
  <2>2. CASE g \in todo' BY <1>3, <1>4, <1>5, <2>2
  <2> QED BY <2>1, <2>2
<1>8. World' BY <1>1, <1>2 DEF World
<1>9. Drafted' BY <1>1, <1>2 DEF Drafted
<1>10. SoundBooks(db', fills') /\ SoundBooks(draft', fills') /\ NoneSkipped(db', {}, fills')
       /\ NoneSkipped(draft', todo', fills')
  BY <1>1, <1>2, <1>7
<1> QED BY <1>1, <1>6, <1>8, <1>9, <1>10 DEF SalesInv

\* The next fill is the oldest of those to book.
LEMMA NextIsOldest ==
    ASSUME World, todo \in SUBSET DOMAIN fills, todo # {}
    PROVE  NextFill \in todo /\ \A f \in todo : NextFill <= f
<1>1. todo \in SUBSET Nat BY FillsKnown, StockKnown
<1>2. \E m \in todo : \A k \in todo : m <= k BY <1>1, LeastNumber
<1> QED BY <1>2 DEF NextFill, Min

LEMMA BookStep ==
    ASSUME SalesInv, Book PROVE SalesInv'
<1>1. /\ pc = "book" /\ todo # {}
      /\ UNCHANGED <<hangar, orders, fills, journal, division, db, pc, of, switches, failures>>
  BY DEF Book, eve
<1>2. World /\ SoundBooks(db, fills) /\ SoundBooks(draft, fills) /\ Drafted /\ Ahead
      /\ NoneSkipped(db, {}, fills) /\ NoneSkipped(draft, todo, fills)
  BY <1>1 DEF SalesInv
<1>3. PICK f : f = NextFill OBVIOUS
<1>4. PICK took : took = Plan(draft.lots, fills[f].qty) OBVIOUS
<1>5. (\E lead \in DOMAIN took : draft' = WithSale(draft, f, took, lead)) /\ todo' = todo \ {f}
  BY <1>3, <1>4 DEF Book, Open
<1>6. PICK lead \in DOMAIN took : draft' = WithSale(draft, f, took, lead) BY <1>5
<1>7. f \in todo /\ (\A g \in todo : f <= g) /\ todo \in SUBSET DOMAIN fills
  BY <1>1, <1>2, <1>3, NextIsOldest DEF Ahead
<1>8. fills \in Seq(Fills) /\ Len(fills) <= MaxFills /\ DOMAIN fills \subseteq 1 .. MaxFills
      /\ f \in DOMAIN fills /\ f \in 1 .. MaxFills
  BY <1>2, <1>7, FillsKnown
<1>9. /\ Pays(fills, f) = of /\ ~IsBooked(draft, f)
      /\ \A g \in 1 .. MaxFills : IsBooked(draft, g) /\ Pays(fills, g) = Pays(fills, f) => g < f
  BY <1>2, <1>7 DEF Ahead
<1>10. /\ SoundBooks(draft', fills) /\ IsBooked(draft', f)
       /\ \A g \in 1 .. MaxFills : g # f => draft'.sales[g] = draft.sales[g]
       /\ draft'.fees = draft.fees
  <2>1. SaleKept(draft, draft', fills, f) BY <1>2, <1>4, <1>6, <1>8, <1>9, SaleKeeps
  <2> QED BY <2>1 DEF SaleKept
<1>11. \A g \in 1 .. MaxFills : g # f => (IsBooked(draft', g) <=> IsBooked(draft, g))
  BY <1>10 DEF IsBooked
<1>12. World' BY <1>1, <1>2 DEF World
<1>13. Ahead'
  <2>1. \A h \in todo' : h \in todo /\ h # f /\ h \in 1 .. MaxFills /\ f < h
    BY <1>5, <1>7, <1>8
  <2>2. ASSUME NEW h \in todo', NEW g \in 1 .. MaxFills, IsBooked(draft', g), Pays(fills, g) = of
        PROVE  g < h
    <3>1. CASE g = f BY <2>1, <3>1
    <3>2. CASE g # f BY <1>2, <1>11, <2>1, <2>2, <3>2 DEF Ahead
    <3> QED BY <3>1, <3>2
  <2>3. \A h \in todo' : Pays(fills, h) = of /\ ~IsBooked(draft', h)
    BY <1>2, <1>11, <2>1 DEF Ahead
  <2> QED BY <1>1, <1>5, <1>7, <2>2, <2>3 DEF Ahead
<1>14. Drafted'
  <2>1. ~IsBooked(db, f) BY <1>2, <1>8, <1>9 DEF Drafted, IsBooked
  <2>2. \A g \in 1 .. MaxFills : IsBooked(db, g) =>
          draft'.sales[g].took = db.sales[g].took /\ TaxOn(db, g) <= TaxOn(draft', g)
    BY <1>2, <1>10, <2>1 DEF Drafted, TaxOn
  <2>3. \A g \in 1 .. MaxFills : IsBooked(draft', g) /\ ~IsBooked(db, g) => Pays(fills, g) = of
    BY <1>2, <1>9, <1>11 DEF Drafted
  <2>4. \A o \in OrderFees : db.fees[o] <= draft'.fees[o] BY <1>2, <1>10 DEF Drafted
  <2> QED BY <1>1, <2>2, <2>3, <2>4 DEF Drafted
<1>15. NoneSkipped(draft', todo', fills)
  <2> SUFFICES ASSUME NEW g \in DOMAIN fills, NEW h \in DOMAIN fills, g < h,
                      Pays(fills, g) = Pays(fills, h), Paged(fills, g),
                      IsBooked(draft', h) \/ h \in todo'
               PROVE  IsBooked(draft', g) \/ g \in todo'
    BY DEF NoneSkipped
  <2>1. IsBooked(draft, h) \/ h \in todo BY <1>5, <1>7, <1>8, <1>11
  <2>2. IsBooked(draft, g) \/ g \in todo BY <1>2, <2>1 DEF NoneSkipped
  <2> QED BY <1>5, <1>8, <1>10, <1>11, <2>2
<1>16. SoundBooks(db', fills') /\ SoundBooks(draft', fills') /\ NoneSkipped(db', {}, fills')
       /\ NoneSkipped(draft', todo', fills')
  BY <1>1, <1>2, <1>10, <1>15
<1> QED BY <1>1, <1>12, <1>13, <1>14, <1>16 DEF SalesInv

LEMMA FetchJournalStep ==
    ASSUME SalesInv, FetchJournal PROVE SalesInv'
<1>1. /\ pc = "book" /\ todo = {} /\ pc' = "commit"
      /\ UNCHANGED <<hangar, orders, fills, journal, division, db, of, todo, switches, failures>>
  BY DEF FetchJournal, eve
<1>2. World /\ SoundBooks(db, fills) /\ SoundBooks(draft, fills) /\ Drafted /\ Ahead
      /\ NoneSkipped(db, {}, fills) /\ NoneSkipped(draft, todo, fills)
  BY <1>1 DEF SalesInv
<1>3. PICK entries : entries = JournalPage(of) OBVIOUS
<1>4. draft' = Journalled(draft, entries) BY <1>3 DEF FetchJournal, Journalled
<1>5. /\ SoundBooks(draft', fills)
      /\ \A f \in 1 .. MaxFills : draft'.sales[f].took = draft.sales[f].took
      /\ \A f \in 1 .. MaxFills : IsBooked(draft', f) <=> IsBooked(draft, f)
      /\ \A f \in 1 .. MaxFills : IsBooked(draft, f) => TaxOn(draft, f) <= TaxOn(draft', f)
      /\ \A o \in OrderFees : draft.fees[o] <= draft'.fees[o]
  <2>1. JournalKept(draft, draft', fills) BY <1>2, <1>4, JournalKeeps
  <2> QED BY <2>1 DEF JournalKept
<1>6. World' BY <1>1, <1>2 DEF World
<1>7. Ahead' BY <1>1, <1>2 DEF Ahead
<1>8. Drafted'
  <2>1. ASSUME NEW f \in 1 .. MaxFills, IsBooked(db, f)
        PROVE  draft'.sales[f].took = db.sales[f].took /\ TaxOn(db, f) <= TaxOn(draft', f)
    <3>1. draft.sales[f].took = db.sales[f].took /\ TaxOn(db, f) <= TaxOn(draft, f)
      BY <1>2, <2>1 DEF Drafted
    <3>2. IsBooked(draft, f) /\ IsBooked(draft', f) BY <1>5, <2>1, <3>1 DEF IsBooked
    <3>3. TaxOn(db, f) \in {0, Tax} BY <1>2, <2>1, TaxShown DEF SoundBooks
    <3>4. TaxOn(draft, f) \in {0, Tax} BY <1>2, <3>2, TaxShown DEF SoundBooks
    <3>5. TaxOn(draft', f) \in {0, Tax} BY <1>5, <3>2, TaxShown DEF SoundBooks
    <3>6. TaxOn(draft, f) <= TaxOn(draft', f) BY <1>5, <3>2
    <3> QED BY <1>5, <3>1, <3>3, <3>4, <3>5, <3>6, StockKnown
  <2>2. ASSUME NEW o \in OrderFees PROVE db.fees[o] <= draft'.fees[o]
    <3>1. db.fees[o] \in {0, 1} /\ draft.fees[o] \in {0, 1} /\ draft'.fees[o] \in {0, 1}
      BY <1>2, <1>5 DEF SoundBooks, BooksOK
    <3>2. db.fees[o] <= draft.fees[o] BY <1>2 DEF Drafted
    <3> QED BY <1>5, <3>1, <3>2
  <2> QED BY <1>1, <1>2, <1>5, <2>1, <2>2 DEF Drafted
<1>9. NoneSkipped(draft', todo, fills)
  <2>1. DOMAIN fills \subseteq 1 .. MaxFills BY <1>2, FillsKnown
  <2> QED BY <1>2, <1>5, <2>1 DEF NoneSkipped
<1>10. SoundBooks(db', fills') /\ SoundBooks(draft', fills') /\ NoneSkipped(db', {}, fills')
       /\ NoneSkipped(draft', todo', fills')
  BY <1>1, <1>2, <1>5, <1>9
<1> QED BY <1>1, <1>6, <1>7, <1>8, <1>10 DEF SalesInv

LEMMA CommitStep ==
    ASSUME SalesInv, Commit PROVE SalesInv'
<1>1. /\ pc = "commit" /\ db' = draft /\ pc' = "idle" /\ of' = Nil /\ draft' = Books /\ todo' = {}
      /\ UNCHANGED <<hangar, orders, fills, journal, division, switches, failures>>
  BY DEF Commit, Rest, eve
<1>2. World /\ SoundBooks(draft, fills) /\ NoneSkipped(draft, todo, fills) /\ todo = {}
  BY <1>1 DEF SalesInv, Ahead
<1>3. World' /\ Ahead' BY <1>1, <1>2 DEF World, Ahead
<1>4. SoundBooks(Books, fills) BY NothingBooked
<1>5. SoundBooks(db', fills') /\ SoundBooks(draft', fills') /\ NoneSkipped(db', {}, fills')
  BY <1>1, <1>2, <1>4
<1> QED BY <1>1, <1>3, <1>5 DEF SalesInv

LEMMA FailStep ==
    ASSUME SalesInv, Fail PROVE SalesInv'
<1>1. /\ pc' = "idle" /\ of' = Nil /\ draft' = Books /\ todo' = {}
      /\ failures < MaxFailures /\ failures' = failures + 1
      /\ UNCHANGED <<hangar, orders, fills, journal, division, db, switches>>
  BY DEF Fail, Rest, eve
<1>2. World /\ SoundBooks(db, fills) /\ NoneSkipped(db, {}, fills) BY DEF SalesInv
<1>3. failures' \in 0 .. MaxFailures BY <1>1, <1>2, NumbersAssumption DEF World
<1>4. World' /\ Ahead' BY <1>1, <1>2, <1>3 DEF World, Ahead
<1>5. SoundBooks(Books, fills) BY NothingBooked
<1>6. SoundBooks(db', fills') /\ SoundBooks(draft', fills') /\ NoneSkipped(db', {}, fills')
  BY <1>1, <1>2, <1>5
<1> QED BY <1>1, <1>4, <1>6 DEF SalesInv

\* What traders do leaves the world in order, and at most adds a fill.
LEMMA TradeAdds ==
    ASSUME World, Trade
    PROVE  /\ World' /\ UNCHANGED <<division, db, pc, of, draft, todo, switches, failures>>
           /\ \/ fills' = fills
              \/ \E x \in Fills : Len(fills) < MaxFills /\ fills' = Append(fills, x)
<1>1. UNCHANGED <<division, db, pc, of, draft, todo, switches, failures>> BY DEF Trade, pass
<1>2. hangar \in Nat /\ orders \in [Orders -> Nat \cup {Nil}] BY DEF World
<1>3. \A o \in Live : o \in Orders /\ (orders[o] # Nil => orders[o] \in Nat) /\ orders[o] # Nil
  BY <1>2 DEF Live
<1>4. ASSUME NEW o \in Orders, Place(o) PROVE World' /\ fills' = fills
  <2>1. Size[o] \in Nat BY SizesAssumption
  <2>2. hangar' \in Nat /\ orders' \in [Orders -> Nat \cup {Nil}] /\ fills' = fills
    BY <1>2, <1>4, <2>1 DEF Place
  <2> QED BY <1>1, <2>2 DEF World
<1>5. ASSUME NEW o \in Orders, Cancel(o) PROVE World' /\ fills' = fills
  <2>1. orders[o] \in Nat BY <1>3, <1>5 DEF Cancel
  <2>2. hangar' \in Nat /\ orders' \in [Orders -> Nat \cup {Nil}] /\ fills' = fills
    BY <1>2, <1>5, <2>1 DEF Cancel
  <2> QED BY <1>1, <2>2 DEF World
<1>6. ASSUME NEW f, Levy(f) PROVE World' /\ fills' = fills
  <2>1. hangar' = hangar /\ orders' = orders /\ fills' = fills BY <1>6 DEF Levy
  <2> QED BY <1>1, <2>1 DEF World
<1>7. ASSUME NEW o \in Orders, Fill(o)
      PROVE  World' /\ \E x \in Fills : Len(fills) < MaxFills /\ fills' = Append(fills, x)
  <2>1. orders[o] \in Nat BY <1>3, <1>7 DEF Fill
  <2>2. PICK q \in 1 .. orders[o] : /\ orders' = [orders EXCEPT ![o] = @ - q]
                                    /\ fills' = Append(fills, [order |-> o, qty |-> q])
    BY <1>7 DEF Fill
  <2>3. orders' \in [Orders -> Nat \cup {Nil}] BY <1>2, <2>1, <2>2
  <2>4. [order |-> o, qty |-> q] \in Fills BY <2>1 DEF Fills
  <2>5. hangar' = hangar /\ Len(fills) < MaxFills BY <1>7 DEF Fill
  <2>6. fills' \in Seq(Fills) /\ Len(fills') <= MaxFills
    <3>1. fills \in Seq(Fills) BY DEF World
    <3>2. FillKept(fills, fills') BY <2>2, <2>4, <2>5, <3>1, FillKeeps
    <3> QED BY <3>2 DEF FillKept
  <2>7. World' BY <1>1, <1>2, <2>3, <2>5, <2>6 DEF World
  <2> QED BY <2>2, <2>4, <2>5, <2>7
<1> QED BY <1>1, <1>4, <1>5, <1>6, <1>7 DEF Trade

LEMMA TradeStep ==
    ASSUME SalesInv, Trade PROVE SalesInv'
<1>1. World /\ SoundBooks(db, fills) /\ SoundBooks(draft, fills) /\ Ahead
      /\ NoneSkipped(db, {}, fills)
  BY DEF SalesInv
<1>2. /\ World' /\ UNCHANGED <<division, db, pc, of, draft, todo, switches, failures>>
      /\ \/ fills' = fills
         \/ \E x \in Fills : Len(fills) < MaxFills /\ fills' = Append(fills, x)
  BY <1>1, TradeAdds
<1>3. CASE fills' = fills
  <2>1. Ahead' BY <1>1, <1>2, <1>3 DEF Ahead
  <2>2. pc # "idle" => Drafted' BY <1>2, <1>3 DEF SalesInv, Drafted
  <2>3. SoundBooks(db', fills') /\ SoundBooks(draft', fills') /\ NoneSkipped(db', {}, fills')
        /\ (pc \in {"book", "commit"} => NoneSkipped(draft', todo', fills'))
    BY <1>1, <1>2, <1>3 DEF SalesInv
  <2> QED BY <1>2, <2>1, <2>2, <2>3 DEF SalesInv
<1>4. CASE \E x \in Fills : Len(fills) < MaxFills /\ fills' = Append(fills, x)
  <2>1. fills \in Seq(Fills) BY <1>1, FillsKnown
  <2>2. /\ DOMAIN fills \subseteq DOMAIN fills'
        /\ \A f \in DOMAIN fills : Pays(fills', f) = Pays(fills, f)
        /\ \A b : SoundBooks(b, fills) =>
             /\ SoundBooks(b, fills')
             /\ \A left \in SUBSET DOMAIN fills :
                  NoneSkipped(b, left, fills) => NoneSkipped(b, left, fills')
    <3>1. FillKept(fills, fills') BY <1>4, <2>1, FillKeeps
    <3> QED BY <3>1 DEF FillKept
  <2>3. todo \in SUBSET DOMAIN fills BY <1>1 DEF Ahead
  <2>4. \A f \in 1 .. MaxFills : IsBooked(draft, f) => f \in DOMAIN fills BY <1>1, BookedIsFill
  <2>5. Ahead'
    <3>1. todo' \in SUBSET DOMAIN fills' BY <1>2, <2>2, <2>3
    <3>2. \A f \in todo :
            /\ Pays(fills', f) = of /\ ~IsBooked(draft, f)
            /\ \A g \in 1 .. MaxFills : IsBooked(draft, g) /\ Pays(fills', g) = of => g < f
      BY <1>1, <2>2, <2>3, <2>4 DEF Ahead
    <3>3. pc # "book" => todo = {} BY <1>1 DEF Ahead
    <3> QED BY <1>2, <3>1, <3>2, <3>3 DEF Ahead
  <2>6. ASSUME pc # "idle" PROVE Drafted'
    <3>1. Drafted BY <2>6 DEF SalesInv
    <3>2. \A f \in 1 .. MaxFills : IsBooked(draft, f) /\ ~IsBooked(db, f) => Pays(fills', f) = of
      BY <2>2, <2>4, <3>1 DEF Drafted
    <3> QED BY <1>2, <3>1, <3>2 DEF Drafted
  <2>7. SoundBooks(db', fills') /\ SoundBooks(draft', fills') /\ NoneSkipped(db', {}, fills')
    BY <1>1, <1>2, <2>2
  <2>8. pc \in {"book", "commit"} => NoneSkipped(draft', todo', fills')
    BY <1>1, <1>2, <2>2, <2>3 DEF SalesInv
  <2> QED BY <1>2, <2>5, <2>6, <2>7, <2>8 DEF SalesInv
<1> QED BY <1>2, <1>3, <1>4

LEMMA SwitchStep ==
    ASSUME SalesInv, NEW d \in Divisions \cup {Nil}, SetWalletDivision(d) PROVE SalesInv'
<1>1. /\ division' = d /\ switches < MaxSwitches /\ switches' = switches + 1
      /\ UNCHANGED <<hangar, orders, fills, journal, db, pc, of, draft, todo, failures>>
  BY DEF SetWalletDivision, eve, pass
<1>2. World /\ Ahead BY DEF SalesInv
<1>3. switches' \in 0 .. MaxSwitches BY <1>1, <1>2, NumbersAssumption DEF World
<1>4. World' BY <1>1, <1>2, <1>3 DEF World
<1>5. Ahead' BY <1>1, <1>2 DEF Ahead
<1>6. pc # "idle" => Drafted' BY <1>1 DEF SalesInv, Drafted
<1>7. SoundBooks(db', fills') /\ SoundBooks(draft', fills') /\ NoneSkipped(db', {}, fills')
      /\ (pc \in {"book", "commit"} => NoneSkipped(draft', todo', fills'))
  BY <1>1 DEF SalesInv
<1> QED BY <1>1, <1>4, <1>5, <1>6, <1>7 DEF SalesInv

LEMMA SalesInvStep == SalesInv /\ [SalesNext]_salesVars => SalesInv'
<1> SUFFICES ASSUME SalesInv, [SalesNext]_salesVars PROVE SalesInv' OBVIOUS
<1>1. CASE Ingest
  BY <1>1, StartStep, FetchOrdersStep, FetchFillsStep, BookStep, FetchJournalStep, CommitStep
     DEF Ingest
<1>2. CASE Fail BY <1>2, FailStep
<1>3. CASE Trade BY <1>3, TradeStep
<1>4. ASSUME NEW d \in Divisions \cup {Nil}, SetWalletDivision(d) PROVE SalesInv'
  BY <1>4, SwitchStep
<1>5. CASE UNCHANGED salesVars
  <2>1. UNCHANGED <<hangar, orders, fills, journal, division, db, pc, of, draft, todo,
                    switches, failures>>
    BY <1>5 DEF salesVars, eve, pass
  <2>2. World' /\ Ahead' BY <2>1 DEF SalesInv, World, Ahead
  <2>3. pc # "idle" => Drafted' BY <2>1 DEF SalesInv, Drafted
  <2>4. SoundBooks(db', fills') /\ SoundBooks(draft', fills') /\ NoneSkipped(db', {}, fills')
        /\ (pc \in {"book", "commit"} => NoneSkipped(draft', todo', fills'))
    BY <2>1 DEF SalesInv
  <2> QED BY <2>1, <2>2, <2>3, <2>4 DEF SalesInv
<1> QED BY <1>1, <1>2, <1>3, <1>4, <1>5 DEF SalesNext

\* Every state the ingestion reaches has sound books and drafts of them.
LEMMA SalesInvariant == SalesSpec => []SalesInv
BY SalesInvInit, SalesInvStep, PTL DEF SalesSpec

LEMMA SoundIsBookedWhole == SalesInv => FillsBooked
<1> SUFFICES ASSUME SalesInv PROVE FillsBooked OBVIOUS
<1>1. World /\ SoundBooks(db, fills) /\ SoundBooks(draft, fills) /\ Ahead BY DEF SalesInv
<1>2. DOMAIN fills \subseteq 1 .. MaxFills
      /\ \A f \in DOMAIN fills : fills[f].order \in Orders /\ fills[f].qty > 0
  BY <1>1, FillsKnown
<1>3. SalesTypeOK
  <2>1. ASSUME NEW b \in {db, draft}
        PROVE  /\ b.lots \in [Lots -> Nat] /\ b.fees \in [OrderFees -> Nat]
               /\ DOMAIN b.listed \subseteq Orders
               /\ \A f \in 1 .. MaxFills : DOMAIN b.sales[f].took \subseteq Lots \cup {0}
    <3>1. BooksOK(b, fills) BY <1>1 DEF SoundBooks
    <3>2. b.fees \in [OrderFees -> Nat] BY <3>1 DEF BooksOK
    <3> QED BY <3>1, <3>2 DEF BooksOK, SaleOK
  <2> QED BY <1>1, <1>2, <2>1 DEF SalesTypeOK, World, Ahead
<1>4. \A f \in 1 .. MaxFills, l \in Lots : Took(f, l) = Sells(db, f, l) BY DEF Took, Sells
<1>5. FillsBookedWhole
  <2>1. ASSUME NEW l \in Lots
        PROVE  Stock[l] = db.lots[l] + SumFunction([f \in 1 .. MaxFills |-> Took(f, l)])
    <3>1. [f \in 1 .. MaxFills |-> Took(f, l)] = [f \in 1 .. MaxFills |-> Sells(db, f, l)]
      BY <1>4
    <3> QED BY <1>1, <3>1 DEF SoundBooks, AddsUp
  <2>2. \A f \in Committed : SumFunction(db.sales[f].took) = Quantity(f)
    BY <1>1, <1>2 DEF SoundBooks, BooksOK, SaleOK, Committed, Quantity
  <2> QED BY <2>1, <2>2 DEF FillsBookedWhole
<1>6. OldestLotsFirst
  <2>1. InTurn(db, fills) BY <1>1 DEF SoundBooks
  <2>2. \A f \in Committed : f \in 1 .. MaxFills /\ IsBooked(db, f) BY <1>2 DEF Committed
  <2>3. \A f \in Committed : FillDivision(f) = Pays(fills, f) BY DEF FillDivision, Pays
  <2> QED BY <1>4, <2>1, <2>2, <2>3 DEF InTurn, OldestLotsFirst
<1> QED BY <1>3, <1>5, <1>6 DEF FillsBooked

\* However the pages of orders, fills and taxes overlap and whichever passes fail, a fill
\* is booked once and whole, what left a lot is what the sale rows say, no lot is
\* overdrawn, and of two fills of one division the older took the older lots.
THEOREM FillsAreBooked == SalesSpec => []FillsBooked
BY SalesInvariant, SoundIsBookedWhole, PTL

LEMMA TaxIsOnce == SalesInv => TaxedOnce
<1> SUFFICES ASSUME SalesInv, NEW f \in Committed PROVE SumFunction(db.sales[f].tax) \in {0, Tax}
  BY DEF TaxedOnce
<1>1. f \in 1 .. MaxFills /\ IsBooked(db, f) /\ BooksOK(db, fills)
  BY FillsKnown DEF SalesInv, SoundBooks, Committed
<1> QED BY <1>1, TaxShown DEF TaxOn

FeesStay == /\ \A o \in OrderFees : db.fees[o] <= db'.fees[o] /\ db'.fees[o] <= 1
            /\ \A f \in Committed : SumFunction(db.sales[f].tax) <= SumFunction(db'.sales[f].tax)

LEMMA ChargesStay == SalesInv /\ [SalesNext]_salesVars => [FeesStay]_salesVars
<1> SUFFICES ASSUME SalesInv, SalesNext PROVE FeesStay BY DEF FeesStay
<1>1. World /\ SoundBooks(db, fills) /\ SoundBooks(draft, fills) BY DEF SalesInv
<1>2. \A f \in Committed : f \in 1 .. MaxFills /\ IsBooked(db, f)
  BY <1>1, FillsKnown DEF Committed
<1>3. \A f \in Committed : SumFunction(db.sales[f].tax) = TaxOn(db, f) BY DEF TaxOn
<1>4. \A o \in OrderFees : db.fees[o] \in {0, 1} /\ draft.fees[o] \in {0, 1}
  BY <1>1 DEF SoundBooks, BooksOK
<1>5. CASE Commit
  <2>1. Drafted /\ db' = draft BY <1>5 DEF SalesInv, Commit
  <2>2. \A f \in Committed : SumFunction(db'.sales[f].tax) = TaxOn(draft, f) BY <2>1 DEF TaxOn
  <2> QED BY <1>2, <1>3, <1>4, <2>1, <2>2 DEF Drafted, FeesStay
<1>6. CASE db' = db
  <2>1. \A f \in Committed : TaxOn(db, f) \in {0, Tax} BY <1>1, <1>2, TaxShown DEF SoundBooks
  <2>2. \A f \in Committed : SumFunction(db.sales[f].tax) <= SumFunction(db.sales[f].tax)
    BY <1>3, <2>1, StockKnown
  <2> QED BY <1>4, <1>6, <2>2 DEF FeesStay
<1>7. db' = db \/ Commit
  BY DEF SalesNext, Ingest, Start, FetchOrders, FetchFills, Book, FetchJournal, Fail, Trade,
         SetWalletDivision
<1> QED BY <1>5, <1>6, <1>7

\* Split over lots, seen again in a later pass, or after a pass that failed, a fill shows
\* its tax once or not yet; no commit takes back a tax or a broker fee, or books a fee again.
THEOREM ChargesAreOnce == SalesSpec => ChargesOnce
<1>1. SalesSpec => []TaxedOnce BY SalesInvariant, TaxIsOnce, PTL
<1>2. SalesSpec => [][FeesStay]_salesVars
  BY SalesInvariant, ChargesStay, PTL DEF SalesSpec
<1> QED BY <1>1, <1>2, PTL DEF ChargesOnce, FeesBookedOnce, FeesStay
=============================================================================
