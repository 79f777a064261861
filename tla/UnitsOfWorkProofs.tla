------------------------- MODULE UnitsOfWorkProofs -------------------------
(***************************************************************************)
(* For any lots, units and interleaving: the state stays well formed and   *)
(* no stock vanishes from the books.  The inductive invariant adds what a  *)
(* running unit knows: the value it is about to write, together with the   *)
(* sale rows it has booked and those already committed, covers the lot.    *)
(* Committed sale rows only grow, so what covered a lot when it was read   *)
(* still covers it when the write lands, however stale the read is.        *)
(*                                                                         *)
(* And units are all or nothing.  There the invariant, BInv, follows a     *)
(* unit through its demands: what it has booked, what its plan still holds *)
(* and what it found no lot for are the demands behind it.                 *)
(*                                                                         *)
(* The second half is about StockTake and Refining.  What a step does to   *)
(* the lots is told by what it takes of each of them and by the rows it    *)
(* makes (Turns); totals of units and of cost, ages and doubt all follow   *)
(* from that.  Its inductive invariant, StockTakeInv, relates what a check *)
(* holds in its hands, across its awaits, to the books it will write to.   *)
(***************************************************************************)
EXTENDS UnitsOfWork, StockTake, SumLaws, SequenceTheorems, TLAPS

DraftCovers(u) ==
    \A l \in DOMAIN draft[u] : draft[u][l] + booked[u][l] + sold[l] >= Stock[l].qty

ReadCovers(u) ==
    pc[u] = "update" =>
        \A l \in Lots :
            IsHead(u, l) => /\ plan[u][l] <= read[u]
                            /\ read[u] + booked[u][l] + sold[l] >= Stock[l].qty

HasDemand(u) ==
    /\ pc[u] \in {"waiting", "begin"} => turn[u] = 1
    /\ pc[u] = "plan" => turn[u] \in 1..Len(Demands(u))

UnitOK(u) == DraftCovers(u) /\ ReadCovers(u) /\ HasDemand(u)

IInv == TypeOK /\ NothingVanishes /\ \A u \in Units : UnitOK(u)

-----------------------------------------------------------------------------

LEMMA LotsAreNumbers == Lots \subseteq Nat /\ \A l \in Lots : Stock[l].qty \in Nat
<1>1. Stock \in Seq([slot : Slots, qty : Nat \ {0}])
  BY StockAssumption
<1>2. Lots = 1..Len(Stock) /\ Len(Stock) \in Nat
  BY <1>1 DEF Lots
<1>3. \A l \in Lots : Stock[l] \in [slot : Slots, qty : Nat \ {0}]
  <2> DEFINE R == [slot : Slots, qty : Nat \ {0}]
  <2>1. Stock \in Seq(R)
    BY <1>1
  <2> HIDE DEF R
  <2>2. \A l \in 1..Len(Stock) : Stock[l] \in R
    BY <2>1
  <2> QED
    BY <2>2, <1>2 DEF R
<1> QED
  BY <1>2, <1>3

LEMMA AsksTyped ==
    ASSUME NEW u \in Units
    PROVE  /\ Len(Demands(u)) \in Nat \ {0}
           /\ \A i \in 1..Len(Demands(u)) : Demands(u)[i].qty \in Nat
<1>1. Demands(u) \in Seq([slot : Slots, qty : Nat \ {0}]) /\ Demands(u) # <<>>
  BY AsksAssumption
<1> HIDE DEF Demands
<1>2. Len(Demands(u)) \in Nat \ {0}
  BY <1>1
<1>3. \A i \in 1..Len(Demands(u)) :
          Demands(u)[i] \in [slot : Slots, qty : Nat \ {0}]
  <2> DEFINE D == Demands(u)
             R == [slot : Slots, qty : Nat \ {0}]
  <2>1. D \in Seq(R)
    BY <1>1
  <2> HIDE DEF D, R
  <2>2. \A i \in 1..Len(D) : D[i] \in R
    BY <2>1
  <2> QED
    BY <2>2 DEF D, R
<1> QED
  BY <1>2, <1>3

\* The head of a plan is its oldest lot, so there is one.
LEMMA HeadUnique ==
    ASSUME TypeOK, NEW u \in Units, NEW k \in Lots, NEW l \in Lots,
           IsHead(u, k), IsHead(u, l)
    PROVE  k = l
<1>1. plan[u][k] \in Nat /\ plan[u][l] \in Nat /\ k \in Nat /\ l \in Nat
  BY LotsAreNumbers DEF TypeOK
<1>2. ~(k < l) /\ ~(l < k)
  BY <1>1 DEF IsHead
<1> QED
  BY <1>1, <1>2

LEMMA VisibleTyped ==
    ASSUME TypeOK, NEW u \in Units, NEW l \in Lots
    PROVE  Visible(u, l) \in Nat
BY DEF TypeOK, Visible, Locked

\* What a session sees covers its lot.
LEMMA VisibleCovers ==
    ASSUME IInv, NEW u \in Units, NEW l \in Lots
    PROVE  Visible(u, l) + booked[u][l] + sold[l] >= Stock[l].qty
<1>1. booked[u][l] \in Nat /\ sold[l] \in Nat /\ row[l] \in Nat /\ Stock[l].qty \in Nat
  BY LotsAreNumbers DEF IInv, TypeOK
<1>2. CASE Locked(l, u)
  BY <1>2 DEF IInv, UnitOK, DraftCovers, Visible, Locked
<1>3. CASE ~Locked(l, u)
  BY <1>1, <1>3 DEF IInv, NothingVanishes, Visible
<1> QED
  BY <1>2, <1>3
\* Units that do not act keep what they know, because sold only grows.
LEMMA Frame ==
    ASSUME IInv, NEW v \in Units,
           draft'[v] = draft[v], booked'[v] = booked[v], plan'[v] = plan[v],
           read'[v] = read[v], pc'[v] = pc[v], turn'[v] = turn[v],
           \A l \in Lots : sold'[l] \in Nat /\ sold'[l] >= sold[l]
    PROVE  UnitOK(v)'
<1>1. \A l \in Lots : /\ booked[v][l] \in Nat /\ sold[l] \in Nat
                       /\ Stock[l].qty \in Nat /\ plan[v][l] \in Nat
  BY LotsAreNumbers DEF IInv, TypeOK
<1>2. read[v] \in Nat /\ DOMAIN draft[v] \subseteq Lots
      /\ \A l \in DOMAIN draft[v] : draft[v][l] \in Nat
  BY DEF IInv, TypeOK
<1>3. DraftCovers(v)'
  <2> SUFFICES ASSUME NEW l \in DOMAIN draft[v]
               PROVE  draft[v][l] + booked[v][l] + sold'[l] >= Stock[l].qty
    BY DEF DraftCovers
  <2>1. draft[v][l] + booked[v][l] + sold[l] >= Stock[l].qty
    BY DEF IInv, UnitOK, DraftCovers
  <2> QED
    BY <1>1, <1>2, <2>1
<1>4. ReadCovers(v)'
  <2> SUFFICES ASSUME pc[v] = "update", NEW l \in Lots, IsHead(v, l)'
               PROVE  /\ plan[v][l] <= read[v]
                      /\ read[v] + booked[v][l] + sold'[l] >= Stock[l].qty
    BY DEF ReadCovers
  <2>1. IsHead(v, l)
    BY DEF IsHead
  <2>2. /\ plan[v][l] <= read[v]
        /\ read[v] + booked[v][l] + sold[l] >= Stock[l].qty
    BY <2>1 DEF IInv, UnitOK, ReadCovers
  <2> QED
    BY <1>1, <1>2, <2>2
<1>5. HasDemand(v)'
  BY DEF IInv, UnitOK, HasDemand
<1> QED
  BY <1>3, <1>4, <1>5 DEF UnitOK

\* Where AfterPlan sends a unit.
LEMMA AfterPlanTyped ==
    ASSUME NEW u \in Units, NEW p, NEW n \in Nat \ {0}
    PROVE  /\ AfterPlan(u, p, n) \in {"select", "plan", "esi", "commit"}
           /\ AfterPlan(u, p, n) = "plan" => n \in 1..Len(Demands(u))
BY AsksTyped DEF AfterPlan

LEMMA RollbackPreserves ==
    ASSUME IInv, NEW u \in Units, Rollback(u), failures' \in 0..MaxFailures
    PROVE  IInv'
<1> USE DEF Rollback, Rewound, table
<1>1. Asks[u].job \in BOOLEAN
  BY AsksAssumption
<1>2. TypeOK'
  <2>1. Nothing \in [Lots -> Nat]
    BY DEF Nothing
  <2>2. /\ row' \in [Lots -> Nat] /\ sold' \in [Lots -> Nat] /\ unmet' \in Nat
        /\ claimed' \subseteq {Asks[v].key : v \in Units}
    BY DEF IInv, TypeOK
  <2>3. pc' \in [Units -> Ended \cup {"waiting", "begin", "plan", "select", "update",
                                      "esi", "commit"}]
    BY DEF IInv, TypeOK, Ended
  <2>4. turn' \in [Units -> Nat \ {0}] /\ read' \in [Units -> Nat]
        /\ lacked' \in [Units -> Nat]
    BY DEF IInv, TypeOK
  <2>5. plan' \in [Units -> [Lots -> Nat]] /\ booked' \in [Units -> [Lots -> Nat]]
    BY <2>1 DEF IInv, TypeOK
  <2>6. draft' = [v \in Units |-> draft'[v]]
        /\ \A v \in Units : DOMAIN draft'[v] \subseteq Lots
                             /\ draft'[v] \in [DOMAIN draft'[v] -> Nat]
    BY DEF IInv, TypeOK, NoDraft
  <2> QED
    BY <2>2, <2>3, <2>4, <2>5, <2>6 DEF TypeOK
<1>3. NothingVanishes'
  BY DEF IInv, NothingVanishes
<1>4. ASSUME NEW v \in Units PROVE UnitOK(v)'
  <2>1. CASE v # u
    <3>1. \A l \in Lots : sold'[l] \in Nat /\ sold'[l] >= sold[l]
      BY DEF IInv, TypeOK
    <3> QED
      BY <2>1, <3>1, Frame DEF IInv, TypeOK
  <2>2. CASE v = u
    <3>1. draft'[u] = NoDraft /\ pc'[u] \in {"waiting", "failed"} /\ turn'[u] = 1
      BY <1>1 DEF IInv, TypeOK
    <3> QED
      BY <2>2, <3>1 DEF UnitOK, DraftCovers, ReadCovers, HasDemand, NoDraft
  <2> QED
    BY <2>1, <2>2
<1> QED
  BY <1>2, <1>3, <1>4 DEF IInv

\* Actions that only move the unit on: no table row, draft or sale row changes.
LEMMA AdvancePreserves ==
    ASSUME IInv, NEW u \in Units, NEW to,
           to \in Ended \cup {"waiting", "begin", "plan", "select", "esi", "commit"},
           to = "plan" => turn[u] \in 1..Len(Demands(u)),
           to \in {"waiting", "begin"} => turn[u] = 1,
           pc' = [pc EXCEPT ![u] = to],
           UNCHANGED <<table, turn, plan, read, draft, booked, lacked, failures>>
    PROVE  IInv'
<1>1. TypeOK'
  BY DEF IInv, TypeOK, table
<1>2. NothingVanishes'
  BY DEF IInv, NothingVanishes, table
<1>3. ASSUME NEW v \in Units PROVE UnitOK(v)'
  <2>1. CASE v # u
    <3>1. \A l \in Lots : sold'[l] \in Nat /\ sold'[l] >= sold[l]
      BY DEF IInv, TypeOK, table
    <3> QED
      BY <2>1, <3>1, Frame DEF IInv, TypeOK
  <2>2. CASE v = u
    <3>1. pc'[u] = to /\ to # "update"
      BY DEF IInv, TypeOK, Ended
    <3>2. DraftCovers(u)'
      BY DEF IInv, UnitOK, DraftCovers, table
    <3> QED
      BY <2>2, <3>1, <3>2 DEF UnitOK, ReadCovers, HasDemand
  <2> QED
    BY <2>1, <2>2
<1> QED
  BY <1>1, <1>2, <1>3 DEF IInv

LEMMA PlanPreserves ==
    ASSUME IInv, NEW u \in Units, Plan(u)
    PROVE  IInv'
<1>1. turn[u] \in 1..Len(Demands(u)) /\ Demands(u)[turn[u]].qty \in Nat
  BY AsksTyped DEF Plan, IInv, UnitOK, HasDemand
<1> DEFINE qty == Demands(u)[turn[u]].qty
<1>2. PICK take \in [Lots -> 0..qty] :
        \E short \in 0..qty :
            /\ plan' = [plan EXCEPT ![u] = take]
            /\ lacked' = [lacked EXCEPT ![u] = @ + short]
            /\ pc' = [pc EXCEPT ![u] = AfterPlan(u, take, turn[u] + 1)]
  BY Zenon DEF Plan
<1>3. PICK short \in 0..qty :
            /\ plan' = [plan EXCEPT ![u] = take]
            /\ lacked' = [lacked EXCEPT ![u] = @ + short]
            /\ pc' = [pc EXCEPT ![u] = AfterPlan(u, take, turn[u] + 1)]
  BY <1>2
<1>4. /\ turn' = [turn EXCEPT ![u] = @ + 1]
      /\ UNCHANGED <<table, read, draft, booked, failures>>
  BY DEF Plan
<1>5. turn[u] + 1 \in Nat \ {0} /\ turn'[u] = turn[u] + 1
  BY <1>1, <1>4 DEF IInv, TypeOK
<1>6. /\ AfterPlan(u, take, turn[u] + 1) \in {"select", "plan", "esi", "commit"}
      /\ AfterPlan(u, take, turn[u] + 1) = "plan" =>
             turn[u] + 1 \in 1..Len(Demands(u))
  BY <1>5, AfterPlanTyped
<1>7. short \in Nat /\ take \in [Lots -> Nat]
  BY <1>1
<1> HIDE DEF qty
<1>8. TypeOK'
  <2>1. /\ row' \in [Lots -> Nat] /\ sold' \in [Lots -> Nat] /\ unmet' \in Nat
        /\ claimed' \subseteq {Asks[v].key : v \in Units}
        /\ failures' \in 0..MaxFailures
    BY <1>4 DEF IInv, TypeOK, table
  <2>2. pc' \in [Units -> Ended \cup {"waiting", "begin", "plan", "select", "update",
                                      "esi", "commit"}]
    BY <1>3, <1>6 DEF IInv, TypeOK
  <2>3. turn' \in [Units -> Nat \ {0}] /\ read' \in [Units -> Nat]
        /\ lacked' \in [Units -> Nat]
    BY <1>3, <1>4, <1>5, <1>7 DEF IInv, TypeOK
  <2>4. plan' \in [Units -> [Lots -> Nat]] /\ booked' \in [Units -> [Lots -> Nat]]
    BY <1>3, <1>4, <1>7 DEF IInv, TypeOK
  <2>5. draft' = [v \in Units |-> draft'[v]]
        /\ \A v \in Units : DOMAIN draft'[v] \subseteq Lots
                             /\ draft'[v] \in [DOMAIN draft'[v] -> Nat]
    BY <1>4 DEF IInv, TypeOK
  <2> QED
    BY <2>1, <2>2, <2>3, <2>4, <2>5 DEF TypeOK
<1>9. NothingVanishes'
  BY <1>4 DEF IInv, NothingVanishes, table
<1>10. ASSUME NEW v \in Units PROVE UnitOK(v)'
  <2>1. CASE v # u
    <3>1. \A l \in Lots : sold'[l] \in Nat /\ sold'[l] >= sold[l]
      BY <1>4 DEF IInv, TypeOK, table
    <3> QED
      BY <1>3, <1>4, <2>1, <3>1, Frame DEF IInv, TypeOK
  <2>2. CASE v = u
    <3>1. pc'[u] = AfterPlan(u, take, turn[u] + 1)
      BY <1>3 DEF IInv, TypeOK
    <3>2. HasDemand(u)'
      BY <1>5, <1>6, <3>1 DEF HasDemand
    <3>3. ReadCovers(u)'
      BY <1>6, <3>1 DEF ReadCovers
    <3>4. DraftCovers(u)'
      BY <1>4 DEF IInv, UnitOK, DraftCovers, table
    <3> QED
      BY <2>2, <3>2, <3>3, <3>4 DEF UnitOK
  <2> QED
    BY <2>1, <2>2
<1> QED
  BY <1>8, <1>9, <1>10 DEF IInv

\* SELECT: what is visible covers the lot, and Enough bounds the plan by it.
LEMMA SelectPreserves ==
    ASSUME IInv, NEW u \in Units, Select(u)
    PROVE  IInv'
<1>1. PICK l \in Lots :
        /\ IsHead(u, l)
        /\ \/ /\ Enough(u, l)
              /\ read' = [read EXCEPT ![u] = Visible(u, l)]
              /\ pc' = [pc EXCEPT ![u] = "update"]
              /\ UNCHANGED <<table, turn, plan, draft, booked, lacked>>
           \/ Rollback(u)
  BY DEF Select
<1>2. UNCHANGED failures
  BY DEF Select
<1>3. CASE Rollback(u)
  BY <1>2, <1>3, RollbackPreserves DEF IInv, TypeOK
<1>4. CASE /\ Enough(u, l)
           /\ read' = [read EXCEPT ![u] = Visible(u, l)]
           /\ pc' = [pc EXCEPT ![u] = "update"]
           /\ UNCHANGED <<table, turn, plan, draft, booked, lacked>>
  <2>1. Visible(u, l) \in Nat
    BY VisibleTyped DEF IInv
  <2>2. TypeOK'
    BY <1>2, <1>4, <2>1 DEF IInv, TypeOK, table
  <2>3. NothingVanishes'
    BY <1>4 DEF IInv, NothingVanishes, table
  <2>4. ASSUME NEW v \in Units PROVE UnitOK(v)'
    <3>1. CASE v # u
      <4>1. \A k \in Lots : sold'[k] \in Nat /\ sold'[k] >= sold[k]
        BY <1>4 DEF IInv, TypeOK, table
      <4> QED
        BY <1>4, <3>1, <4>1, Frame DEF IInv, TypeOK
    <3>2. CASE v = u
      <4>1. pc'[u] = "update" /\ read'[u] = Visible(u, l)
        BY <1>4 DEF IInv, TypeOK
      <4>2. DraftCovers(u)'
        BY <1>4 DEF IInv, UnitOK, DraftCovers, table
      <4>3. ReadCovers(u)'
        <5> SUFFICES ASSUME NEW k \in Lots, IsHead(u, k)'
                     PROVE  (/\ plan[u][k] <= read[u]
                             /\ read[u] + booked[u][k] + sold[k] >= Stock[k].qty)'
          BY DEF ReadCovers
        <5>1. IsHead(u, k)
          BY <1>4 DEF IsHead
        <5>2. k = l
          BY <1>1, <5>1, HeadUnique DEF IInv
        <5>3. plan[u][l] <= Visible(u, l)
          BY <1>4 DEF Enough
        <5>4. Visible(u, l) + booked[u][l] + sold[l] >= Stock[l].qty
          BY VisibleCovers
        <5> QED
          BY <1>4, <4>1, <5>2, <5>3, <5>4 DEF table
      <4>4. HasDemand(u)'
        BY <4>1 DEF HasDemand
      <4> QED
        BY <3>2, <4>2, <4>3, <4>4 DEF UnitOK
    <3> QED
      BY <3>1, <3>2
  <2> QED
    BY <2>2, <2>3, <2>4 DEF IInv
<1> QED
  BY <1>1, <1>3, <1>4

\* UPDATE: what was read covers the lot; what is written gives up only the units
\* the new sale row takes.
LEMMA UpdatePreserves ==
    ASSUME IInv, NEW u \in Units, Update(u)
    PROVE  IInv'
<1>1. PICK l \in Lots :
        /\ IsHead(u, l)
        /\ draft' = [draft EXCEPT ![u] =
                       [k \in DOMAIN @ \cup {l} |->
                           IF k = l THEN Written(u, l) ELSE @[k]]]
        /\ booked' = [booked EXCEPT ![u][l] = @ + plan[u][l]]
        /\ plan' = [plan EXCEPT ![u][l] = 0]
        /\ pc' = [pc EXCEPT ![u] = AfterPlan(u, plan'[u], turn[u])]
  BY Zenon DEF Update
<1>2. pc[u] = "update" /\ UNCHANGED <<table, turn, read, lacked, failures>>
  BY DEF Update
<1>3. /\ plan[u][l] \in Nat /\ read[u] \in Nat /\ booked[u][l] \in Nat
      /\ sold[l] \in Nat /\ Stock[l].qty \in Nat /\ turn[u] \in Nat \ {0}
  BY LotsAreNumbers DEF IInv, TypeOK
<1>4. /\ plan[u][l] <= read[u]
      /\ read[u] + booked[u][l] + sold[l] >= Stock[l].qty
  BY <1>1, <1>2 DEF IInv, UnitOK, ReadCovers
<1>5. Written(u, l) \in Nat /\ Written(u, l) = read[u] - plan[u][l]
  BY <1>3, <1>4 DEF Written
<1>6. /\ AfterPlan(u, plan'[u], turn[u]) \in {"select", "plan", "esi", "commit"}
      /\ AfterPlan(u, plan'[u], turn[u]) = "plan" => turn[u] \in 1..Len(Demands(u))
  BY <1>3, AfterPlanTyped
<1>7. pc'[u] \in {"select", "plan", "esi", "commit"}
      /\ (pc'[u] = "plan" => turn[u] \in 1..Len(Demands(u)))
  BY <1>1, <1>6 DEF IInv, TypeOK
<1>8. /\ DOMAIN draft'[u] = DOMAIN draft[u] \cup {l}
      /\ \A k \in DOMAIN draft'[u] :
             draft'[u][k] = IF k = l THEN Written(u, l) ELSE draft[u][k]
  BY <1>1 DEF IInv, TypeOK
<1>9. \A k \in Lots : booked'[u][k] = IF k = l THEN booked[u][l] + plan[u][l]
                                              ELSE booked[u][k]
  BY <1>1 DEF IInv, TypeOK
<1>10. TypeOK'
  <2>1. /\ row' \in [Lots -> Nat] /\ sold' \in [Lots -> Nat] /\ unmet' \in Nat
        /\ claimed' \subseteq {Asks[v].key : v \in Units}
        /\ failures' \in 0..MaxFailures
        /\ turn' \in [Units -> Nat \ {0}] /\ read' \in [Units -> Nat]
        /\ lacked' \in [Units -> Nat]
    BY <1>2 DEF IInv, TypeOK, table
  <2>2. pc' \in [Units -> Ended \cup {"waiting", "begin", "plan", "select", "update",
                                      "esi", "commit"}]
    BY <1>1, <1>6 DEF IInv, TypeOK
  <2>3. plan' \in [Units -> [Lots -> Nat]]
    BY <1>1 DEF IInv, TypeOK
  <2>4. booked' \in [Units -> [Lots -> Nat]]
    <3>1. booked[u][l] + plan[u][l] \in Nat
      BY <1>3
    <3> QED
      BY <1>1, <3>1 DEF IInv, TypeOK
  <2>5. draft' = [v \in Units |-> draft'[v]]
    BY <1>1 DEF IInv, TypeOK
  <2>6. ASSUME NEW v \in Units
        PROVE  DOMAIN draft'[v] \subseteq Lots /\ draft'[v] \in [DOMAIN draft'[v] -> Nat]
    <3>1. CASE v # u
      BY <1>1, <3>1 DEF IInv, TypeOK
    <3>2. CASE v = u
      <4>1. draft'[u] = [k \in DOMAIN draft[u] \cup {l} |->
                            IF k = l THEN Written(u, l) ELSE draft[u][k]]
        BY <1>1 DEF IInv, TypeOK
      <4>2. \A k \in DOMAIN draft[u] : draft[u][k] \in Nat /\ k \in Lots
        BY DEF IInv, TypeOK
      <4> HIDE DEF Written
      <4> QED
        BY <1>5, <3>2, <4>1, <4>2
    <3> QED
      BY <3>1, <3>2
  <2> QED
    BY <2>1, <2>2, <2>3, <2>4, <2>5, <2>6 DEF TypeOK
<1>11. NothingVanishes'
  BY <1>2 DEF IInv, NothingVanishes, table
<1>12. ASSUME NEW v \in Units PROVE UnitOK(v)'
  <2>1. CASE v # u
    <3>1. \A k \in Lots : sold'[k] \in Nat /\ sold'[k] >= sold[k]
      BY <1>2 DEF IInv, TypeOK, table
    <3>2. /\ draft'[v] = draft[v] /\ booked'[v] = booked[v] /\ plan'[v] = plan[v]
          /\ pc'[v] = pc[v] /\ read'[v] = read[v] /\ turn'[v] = turn[v]
      BY <1>1, <1>2, <2>1 DEF IInv, TypeOK
    <3> QED
      BY <3>1, <3>2, Frame
  <2>2. CASE v = u
    <3>1. ASSUME NEW k \in DOMAIN draft'[u]
          PROVE  draft'[u][k] + booked'[u][k] + sold[k] >= Stock[k].qty
      <4>1. CASE k = l
        BY <1>3, <1>4, <1>5, <1>8, <1>9, <4>1
      <4>2. CASE k # l
        <5>1. k \in DOMAIN draft[u] /\ k \in Lots
          BY <1>8, <4>2 DEF IInv, TypeOK
        <5>2. draft[u][k] + booked[u][k] + sold[k] >= Stock[k].qty
          BY <5>1 DEF IInv, UnitOK, DraftCovers
        <5> QED
          BY <1>8, <1>9, <4>2, <5>1, <5>2
      <4> QED
        BY <4>1, <4>2
    <3>2. DraftCovers(u)'
      BY <1>2, <3>1 DEF DraftCovers, table
    <3> QED
      BY <1>2, <1>7, <2>2, <3>2 DEF UnitOK, ReadCovers, HasDemand
  <2> QED
    BY <2>1, <2>2
<1> QED
  BY <1>10, <1>11, <1>12 DEF IInv

\* Commit: the draft becomes the row and its sale rows become committed.
LEMMA CommitPreserves ==
    ASSUME IInv, NEW u \in Units, Commit(u)
    PROVE  IInv'
<1> USE DEF Commit
<1>1. \A l \in Lots : /\ Visible(u, l) \in Nat /\ booked[u][l] \in Nat
                       /\ sold[l] \in Nat /\ Stock[l].qty \in Nat
                       /\ Visible(u, l) + booked[u][l] + sold[l] >= Stock[l].qty
  BY LotsAreNumbers, VisibleTyped, VisibleCovers DEF IInv, TypeOK
<1>2. \A l \in Lots : /\ row'[l] = Visible(u, l)
                       /\ sold'[l] = sold[l] + booked[u][l]
  OBVIOUS
<1>3. TypeOK'
  <2>1. row' \in [Lots -> Nat]
    <3> HIDE DEF Visible
    <3> QED
      BY <1>1
  <2>2. sold' \in [Lots -> Nat]
    <3>1. \A l \in Lots : sold[l] + booked[u][l] \in Nat
      BY <1>1
    <3> QED
      BY <3>1
  <2>3. unmet' \in Nat /\ failures' \in 0..MaxFailures
    BY DEF IInv, TypeOK
  <2>4. claimed' \subseteq {Asks[v].key : v \in Units}
    BY DEF IInv, TypeOK
  <2>5. pc' \in [Units -> Ended \cup {"waiting", "begin", "plan", "select", "update",
                                      "esi", "commit"}]
    BY DEF IInv, TypeOK, Ended
  <2>6. turn' \in [Units -> Nat \ {0}] /\ read' \in [Units -> Nat]
        /\ lacked' \in [Units -> Nat]
    BY DEF IInv, TypeOK
  <2>7. plan' \in [Units -> [Lots -> Nat]] /\ booked' \in [Units -> [Lots -> Nat]]
    BY DEF IInv, TypeOK, Nothing
  <2>8. draft' = [v \in Units |-> draft'[v]]
        /\ \A v \in Units : DOMAIN draft'[v] \subseteq Lots
                             /\ draft'[v] \in [DOMAIN draft'[v] -> Nat]
    BY DEF IInv, TypeOK, NoDraft
  <2> QED
    BY <2>1, <2>2, <2>3, <2>4, <2>5, <2>6, <2>7, <2>8 DEF TypeOK
<1>4. NothingVanishes'
  <2> SUFFICES ASSUME NEW l \in Lots PROVE row'[l] + sold'[l] >= Stock[l].qty
    BY DEF NothingVanishes
  <2> QED
    BY <1>1, <1>2
<1>5. ASSUME NEW v \in Units PROVE UnitOK(v)'
  <2>1. CASE v # u
    <3>1. \A l \in Lots : sold'[l] \in Nat /\ sold'[l] >= sold[l]
      BY <1>1, <1>2
    <3>2. /\ draft'[v] = draft[v] /\ booked'[v] = booked[v] /\ plan'[v] = plan[v]
          /\ pc'[v] = pc[v] /\ read'[v] = read[v] /\ turn'[v] = turn[v]
      BY <2>1 DEF IInv, TypeOK
    <3> QED
      BY <3>1, <3>2, Frame
  <2>2. CASE v = u
    <3>1. draft'[u] = NoDraft /\ pc'[u] = "committed"
      BY DEF IInv, TypeOK
    <3> QED
      BY <2>2, <3>1 DEF UnitOK, DraftCovers, ReadCovers, HasDemand, NoDraft
  <2> QED
    BY <2>1, <2>2
<1> QED
  BY <1>3, <1>4, <1>5 DEF IInv

-----------------------------------------------------------------------------

LEMMA InitHolds == Init => IInv
<1> SUFFICES ASSUME Init PROVE IInv
  OBVIOUS
<1> USE LotsAreNumbers DEF Init, Nothing, NoDraft
<1>1. TypeOK
  BY FailuresAssumption DEF TypeOK, Ended
<1>2. NothingVanishes
  BY DEF NothingVanishes
<1>3. \A u \in Units : UnitOK(u)
  BY DEF UnitOK, DraftCovers, ReadCovers, HasDemand
<1> QED
  BY <1>1, <1>2, <1>3 DEF IInv

LEMMA StepHolds == IInv /\ [Next]_vars => IInv'
<1> SUFFICES ASSUME IInv, [Next]_vars PROVE IInv'
  OBVIOUS
<1>1. CASE UNCHANGED vars
  BY <1>1 DEF IInv, TypeOK, NothingVanishes, UnitOK, DraftCovers, ReadCovers, HasDemand,
              IsHead, vars, table, session
<1>2. ASSUME NEW u \in Units, Step(u) PROVE IInv'
  <2>1. CASE Reschedule(u)
    <3>1. turn[u] = 1
      BY <2>1 DEF Reschedule, IInv, UnitOK, HasDemand
    <3> QED
      BY <2>1, <3>1, AdvancePreserves DEF Reschedule
  <2>2. CASE Begin(u)
    <3>1. CASE Asks[u].key \in claimed
      BY <2>2, <3>1, AdvancePreserves DEF Begin, Ended
    <3>2. CASE Asks[u].key \notin claimed
      <4>1. turn[u] \in 1..Len(Demands(u))
        BY <2>2, AsksTyped DEF Begin, IInv, UnitOK, HasDemand
      <4> QED
        BY <2>2, <3>2, <4>1, AdvancePreserves DEF Begin
    <3> QED
      BY <3>1, <3>2
  <2>3. CASE Plan(u)
    BY <2>3, PlanPreserves
  <2>4. CASE Select(u)
    BY <2>4, SelectPreserves
  <2>5. CASE Update(u)
    BY <2>5, UpdatePreserves
  <2>6. CASE EsiAnswers(u)
    BY <2>6, AdvancePreserves DEF EsiAnswers
  <2>7. CASE Commit(u)
    BY <2>7, CommitPreserves
  <2> QED
    BY <1>2, <2>1, <2>2, <2>3, <2>4, <2>5, <2>6, <2>7 DEF Step
<1>3. ASSUME NEW u \in Units, Fail(u) PROVE IInv'
  <2>1. failures' \in 0..MaxFailures
    BY <1>3, FailuresAssumption DEF Fail, IInv, TypeOK
  <2> QED
    BY <1>3, <2>1, RollbackPreserves DEF Fail
<1>4. ASSUME NEW u \in Units, BreakDeadlock(u) PROVE IInv'
  BY <1>4, RollbackPreserves DEF BreakDeadlock, IInv, TypeOK
<1> QED
  BY <1>1, <1>2, <1>3, <1>4 DEF Next

\* Every interleaving keeps the tables and the sessions well formed and every unit
\* covered.
THEOREM Inductive == Spec => []IInv
<1>1. Init => IInv
  BY InitHolds
<1>2. IInv /\ [Next]_vars => IInv'
  BY StepHolds
<1> QED
  BY <1>1, <1>2, PTL DEF Spec

\* The committed rows and every session's working state stay well formed; no
\* UPDATE ever writes a negative quantity, however stale the SELECT before it.
THEOREM TypeCorrect == Spec => []TypeOK
<1>1. IInv => TypeOK
  BY DEF IInv
<1> QED
  BY <1>1, Inductive, PTL

\* Lost updates of consume leave phantom units at worst: no lot ever shows less than
\* its stock minus what its committed sale rows took.
THEOREM NothingEverVanishes == Spec => []NothingVanishes
<1>1. IInv => NothingVanishes
  BY DEF IInv
<1> QED
  BY <1>1, Inductive, PTL

\* Both parts of StockKept, for any set of units, lots and demands.
THEOREM StockIsKept == Spec => []StockKept
<1>1. TypeOK /\ NothingVanishes => StockKept
  BY DEF StockKept
<1> QED
  BY <1>1, TypeCorrect, NothingEverVanishes, PTL
-----------------------------------------------------------------------------

\* Where a unit is while its transaction is open.
Running == {"plan", "select", "update", "esi", "commit"}

\* The units of a table of lots, totalled.
Sum(f) == SumFunctionOnSet(f, Lots)

\* What each demand of u asks for, those before demand n together, and all of
\* them for every unit.
Asked(u) == [i \in DOMAIN Demands(u) |-> Demands(u)[i].qty]
AskedBefore(u, n) == SumFunctionOnSet(Asked(u), 1..(n - 1))
Orders == [u \in Units |-> SumFunctionOnSet(Asked(u), DOMAIN Demands(u))]

\* The units whose transaction has committed.
Committed == {u \in Units : pc[u] = "committed"}

\* What a running unit has done so far: what it has booked, what its plan still
\* has to book and what it found no lot for make up the demands behind it.
InHand(u) == Sum(booked[u]) + Sum(plan[u]) + lacked[u] = AskedBefore(u, turn[u])

\* A plan is empty outside the booking loop, a unit that calls ESI or commits has
\* all its demands behind it, and a unit that is not running has nothing in hand.
Progress(u) ==
    /\ turn[u] \in 1..(Len(Demands(u)) + 1)
    /\ pc[u] \in Running => InHand(u)
    /\ pc[u] \notin {"select", "update"} => Done(plan[u])
    /\ pc[u] \in {"esi", "commit"} => turn[u] = Len(Demands(u)) + 1
    /\ pc[u] \notin Running => Done(booked[u]) /\ lacked[u] = 0

\* With the committed totals: the bookings and the shortfalls of the committed
\* units are their demands.
BInv ==
    /\ \A u \in Units : Progress(u)
    /\ Sum(sold) + unmet = SumFunctionOnSet(Orders, Committed)

\* There are finitely many lots and units.
LEMMA LotsFinite == IsFiniteSet(Lots) /\ IsFiniteSet(Units)
<1>1. Lots = 1..Len(Stock) /\ Len(Stock) \in Nat
  BY StockAssumption DEF Lots
<1> QED BY <1>1, FS_Interval, AsksAssumption

\* A table of quantities has a quantity for its total.
LEMMA SumTyped == ASSUME NEW f \in [Lots -> Nat] PROVE Sum(f) \in Nat
BY LotsFinite, SumOnNat DEF Sum

\* A table with nothing in it totals 0.
LEMMA SumOfNone == ASSUME NEW f, Done(f) PROVE Sum(f) = 0
BY LotsFinite, SumOnZero DEF Sum, Done

\* The demands of a unit are numbered and each asks for some quantity.
LEMMA AskedDomain ==
    ASSUME NEW u \in Units
    PROVE  /\ DOMAIN Demands(u) = 1..Len(Demands(u)) /\ Len(Demands(u)) \in Nat \ {0}
           /\ \A i \in 1..Len(Demands(u)) : Asked(u)[i] = Demands(u)[i].qty /\ Asked(u)[i] \in Nat
<1>1. Demands(u) \in Seq([slot : Slots, qty : Nat \ {0}])
  BY AsksAssumption
<1>2. DOMAIN Demands(u) = 1..Len(Demands(u))
  <2> DEFINE D == Demands(u)
             R == [slot : Slots, qty : Nat \ {0}]
  <2>1. D \in Seq(R) BY <1>1
  <2> HIDE DEF D, R
  <2>2. DOMAIN D = 1..Len(D) BY <2>1
  <2> QED BY <2>2 DEF D
<1> QED BY <1>2, AsksTyped DEF Asked

\* Planning demand n puts its quantity behind the unit.
LEMMA AskedNext ==
    ASSUME NEW u \in Units, NEW n \in 1..Len(Demands(u))
    PROVE  AskedBefore(u, n + 1) = Demands(u)[n].qty + AskedBefore(u, n)
<1> DEFINE S == 1..(n - 1)
<1>1. IsFiniteSet(S)
  <2>1. 1 \in Int /\ n - 1 \in Int BY AskedDomain
  <2> QED BY <2>1, FS_Interval
<1>2. /\ n \notin S /\ 1..((n + 1) - 1) = S \cup {n}
      /\ \A i \in S \cup {n} : Asked(u)[i] \in Int
  BY AskedDomain
<1>3. SumFunctionOnSet(Asked(u), S \cup {n}) = Asked(u)[n] + SumFunctionOnSet(Asked(u), S)
  <2> HIDE DEF S
  <2> QED BY <1>1, <1>2, SumOnAdd
<1>4. AskedBefore(u, n + 1) = SumFunctionOnSet(Asked(u), S \cup {n})
  BY <1>2 DEF AskedBefore
<1>5. AskedBefore(u, n) = SumFunctionOnSet(Asked(u), S)
  BY DEF AskedBefore
<1>6. Asked(u)[n] = Demands(u)[n].qty BY AskedDomain
<1> QED BY <1>3, <1>4, <1>5, <1>6

\* No demand is behind a unit that starts.
LEMMA AskedFirst == ASSUME NEW u \in Units PROVE AskedBefore(u, 1) = 0
<1>1. 1..(1 - 1) = {} OBVIOUS
<1> QED BY <1>1, SumOnEmpty DEF AskedBefore

\* Behind a unit that is through is everything it was asked for.
LEMMA AskedAll ==
    ASSUME NEW u \in Units
    PROVE  AskedBefore(u, Len(Demands(u)) + 1) = Orders[u] /\ Orders[u] \in Nat
<1>1. DOMAIN Demands(u) = 1..Len(Demands(u)) /\ Len(Demands(u)) \in Nat BY AskedDomain
<1>2. 1..((Len(Demands(u)) + 1) - 1) = DOMAIN Demands(u) BY <1>1
<1>3. IsFiniteSet(DOMAIN Demands(u)) BY <1>1, FS_Interval
<1>4. SumFunctionOnSet(Asked(u), DOMAIN Demands(u)) \in Nat
  BY <1>1, <1>3, AskedDomain, SumOnNat
<1> QED BY <1>2, <1>4 DEF AskedBefore, Orders

\* Units that do not act.
LEMMA ProgressFrame ==
    ASSUME BInv, NEW v \in Units,
           booked'[v] = booked[v], plan'[v] = plan[v], lacked'[v] = lacked[v],
           pc'[v] = pc[v], turn'[v] = turn[v]
    PROVE  Progress(v)'
BY DEF BInv, Progress, InHand, Sum, AskedBefore, Asked, Done

\* Steps that neither commit nor undo a commit leave the committed totals alone.
LEMMA TotalsFrame ==
    ASSUME BInv, UNCHANGED <<sold, unmet>>, TypeOK, NEW u \in Units, NEW to,
           pc' = [pc EXCEPT ![u] = to], pc[u] # "committed", to # "committed"
    PROVE  (Sum(sold) + unmet = SumFunctionOnSet(Orders, Committed))'
<1>1. Committed' = Committed BY DEF Committed, TypeOK
<1> QED BY <1>1 DEF BInv, Sum, Orders, Asked

\* A rollback, of an injected failure, a NOWAIT refusal or a deadlock, leaves
\* nothing in hand and the committed totals alone.
LEMMA RollbackKeepsTotals ==
    ASSUME IInv, BInv, NEW u \in Units, pc[u] \in Running, Rollback(u)
    PROVE  BInv'
<1> USE DEF Rollback, Rewound
<1>1. TypeOK /\ pc[u] # "committed" BY DEF IInv, Running
<1>2. (IF Asks[u].job THEN "waiting" ELSE "failed") # "committed" OBVIOUS
<1>3. (Sum(sold) + unmet = SumFunctionOnSet(Orders, Committed))'
  <2>1. UNCHANGED <<sold, unmet>> BY DEF table
  <2> QED BY <1>1, <1>2, <2>1, TotalsFrame
<1>4. ASSUME NEW v \in Units PROVE Progress(v)'
  <2>1. CASE v # u BY <2>1, <1>1, ProgressFrame DEF TypeOK
  <2>2. CASE v = u
    <3>1. /\ turn'[u] = 1 /\ plan'[u] = Nothing /\ booked'[u] = Nothing /\ lacked'[u] = 0
          /\ pc'[u] \in {"waiting", "failed"}
      BY <1>1 DEF TypeOK
    <3>2. Len(Demands(u)) \in Nat BY AskedDomain
    <3> QED BY <2>2, <3>1, <3>2 DEF Progress, Done, Nothing, Running
  <2> QED BY <2>1, <2>2
<1> QED BY <1>3, <1>4 DEF BInv

\* plan_consumption splits a demand into takes and a shortfall, losing nothing.
LEMMA PlanKeepsTotals ==
    ASSUME IInv, BInv, NEW u \in Units, Plan(u)
    PROVE  BInv'
<1>1. TypeOK /\ pc[u] = "plan" /\ turn[u] \in 1..Len(Demands(u))
  BY DEF IInv, Plan, UnitOK, HasDemand
<1> DEFINE ask == Demands(u)[turn[u]]
<1>2. /\ ask.qty \in Nat /\ turn[u] \in Nat /\ lacked[u] \in Nat
      /\ booked[u] \in [Lots -> Nat] /\ Len(Demands(u)) \in Nat
  BY <1>1, AskedDomain DEF TypeOK
<1>3. PICK take \in [Lots -> 0..ask.qty] : \E short \in 0..ask.qty :
             /\ IsFifo(u, ask, take, short)
             /\ plan' = [plan EXCEPT ![u] = take]
             /\ lacked' = [lacked EXCEPT ![u] = @ + short]
             /\ pc' = [pc EXCEPT ![u] = AfterPlan(u, take, turn[u] + 1)]
  BY Zenon DEF Plan
<1>4. PICK short \in 0..ask.qty :
             /\ IsFifo(u, ask, take, short)
             /\ plan' = [plan EXCEPT ![u] = take]
             /\ lacked' = [lacked EXCEPT ![u] = @ + short]
             /\ pc' = [pc EXCEPT ![u] = AfterPlan(u, take, turn[u] + 1)]
  BY <1>3
<1>5. /\ turn' = [turn EXCEPT ![u] = @ + 1] /\ UNCHANGED <<sold, unmet, booked>>
  BY DEF Plan, table
<1>6. take \in [Lots -> Nat] /\ short \in Nat BY <1>2
<1>7. Sum(take) + short = ask.qty
  <2>1. SumFunction(take) + short = ask.qty BY <1>4 DEF IsFifo
  <2> QED BY <2>1 DEF Sum, SumFunction
<1> HIDE DEF ask
<1>8. /\ plan'[u] = take /\ lacked'[u] = lacked[u] + short /\ turn'[u] = turn[u] + 1
      /\ booked'[u] = booked[u] /\ pc'[u] = AfterPlan(u, take, turn[u] + 1)
  BY <1>1, <1>4, <1>5 DEF TypeOK
<1>9. /\ pc'[u] \in {"select", "plan", "esi", "commit"}
      /\ pc'[u] # "select" => Done(take)
      /\ pc'[u] \in {"esi", "commit"} => turn[u] + 1 > Len(Demands(u))
  BY <1>2, <1>8 DEF AfterPlan
<1>10. Sum(booked[u]) + Sum(take) + (lacked[u] + short) = AskedBefore(u, turn[u] + 1)
  <2>1. Sum(booked[u]) + Sum(plan[u]) + lacked[u] = AskedBefore(u, turn[u])
    BY <1>1 DEF BInv, Progress, InHand, Running
  <2>2. Sum(plan[u]) = 0 BY <1>1, SumOfNone DEF BInv, Progress
  <2>3. AskedBefore(u, turn[u] + 1) = ask.qty + AskedBefore(u, turn[u])
    BY <1>1, AskedNext DEF ask
  <2>4. Sum(booked[u]) \in Nat /\ Sum(take) \in Nat BY <1>2, <1>6, SumTyped
  <2> QED BY <1>2, <1>6, <1>7, <2>1, <2>2, <2>3, <2>4
<1>11. Progress(u)'
  <2>1. InHand(u)'
    BY <1>8, <1>10 DEF InHand, Sum, AskedBefore, Asked
  <2>2. turn'[u] \in 1..(Len(Demands(u)) + 1) BY <1>1, <1>2, <1>8
  <2>3. pc'[u] \in {"esi", "commit"} => turn'[u] = Len(Demands(u)) + 1
    BY <1>1, <1>2, <1>8, <1>9
  <2> QED BY <1>8, <1>9, <2>1, <2>2, <2>3 DEF Progress, Running, Done
<1>12. ASSUME NEW v \in Units PROVE Progress(v)'
  <2>1. CASE v # u BY <2>1, <1>1, <1>4, <1>5, ProgressFrame DEF TypeOK
  <2> QED BY <1>11, <2>1
<1>13. (Sum(sold) + unmet = SumFunctionOnSet(Orders, Committed))'
  <2>1. pc[u] # "committed" BY <1>1
  <2>2. AfterPlan(u, take, turn[u] + 1) # "committed" BY <1>8, <1>9
  <2> QED BY <1>1, <1>4, <1>5, <2>1, <2>2, TotalsFrame
<1> QED BY <1>12, <1>13 DEF BInv

\* consume books what the plan said, lot by lot.
LEMMA UpdateKeepsTotals ==
    ASSUME IInv, BInv, NEW u \in Units, Update(u)
    PROVE  BInv'
<1>1. TypeOK /\ pc[u] = "update" /\ UNCHANGED <<sold, unmet, turn, lacked>>
  BY DEF IInv, Update, table
<1>2. PICK l \in Lots :
        /\ IsHead(u, l)
        /\ booked' = [booked EXCEPT ![u][l] = @ + plan[u][l]]
        /\ plan' = [plan EXCEPT ![u][l] = 0]
        /\ pc' = [pc EXCEPT ![u] = AfterPlan(u, plan'[u], turn[u])]
  BY Zenon DEF Update
<1>3. /\ booked[u] \in [Lots -> Nat] /\ plan[u] \in [Lots -> Nat] /\ lacked[u] \in Nat
      /\ turn[u] \in Nat /\ Len(Demands(u)) \in Nat
  BY <1>1, AskedDomain DEF TypeOK
<1>4. /\ booked'[u] = [booked[u] EXCEPT ![l] = @ + plan[u][l]]
      /\ plan'[u] = [plan[u] EXCEPT ![l] = 0]
      /\ pc'[u] = AfterPlan(u, plan'[u], turn[u])
  BY <1>1, <1>2 DEF TypeOK
<1>5. Sum(booked'[u]) = Sum(booked[u]) + plan[u][l]
  <2>1. /\ \A k \in Lots : booked[u][k] \in Int /\ booked'[u][k] \in Int
        /\ \A k \in Lots \ {l} : booked'[u][k] = booked[u][k]
        /\ booked'[u][l] = booked[u][l] + plan[u][l]
    BY <1>3, <1>4
  <2>2. Sum(booked'[u]) = Sum(booked[u]) - booked[u][l] + booked'[u][l]
    BY <2>1, LotsFinite, SumOnChange DEF Sum
  <2>3. Sum(booked[u]) \in Nat BY <1>3, SumTyped
  <2> QED BY <1>3, <2>1, <2>2, <2>3
<1>6. Sum(plan'[u]) = Sum(plan[u]) - plan[u][l]
  <2>1. /\ \A k \in Lots : plan[u][k] \in Int /\ plan'[u][k] \in Int
        /\ \A k \in Lots \ {l} : plan'[u][k] = plan[u][k]
        /\ plan'[u][l] = 0
    BY <1>3, <1>4
  <2>2. Sum(plan'[u]) = Sum(plan[u]) - plan[u][l] + plan'[u][l]
    BY <2>1, LotsFinite, SumOnChange DEF Sum
  <2>3. Sum(plan[u]) \in Nat BY <1>3, SumTyped
  <2> QED BY <1>3, <2>1, <2>2, <2>3
<1>7. /\ pc'[u] \in {"select", "plan", "esi", "commit"}
      /\ pc'[u] # "select" => Done(plan'[u])
      /\ pc'[u] \in {"esi", "commit"} => turn[u] > Len(Demands(u))
  BY <1>3, <1>4 DEF AfterPlan
<1>8. Progress(u)'
  <2>1. /\ Sum(booked[u]) + Sum(plan[u]) + lacked[u] = AskedBefore(u, turn[u])
        /\ turn[u] \in 1..(Len(Demands(u)) + 1)
    BY <1>1 DEF BInv, Progress, InHand, Running
  <2>2. Sum(booked[u]) \in Nat /\ Sum(plan[u]) \in Nat /\ plan[u][l] \in Nat
    BY <1>3, SumTyped
  <2>3. Sum(booked'[u]) + Sum(plan'[u]) + lacked[u] = AskedBefore(u, turn[u])
    BY <1>3, <1>5, <1>6, <2>1, <2>2
  <2>4. InHand(u)' BY <1>1, <2>3 DEF InHand, Sum, AskedBefore, Asked
  <2>5. pc'[u] \in {"esi", "commit"} => turn'[u] = Len(Demands(u)) + 1
    BY <1>1, <1>3, <1>7, <2>1
  <2>6. Done(plan'[u]) => Done(plan[u])' BY DEF Done
  <2>7. turn'[u] \in 1..(Len(Demands(u)) + 1) BY <1>1, <2>1
  <2> QED BY <1>7, <2>4, <2>5, <2>6, <2>7 DEF Progress, Running
<1>9. ASSUME NEW v \in Units PROVE Progress(v)'
  <2>1. CASE v # u BY <2>1, <1>1, <1>2, ProgressFrame DEF TypeOK
  <2> QED BY <1>8, <2>1
<1>10. (Sum(sold) + unmet = SumFunctionOnSet(Orders, Committed))'
  <2>1. AfterPlan(u, plan'[u], turn[u]) # "committed" BY <1>4, <1>7
  <2> QED BY <1>1, <1>2, <2>1, TotalsFrame
<1> QED BY <1>9, <1>10 DEF BInv

\* A commit moves everything a unit was asked for into the committed totals.
LEMMA CommitKeepsTotals ==
    ASSUME IInv, BInv, NEW u \in Units, Commit(u)
    PROVE  BInv'
<1> USE DEF Commit
<1>1. /\ TypeOK /\ pc[u] = "commit" /\ sold \in [Lots -> Nat] /\ booked[u] \in [Lots -> Nat]
      /\ unmet \in Nat /\ lacked[u] \in Nat
  BY DEF IInv, TypeOK
<1>2. Sum(sold') = Sum(sold) + Sum(booked[u])
  BY <1>1, LotsFinite, SumOnPlus DEF Sum
<1>3. Sum(booked[u]) + lacked[u] = Orders[u] /\ Orders[u] \in Nat
  <2>1. Sum(booked[u]) + Sum(plan[u]) + lacked[u] = AskedBefore(u, Len(Demands(u)) + 1)
    BY <1>1 DEF BInv, Progress, InHand, Running
  <2>2. Sum(plan[u]) = 0 BY <1>1, SumOfNone DEF BInv, Progress
  <2>3. Sum(booked[u]) \in Nat BY <1>1, SumTyped
  <2> QED BY <1>1, <2>1, <2>2, <2>3, AskedAll
<1>4. (Sum(sold) + unmet = SumFunctionOnSet(Orders, Committed))'
  <2>1. /\ Committed' = Committed \cup {u} /\ u \notin Committed /\ Committed \subseteq Units
    BY <1>1 DEF Committed, TypeOK
  <2>2. IsFiniteSet(Committed) BY <2>1, LotsFinite, FS_Subset
  <2>3. \A v \in Committed \cup {u} : Orders[v] \in Int BY <2>1, AskedAll
  <2>4. SumFunctionOnSet(Orders, Committed \cup {u}) = Orders[u] + SumFunctionOnSet(Orders, Committed)
    BY <2>1, <2>2, <2>3, SumOnAdd
  <2>5. Sum(sold) + unmet = SumFunctionOnSet(Orders, Committed) BY DEF BInv
  <2>6. Sum(sold) \in Nat /\ Sum(booked[u]) \in Nat BY <1>1, SumTyped
  <2>7. Sum(sold') + unmet' = SumFunctionOnSet(Orders, Committed')
    BY <1>1, <1>2, <1>3, <2>1, <2>4, <2>5, <2>6
  <2> QED BY <2>7 DEF Sum, Orders, Asked
<1>5. ASSUME NEW v \in Units PROVE Progress(v)'
  <2>1. CASE v # u BY <2>1, <1>1, ProgressFrame DEF TypeOK
  <2>2. CASE v = u
    <3>1. /\ booked'[u] = Nothing /\ lacked'[u] = 0 /\ pc'[u] = "committed"
          /\ turn'[u] = turn[u] /\ plan'[u] = plan[u]
      BY <1>1 DEF TypeOK
    <3>2. Done(plan[u]) /\ turn[u] \in 1..(Len(Demands(u)) + 1) BY <1>1 DEF BInv, Progress
    <3> QED BY <2>2, <3>1, <3>2 DEF Progress, Running, Done, Nothing
  <2> QED BY <2>1, <2>2
<1> QED BY <1>4, <1>5 DEF BInv

\* Steps that only move a unit on.
LEMMA AdvanceKeepsTotals ==
    ASSUME IInv, BInv, NEW u \in Units, NEW to, pc' = [pc EXCEPT ![u] = to],
           UNCHANGED <<sold, unmet, turn, plan, booked, lacked>>,
           \/ pc[u] = "begin" /\ to \in {"plan", "refused"}
           \/ pc[u] = "waiting" /\ to = "begin"
           \/ pc[u] = "select" /\ to = "update"
           \/ pc[u] = "esi" /\ to = "commit"
    PROVE  BInv'
<1>1. TypeOK /\ pc[u] # "committed" /\ to # "committed" /\ pc'[u] = to
  BY DEF IInv, TypeOK
<1>2. (Sum(sold) + unmet = SumFunctionOnSet(Orders, Committed))'
  BY <1>1, TotalsFrame
<1>3. to = "plan" => InHand(u)
  <2> SUFFICES ASSUME to = "plan" PROVE InHand(u)
    OBVIOUS
  <2>1. pc[u] = "begin" OBVIOUS
  <2>2. Done(booked[u]) /\ Done(plan[u]) /\ lacked[u] = 0 /\ turn[u] = 1
    BY <2>1 DEF BInv, Progress, Running, IInv, UnitOK, HasDemand
  <2>3. Sum(booked[u]) = 0 /\ Sum(plan[u]) = 0 /\ AskedBefore(u, turn[u]) = 0
    BY <2>2, SumOfNone, AskedFirst
  <2> QED BY <2>2, <2>3 DEF InHand
<1>4. Progress(u)'
  <2>1. Progress(u) BY DEF BInv
  <2>2. InHand(u) => InHand(u)' BY DEF InHand, Sum, AskedBefore, Asked
  <2>3. to \in Running => InHand(u) BY <1>3, <2>1 DEF Progress, Running
  <2>4. Done(plan[u]) => Done(plan[u])' BY DEF Done
  <2>5. Done(booked[u]) => Done(booked[u])' BY DEF Done
  <2>6. Done(plan[u]) \/ to = "update" BY <2>1 DEF Progress
  <2>7. to \notin Running => Done(booked[u]) /\ lacked[u] = 0 BY <2>1 DEF Progress, Running
  <2>8. to = "commit" => turn[u] = Len(Demands(u)) + 1 BY <2>1 DEF Progress
  <2>9. turn[u] \in 1..(Len(Demands(u)) + 1) /\ to # "esi" BY <2>1 DEF Progress
  <2> QED BY <1>1, <2>2, <2>3, <2>4, <2>5, <2>6, <2>7, <2>8, <2>9 DEF Progress
<1>5. ASSUME NEW v \in Units PROVE Progress(v)'
  <2>1. CASE v # u BY <2>1, <1>1, ProgressFrame DEF TypeOK
  <2> QED BY <1>4, <2>1
<1> QED BY <1>2, <1>5 DEF BInv

\* At first nothing is booked and nothing committed.
LEMMA InitTotals == Init => BInv
<1> SUFFICES ASSUME Init PROVE BInv
  OBVIOUS
<1>1. ASSUME NEW u \in Units PROVE Progress(u)
  <2>1. Len(Demands(u)) \in Nat \ {0} BY AskedDomain
  <2> QED BY <2>1 DEF Init, Progress, Running, Done, Nothing
<1>2. Sum(sold) = 0 BY SumOfNone DEF Init, Done, Nothing
<1>3. Committed = {} BY DEF Init, Committed
<1> QED BY <1>1, <1>2, <1>3, SumOnEmpty DEF BInv, Init

\* Every step keeps BInv; IInv says what is typed and where a unit starts.
LEMMA StepTotals == IInv /\ BInv /\ [Next]_vars => BInv'
<1> SUFFICES ASSUME IInv, BInv, [Next]_vars PROVE BInv'
  OBVIOUS
<1>1. CASE UNCHANGED vars
  BY <1>1 DEF BInv, Progress, InHand, Sum, AskedBefore, Asked, Orders, Committed, Done,
              vars, table, session
<1>2. ASSUME NEW u \in Units, Step(u) PROVE BInv'
  <2>1. CASE Reschedule(u) BY <2>1, AdvanceKeepsTotals DEF Reschedule, table
  <2>2. CASE Begin(u)
    <3>1. CASE Asks[u].key \in claimed BY <2>2, <3>1, AdvanceKeepsTotals DEF Begin, table
    <3>2. CASE Asks[u].key \notin claimed BY <2>2, <3>2, AdvanceKeepsTotals DEF Begin, table
    <3> QED BY <3>1, <3>2
  <2>3. CASE Plan(u) BY <2>3, PlanKeepsTotals
  <2>4. CASE Select(u)
    <3>1. pc[u] = "select" BY <2>4 DEF Select
    <3>2. \/ /\ pc' = [pc EXCEPT ![u] = "update"]
             /\ UNCHANGED <<sold, unmet, turn, plan, booked, lacked>>
          \/ Rollback(u)
      BY <2>4 DEF Select, table
    <3>3. CASE Rollback(u) BY <3>1, <3>3, RollbackKeepsTotals DEF Running
    <3> QED BY <3>1, <3>2, <3>3, AdvanceKeepsTotals
  <2>5. CASE Update(u) BY <2>5, UpdateKeepsTotals
  <2>6. CASE EsiAnswers(u) BY <2>6, AdvanceKeepsTotals DEF EsiAnswers, table
  <2>7. CASE Commit(u) BY <2>7, CommitKeepsTotals
  <2> QED BY <1>2, <2>1, <2>2, <2>3, <2>4, <2>5, <2>6, <2>7 DEF Step
<1>3. ASSUME NEW u \in Units, Fail(u) PROVE BInv'
  BY <1>3, RollbackKeepsTotals DEF Fail, Active, Running
<1>4. ASSUME NEW u \in Units, BreakDeadlock(u) PROVE BInv'
  <2>1. pc[u] = "update" BY <1>4 DEF BreakDeadlock, Deadlocked, Waits
  <2> QED BY <1>4, <2>1, RollbackKeepsTotals DEF BreakDeadlock, Running
<1> QED BY <1>1, <1>2, <1>3, <1>4 DEF Next

\* A unit of work commits everything it was asked for or nothing: for any units,
\* lots and interleaving of their transactions, with rollbacks and retries, the
\* bookings and shortfalls on the books are the demands of the committed units.
THEOREM UnitsAreAllOrNothing == Spec => []AllOrNothing
<1>1. Init => BInv BY InitTotals
<1>2. IInv /\ BInv /\ [Next]_vars => BInv' BY StepTotals
<1>3. IInv /\ BInv => AllOrNothing
  <2> SUFFICES ASSUME IInv, BInv PROVE AllOrNothing
    OBVIOUS
  <2> DEFINE asked == [u \in Committed |-> SumFunction(Asked(u))]
  <2>1. IsFiniteSet(Committed) /\ Committed \subseteq Units
    BY LotsFinite, FS_Subset DEF Committed
  <2>2. \A u \in Committed : asked[u] = Orders[u]
    BY <2>1 DEF SumFunction, Orders, Asked
  <2>3. SumFunction(asked) = SumFunctionOnSet(asked, Committed) BY DEF SumFunction
  <2>4. SumFunctionOnSet(asked, Committed) = SumFunctionOnSet(Orders, Committed)
    <3> HIDE DEF asked
    <3> QED BY <2>1, <2>2, SumOnSame
  <2>5. SumFunction(sold) = Sum(sold) BY DEF SumFunction, Sum, IInv, TypeOK
  <2> QED BY <2>3, <2>4, <2>5 DEF BInv, AllOrNothing, Committed, Asked
<1> QED BY <1>1, <1>2, <1>3, Inductive, PTL DEF Spec

-----------------------------------------------------------------------------
(* Sharing out: batches and largest remainders *)

\* A number in batches: the whole ones and the odd units.
LEMMA WholeAndRest ==
    ASSUME NEW n \in Nat, NEW d \in Nat, d > 0
    PROVE  /\ n \div d \in Nat /\ n % d \in Nat /\ n % d < d
           /\ n = d * (n \div d) + (n % d)
           /\ d * (n \div d) <= n
<1>1. n \div d \in Int /\ n % d \in 0..d-1 OBVIOUS
<1>2. n = d * (n \div d) + (n % d) OBVIOUS
<1>3. PICK q \in Int : q = n \div d BY <1>1
<1>4. q >= 0
  <2> SUFFICES ASSUME q <= -1 PROVE FALSE BY <1>3
  <2>1. d * q <= -d OBVIOUS
  <2>2. n = d * q + (n % d) BY <1>2, <1>3
  <2> QED BY <1>1, <2>1, <2>2
<1> QED BY <1>1, <1>2, <1>3, <1>4

\* Rounding moves a fraction by half a unit at most.
LEMMA NearestIsNear ==
    ASSUME NEW n \in Nat, NEW d \in Nat, d > 0
    PROVE  /\ Nearest(n, d) \in Nat
           /\ 2 * (d * Nearest(n, d) - n) <= d
           /\ 2 * (n - d * Nearest(n, d)) <= d
           /\ d = 1 => Nearest(n, d) = n
<1>1. PICK q \in Nat, r \in Nat : q = n \div d /\ r = n % d /\ r < d /\ n = d * q + r
  BY WholeAndRest
<1>2. \/ Nearest(n, d) = q + 1 /\ 2 * r >= d
      \/ Nearest(n, d) = q /\ 2 * r <= d
  BY <1>1 DEF Nearest
<1>3. PICK p \in Nat : p = d * q BY <1>1
<1>4. d * (q + 1) = p + d BY <1>1, <1>3
<1>5. CASE Nearest(n, d) = q + 1 /\ 2 * r >= d
  <2>1. d * Nearest(n, d) = p + d BY <1>4, <1>5
  <2>2. d = 1 => FALSE BY <1>1, <1>5
  <2> QED BY <1>1, <1>3, <1>5, <2>1, <2>2
<1>6. CASE Nearest(n, d) = q /\ 2 * r <= d
  <2>1. d * Nearest(n, d) = p BY <1>3, <1>6
  <2>2. d = 1 => p = q /\ r = 0 BY <1>1, <1>3
  <2> QED BY <1>1, <1>3, <1>6, <2>1, <2>2
<1> QED BY <1>2, <1>5, <1>6

\* It does not pass a whole number.
LEMMA NearestBelow ==
    ASSUME NEW n \in Nat, NEW d \in Nat, d > 0, NEW k \in Nat, n <= d * k
    PROVE  Nearest(n, d) <= k
<1>1. Nearest(n, d) \in Nat /\ 2 * (d * Nearest(n, d) - n) <= d BY NearestIsNear
<1> PICK m \in Nat : m = Nearest(n, d) BY <1>1
<1> SUFFICES ASSUME m >= k + 1 PROVE FALSE OBVIOUS
<1>2. d * m >= d * (k + 1) OBVIOUS
<1>3. d * (k + 1) = d * k + d OBVIOUS
<1>4. PICK p \in Nat : p = d * k OBVIOUS
<1>5. PICK s \in Nat : s = d * m OBVIOUS
<1> QED BY <1>1, <1>2, <1>3, <1>4, <1>5

\* Weights to share by: natural numbers, not all of them 0.
Weighing(weights) ==
    /\ IsFiniteSet(DOMAIN weights) /\ DOMAIN weights \subseteq Int
    /\ \A i \in DOMAIN weights : weights[i] \in Nat
    /\ SumFunction(weights) > 0

\* What LargestRemainder rounds down, and what that leaves of each share.
RoundedDown(num, den, weights) ==
    [i \in DOMAIN weights |-> (num * weights[i]) \div (den * SumFunction(weights))]
Remainders(num, den, weights) ==
    [i \in DOMAIN weights |-> (num * weights[i]) % (den * SumFunction(weights))]
Earlier(rest, i) == {j \in DOMAIN rest : rest[j] > rest[i] \/ (rest[j] = rest[i] /\ j < i)}

LEMMA ShareIs ==
    ASSUME NEW num, NEW den, NEW weights,
           NEW down, down = RoundedDown(num, den, weights),
           NEW rest, rest = Remainders(num, den, weights),
           NEW left, left = Nearest(num - den * SumFunction(down), den),
           NEW i \in DOMAIN weights
    PROVE  LET share == LargestRemainder(Cost(num, den), weights) IN
           /\ DOMAIN share = DOMAIN weights
           /\ share[i] = down[i] + IF Cardinality(Earlier(rest, i)) < left THEN 1 ELSE 0
<1>1. Cost(num, den).num = num /\ Cost(num, den).den = den BY DEF Cost
<1>2. DOMAIN rest = DOMAIN weights BY DEF Remainders
<1> QED BY <1>1, <1>2 DEF LargestRemainder, RoundedDown, Remainders, Earlier

\* Largest remainders: what is handed out is the amount, to half a unit, and all of
\* it when it is whole.
LEMMA SharesAddUp ==
    ASSUME NEW num \in Nat, NEW den \in Nat, den > 0, NEW weights, Weighing(weights),
           NEW share, share = LargestRemainder(Cost(num, den), weights)
    PROVE  /\ DOMAIN share = DOMAIN weights
           /\ \A i \in DOMAIN weights : share[i] \in Nat
           /\ SumFunction(share) \in Nat
           /\ 2 * (den * SumFunction(share) - num) <= den
           /\ 2 * (num - den * SumFunction(share)) <= den
           /\ den = 1 => SumFunction(share) = num
<1>1. PICK I : I = DOMAIN weights OBVIOUS
<1>2. IsFiniteSet(I) /\ I \subseteq Int /\ \A i \in I : weights[i] \in Nat BY <1>1 DEF Weighing
<1>0. IsFiniteSet(I) BY <1>2
<1>3. PICK W \in Nat : /\ W = SumFunction(weights) /\ W = SumFunctionOnSet(weights, I) /\ W > 0
  BY <1>1, <1>2, SumOnNat DEF Weighing, SumFunction
<1>4. PICK whole \in Nat : whole = den * W /\ whole > 0
  <2>1. den * W \in Nat /\ den * W > 0 BY <1>3
  <2> QED BY <2>1
<1>5. PICK down : down = RoundedDown(num, den, weights) OBVIOUS
<1>6. PICK rest : rest = Remainders(num, den, weights) OBVIOUS
<1>7. DOMAIN down = I /\ DOMAIN rest = I BY <1>1, <1>5, <1>6 DEF RoundedDown, Remainders
<1>8. ASSUME NEW i \in I
      PROVE  /\ down[i] \in Nat /\ rest[i] \in Nat /\ rest[i] < whole
             /\ num * weights[i] \in Nat
             /\ num * weights[i] = whole * down[i] + rest[i]
  <2>1. PICK p \in Nat : p = num * weights[i] BY <1>2
  <2>2. p \div whole \in Nat /\ p % whole \in Nat /\ p % whole < whole
        /\ p = whole * (p \div whole) + (p % whole)
    BY <1>4, WholeAndRest
  <2>3. down[i] = p \div whole /\ rest[i] = p % whole
    BY <1>1, <1>3, <1>4, <1>5, <1>6, <2>1 DEF RoundedDown, Remainders
  <2> QED BY <2>1, <2>2, <2>3
<1>9. PICK F \in Nat : F = SumFunction(down) /\ F = SumFunctionOnSet(down, I)
  BY <1>2, <1>7, <1>8, SumOnNat DEF SumFunction
<1>10. PICK bf : bf = [i \in I |-> Earlier(rest, i)] OBVIOUS
<1>11. PICK left : left = Nearest(num - den * F, den) OBVIOUS
<1>12. DOMAIN share = I
       /\ \A i \in I : share[i] = down[i] + IF Cardinality(bf[i]) < left THEN 1 ELSE 0
  <2>1. ASSUME NEW i \in I
        PROVE  share[i] = down[i] + IF Cardinality(bf[i]) < left THEN 1 ELSE 0
    <3>1. left = Nearest(num - den * SumFunction(down), den) /\ i \in DOMAIN weights
      BY <1>1, <1>9, <1>11
    <3>2. share[i] = down[i] + IF Cardinality(Earlier(rest, i)) < left THEN 1 ELSE 0
      BY <1>5, <1>6, <3>1, ShareIs
    <3> QED BY <1>10, <3>2
  <2>2. DOMAIN share = I BY <1>1 DEF LargestRemainder
  <2> QED BY <2>1, <2>2
\* what is left to hand out
<1>13. PICK R \in Nat : R = SumFunctionOnSet(rest, I) BY <1>2, <1>8, SumOnNat
<1>14. num * W = whole * F + R
  <2>1. PICK p : p = [i \in I |-> num * weights[i]] OBVIOUS
  <2>2. PICK q : q = [i \in I |-> whole * down[i]] OBVIOUS
  <2>3. SumFunctionOnSet(p, I) = num * W
    <3>1. \A i \in I : weights[i] \in Int /\ p[i] = num * weights[i] BY <1>2, <2>1
    <3>2. SumFunctionOnSet(p, I) = num * SumFunctionOnSet(weights, I) BY <1>0, <3>1, SumOnTimes
    <3> QED BY <1>3, <3>2
  <2>4. SumFunctionOnSet(q, I) = whole * F
    <3>1. \A i \in I : down[i] \in Int /\ q[i] = whole * down[i] BY <1>8, <2>2
    <3>2. SumFunctionOnSet(q, I) = whole * SumFunctionOnSet(down, I) BY <1>0, <3>1, SumOnTimes
    <3> QED BY <1>9, <3>2
  <2>5. \A i \in I : q[i] \in Int /\ rest[i] \in Int /\ p[i] = q[i] + rest[i]
    BY <1>8, <2>1, <2>2
  <2>6. SumFunctionOnSet(p, I) = SumFunctionOnSet(q, I) + SumFunctionOnSet(rest, I)
    BY SMTT(30), <1>0, <2>5, SumOnPlus
  <2> QED BY <1>13, <2>3, <2>4, <2>6
<1>15. PICK n \in Nat : n = num - den * F
  <2>1. PICK x \in Nat : x = den * F BY <1>9
  <2>2. whole * F = W * x BY <1>4, <1>9, <2>1
  <2>3. num * W >= W * x BY <1>13, <1>14, <2>2, <1>4, <1>9
  <2>4. num >= x
    <3> SUFFICES ASSUME x >= num + 1 PROVE FALSE BY <2>1
    <3>1. W * x >= W * (num + 1) BY <2>1
    <3>2. W * (num + 1) = num * W + W OBVIOUS
    <3> QED BY <1>3, <2>1, <2>3, <3>1, <3>2
  <2> QED BY <2>1, <2>4
<1>16. PICK k \in Nat : k = Cardinality(I) BY <1>2, FS_CardinalityType
<1>17. n <= den * k
  <2>1. W * n = R
    <3>1. PICK x \in Nat : x = den * F BY <1>9
    <3>2. whole * F = W * x BY <1>4, <1>9, <3>1
    <3>3. W * (num - x) = W * num - W * x BY <3>1
    <3> QED BY <1>13, <1>14, <1>15, <3>1, <3>2, <3>3
  <2>2. PICK ones : ones = [i \in I |-> 1] OBVIOUS
  <2>3. PICK most : most = [i \in I |-> whole] OBVIOUS
  <2>4. SumFunctionOnSet(ones, I) = k BY <1>2, <1>16, <2>2, SumOnOnes
  <2>5. SumFunctionOnSet(most, I) = whole * k
    <3>1. \A i \in I : ones[i] \in Int /\ most[i] = whole * ones[i] BY <2>2, <2>3
    <3>2. SumFunctionOnSet(most, I) = whole * SumFunctionOnSet(ones, I) BY <1>0, <3>1, SumOnTimes
    <3> QED BY <2>4, <3>2
  <2>6. R <= whole * k
    <3>1. \A i \in I : rest[i] \in Int /\ most[i] \in Int /\ rest[i] <= most[i] BY <1>8, <2>3
    <3> QED BY <1>2, <1>13, <2>5, <3>1, SumOnAtMost
  <2>7. PICK x \in Nat : x = den * k OBVIOUS
  <2>8. whole * k = W * x BY <1>4, <2>7
  <2> SUFFICES ASSUME n >= x + 1 PROVE FALSE BY <2>7
  <2>9. W * n >= W * (x + 1) BY <2>7
  <2>10. W * (x + 1) = W * x + W OBVIOUS
  <2> QED BY <1>3, <2>1, <2>6, <2>8, <2>9, <2>10
<1>18. left \in Nat /\ left <= k BY <1>11, <1>15, <1>17, NearestIsNear, NearestBelow
\* to whom
<1>19. Cardinality({i \in I : Cardinality(bf[i]) < left}) = left
  <2>1. \A i \in I : bf[i] \in SUBSET I BY <1>7, <1>10 DEF Earlier
  <2>2. \A i \in I : i \notin bf[i] BY <1>2, <1>8, <1>10 DEF Earlier
  <2>3. \A i, j \in I : i # j => j \in bf[i] \/ i \in bf[j] BY <1>2, <1>7, <1>8, <1>10 DEF Earlier
  <2>4. \A i, j, l \in I : j \in bf[i] /\ l \in bf[j] => l \in bf[i]
    BY <1>2, <1>7, <1>8, <1>10 DEF Earlier
  <2> QED BY <1>2, <1>16, <1>18, <2>1, <2>2, <2>3, <2>4, RanksCount
<1>20. SumFunctionOnSet(share, I) = F + left
  <2>1. PICK more : more = [i \in I |-> IF Cardinality(bf[i]) < left THEN 1 ELSE 0] OBVIOUS
  <2>2. PICK P : P = {i \in I : Cardinality(bf[i]) < left} OBVIOUS
  <2>3. \A i \in I : down[i] \in Int /\ more[i] \in Int /\ share[i] = down[i] + more[i]
    BY <1>8, <1>12, <2>1
  <2>4. SumFunctionOnSet(share, I) = F + SumFunctionOnSet(more, I)
    <3>1. SumFunctionOnSet(share, I) = SumFunctionOnSet(down, I) + SumFunctionOnSet(more, I)
      BY SMTT(30), <1>0, <2>3, SumOnPlus
    <3> QED BY <1>9, <3>1
  <2>5. P \in SUBSET I /\ IsFiniteSet(P) BY <1>2, <2>2, FS_Subset
  <2>6. SumFunctionOnSet(more, I) = SumFunctionOnSet(more, P)
    <3>1. \A i \in I \ P : more[i] = 0 BY <2>1, <2>2
    <3> QED BY <1>2, <2>3, <2>5, <3>1, SumOnSupport
  <2>7. SumFunctionOnSet(more, P) = Cardinality(P)
    <3>1. \A i \in P : more[i] = 1 BY <2>1, <2>2
    <3> QED BY <2>5, <3>1, SumOnOnes
  <2> QED BY <1>19, <2>2, <2>4, <2>6, <2>7
<1>21. /\ 2 * (den * left - n) <= den /\ 2 * (n - den * left) <= den
       /\ den = 1 => left = n
  BY <1>11, <1>15, NearestIsNear
<1>22. den * (F + left) = den * F + den * left BY <1>18
<1>23. PICK x \in Nat, y \in Nat : x = den * F /\ y = den * left BY <1>18
<1>24. SumFunction(share) = F + left BY <1>12, <1>20 DEF SumFunction
<1>25. \A i \in I : share[i] \in Nat BY <1>8, <1>12
<1>26. /\ 2 * (den * (F + left) - num) <= den /\ 2 * (num - den * (F + left)) <= den
  BY <1>15, <1>21, <1>22, <1>23
<1>27. den = 1 => F + left = num
  <2>1. den = 1 => den * F = F BY <1>9
  <2> QED BY <1>15, <1>18, <1>21, <2>1
<1> QED BY <1>1, <1>12, <1>18, <1>24, <1>25, <1>26, <1>27

-----------------------------------------------------------------------------
(* Totals of fractions *)

LEMMA Reordered ==
    ASSUME NEW x \in Int, NEW y \in Int, NEW z \in Int
    PROVE  (x * y) * z = y * (x * z) /\ (x * y) * z = x * (y * z)
OBVIOUS

Fractions == [num : Int, den : Nat \ {0}]

\* h maps every subset of S to the total of the fractions over it, as the fold adds.
AddsFractions(h, f, S) ==
    h = [s \in SUBSET S |-> IF s = {} THEN Cost(0, 1) ELSE Plus(f[Pick(s)], h[s \ {Pick(s)}])]

LEMMA PlusType ==
    ASSUME NEW a \in Fractions, NEW b \in Fractions
    PROVE  /\ Plus(a, b) \in Fractions
           /\ Plus(a, b).num = a.num * b.den + b.num * a.den /\ Plus(a, b).den = a.den * b.den
<1>1. a.num \in Int /\ b.num \in Int /\ a.den \in Nat \ {0} /\ b.den \in Nat \ {0}
  BY DEF Fractions
<1>2. a.den * b.den \in Nat /\ a.den * b.den > 0 /\ a.num * b.den + b.num * a.den \in Int BY <1>1
<1> QED BY <1>2 DEF Plus, Cost, Fractions

LEMMA FractionsAgree ==
  ASSUME NEW f, NEW A, NEW B, IsFiniteSet(A), NEW g, NEW h,
         AddsFractions(g, f, A), AddsFractions(h, f, B)
  PROVE  \A s \in SUBSET (A \cap B) : g[s] = h[s]
<1> DEFINE Bad == {s \in SUBSET (A \cap B) : g[s] # h[s]}
<1>1. SUFFICES ASSUME Bad # {} PROVE FALSE
  OBVIOUS
<1>2. IsFiniteSet(A \cap B) BY FS_Intersection
<1>3. PICK s \in Bad : \A t \in SUBSET s : t # s => t \notin Bad
  <2> Bad \in SUBSET SUBSET (A \cap B) OBVIOUS
  <2> HIDE DEF Bad
  <2> QED BY <1>1, <1>2, LeastSubset
<1>4. s # {} BY DEF AddsFractions
<1>5. PICK x : x = Pick(s) OBVIOUS
<1>6. x \in s BY <1>4, <1>5 DEF Pick
<1>7. g[s \ {x}] = h[s \ {x}] BY <1>3, <1>6
<1>8. g[s] = Plus(f[x], g[s \ {x}]) BY <1>4, <1>5 DEF AddsFractions
<1>9. h[s] = Plus(f[x], h[s \ {x}]) BY <1>4, <1>5 DEF AddsFractions
<1> QED BY <1>7, <1>8, <1>9

LEMMA FractionsExist ==
  ASSUME NEW f, NEW S, IsFiniteSet(S)
  PROVE  \E h : AddsFractions(h, f, S)
<1> DEFINE Bad == {s \in SUBSET S : ~ \E h : AddsFractions(h, f, s)}
<1>1. SUFFICES ASSUME Bad # {} PROVE FALSE
  OBVIOUS
<1>2. PICK s \in Bad : IsFiniteSet(s) /\ \A t \in SUBSET s : t # s => t \notin Bad
  <2> Bad \in SUBSET SUBSET S OBVIOUS
  <2> HIDE DEF Bad
  <2> QED BY <1>1, LeastSubset
<1> DEFINE sum(t) == CHOOSE h : AddsFractions(h, f, t)
           val(t) == IF t = {} THEN Cost(0, 1) ELSE Plus(f[Pick(t)], sum(t \ {Pick(t)})[t \ {Pick(t)}])
           H == [t \in SUBSET s |-> val(t)]
<1>3. ASSUME NEW t \in SUBSET s, t # s PROVE AddsFractions(sum(t), f, t)
  <2>1. t \in SUBSET S /\ t \notin Bad BY <1>2, <1>3
  <2> QED BY <2>1
<1>4. ASSUME NEW t \in SUBSET s, t # {} PROVE Pick(t) \in t
  BY <1>4 DEF Pick
<1>5. ASSUME NEW t \in SUBSET s, t # s PROVE sum(t)[t] = val(t)
  <2>1. CASE t = {}
    <3>1. AddsFractions(sum(t), f, t) BY <1>3, <1>5
    <3> HIDE DEF sum
    <3>2. sum(t)[t] = Cost(0, 1) BY <3>1, <2>1 DEF AddsFractions
    <3> QED BY <3>2, <2>1
  <2>2. CASE t # {}
    <3> DEFINE r == t \ {Pick(t)}
    <3>1. Pick(t) \in t /\ r \in SUBSET t /\ r # s BY <1>4, <2>2
    <3>2. AddsFractions(sum(t), f, t) /\ AddsFractions(sum(r), f, r) BY <3>1, <1>3, <1>5
    <3>3. IsFiniteSet(t) BY <1>2, FS_Subset
    <3>4. sum(t)[r] = sum(r)[r]
      <4> HIDE DEF sum, r
      <4> QED BY <3>1, <3>2, <3>3, FractionsAgree
    <3>5. sum(t)[t] = Plus(f[Pick(t)], sum(t)[r])
      <4> HIDE DEF sum
      <4> QED BY <3>2, <2>2 DEF AddsFractions
    <3> QED BY <3>4, <3>5, <2>2
  <2> QED BY <2>1, <2>2
<1>6. AddsFractions(H, f, s)
  <2>1. ASSUME NEW t \in SUBSET s
        PROVE  val(t) = IF t = {} THEN Cost(0, 1) ELSE Plus(f[Pick(t)], H[t \ {Pick(t)}])
    <3>1. CASE t = {} BY <3>1
    <3>2. CASE t # {}
      <4> DEFINE r == t \ {Pick(t)}
      <4>1. r \in SUBSET s /\ r # s BY <1>4, <3>2
      <4>2. H[r] = sum(r)[r] BY <4>1, <1>5
      <4> QED BY <4>2, <3>2
    <3> QED BY <3>1, <3>2
  <2> HIDE DEF val
  <2> QED BY <2>1 DEF AddsFractions
<1>7. s \notin Bad BY <1>6
<1> QED BY <1>2, <1>7

\* On a common scale fractions are integers, and so is their total: k parts make one.
LEMMA TotalOnScale ==
    ASSUME NEW costs, IsFiniteSet(DOMAIN costs), \A x \in DOMAIN costs : costs[x] \in Fractions,
           NEW k \in Nat, k > 0, NEW w,
           \A x \in DOMAIN costs : w[x] \in Int /\ costs[x].num * k = costs[x].den * w[x]
    PROVE  /\ Total(costs) \in Fractions
           /\ Total(costs).num * k = Total(costs).den * SumFunctionOnSet(w, DOMAIN costs)
<1> DEFINE S == DOMAIN costs
<1>1. Total(costs) = (CHOOSE h : AddsFractions(h, costs, S))[S]
  BY DEF Total, FoldFunction, FoldFunctionOnSet, MapThenFoldSet, AddsFractions, Pick
<1>2. PICK h : Total(costs) = h[S] /\ AddsFractions(h, costs, S) BY <1>1, FractionsExist
<1> DEFINE OK(s) == h[s] \in Fractions /\ h[s].num * k = h[s].den * SumFunctionOnSet(w, s)
           Bad == {s \in SUBSET S : ~OK(s)}
<1>3. SUFFICES ASSUME Bad # {} PROVE FALSE BY <1>2
<1>4. PICK s \in Bad : IsFiniteSet(s) /\ \A t \in SUBSET s : t # s => t \notin Bad
  <2> Bad \in SUBSET SUBSET S OBVIOUS
  <2> HIDE DEF Bad
  <2> QED BY <1>3, LeastSubset
<1>5. s # {}
  <2>1. h[{}] = Cost(0, 1) BY <1>2 DEF AddsFractions
  <2>2. SumFunctionOnSet(w, {}) = 0 BY SumOnEmpty
  <2>3. OK({}) BY <2>1, <2>2 DEF Cost, Fractions
  <2> QED BY <1>4, <2>3
<1>6. PICK x : x = Pick(s) OBVIOUS
<1>7. x \in s BY <1>5, <1>6 DEF Pick
<1>8. PICK r : r = s \ {x} OBVIOUS
<1>9. h[s] = Plus(costs[x], h[r]) BY <1>2, <1>5, <1>6, <1>8 DEF AddsFractions
<1>10. OK(r) BY <1>4, <1>7, <1>8
<1>11. costs[x] \in Fractions /\ w[x] \in Int /\ costs[x].num * k = costs[x].den * w[x] BY <1>7
<1>12. PICK A \in Int : A = SumFunctionOnSet(w, r)
  <2>1. IsFiniteSet(r) /\ \A y \in r : w[y] \in Int BY <1>4, <1>8, FS_Subset
  <2> QED BY <2>1, SumOnInt
<1>13. SumFunctionOnSet(w, s) = w[x] + A BY <1>4, <1>5, <1>6, <1>8, <1>12, SumOnPick
<1>14. /\ h[s] \in Fractions
       /\ h[s].num = costs[x].num * h[r].den + h[r].num * costs[x].den
       /\ h[s].den = costs[x].den * h[r].den
  BY <1>9, <1>10, <1>11, PlusType
<1>15. PICK a \in Int, b \in Nat, c \in Int, d \in Nat, v \in Int :
         /\ a = costs[x].num /\ b = costs[x].den /\ c = h[r].num /\ d = h[r].den /\ v = w[x]
  BY <1>10, <1>11 DEF Fractions
<1>16. a * k = b * v /\ c * k = d * A BY <1>10, <1>11, <1>12, <1>15
<1>17. (a * d + c * b) * k = (b * d) * (v + A)
  <2>0. a * d \in Int /\ c * b \in Int /\ b * d \in Int OBVIOUS
  <2>1. PICK p \in Int, q \in Int : p = a * d /\ q = c * b BY <2>0
  <2>2. (p + q) * k = p * k + q * k OBVIOUS
  <2>3. p * k = d * (a * k) /\ q * k = b * (c * k) BY <2>1, <1>15, Reordered
  <2>4. PICK e \in Int : e = b * d BY <2>0
  <2>5. e * (v + A) = e * v + e * A BY <1>15, <1>12
  <2>6. e * v = d * (b * v) /\ e * A = b * (d * A) BY <2>4, <1>15, <1>12, Reordered
  <2> QED BY <1>16, <2>1, <2>2, <2>3, <2>4, <2>5, <2>6
<1>18. OK(s) BY <1>13, <1>14, <1>15, <1>17
<1> QED BY <1>4, <1>18

\* Every finite family of fractions has a common scale.
LEMMA ScaleExists ==
    ASSUME NEW costs, NEW S, IsFiniteSet(S), \A x \in S : costs[x] \in Fractions
    PROVE  \E k \in Nat : k > 0 /\ \A x \in S : \E m \in Nat : k = costs[x].den * m
<1> DEFINE Scales(s, k) == k > 0 /\ \A x \in s : \E m \in Nat : k = costs[x].den * m
           Bad == {s \in SUBSET S : ~ \E k \in Nat : Scales(s, k)}
<1>1. SUFFICES ASSUME Bad # {} PROVE FALSE OBVIOUS
<1>2. PICK s \in Bad : IsFiniteSet(s) /\ \A t \in SUBSET s : t # s => t \notin Bad
  <2> Bad \in SUBSET SUBSET S OBVIOUS
  <2> HIDE DEF Bad
  <2> QED BY <1>1, LeastSubset
<1>3. s # {}
  <2>1. Scales({}, 1) OBVIOUS
  <2> QED BY <1>2, <2>1
<1>4. PICK x : x \in s BY <1>3
<1>5. s \ {x} \in SUBSET S /\ s \ {x} \notin Bad BY <1>2, <1>4
<1>6. PICK k \in Nat : Scales(s \ {x}, k) BY <1>5
<1>7. PICK d \in Nat : d = costs[x].den /\ d > 0 BY <1>4 DEF Fractions
<1>8. PICK n \in Nat : n = d * k /\ n > 0
  <2>1. d * k \in Nat /\ d * k > 0 BY <1>6, <1>7
  <2> QED BY <2>1
<1>9. ASSUME NEW y \in s PROVE \E m \in Nat : n = costs[y].den * m
  <2>1. CASE y = x BY <1>7, <1>8, <2>1
  <2>2. CASE y # x
    <3>1. PICK m \in Nat : k = costs[y].den * m BY <1>6, <2>2
    <3>2. PICK e \in Nat : e = costs[y].den BY DEF Fractions
    <3>3. n = e * (d * m) /\ d * m \in Nat BY <1>8, <3>1, <3>2
    <3> QED BY <3>2, <3>3
  <2> QED BY <2>1, <2>2
<1>10. Scales(s, n) BY <1>8, <1>9
<1> QED BY <1>2, <1>10

-----------------------------------------------------------------------------
(* Cost and outputs, handed out *)

LEMMA TypesKnown == /\ IsFiniteSet(Types) /\ Types \subseteq Nat \ {0} /\ Types \subseteq Int /\ 0 \notin Types
                    /\ \A S : S \subseteq Types => IsFiniteSet(S)
<1>1. IsFiniteSet(Types) /\ Types = 1..Cardinality(Types) BY RefiningAssumption
<1>2. Cardinality(Types) \in Nat BY <1>1, FS_CardinalityType
<1>3. Types \subseteq Nat \ {0} /\ 0 \notin Types BY <1>1, <1>2
<1> QED BY <1>1, <1>3, FS_Subset

\* Outputs of a refine: some, and of each some units.
OutputsOK(outputs) ==
    /\ DOMAIN outputs \subseteq Types /\ DOMAIN outputs # {}
    /\ \A t \in DOMAIN outputs : outputs[t] \in Nat \ {0}

\* One weight above 0 is enough to share by.
LEMMA WeighingBy ==
    ASSUME NEW weights, IsFiniteSet(DOMAIN weights), DOMAIN weights \subseteq Int,
           \A i \in DOMAIN weights : weights[i] \in Nat,
           NEW i \in DOMAIN weights, weights[i] # 0
    PROVE  Weighing(weights)
<1>1. weights[i] \in Nat /\ weights[i] > 0 OBVIOUS
<1>2. weights[i] <= SumFunctionOnSet(weights, DOMAIN weights) BY SumOnTerm
<1>3. SumFunctionOnSet(weights, DOMAIN weights) \in Nat BY SumOnNat
<1>4. SumFunction(weights) > 0 BY <1>1, <1>2, <1>3 DEF SumFunction
<1> QED BY <1>4 DEF Weighing

\* A share of cost is a number of cents per output, and together they are the cost,
\* to half a cent.
LEMMA CentsAddUp ==
    ASSUME NEW num \in Nat, NEW den \in Nat, den > 0, NEW outputs, OutputsOK(outputs),
           NEW worth, \A t \in Types : worth[t] \in Nat,
           NEW cents, cents = AllocateSourceCost(Cost(num, den), outputs, worth)
    PROVE  /\ DOMAIN cents = DOMAIN outputs
           /\ \A t \in DOMAIN outputs : cents[t] \in Nat
           /\ SumFunctionOnSet(cents, DOMAIN outputs) \in Nat
           /\ 2 * (den * SumFunctionOnSet(cents, DOMAIN outputs) - num) <= den
           /\ 2 * (num - den * SumFunctionOnSet(cents, DOMAIN outputs)) <= den
<1>1. PICK value : value = [t \in DOMAIN outputs |-> worth[t] * outputs[t]] OBVIOUS
<1>2. /\ DOMAIN outputs \subseteq Types /\ IsFiniteSet(DOMAIN outputs) /\ DOMAIN outputs \subseteq Int
      /\ DOMAIN outputs # {} /\ \A t \in DOMAIN outputs : outputs[t] \in Nat /\ outputs[t] # 0
  BY TypesKnown DEF OutputsOK
<1>3. \A t \in DOMAIN outputs : value[t] \in Nat BY <1>1, <1>2
<1>4. PICK weights : weights = IF \A t \in DOMAIN value : value[t] = 0 THEN outputs ELSE value
  OBVIOUS
<1>5. cents = LargestRemainder(Cost(num, den), weights)
  BY <1>1, <1>4 DEF AllocateSourceCost
<1>6. DOMAIN weights = DOMAIN outputs /\ Weighing(weights)
  <2>1. CASE \A t \in DOMAIN value : value[t] = 0
    <3>1. weights = outputs BY <1>4, <2>1
    <3>2. PICK t : t \in DOMAIN outputs BY <1>2
    <3> QED BY <1>2, <3>1, <3>2, WeighingBy
  <2>2. CASE ~ \A t \in DOMAIN value : value[t] = 0
    <3>1. weights = value /\ DOMAIN value = DOMAIN outputs BY <1>1, <1>4, <2>2
    <3>2. PICK t \in DOMAIN value : value[t] # 0 BY <2>2
    <3>3. IsFiniteSet(DOMAIN value) /\ DOMAIN value \subseteq Int /\ \A i \in DOMAIN value : value[i] \in Nat
      BY <1>2, <1>3, <3>1
    <3>4. Weighing(value) BY <3>2, <3>3, WeighingBy
    <3> QED BY <3>1, <3>4
  <2> QED BY <2>1, <2>2
<1>7. SumFunction(cents) = SumFunctionOnSet(cents, DOMAIN outputs) /\ DOMAIN cents = DOMAIN outputs
  BY <1>5, <1>6, SharesAddUp DEF SumFunction
<1> QED BY <1>5, <1>6, <1>7, SharesAddUp

\* Takes of a refine: positions 1 to n, of each some units.
TakesOK(takes) ==
    /\ \E n \in Nat : n > 0 /\ DOMAIN takes = 1..n
    /\ \A i \in DOMAIN takes : takes[i] \in Nat \ {0}

\* shares[i] is what take i gets of the outputs: some, and together all of them.
SharedOut(shares, takes, outputs) ==
    /\ DOMAIN shares = DOMAIN takes
    /\ \A i \in DOMAIN takes : OutputsOK(shares[i]) /\ DOMAIN shares[i] \subseteq DOMAIN outputs
    /\ \A t \in DOMAIN outputs :
          outputs[t] = SumFunctionOnSet(
              [i \in DOMAIN takes |-> IF t \in DOMAIN shares[i] THEN shares[i][t] ELSE 0],
              DOMAIN takes)

\* The outputs are shared out in full, and every take gets some of them, unless one
\* would get none.
LEMMA OutputsAddUp ==
    ASSUME NEW takes, TakesOK(takes), NEW outputs, OutputsOK(outputs),
           NEW shares, shares = ApportionOutputs(takes, outputs), shares # NoShares
    PROVE  SharedOut(shares, takes, outputs)
<1>1. PICK parts : parts = [t \in DOMAIN outputs |-> LargestRemainder(Cost(outputs[t], 1), takes)]
  OBVIOUS
<1>2. PICK I : I = DOMAIN takes OBVIOUS
<1>3. IsFiniteSet(I) /\ I \subseteq Int /\ (\A i \in I : takes[i] \in Nat) /\ Weighing(takes)
  <2>1. PICK n \in Nat : n > 0 /\ DOMAIN takes = 1..n BY DEF TakesOK
  <2>2. IsFiniteSet(I) /\ I \subseteq Int /\ 1 \in I BY <1>2, <2>1, FS_Interval
  <2>3. \A i \in I : takes[i] \in Nat /\ takes[i] # 0 BY <1>2 DEF TakesOK
  <2> QED BY <1>2, <2>2, <2>3, WeighingBy
<1>4. ASSUME NEW t \in DOMAIN outputs
      PROVE  /\ DOMAIN parts[t] = I /\ \A i \in I : parts[t][i] \in Nat
             /\ SumFunctionOnSet(parts[t], I) = outputs[t]
  <2>1. outputs[t] \in Nat BY DEF OutputsOK
  <2>2. parts[t] = LargestRemainder(Cost(outputs[t], 1), takes) BY <1>1
  <2>3. /\ DOMAIN parts[t] = DOMAIN takes /\ \A i \in DOMAIN takes : parts[t][i] \in Nat
        /\ SumFunction(parts[t]) = outputs[t]
    BY <1>3, <2>1, <2>2, SharesAddUp
  <2> QED BY <1>2, <2>3 DEF SumFunction
<1>5. shares = [i \in I |-> Positive([t \in DOMAIN outputs |-> parts[t][i]])]
      /\ \A i \in I : DOMAIN shares[i] # {}
  BY <1>1, <1>2 DEF ApportionOutputs
<1>6. ASSUME NEW i \in I
      PROVE  /\ DOMAIN shares[i] = {t \in DOMAIN outputs : parts[t][i] > 0}
             /\ \A t \in DOMAIN shares[i] : shares[i][t] = parts[t][i]
  BY <1>5 DEF Positive, Restrict
<1>7. ASSUME NEW i \in I PROVE OutputsOK(shares[i]) /\ DOMAIN shares[i] \subseteq DOMAIN outputs
  <2>1. \A t \in DOMAIN shares[i] : shares[i][t] \in Nat \ {0} BY <1>4, <1>6
  <2> QED BY <1>5, <1>6, <2>1 DEF OutputsOK
<1>8. ASSUME NEW t \in DOMAIN outputs
      PROVE  outputs[t] = SumFunctionOnSet(
                [i \in I |-> IF t \in DOMAIN shares[i] THEN shares[i][t] ELSE 0], I)
  <2>1. PICK got : got = [i \in I |-> IF t \in DOMAIN shares[i] THEN shares[i][t] ELSE 0] OBVIOUS
  <2>2. \A i \in I : got[i] = parts[t][i]
    <3> SUFFICES ASSUME NEW i \in I PROVE got[i] = parts[t][i] OBVIOUS
    <3>1. parts[t][i] \in Nat BY <1>4
    <3> QED BY <1>6, <2>1, <3>1
  <2>3. SumFunctionOnSet(got, I) = SumFunctionOnSet(parts[t], I) BY <1>3, <2>2, SumOnSame
  <2> QED BY <1>4, <2>1, <2>3
<1>9. DOMAIN shares = DOMAIN takes BY <1>2, <1>5
<1> QED BY <1>2, <1>7, <1>8, <1>9 DEF SharedOut

-----------------------------------------------------------------------------
(* Rows in tables and lists *)

\* The total over the entries of f, a table or a list of rows, of what val makes of each.
Tally(val, f) == SumFunctionOnSet([k \in DOMAIN f |-> val[f[k]]], DOMAIN f)

LEMMA TallyInt ==
    ASSUME NEW R, NEW val \in [R -> Int], NEW f, IsFiniteSet(DOMAIN f), \A k \in DOMAIN f : f[k] \in R
    PROVE  Tally(val, f) \in Int
<1>1. \A k \in DOMAIN f : [j \in DOMAIN f |-> val[f[j]]][k] \in Int OBVIOUS
<1> QED BY <1>1, SumOnInt DEF Tally

\* keys lists the keys of a table, each once, and list the rows in that order.
Lists(keys, n, new, list) ==
    /\ keys \in [1..n -> DOMAIN new]
    /\ \A i, j \in 1..n : keys[i] = keys[j] => i = j
    /\ \A k \in DOMAIN new : \E i \in 1..n : keys[i] = k
    /\ DOMAIN list = 1..n /\ Len(list) = n
    /\ \A i \in 1..n : list[i] = new[keys[i]]

LEMMA ListedIs ==
    ASSUME NEW R, NEW new, IsFiniteSet(DOMAIN new), \A k \in DOMAIN new : new[k] \in R
    PROVE  Listed(new) \in Seq(R) /\ \E n \in Nat : \E keys : Lists(keys, n, new, Listed(new))
<1> DEFINE S == DOMAIN new
<1>0. PICK n \in Nat : n = Cardinality(S) BY FS_CardinalityType
<1>1. PICK keys : keys = SetToSeq(S) OBVIOUS
<1>2. \E f \in [1..n -> S] : IsInjective(f)
  <2>1. PICK f : f \in Bijection(1..n, S) BY <1>0, FS_CardinalityType, Zenon DEF ExistsBijection
  <2>2. f \in [1..n -> S] /\ IsInjective(f)
    BY <2>1 DEF Bijection, Injection
  <2> QED BY <2>2
<1>3. keys \in [1..n -> S] /\ IsInjective(keys)
  BY <1>0, <1>1, <1>2 DEF SetToSeq
<1>4. keys \in Injection(1..n, S) BY <1>3 DEF Injection
<1>5. Cardinality(1..n) = n
  <2>1. Cardinality(1..n) = IF 1 > n THEN 0 ELSE n - 1 + 1 BY FS_Interval
  <2> QED BY <2>1
<1>6. keys \in Surjection(1..n, S) BY <1>0, <1>4, <1>5, FS_Injection
<1>7. \A k \in S : \E i \in 1..n : keys[i] = k BY <1>6 DEF Surjection
<1>8. \A i, j \in 1..n : keys[i] = keys[j] => i = j BY <1>3 DEF IsInjective
<1>9. DOMAIN keys = 1..n BY <1>3
<1>10. Listed(new) = [i \in 1..n |-> new[keys[i]]] BY <1>1, <1>9 DEF Listed
<1>11. Listed(new) \in Seq(R) /\ Len(Listed(new)) = n /\ DOMAIN Listed(new) = 1..n
  <2>1. \A i \in 1..n : new[keys[i]] \in R BY <1>3
  <2>2. Listed(new) \in [1..n -> R] BY <1>10, <2>1
  <2> QED BY <2>2
<1>12. \A i \in 1..n : Listed(new)[i] = new[keys[i]] BY <1>10
<1>13. Lists(keys, n, new, Listed(new)) BY <1>3, <1>7, <1>8, <1>11, <1>12 DEF Lists
<1> QED BY <1>11, <1>13

LEMMA TallyListed ==
    ASSUME NEW R, NEW val \in [R -> Int],
           NEW new, IsFiniteSet(DOMAIN new), \A k \in DOMAIN new : new[k] \in R
    PROVE  Tally(val, Listed(new)) = Tally(val, new)
<1>0. PICK n \in Nat : \E keys : Lists(keys, n, new, Listed(new)) BY ListedIs
<1>1. PICK keys : Lists(keys, n, new, Listed(new)) BY <1>0
<1>2. PICK N : N = 1..n OBVIOUS
<1>3. PICK K : K = DOMAIN new OBVIOUS
<1>4. PICK f : f = [k \in K |-> val[new[k]]] OBVIOUS
<1>5. PICK g : g = [i \in N |-> val[Listed(new)[i]]] OBVIOUS
<1>6. IsFiniteSet(N) /\ keys \in [N -> K] BY <1>1, <1>2, <1>3, FS_Interval DEF Lists
<1>7. \A i, j \in N : keys[i] = keys[j] => i = j BY <1>1, <1>2 DEF Lists
<1>8. \A k \in K : \E i \in N : keys[i] = k BY <1>1, <1>2, <1>3 DEF Lists
<1>9. \A k \in K : f[k] \in Int BY <1>3, <1>4
<1>10. \A i \in N : g[i] = f[keys[i]] BY <1>1, <1>2, <1>4, <1>5, <1>6 DEF Lists
<1>11. SumFunctionOnSet(g, N) = SumFunctionOnSet(f, K)
  <2> HIDE DEF Lists
  <2> QED BY SMTT(30), <1>6, <1>7, <1>8, <1>9, <1>10, SumOnImage
<1> QED BY <1>1, <1>2, <1>3, <1>4, <1>5, <1>11 DEF Tally, Lists

\* One list after another.
LEMMA Joined ==
    ASSUME NEW R, NEW s \in Seq(R), NEW t \in Seq(R), NEW r, r = s \o t
    PROVE  /\ r \in Seq(R) /\ Len(s) \in Nat /\ Len(t) \in Nat
           /\ Len(r) = Len(s) + Len(t)
           /\ DOMAIN s = 1..Len(s) /\ DOMAIN t = 1..Len(t) /\ DOMAIN r = 1..(Len(s) + Len(t))
           /\ \A k \in 1..Len(s) : s[k] \in R /\ r[k] = s[k]
           /\ \A k \in 1..Len(t) : t[k] \in R /\ r[Len(s) + k] = t[k]
<1>1. r \in Seq(R) /\ Len(s) \in Nat /\ Len(t) \in Nat OBVIOUS
<1>2. Len(r) = Len(s) + Len(t) OBVIOUS
<1>3. \A k \in 1..Len(s) : r[k] = s[k] /\ s[k] \in R OBVIOUS
<1>4. \A k \in 1..Len(t) : r[Len(s) + k] = t[k] /\ t[k] \in R OBVIOUS
<1>5. DOMAIN s = 1..Len(s) /\ DOMAIN t = 1..Len(t) /\ DOMAIN r = 1..(Len(s) + Len(t)) BY <1>1, <1>2
<1> QED BY <1>1, <1>2, <1>3, <1>4, <1>5

\* That of the first n rows of a list.
TallyTo(val, list, n) == SumFunctionOnSet([k \in 1..n |-> val[list[k]]], 1..n)

\* r has the first m rows of s, then the first n of t.
Follows(val, r, s, m, t, n) ==
    /\ \A k \in 1..m : val[s[k]] \in Int /\ r[k] = s[k]
    /\ \A k \in 1..n : val[t[k]] \in Int /\ r[m + k] = t[k]

LEMMA JoinedTotals ==
    ASSUME NEW m \in Nat, NEW n \in Nat, NEW val, NEW s, NEW t, NEW r, Follows(val, r, s, m, t, n)
    PROVE  TallyTo(val, r, m + n) = TallyTo(val, s, m) + TallyTo(val, t, n)
<1>1. PICK f : f = [k \in 1..m |-> val[s[k]]] OBVIOUS
<1>2. PICK g : g = [k \in 1..n |-> val[t[k]]] OBVIOUS
<1>3. PICK h : h = [k \in 1..(m + n) |-> val[r[k]]] OBVIOUS
<1>4. ASSUME NEW k \in 1..m PROVE f[k] \in Int /\ h[k] = f[k]
  <2>1. k \in 1..(m + n) OBVIOUS
  <2> QED BY <1>1, <1>3, <2>1 DEF Follows
<1>5. ASSUME NEW k \in 1..n PROVE g[k] \in Int /\ h[m + k] = g[k]
  <2>1. m + k \in 1..(m + n) OBVIOUS
  <2>2. h[m + k] = val[r[m + k]] BY <1>3, <2>1
  <2> QED BY <1>2, <2>2 DEF Follows
<1>6. SumFunctionOnSet(h, 1..(m + n)) = SumFunctionOnSet(f, 1..m) + SumFunctionOnSet(g, 1..n)
  BY <1>4, <1>5, SumOnJoined
<1> QED BY <1>1, <1>2, <1>3, <1>6 DEF TallyTo

LEMMA TallyJoined ==
    ASSUME NEW R, NEW val \in [R -> Int], NEW s \in Seq(R), NEW t \in Seq(R)
    PROVE  Tally(val, s \o t) = Tally(val, s) + Tally(val, t)
<1>1. PICK r : r = s \o t OBVIOUS
<1>2. PICK m \in Nat, n \in Nat : m = Len(s) /\ n = Len(t) OBVIOUS
<1>3. /\ DOMAIN s = 1..m /\ DOMAIN t = 1..n /\ DOMAIN r = 1..(m + n)
      /\ \A k \in 1..m : s[k] \in R /\ r[k] = s[k]
      /\ \A k \in 1..n : t[k] \in R /\ r[m + k] = t[k]
  BY <1>1, <1>2, Joined
<1>4. Follows(val, r, s, m, t, n) BY <1>3 DEF Follows
<1>5. TallyTo(val, r, m + n) = TallyTo(val, s, m) + TallyTo(val, t, n)
  BY <1>4, JoinedTotals
<1> QED BY <1>1, <1>3, <1>5 DEF Tally, TallyTo

\* Several tables in one.
LEMMA FlatIs ==
    ASSUME NEW tables, IsFiniteSet(DOMAIN tables), \A i \in DOMAIN tables : IsFiniteSet(DOMAIN tables[i])
    PROVE  /\ IsFiniteSet(DOMAIN Flat(tables))
           /\ \A k \in DOMAIN Flat(tables) :
                /\ k = <<k[1], k[2]>> /\ k[1] \in DOMAIN tables /\ k[2] \in DOMAIN tables[k[1]]
                /\ Flat(tables)[k] = tables[k[1]][k[2]]
           /\ \A i \in DOMAIN tables : \A j \in DOMAIN tables[i] :
                <<i, j>> \in DOMAIN Flat(tables) /\ Flat(tables)[<<i, j>>] = tables[i][j]
<1> DEFINE I == DOMAIN tables
           parts == {{i} \X DOMAIN tables[i] : i \in I}
<1>1. DOMAIN Flat(tables) = UNION parts BY DEF Flat
<1>2. IsFiniteSet(parts)
  <2> DEFINE f == [i \in I |-> {i} \X DOMAIN tables[i]]
  <2>1. f \in Surjection(I, parts) BY DEF Surjection
  <2> HIDE DEF f, parts
  <2> QED BY <2>1, FS_Surjection
<1>3. \A p \in parts : IsFiniteSet(p)
  <2> SUFFICES ASSUME NEW i \in I PROVE IsFiniteSet({i} \X DOMAIN tables[i]) OBVIOUS
  <2> QED BY FS_Product, FS_Singleton
<1>4. IsFiniteSet(UNION parts)
  <2> HIDE DEF parts
  <2> QED BY <1>2, <1>3, FS_UNION
<1>5. ASSUME NEW k \in UNION parts
      PROVE  k = <<k[1], k[2]>> /\ k[1] \in I /\ k[2] \in DOMAIN tables[k[1]]
  <2>1. PICK i \in I : k \in {i} \X DOMAIN tables[i] OBVIOUS
  <2> QED BY <2>1
<1>6. \A k \in UNION parts : Flat(tables)[k] = tables[k[1]][k[2]] BY DEF Flat
<1>7. \A i \in I : \A j \in DOMAIN tables[i] : <<i, j>> \in UNION parts OBVIOUS
<1> HIDE DEF parts
<1> QED BY <1>1, <1>4, <1>5, <1>6, <1>7

LEMMA TallyFlat ==
    ASSUME NEW R, NEW val \in [R -> Int],
           NEW tables, IsFiniteSet(DOMAIN tables),
           \A i \in DOMAIN tables : IsFiniteSet(DOMAIN tables[i]),
           \A i \in DOMAIN tables : \A j \in DOMAIN tables[i] : tables[i][j] \in R,
           NEW each, \A i \in DOMAIN tables : each[i] = Tally(val, tables[i])
    PROVE  Tally(val, Flat(tables)) = SumFunctionOnSet(each, DOMAIN tables)
<1>1. PICK flat : flat = Flat(tables) OBVIOUS
<1>2. PICK S : S = DOMAIN flat OBVIOUS
<1>3. /\ IsFiniteSet(S)
      /\ \A k \in S : /\ k = <<k[1], k[2]>> /\ k[1] \in DOMAIN tables /\ k[2] \in DOMAIN tables[k[1]]
                      /\ flat[k] = tables[k[1]][k[2]]
      /\ \A i \in DOMAIN tables : \A j \in DOMAIN tables[i] :
                <<i, j>> \in S /\ flat[<<i, j>>] = tables[i][j]
  BY <1>1, <1>2, FlatIs
<1>4. PICK f : f = [k \in S |-> val[flat[k]]] OBVIOUS
<1>5. PICK part : part = [i \in DOMAIN tables |-> {k \in S : k[1] = i}] OBVIOUS
<1>6. PICK first : first = [k \in S |-> k[1]] OBVIOUS
<1>7. \A k \in S : f[k] \in Int BY <1>3, <1>4
<1>8. ASSUME NEW i \in DOMAIN tables PROVE each[i] = SumFunctionOnSet(f, part[i])
  <2>1. PICK J : J = DOMAIN tables[i] OBVIOUS
  <2>2. PICK b : b = [j \in J |-> <<i, j>>] OBVIOUS
  <2>3. PICK g : g = [j \in J |-> val[tables[i][j]]] OBVIOUS
  <2>4. PICK T : T = part[i] OBVIOUS
  <2>5. T = {k \in S : k[1] = i} BY <1>5, <2>4
  <2>6. b \in [J -> T] BY <1>3, <2>1, <2>2, <2>5
  <2>7. IsFiniteSet(J) BY <2>1
  <2>8. \A x, y \in J : b[x] = b[y] => x = y BY <2>2
  <2>9. \A z \in T : \E x \in J : b[x] = z
    <3> SUFFICES ASSUME NEW z \in T PROVE \E x \in J : b[x] = z OBVIOUS
    <3>1. z = <<z[1], z[2]>> /\ z[1] = i /\ z[2] \in J BY <1>3, <2>1, <2>5
    <3>2. b[z[2]] = <<i, z[2]>> BY <2>2, <3>1
    <3> QED BY <3>1, <3>2
  <2>10. \A z \in T : f[z] \in Int BY <1>7, <2>5
  <2>11. \A x \in J : g[x] = f[b[x]] BY <1>3, <1>4, <2>1, <2>2, <2>3
  <2>12. SumFunctionOnSet(g, J) = SumFunctionOnSet(f, T)
    BY <2>6, <2>7, <2>8, <2>9, <2>10, <2>11, SumOnImage
  <2>13. each[i] = SumFunctionOnSet(g, J) BY <2>1, <2>3 DEF Tally
  <2> QED BY <2>4, <2>12, <2>13
<1>9. \A k \in S : first[k] \in DOMAIN tables BY <1>3, <1>6
<1>10. \A i \in DOMAIN tables : part[i] = {k \in S : first[k] = i} BY <1>5, <1>6
<1>11. SumFunctionOnSet(each, DOMAIN tables) = SumFunctionOnSet(f, S)
  <2>1. PICK K : K = DOMAIN tables OBVIOUS
  <2>2. IsFiniteSet(K) /\ (\A k \in S : first[k] \in K)
        /\ (\A h \in K : part[h] = {x \in S : first[x] = h})
        /\ (\A h \in K : each[h] = SumFunctionOnSet(f, part[h]))
    BY <2>1, <1>8, <1>9, <1>10
  <2>3. SumFunctionOnSet(each, K) = SumFunctionOnSet(f, S) BY <1>3, <1>7, <2>2, SumOnParts
  <2> QED BY <2>1, <2>3
<1> QED BY <1>1, <1>2, <1>4, <1>11 DEF Tally

-----------------------------------------------------------------------------
(* Drawing from a queue *)

LEMMA CountTo ==
    ASSUME NEW n \in Nat
    PROVE  IsFiniteSet(1..n) /\ Cardinality(1..n) = n
<1>1. Cardinality(1..n) = IF 1 > n THEN 0 ELSE n - 1 + 1 BY FS_Interval
<1> QED BY <1>1, FS_Interval

\* A part of the positions that has all before each of its own is the first so many.
LEMMA FirstSoMany ==
    ASSUME NEW n \in Nat, NEW A \in SUBSET (1..n), \A i \in A : \A j \in 1..n : j < i => j \in A
    PROVE  Cardinality(A) \in 0..n /\ A = 1..Cardinality(A)
<1>1. CASE A = 1..n BY <1>1, CountTo
<1>2. CASE A # 1..n
  <2>1. PICK rest : rest = (1..n) \ A OBVIOUS
  <2>0. PICK x \in 1..n : x \notin A BY <1>2
  <2>2. rest \in SUBSET Nat /\ rest # {} BY <2>0, <2>1
  <2>3. PICK m \in rest : \A k \in rest : m <= k BY <2>2, LeastNumber
  <2>4. m \in 1..n /\ m \notin A BY <2>1, <2>3
  <2>5. PICK k \in Nat : k = m - 1 /\ k <= n BY <2>4
  <2>6. A = 1..k
    <3>1. ASSUME NEW i \in A PROVE i \in 1..k
      <4>1. i \in 1..n /\ i # m BY <2>4
      <4>2. ~(m < i) BY <2>4
      <4> QED BY <2>4, <2>5, <4>1, <4>2
    <3>2. ASSUME NEW i \in 1..k PROVE i \in A
      <4>1. i \in 1..n /\ i < m BY <2>4, <2>5
      <4>2. i \notin rest BY <2>3, <2>4, <4>1
      <4> QED BY <2>1, <4>1, <4>2
    <3> QED BY <3>1, <3>2
  <2> QED BY <2>5, <2>6, CountTo
<1> QED BY <1>1, <1>2

\* Taking qty from a queue of amounts: the first so many are touched, of each some is
\* taken and not more than it is, and together qty or all there is.
Runs(n, a, qty, before, touched, take) ==
    /\ \A i \in 1..n : a[i] \in Nat \ {0}
    /\ \A i \in 1..n : before[i] = SumFunctionOnSet(a, 1..(i - 1))
    /\ touched = Cardinality({i \in 1..n : before[i] < qty})
    /\ \A i \in 1..n : take[i] = Least(a[i], qty - before[i])

LEMMA RunningTotals ==
    ASSUME NEW n \in Nat, NEW a, NEW qty \in Nat, qty > 0, NEW before, NEW touched, NEW take,
           Runs(n, a, qty, before, touched, take)
    PROVE  /\ touched \in Nat /\ touched <= n
           /\ \A i \in 1..touched : take[i] \in Nat \ {0} /\ take[i] <= a[i]
           /\ SumFunctionOnSet(take, 1..touched) = Least(qty, SumFunctionOnSet(a, 1..n))
<1>0. /\ \A i \in 1..n : a[i] \in Nat \ {0}
      /\ \A i \in 1..n : before[i] = SumFunctionOnSet(a, 1..(i - 1))
      /\ touched = Cardinality({i \in 1..n : before[i] < qty})
      /\ \A i \in 1..n : take[i] = Least(a[i], qty - before[i])
  BY DEF Runs
<1>1. PICK sum : sum = [k \in 0..n |-> SumFunctionOnSet(a, 1..k)] OBVIOUS
<1>2. ASSUME NEW k \in 0..n PROVE sum[k] \in Nat
  <2>1. IsFiniteSet(1..k) /\ \A i \in 1..k : a[i] \in Nat BY <1>0, CountTo
  <2> QED BY <1>1, <2>1, SumOnNat
<1>3. sum[0] = 0
  <2>1. 1..0 = {} OBVIOUS
  <2> QED BY <1>1, <2>1, SumOnEmpty
<1>4. ASSUME NEW k \in 1..n PROVE sum[k] = sum[k - 1] + a[k]
  <2>1. PICK p \in Nat : p = k - 1 OBVIOUS
  <2>2. 1..k = (1..p) \cup {k} /\ k \notin 1..p /\ IsFiniteSet(1..p) BY <2>1, CountTo
  <2>3. \A i \in (1..p) \cup {k} : a[i] \in Int BY <1>0, <2>1
  <2>4. SumFunctionOnSet(a, (1..p) \cup {k}) = a[k] + SumFunctionOnSet(a, 1..p) BY <2>2, <2>3, SumOnAdd
  <2>5. p \in 0..n BY <2>1
  <2>6. sum[p] = SumFunctionOnSet(a, 1..p) /\ sum[k] = SumFunctionOnSet(a, 1..k) BY <1>1, <2>5
  <2>7. sum[p] \in Nat /\ a[k] \in Nat BY <1>0, <1>2, <2>5
  <2>8. sum[k - 1] = sum[p] BY <2>1
  <2>9. sum[k] = a[k] + sum[p] BY <2>2, <2>4, <2>6
  <2> QED BY <2>7, <2>8, <2>9
<1>5. ASSUME NEW k \in 0..n, NEW m \in 0..n, m <= k PROVE sum[m] <= sum[k]
  <2>1. 1..m \in SUBSET (1..k) /\ IsFiniteSet(1..k) /\ \A i \in 1..k : a[i] \in Nat BY <1>0, <1>5, CountTo
  <2>2. SumFunctionOnSet(a, 1..m) <= SumFunctionOnSet(a, 1..k) BY <2>1, SumOnPart
  <2> QED BY <1>1, <2>2
<1>6. \A i \in 1..n : before[i] = sum[i - 1] BY <1>0, <1>1
<1>7. PICK A : A = {i \in 1..n : before[i] < qty} OBVIOUS
<1>8. touched \in 0..n /\ A = 1..touched
  <2>1. ASSUME NEW i \in A, NEW j \in 1..n, j < i PROVE j \in A
    <3>1. i \in 1..n /\ before[i] < qty BY <1>7
    <3>2. sum[j - 1] <= sum[i - 1] BY <1>5, <2>1, <3>1
    <3>3. sum[j - 1] \in Nat /\ sum[i - 1] \in Nat BY <1>2, <3>1
    <3> QED BY <1>6, <1>7, <3>1, <3>2, <3>3
  <2>2. A \in SUBSET (1..n) BY <1>7
  <2>3. \A i \in A : \A j \in 1..n : j < i => j \in A BY <2>1
  <2> QED BY <1>0, <1>7, <2>2, <2>3, FirstSoMany
<1>9. ASSUME NEW i \in 1..touched PROVE take[i] \in Nat \ {0} /\ take[i] <= a[i]
  <2>1. i \in 1..n /\ before[i] < qty BY <1>7, <1>8
  <2>2. before[i] \in Nat BY <1>2, <1>6, <2>1
  <2>3. a[i] \in Nat \ {0} /\ take[i] = Least(a[i], qty - before[i]) BY <1>0, <2>1
  <2> QED BY <2>1, <2>2, <2>3 DEF Least
<1>10. SumFunctionOnSet(take, 1..touched) = Least(qty, sum[n])
  <2>1. CASE touched = 0
    <3>1. n = 0
      <4> SUFFICES ASSUME n # 0 PROVE FALSE OBVIOUS
      <4>1. 1 \in 1..n BY <1>8
      <4>2. before[1] = 0 BY <1>3, <1>6, <4>1
      <4>3. 1 \in A BY <1>7, <4>1, <4>2
      <4> QED BY <1>8, <2>1, <4>3
    <3>2. 1..0 = {} OBVIOUS
    <3>3. SumFunctionOnSet(take, 1..touched) = 0 BY <2>1, <3>2, SumOnEmpty
    <3> QED BY <1>3, <3>1, <3>3 DEF Least
  <2>2. CASE touched # 0
    <3>0. touched \in Nat /\ touched >= 1 /\ touched <= n BY <1>8, <2>2
    <3>1. PICK p \in Nat : p = touched - 1
      <4>1. touched - 1 \in Nat BY <3>0
      <4> QED BY <4>1
    <3>2. touched \in 1..n /\ p \in 0..n BY <1>8, <2>2, <3>1
    <3>3. ASSUME NEW i \in 1..p PROVE take[i] = a[i]
      <4>1. i \in 1..n /\ i + 1 \in 1..n /\ i + 1 \in A BY <1>8, <3>1, <3>2
      <4>2. before[i + 1] < qty BY <1>7, <4>1
      <4>3. before[i + 1] = sum[i]
        <5>1. (i + 1) - 1 = i OBVIOUS
        <5> QED BY <1>6, <4>1, <5>1
      <4>4. sum[i] = before[i] + a[i] BY <1>4, <1>6, <4>1
      <4>5. i \in 0..n /\ i - 1 \in 0..n BY <4>1
      <4>6. sum[i] \in Nat /\ before[i] \in Nat BY <1>2, <1>6, <4>1, <4>5
      <4>7. take[i] = Least(a[i], qty - before[i]) /\ a[i] \in Nat BY <1>0, <4>1
      <4> QED BY <4>2, <4>3, <4>4, <4>6, <4>7 DEF Least
    <3>4. SumFunctionOnSet(take, 1..p) = sum[p]
      <4>1. SumFunctionOnSet(take, 1..p) = SumFunctionOnSet(a, 1..p) BY <3>3, CountTo, SumOnSame
      <4> QED BY <1>1, <3>2, <4>1
    <3>5. SumFunctionOnSet(take, 1..touched) = take[touched] + sum[p]
      <4>0. p \in Nat /\ touched = p + 1 BY <3>0, <3>1
      <4>1. 1..touched = (1..p) \cup {touched} /\ touched \notin 1..p /\ IsFiniteSet(1..p)
        <5>1. 1..(p + 1) = (1..p) \cup {p + 1} /\ p + 1 \notin 1..p OBVIOUS
        <5> QED BY <4>0, <5>1, CountTo
      <4>2. \A i \in (1..p) \cup {touched} : take[i] \in Int BY <1>9, <4>1
      <4>3. SumFunctionOnSet(take, (1..p) \cup {touched}) = take[touched] + SumFunctionOnSet(take, 1..p)
        BY <4>1, <4>2, SumOnAdd
      <4> QED BY <3>4, <4>1, <4>3
    <3>6. before[touched] = sum[p] /\ sum[touched] = sum[p] + a[touched]
      BY <1>4, <1>6, <3>1, <3>2
    <3>7. take[touched] = Least(a[touched], qty - sum[p]) /\ a[touched] \in Nat BY <1>0, <3>2, <3>6
    <3>8. sum[p] \in Nat /\ sum[touched] \in Nat /\ sum[n] \in Nat /\ sum[touched] <= sum[n]
      BY <1>2, <1>5, <3>2
    <3>9. CASE touched = n BY <3>5, <3>6, <3>7, <3>8, <3>9 DEF Least
    <3>10. CASE touched # n
      <4>1. touched + 1 \in 1..n /\ touched + 1 \notin A BY <1>8, <3>2, <3>10
      <4>2. ~(before[touched + 1] < qty) BY <1>7, <4>1
      <4>3. before[touched + 1] = sum[touched]
        <5>1. (touched + 1) - 1 = touched BY <3>2
        <5> QED BY <1>6, <4>1, <5>1
      <4> QED BY <3>5, <3>6, <3>7, <3>8, <4>2, <4>3 DEF Least
    <3> QED BY <3>9, <3>10
  <2> QED BY <2>1, <2>2
<1>11. sum[n] = SumFunctionOnSet(a, 1..n) BY <1>1
<1> QED BY <1>8, <1>9, <1>10, <1>11

\* Units of a type in a lot.
UnitsIn(t) == [piece \in LotRow |-> IF piece.type = t THEN piece.left ELSE 0]

LEMMA UnitsInType ==
    ASSUME NEW t
    PROVE  /\ UnitsIn(t) \in [LotRow -> Nat] /\ UnitsIn(t) \in [LotRow -> Int]
           /\ \A r \in LotRow : UnitsIn(t)[r] = IF r.type = t THEN r.left ELSE 0
<1>1. \A r \in LotRow : r.left \in Nat BY DEF LotRow
<1>2. \A r \in LotRow : (IF r.type = t THEN r.left ELSE 0) \in Nat BY <1>1
<1> QED BY <1>2 DEF UnitsIn

\* Expected stock, of any list of lots.
ExpectedIn(list, t) ==
    SumFunction([l \in {x \in DOMAIN list : list[x].type = t /\ list[x].left > 0} |-> list[l].left])

LEMMA RowsOf ==
    ASSUME NEW list \in Seq(LotRow)
    PROVE  /\ IsFiniteSet(DOMAIN list) /\ DOMAIN list = 1..Len(list) /\ Len(list) \in Nat
           /\ \A l \in DOMAIN list : list[l] \in LotRow /\ list[l].left \in Nat /\ list[l].type \in Types
<1>1. DOMAIN list = 1..Len(list) /\ Len(list) \in Nat /\ \A l \in DOMAIN list : list[l] \in LotRow
  OBVIOUS
<1>2. \A l \in DOMAIN list : list[l].left \in Nat /\ list[l].type \in Types BY <1>1 DEF LotRow
<1> QED BY <1>1, <1>2, CountTo

LEMMA ExpectedIs ==
    ASSUME NEW list \in Seq(LotRow), NEW t
    PROVE  ExpectedIn(list, t) = Tally(UnitsIn(t), list) /\ ExpectedIn(list, t) \in Nat
<1>1. PICK S : S = DOMAIN list OBVIOUS
<1>2. PICK P : P = {x \in S : list[x].type = t /\ list[x].left > 0} OBVIOUS
<1>3. PICK f : f = [l \in P |-> list[l].left] OBVIOUS
<1>4. PICK g : g = [l \in S |-> UnitsIn(t)[list[l]]] OBVIOUS
<1>5. /\ IsFiniteSet(S) /\ P \in SUBSET S
      /\ \A l \in S : list[l] \in LotRow /\ list[l].left \in Nat
  BY <1>1, <1>2, RowsOf
<1>6. \A l \in S : g[l] = IF list[l].type = t THEN list[l].left ELSE 0
  BY <1>4, <1>5, UnitsInType
<1>7. \A l \in S : g[l] \in Nat BY <1>5, <1>6
<1>8. \A l \in P : f[l] = g[l] BY <1>2, <1>3, <1>6
<1>9. \A l \in S \ P : g[l] = 0 BY <1>2, <1>5, <1>6
<1>10. SumFunctionOnSet(f, P) = SumFunctionOnSet(g, S)
  <2>1. \A l \in S : g[l] \in Int BY <1>7
  <2> QED BY <1>5, <1>8, <1>9, <2>1, SumOnFilter
<1>11. ExpectedIn(list, t) = SumFunctionOnSet(f, P)
  BY <1>1, <1>2, <1>3 DEF ExpectedIn, SumFunction
<1>12. SumFunctionOnSet(g, S) \in Nat BY <1>5, <1>7, SumOnNat
<1> QED BY <1>1, <1>4, <1>10, <1>11, <1>12 DEF Tally

LEMMA ExpectedNow ==
    ASSUME NEW t PROVE Expected(t) = ExpectedIn(lots, t)
BY DEF Expected, ExpectedIn, OpenLots

\* n draws, each from a lot of its own of type t and not more than it has.
DrawsTo(draws, n, t) ==
    /\ DOMAIN draws = 1..n
    /\ \A i \in 1..n : /\ draws[i].lot \in DOMAIN lots /\ lots[draws[i].lot].type = t
                       /\ draws[i].qty \in Nat \ {0} /\ draws[i].qty <= lots[draws[i].lot].left
    /\ \A i, j \in 1..n : draws[i].lot = draws[j].lot => i = j

DrawnSum(draws, n) == SumFunctionOnSet([i \in 1..n |-> draws[i].qty], 1..n)

\* q has every element of S once.
Queues(q, n, S) ==
    /\ q \in [1..n -> S] /\ DOMAIN q = 1..n
    /\ \A i, j \in 1..n : q[i] = q[j] => i = j
    /\ \A x \in S : \E i \in 1..n : q[i] = x

LEMMA QueueIs ==
    ASSUME NEW S, IsFiniteSet(S), NEW q \in SetToSeqs(S)
    PROVE  \E n \in Nat : Queues(q, n, S)
<1>1. PICK n \in Nat : n = Cardinality(S) BY FS_CardinalityType
<1>2. q \in [1..n -> S] /\ \A i, j \in 1..n : q[i] = q[j] => i = j BY <1>1 DEF SetToSeqs
<1>3. q \in Injection(1..n, S) BY <1>2 DEF Injection, IsInjective
<1>4. q \in Surjection(1..n, S) BY <1>1, <1>3, CountTo, FS_Injection
<1>5. \A x \in S : \E i \in 1..n : q[i] = x BY <1>4 DEF Surjection
<1> QED BY <1>2, <1>5 DEF Queues

LEMMA DrawingsAre ==
    ASSUME lots \in Seq(LotRow), NEW t, NEW qty \in Nat, qty > 0, NEW draws \in Drawings(t, qty)
    PROVE  \E n \in Nat : DrawsTo(draws, n, t) /\ DrawnSum(draws, n) = Least(qty, Expected(t))
<1>1. PICK open : open = OpenLots(t) OBVIOUS
<1>2. IsFiniteSet(open) /\ \A l \in open : /\ l \in DOMAIN lots /\ lots[l].type = t
                                           /\ lots[l].left \in Nat \ {0}
  <2>1. open \subseteq DOMAIN lots BY <1>1 DEF OpenLots
  <2>2. \A l \in open : lots[l].type = t /\ lots[l].left > 0 BY <1>1 DEF OpenLots
  <2>3. IsFiniteSet(open) BY <2>1, RowsOf, FS_Subset
  <2> QED BY <2>1, <2>2, <2>3, RowsOf
<1>3. PICK q \in SetToSeqs(open) :
        LET left(i) == SumFunction([j \in 1 .. i - 1 |-> lots[q[j]].left])
        IN  draws = [i \in 1 .. Cardinality({i \in DOMAIN q : left(i) < qty}) |->
                        [lot |-> q[i], qty |-> Least(lots[q[i]].left, qty - left(i))]]
  BY <1>1 DEF Drawings
<1>4. PICK m \in Nat : /\ q \in [1..m -> open] /\ DOMAIN q = 1..m
                       /\ \A i, j \in 1..m : q[i] = q[j] => i = j
                       /\ \A x \in open : \E i \in 1..m : q[i] = x
  <2>1. PICK m \in Nat : Queues(q, m, open) BY <1>2, <1>3, QueueIs
  <2> QED BY <2>1 DEF Queues
<1>5. PICK a : a = [i \in 1..m |-> lots[q[i]].left] OBVIOUS
<1>6. PICK before : before = [i \in 1..m |-> SumFunctionOnSet(a, 1..(i - 1))] OBVIOUS
<1>7. ASSUME NEW i \in 1..m
      PROVE  SumFunction([j \in 1 .. i - 1 |-> lots[q[j]].left]) = before[i]
  <2>1. PICK b : b = [j \in 1 .. i - 1 |-> lots[q[j]].left] OBVIOUS
  <2>2. \A j \in 1 .. i - 1 : b[j] = a[j] BY <1>5, <2>1
  <2>3. IsFiniteSet(1 .. i - 1) /\ DOMAIN b = 1 .. i - 1 BY <2>1, FS_Interval
  <2>4. SumFunctionOnSet(b, 1..(i - 1)) = SumFunctionOnSet(a, 1..(i - 1)) BY <2>2, <2>3, SumOnSame
  <2> QED BY <1>6, <2>1, <2>3, <2>4 DEF SumFunction
<1>8. PICK touched : touched = Cardinality({i \in 1..m : before[i] < qty}) OBVIOUS
<1>9. PICK take : take = [i \in 1..m |-> Least(a[i], qty - before[i])] OBVIOUS
<1>10. \A i \in 1..m : a[i] \in Nat \ {0} /\ a[i] = lots[q[i]].left /\ q[i] \in open BY <1>2, <1>4, <1>5
<1>11. /\ touched \in Nat /\ touched <= m
       /\ \A i \in 1..touched : take[i] \in Nat \ {0} /\ take[i] <= a[i]
       /\ SumFunctionOnSet(take, 1..touched) = Least(qty, SumFunctionOnSet(a, 1..m))
  <2>1. \A i \in 1..m : before[i] = SumFunctionOnSet(a, 1..(i - 1)) BY <1>6
  <2>2. \A i \in 1..m : take[i] = Least(a[i], qty - before[i]) BY <1>9
  <2>3. \A i \in 1..m : a[i] \in Nat \ {0} BY <1>10
  <2>4. Runs(m, a, qty, before, touched, take) BY <1>8, <2>1, <2>2, <2>3 DEF Runs
  <2> QED BY SMTT(60), <2>4, RunningTotals
<1>12. /\ DOMAIN draws = 1..touched
       /\ \A i \in 1..touched : draws[i].lot = q[i] /\ draws[i].qty = take[i]
  <2>1. {i \in DOMAIN q : SumFunction([j \in 1 .. i - 1 |-> lots[q[j]].left]) < qty}
          = {i \in 1..m : before[i] < qty}
    BY <1>4, <1>7
  <2>2. draws = [i \in 1..touched |->
                    [lot |-> q[i],
                     qty |-> Least(lots[q[i]].left,
                                   qty - SumFunction([j \in 1 .. i - 1 |-> lots[q[j]].left]))]]
    BY <1>3, <1>8, <2>1
  <2>3. ASSUME NEW i \in 1..touched
        PROVE  draws[i] = [lot |-> q[i], qty |-> take[i]]
    <3>1. i \in 1..m BY <1>11
    <3>2. SumFunction([j \in 1 .. i - 1 |-> lots[q[j]].left]) = before[i] BY <1>7, <3>1
    <3>3. take[i] = Least(lots[q[i]].left, qty - before[i]) BY <1>9, <1>10, <3>1
    <3> QED BY <2>2, <3>2, <3>3
  <2> QED BY <2>2, <2>3
<1>13. DrawsTo(draws, touched, t)
  <2>1. ASSUME NEW i \in 1..touched
        PROVE  /\ draws[i].lot \in DOMAIN lots /\ lots[draws[i].lot].type = t
               /\ draws[i].qty \in Nat \ {0} /\ draws[i].qty <= lots[draws[i].lot].left
    <3>1. i \in 1..m BY <1>11
    <3> QED BY <1>2, <1>10, <1>11, <1>12, <3>1
  <2>2. \A i, j \in 1..touched : draws[i].lot = draws[j].lot => i = j
    <3>1. \A i \in 1..touched : i \in 1..m BY <1>11
    <3> QED BY <1>4, <1>12, <3>1
  <2> QED BY <1>12, <2>1, <2>2 DEF DrawsTo
<1>14. DrawnSum(draws, touched) = SumFunctionOnSet(take, 1..touched)
  <2>1. PICK d : d = [i \in 1..touched |-> draws[i].qty] OBVIOUS
  <2>2. \A i \in 1..touched : d[i] = take[i] BY <1>12, <2>1
  <2>3. SumFunctionOnSet(d, 1..touched) = SumFunctionOnSet(take, 1..touched)
    BY <1>11, <2>2, CountTo, SumOnSame
  <2> QED BY <2>1, <2>3 DEF DrawnSum
<1>15. SumFunctionOnSet(a, 1..m) = Expected(t)
  <2>1. PICK N : N = 1..m OBVIOUS
  <2>2. PICK f : f = [l \in open |-> lots[l].left] OBVIOUS
  <2>3. IsFiniteSet(N) /\ q \in [N -> open] BY <1>4, <2>1, CountTo
  <2>4. \A x, y \in N : q[x] = q[y] => x = y BY <1>4, <2>1
  <2>5. \A z \in open : \E x \in N : q[x] = z BY <1>4, <2>1
  <2>6. \A z \in open : f[z] \in Int BY <1>2, <2>2
  <2>7. \A x \in N : a[x] = f[q[x]] BY <1>10, <2>1, <2>2
  <2>8. SumFunctionOnSet(a, N) = SumFunctionOnSet(f, open)
    BY <2>3, <2>4, <2>5, <2>6, <2>7, SumOnImage
  <2>9. Expected(t) = SumFunctionOnSet(f, open) BY <1>1, <2>2 DEF Expected, SumFunction
  <2> QED BY <2>1, <2>8, <2>9
<1> QED BY <1>11, <1>13, <1>14, <1>15

-----------------------------------------------------------------------------
(* What a change draws from the lots *)

\* What each lot gives: not more than it has.
TakenOK(taken) ==
    taken \in [DOMAIN lots -> Nat] /\ \A l \in DOMAIN lots : taken[l] <= lots[l].left

TakenBy(draws) == [l \in DOMAIN lots |-> SumFunction([d \in {x \in draws : x.lot = l} |-> d.qty])]
After(taken) == [l \in DOMAIN lots |-> [lots[l] EXCEPT !.left = @ - taken[l]]]
UsedOf(taken, t) ==
    SumFunctionOnSet([l \in DOMAIN lots |-> IF lots[l].type = t THEN taken[l] ELSE 0], DOMAIN lots)

LEMMA ConsumedAfter ==
    ASSUME NEW draws PROVE Consumed(draws) = After(TakenBy(draws))
<1>1. PICK taken : taken = TakenBy(draws) OBVIOUS
<1>2. \A l \in DOMAIN lots : taken[l] = SumFunction([d \in {x \in draws : x.lot = l} |-> d.qty])
  BY <1>1 DEF TakenBy
<1>3. Consumed(draws) = [l \in DOMAIN lots |-> [lots[l] EXCEPT !.left = @ - taken[l]]]
  BY <1>2 DEF Consumed
<1> QED BY <1>1, <1>3 DEF After

\* At most one draw from a lot.
OneEach(draws) ==
    /\ \A d \in draws : d.lot \in DOMAIN lots /\ d.qty \in Nat \ {0} /\ d.qty <= lots[d.lot].left
    /\ \A d, e \in draws : d.lot = e.lot => d = e

LEMMA TakenIs ==
    ASSUME lots \in Seq(LotRow), NEW draws, OneEach(draws), NEW taken, taken = TakenBy(draws)
    PROVE  /\ TakenOK(taken)
           /\ \A d \in draws : taken[d.lot] = d.qty
           /\ \A l \in DOMAIN lots : taken[l] = 0 \/ \E d \in draws : d.lot = l
<1>1. ASSUME NEW d \in draws PROVE d.lot \in DOMAIN lots /\ taken[d.lot] = d.qty
  <2>1. {x \in draws : x.lot = d.lot} = {d} BY DEF OneEach
  <2>2. d.lot \in DOMAIN lots /\ d.qty \in Nat BY DEF OneEach
  <2>3. taken[d.lot] = SumFunction([x \in {d} |-> x.qty]) BY <2>1, <2>2 DEF TakenBy
  <2>4. PICK f : f = [x \in {d} |-> x.qty] OBVIOUS
  <2>5. IsFiniteSet({d}) /\ d \in {d} /\ f[d] \in Int /\ \A y \in {d} \ {d} : f[y] = 0
    <3>1. f[d] = d.qty BY <2>4
    <3>2. IsFiniteSet({d}) BY FS_Singleton
    <3> QED BY <2>2, <3>1, <3>2
  <2>6. SumFunctionOnSet(f, {d}) = f[d] BY <2>5, SumOnOne
  <2> QED BY <2>2, <2>3, <2>4, <2>6 DEF SumFunction
<1>2. ASSUME NEW l \in DOMAIN lots, ~ \E d \in draws : d.lot = l
      PROVE  taken[l] = 0
  <2>1. {x \in draws : x.lot = l} = {} BY <1>2
  <2>2. taken[l] = SumFunction([x \in {} |-> x.qty]) BY <2>1 DEF TakenBy
  <2>3. SumFunctionOnSet([x \in {} |-> x.qty], {}) = 0 BY SumOnEmpty
  <2> QED BY <2>2, <2>3 DEF SumFunction
<1>3. ASSUME NEW l \in DOMAIN lots PROVE taken[l] \in Nat /\ taken[l] <= lots[l].left
  <2>1. lots[l].left \in Nat BY RowsOf
  <2>2. CASE \E d \in draws : d.lot = l BY <1>1, <2>2 DEF OneEach
  <2>3. CASE ~ \E d \in draws : d.lot = l BY <1>2, <2>1, <2>3
  <2> QED BY <2>2, <2>3
<1>4. taken \in [DOMAIN lots -> Nat] BY <1>3 DEF TakenBy
<1> QED BY <1>1, <1>2, <1>3, <1>4 DEF TakenOK

\* For each type of kinds, draws from lots of that type.
Family(kinds, draw) == \A s \in kinds : \E n \in Nat : DrawsTo(draw[s], n, s)
AllOf(kinds, draw) == UNION {Range(draw[s]) : s \in kinds}

LEMMA FamilyDraws ==
    ASSUME lots \in Seq(LotRow), NEW kinds, NEW draw, Family(kinds, draw),
           NEW taken, taken = TakenBy(AllOf(kinds, draw))
    PROVE  /\ OneEach(AllOf(kinds, draw)) /\ TakenOK(taken)
           /\ \A t : t \notin kinds => UsedOf(taken, t) = 0
           /\ \A t \in kinds, n \in Nat : DrawsTo(draw[t], n, t) =>
                /\ UsedOf(taken, t) = DrawnSum(draw[t], n)
                /\ \A i \in 1..n : taken[draw[t][i].lot] = draw[t][i].qty
           /\ \A l \in DOMAIN lots : taken[l] = 0 \/ lots[l].type \in kinds
<1>1. PICK D : D = AllOf(kinds, draw) OBVIOUS
<1>2. \A d \in D : \E s \in kinds : d \in Range(draw[s]) BY <1>1 DEF AllOf
<1>3. \A s \in kinds : \A d \in Range(draw[s]) : d \in D BY <1>1 DEF AllOf
<1>4. ASSUME NEW s \in kinds, NEW d \in Range(draw[s])
      PROVE  /\ d.lot \in DOMAIN lots /\ lots[d.lot].type = s
             /\ d.qty \in Nat \ {0} /\ d.qty <= lots[d.lot].left
  <2>1. PICK n \in Nat : DrawsTo(draw[s], n, s) BY DEF Family
  <2>2. PICK i \in 1..n : d = draw[s][i] BY <2>1 DEF DrawsTo, Range
  <2> QED BY <2>1, <2>2 DEF DrawsTo
<1>5. OneEach(D)
  <2>1. ASSUME NEW d \in D, NEW e \in D, d.lot = e.lot PROVE d = e
    <3>1. PICK s \in kinds : d \in Range(draw[s]) BY <1>2
    <3>2. PICK r \in kinds : e \in Range(draw[r]) BY <1>2
    <3>3. s = r BY <1>4, <2>1, <3>1, <3>2
    <3>4. PICK n \in Nat : DrawsTo(draw[s], n, s) BY DEF Family
    <3>5. PICK i \in 1..n : d = draw[s][i] BY <3>1, <3>4 DEF DrawsTo, Range
    <3>6. PICK j \in 1..n : e = draw[s][j] BY <3>2, <3>3, <3>4 DEF DrawsTo, Range
    <3>7. i = j BY <2>1, <3>4, <3>5, <3>6 DEF DrawsTo
    <3> QED BY <3>5, <3>6, <3>7
  <2>2. ASSUME NEW d \in D
        PROVE  d.lot \in DOMAIN lots /\ d.qty \in Nat \ {0} /\ d.qty <= lots[d.lot].left
    BY <1>2, <1>4
  <2> QED BY <2>1, <2>2 DEF OneEach
<1>6. /\ TakenOK(taken) /\ \A d \in D : taken[d.lot] = d.qty
      /\ \A l \in DOMAIN lots : taken[l] = 0 \/ \E d \in D : d.lot = l
  BY <1>1, <1>5, TakenIs
<1>7. \A l \in DOMAIN lots : taken[l] = 0 \/ lots[l].type \in kinds
  BY <1>2, <1>4, <1>6
<1>8. IsFiniteSet(DOMAIN lots) BY RowsOf
<1>9. ASSUME NEW t, t \notin kinds PROVE UsedOf(taken, t) = 0
  <2>1. PICK f : f = [l \in DOMAIN lots |-> IF lots[l].type = t THEN taken[l] ELSE 0] OBVIOUS
  <2>2. \A l \in DOMAIN lots : f[l] = 0 BY <1>7, <1>9, <2>1
  <2>3. SumFunctionOnSet(f, DOMAIN lots) = 0 BY <1>8, <2>2, SumOnZero
  <2> QED BY <2>1, <2>3 DEF UsedOf
<1>10. ASSUME NEW t \in kinds, NEW n \in Nat, DrawsTo(draw[t], n, t)
       PROVE  /\ UsedOf(taken, t) = DrawnSum(draw[t], n)
              /\ \A i \in 1..n : taken[draw[t][i].lot] = draw[t][i].qty
  <2>1. PICK draws : draws = draw[t] OBVIOUS
  <2>2. /\ DOMAIN draws = 1..n
        /\ \A i \in 1..n : /\ draws[i].lot \in DOMAIN lots /\ lots[draws[i].lot].type = t
                           /\ draws[i].qty \in Nat \ {0}
        /\ \A i, j \in 1..n : draws[i].lot = draws[j].lot => i = j
    BY <1>10, <2>1 DEF DrawsTo
  <2>3. \A i \in 1..n : draws[i] \in Range(draw[t]) BY <2>1, <2>2 DEF Range
  <2>4. \A i \in 1..n : taken[draws[i].lot] = draws[i].qty BY <1>3, <1>6, <2>3
  <2>5. PICK P : P = {draws[i].lot : i \in 1..n} OBVIOUS
  <2>6. PICK f : f = [l \in DOMAIN lots |-> IF lots[l].type = t THEN taken[l] ELSE 0] OBVIOUS
  <2>7. \A l \in DOMAIN lots : f[l] \in Int BY <1>6, <2>6 DEF TakenOK
  <2>8. P \in SUBSET DOMAIN lots BY <2>2, <2>5
  <2>9. ASSUME NEW l \in DOMAIN lots, l \notin P PROVE f[l] = 0
    <3> SUFFICES ASSUME lots[l].type = t, taken[l] # 0 PROVE FALSE BY <2>6
    <3>1. PICK d \in D : d.lot = l BY <1>6
    <3>2. PICK s \in kinds : d \in Range(draw[s]) BY <1>2
    <3>3. s = t BY <1>4, <3>1, <3>2
    <3>4. PICK i \in 1..n : d = draws[i] BY <2>1, <2>2, <3>2, <3>3 DEF Range
    <3> QED BY <2>5, <2>9, <3>1, <3>4
  <2>10. SumFunctionOnSet(f, DOMAIN lots) = SumFunctionOnSet(f, P)
    <3>1. \A l \in DOMAIN lots \ P : f[l] = 0 BY <2>9
    <3> QED BY <1>8, <2>7, <2>8, <3>1, SumOnSupport
  <2>11. PICK N : N = 1..n OBVIOUS
  <2>12. PICK b : b = [i \in N |-> draws[i].lot] OBVIOUS
  <2>13. PICK g : g = [i \in N |-> draws[i].qty] OBVIOUS
  <2>14. IsFiniteSet(N) /\ b \in [N -> P] BY <2>5, <2>11, <2>12, CountTo
  <2>15. \A i, j \in N : b[i] = b[j] => i = j BY <2>2, <2>11, <2>12
  <2>16. \A l \in P : \E i \in N : b[i] = l BY <2>5, <2>11, <2>12
  <2>17. \A l \in P : f[l] \in Int BY <2>7, <2>8
  <2>18. \A i \in N : g[i] = f[b[i]]
    <3> SUFFICES ASSUME NEW i \in N PROVE g[i] = f[b[i]] OBVIOUS
    <3>1. g[i] = draws[i].qty /\ b[i] = draws[i].lot BY <2>12, <2>13
    <3> QED BY <2>2, <2>4, <2>6, <2>11, <3>1
  <2>19. SumFunctionOnSet(g, N) = SumFunctionOnSet(f, P)
    <3>1. Renames(b, N, P, g, f) BY <2>14, <2>15, <2>16, <2>17, <2>18 DEF Renames
    <3> QED BY <3>1, SumRenamed
  <2>20. UsedOf(taken, t) = SumFunctionOnSet(f, DOMAIN lots) BY <2>6 DEF UsedOf
  <2>21. DrawnSum(draw[t], n) = SumFunctionOnSet(g, N) BY <2>1, <2>11, <2>13 DEF DrawnSum
  <2> QED BY <2>1, <2>4, <2>10, <2>19, <2>20, <2>21
<1> QED BY <1>1, <1>5, <1>6, <1>7, <1>9, <1>10

\* The lots after something was taken and rows came behind.
TurnedOver(taken, rows, after) ==
    /\ after \in Seq(LotRow)
    /\ Len(lots) \in Nat /\ Len(rows) \in Nat /\ Len(after) = Len(lots) + Len(rows)
    /\ DOMAIN lots = 1..Len(lots) /\ DOMAIN rows = 1..Len(rows)
    /\ \A l \in DOMAIN lots : after[l] = [lots[l] EXCEPT !.left = @ - taken[l]]
    /\ \A i \in 1..Len(rows) : after[Len(lots) + i] = rows[i]
    /\ \A t : /\ ExpectedIn(after, t) = Expected(t) - UsedOf(taken, t) + Tally(UnitsIn(t), rows)
              /\ UsedOf(taken, t) \in Nat /\ Tally(UnitsIn(t), rows) \in Nat
              /\ Expected(t) \in Nat /\ UsedOf(taken, t) <= Expected(t)

\* Whatever changes the lots draws from some and adds rows: what is expected of a type
\* falls by what was drawn of it and grows by what came.
LEMMA Turnover ==
    ASSUME lots \in Seq(LotRow), NEW taken, TakenOK(taken), NEW rows \in Seq(LotRow),
           NEW after, after = After(taken) \o rows
    PROVE  TurnedOver(taken, rows, after)
<1>1. PICK m \in Nat : m = Len(lots) /\ DOMAIN lots = 1..m BY RowsOf
<1>2. PICK c : c = After(taken) OBVIOUS
<1>3. ASSUME NEW l \in 1..m
      PROVE  /\ c[l] = [lots[l] EXCEPT !.left = @ - taken[l]] /\ c[l] \in LotRow
             /\ c[l].left = lots[l].left - taken[l] /\ c[l].type = lots[l].type
             /\ lots[l] \in LotRow /\ lots[l].left \in Nat /\ taken[l] \in Nat
             /\ taken[l] <= lots[l].left
  <2>1. /\ lots[l] \in LotRow /\ lots[l].left \in Nat /\ taken[l] \in Nat /\ taken[l] <= lots[l].left
    BY <1>1, RowsOf DEF TakenOK
  <2>2. c[l] = [lots[l] EXCEPT !.left = @ - taken[l]] BY <1>1, <1>2 DEF After
  <2>3. lots[l].left - taken[l] \in Nat BY <2>1
  <2>4. c[l] \in LotRow BY <2>1, <2>2, <2>3 DEF LotRow
  <2>5. c[l].left = lots[l].left - taken[l] /\ c[l].type = lots[l].type BY <2>1, <2>2 DEF LotRow
  <2> QED BY <2>1, <2>2, <2>4, <2>5
<1>4. c \in Seq(LotRow) /\ Len(c) = m /\ DOMAIN c = 1..m
  <2>1. c = [l \in 1..m |-> [lots[l] EXCEPT !.left = @ - taken[l]]] BY <1>1, <1>2 DEF After
  <2>2. c \in [1..m -> LotRow] BY <1>3, <2>1
  <2> QED BY <2>2
<1>5. /\ after \in Seq(LotRow) /\ Len(rows) \in Nat /\ Len(after) = m + Len(rows)
      /\ DOMAIN rows = 1..Len(rows)
      /\ (\A k \in 1..m : c[k] \in LotRow /\ after[k] = c[k])
      /\ (\A k \in 1..Len(rows) : rows[k] \in LotRow /\ after[m + k] = rows[k])
  BY <1>2, <1>4, Joined
<1>6. ASSUME NEW t
      PROVE  /\ ExpectedIn(after, t) = Expected(t) - UsedOf(taken, t) + Tally(UnitsIn(t), rows)
             /\ UsedOf(taken, t) \in Nat /\ Tally(UnitsIn(t), rows) \in Nat
             /\ Expected(t) \in Nat /\ UsedOf(taken, t) <= Expected(t)
  <2>1. PICK val : val = UnitsIn(t) OBVIOUS
  <2>2. val \in [LotRow -> Int] /\ \A r \in LotRow : val[r] = IF r.type = t THEN r.left ELSE 0
    BY <2>1, UnitsInType
  <2>3. Tally(val, after) = Tally(val, c) + Tally(val, rows)
    BY <1>2, <1>4, <2>2, TallyJoined
  <2>4. PICK f : f = [l \in 1..m |-> val[lots[l]]] OBVIOUS
  <2>5. PICK g : g = [l \in 1..m |-> val[c[l]]] OBVIOUS
  <2>6. PICK h : h = [l \in 1..m |-> IF lots[l].type = t THEN taken[l] ELSE 0] OBVIOUS
  <2>7. ASSUME NEW l \in 1..m
        PROVE  g[l] \in Int /\ h[l] \in Int /\ h[l] \in Nat /\ f[l] = g[l] + h[l] /\ h[l] <= f[l]
               /\ f[l] \in Int
    <3>1. f[l] = IF lots[l].type = t THEN lots[l].left ELSE 0 BY <1>3, <2>2, <2>4
    <3>2. g[l] = IF lots[l].type = t THEN lots[l].left - taken[l] ELSE 0 BY <1>3, <2>2, <2>5
    <3>3. h[l] = IF lots[l].type = t THEN taken[l] ELSE 0 BY <2>6
    <3>0. lots[l].left \in Nat /\ taken[l] \in Nat /\ taken[l] <= lots[l].left BY <1>3
    <3>4. CASE lots[l].type = t
      <4>1. f[l] = lots[l].left /\ g[l] = lots[l].left - taken[l] /\ h[l] = taken[l]
        BY <3>1, <3>2, <3>3, <3>4
      <4> QED BY <3>0, <4>1
    <3>5. CASE lots[l].type # t
      <4>1. f[l] = 0 /\ g[l] = 0 /\ h[l] = 0 BY <3>1, <3>2, <3>3, <3>5
      <4> QED BY <4>1
    <3> QED BY <3>4, <3>5
  <2>8. IsFiniteSet(1..m) BY CountTo
  <2>9. SumFunctionOnSet(f, 1..m) = SumFunctionOnSet(g, 1..m) + SumFunctionOnSet(h, 1..m)
    BY <2>7, <2>8, SumOnPlus
  <2>10. SumFunctionOnSet(h, 1..m) <= SumFunctionOnSet(f, 1..m) BY <2>7, <2>8, SumOnAtMost
  <2>11. SumFunctionOnSet(h, 1..m) \in Nat BY <2>7, <2>8, SumOnNat
  <2>12. Tally(val, lots) = SumFunctionOnSet(f, 1..m) BY <1>1, <2>4 DEF Tally
  <2>13. Tally(val, c) = SumFunctionOnSet(g, 1..m) BY <1>4, <2>5 DEF Tally
  <2>14. UsedOf(taken, t) = SumFunctionOnSet(h, 1..m) BY <1>1, <2>6 DEF UsedOf
  <2>15. ExpectedIn(after, t) = Tally(val, after) /\ ExpectedIn(lots, t) = Tally(val, lots)
         /\ ExpectedIn(lots, t) \in Nat
    BY <1>5, <2>1, ExpectedIs
  <2>16. ExpectedIn(rows, t) = Tally(val, rows) /\ ExpectedIn(rows, t) \in Nat BY <2>1, ExpectedIs
  <2>17. Expected(t) = ExpectedIn(lots, t) BY ExpectedNow
  <2>18. SumFunctionOnSet(g, 1..m) \in Int BY <2>7, <2>8, SumOnInt
  <2> QED BY <2>1, <2>3, <2>9, <2>10, <2>11, <2>12, <2>13, <2>14, <2>15, <2>16, <2>17, <2>18
<1> QED BY <1>1, <1>2, <1>3, <1>4, <1>5, <1>6 DEF TurnedOver

-----------------------------------------------------------------------------
(* The lots a refine makes *)

\* Cents that all units of a lot cost that a refine made of it.
CentsIn == [piece \in LotRow |-> piece.cost.num]
CentsInType == /\ CentsIn \in [LotRow -> Nat] /\ CentsIn \in [LotRow -> Int]
               /\ \A r \in LotRow : CentsIn[r] = r.cost.num

LEMMA CentsInIs == CentsInType
<1>1. \A r \in LotRow : r.cost.num \in Nat BY DEF LotRow
<1> QED BY <1>1 DEF CentsIn, CentsInType

\* Made of outputs, as old and as doubtful as lot.
MadeOf(piece, lot, type, qty) ==
    /\ piece \in LotRow /\ piece.type = type /\ piece.left = qty /\ piece.source = "reprocess"
    /\ piece.at = lot.at /\ piece.estimated = lot.estimated /\ piece.cost.den = qty
UnitsAt(outputs, t) == IF t \in DOMAIN outputs THEN outputs[t] ELSE 0

\* The rows kids are the outputs of lot, at its cost num/den to half a cent.
MadeFrom(kids, lot, num, den, outputs) ==
    /\ DOMAIN kids = DOMAIN outputs /\ IsFiniteSet(DOMAIN outputs)
    /\ \A t \in DOMAIN outputs : MadeOf(kids[t], lot, t, outputs[t])
    /\ \A t : Tally(UnitsIn(t), kids) = UnitsAt(outputs, t)
    /\ Tally(CentsIn, kids) \in Nat
    /\ 2 * (den * Tally(CentsIn, kids) - num) <= den
    /\ 2 * (num - den * Tally(CentsIn, kids)) <= den

LEMMA ChildrenAre ==
    ASSUME NEW lot \in LotRow, NEW num \in Nat, NEW den \in Nat, den > 0,
           NEW outputs, OutputsOK(outputs),
           NEW kids, kids = Children(lot, Cost(num, den), outputs)
    PROVE  MadeFrom(kids, lot, num, den, outputs)
<1>1. PICK cents : cents = AllocateSourceCost(Cost(num, den), outputs, Worth) OBVIOUS
<1>2. \A t \in Types : Worth[t] \in Nat BY StockTakeAssumption DEF Worth
<1>3. /\ DOMAIN cents = DOMAIN outputs
      /\ \A t \in DOMAIN outputs : cents[t] \in Nat
      /\ SumFunctionOnSet(cents, DOMAIN outputs) \in Nat
      /\ 2 * (den * SumFunctionOnSet(cents, DOMAIN outputs) - num) <= den
      /\ 2 * (num - den * SumFunctionOnSet(cents, DOMAIN outputs)) <= den
  BY <1>1, <1>2, CentsAddUp
<1>4. PICK D : D = DOMAIN outputs OBVIOUS
<1>5. IsFiniteSet(D) /\ \A t \in D : t \in Types /\ outputs[t] \in Nat \ {0}
  BY <1>4, TypesKnown DEF OutputsOK
<1>6. kids = [t \in D |->
                [type |-> t, left |-> outputs[t], at |-> lot.at,
                 cost |-> Cost(cents[t], outputs[t]), source |-> "reprocess",
                 estimated |-> lot.estimated]]
  BY <1>1, <1>4 DEF Children
<1>7. ASSUME NEW t \in D
      PROVE  MadeOf(kids[t], lot, t, outputs[t]) /\ kids[t] \in LotRow /\ kids[t].cost.num = cents[t]
             /\ kids[t].type = t /\ kids[t].left = outputs[t]
  <2>1. kids[t] = [type |-> t, left |-> outputs[t], at |-> lot.at,
                   cost |-> [num |-> cents[t], den |-> outputs[t]], source |-> "reprocess",
                   estimated |-> lot.estimated]
    BY <1>6 DEF Cost
  <2>2. lot.at \in Nat /\ lot.estimated \in BOOLEAN BY DEF LotRow
  <2>3. t \in Types /\ outputs[t] \in Nat \ {0} /\ outputs[t] \in Nat /\ cents[t] \in Nat
    BY <1>3, <1>4, <1>5
  <2>4. kids[t] \in LotRow BY <2>1, <2>2, <2>3 DEF LotRow
  <2> QED BY <2>1, <2>4 DEF MadeOf
<1>8. ASSUME NEW t PROVE Tally(UnitsIn(t), kids) = UnitsAt(outputs, t)
  <2>1. PICK f : f = [k \in D |-> UnitsIn(t)[kids[k]]] OBVIOUS
  <2>2. \A k \in D : f[k] = IF k = t THEN outputs[k] ELSE 0 BY <1>7, <2>1, UnitsInType
  <2>3. Tally(UnitsIn(t), kids) = SumFunctionOnSet(f, D) BY <1>6, <2>1 DEF Tally
  <2>4. CASE t \in D
    <3>1. f[t] = outputs[t] /\ f[t] \in Int /\ \A y \in D \ {t} : f[y] = 0 BY <1>5, <2>2, <2>4
    <3>2. SumFunctionOnSet(f, D) = f[t] BY <1>5, <2>4, <3>1, SumOnOne
    <3> QED BY <1>4, <2>3, <2>4, <3>1, <3>2 DEF UnitsAt
  <2>5. CASE t \notin D
    <3>1. \A k \in D : f[k] = 0 BY <2>2, <2>5
    <3>2. SumFunctionOnSet(f, D) = 0 BY <1>5, <3>1, SumOnZero
    <3> QED BY <1>4, <2>3, <2>5, <3>2 DEF UnitsAt
  <2> QED BY <2>4, <2>5
<1>9. Tally(CentsIn, kids) = SumFunctionOnSet(cents, DOMAIN outputs)
  <2>1. PICK f : f = [k \in D |-> CentsIn[kids[k]]] OBVIOUS
  <2>2. \A k \in D : f[k] = cents[k] BY <1>7, <2>1, CentsInIs DEF CentsInType
  <2>3. SumFunctionOnSet(f, D) = SumFunctionOnSet(cents, D) BY <1>5, <2>2, SumOnSame
  <2>4. Tally(CentsIn, kids) = SumFunctionOnSet(f, D) BY <1>6, <2>1 DEF Tally
  <2> QED BY <1>4, <2>3, <2>4
<1>10. DOMAIN kids = DOMAIN outputs BY <1>4, <1>6
<1> QED BY <1>3, <1>4, <1>5, <1>7, <1>8, <1>9, <1>10 DEF MadeFrom

\* Table i of m holds what a source becomes: lot[i], carrying num[i]/den[i], as outputs out[i].
Handed(tables, m, lot, num, den, out) ==
    /\ DOMAIN tables = 1..m
    /\ \A i \in 1..m : /\ lot[i] \in LotRow /\ num[i] \in Nat /\ den[i] \in Nat \ {0}
                       /\ OutputsOK(out[i])
                       /\ tables[i] = Children(lot[i], Cost(num[i], den[i]), out[i])

\* On a common scale K, where source i costs w[i].
Scaled(m, num, den, K, w) == \A i \in 1..m : w[i] \in Int /\ num[i] * K = den[i] * w[i]

LEMMA OnScale ==
    ASSUME NEW num \in Int, NEW den \in Nat, den > 0, NEW K \in Nat, K > 0, NEW w \in Int,
           num * K = den * w, NEW C \in Int,
           2 * (den * C - num) <= den, 2 * (num - den * C) <= den
    PROVE  2 * (K * C - w) <= K /\ 2 * (w - K * C) <= K
<1>1. PICK x \in Int : x = den * C - num OBVIOUS
<1>2. 2 * x <= den /\ -(2 * x) <= den BY <1>1
<1>3. K * x = den * (K * C - w)
  <2>1. K * x = K * (den * C) - K * num BY <1>1
  <2>2. K * (den * C) = den * (K * C) BY Reordered
  <2>3. K * num = den * w OBVIOUS
  <2>4. K * C \in Int OBVIOUS
  <2>5. den * (K * C - w) = den * (K * C) - den * w BY <2>4
  <2> QED BY <2>1, <2>2, <2>3, <2>5
<1>4. PICK y \in Int : y = K * C - w OBVIOUS
<1>5. K * x = den * y BY <1>3, <1>4
<1>6. ASSUME NEW p \in Int, NEW q \in Int, K * p = den * q, 2 * p <= den PROVE 2 * q <= K
  <2> SUFFICES ASSUME 2 * q >= K + 1 PROVE FALSE OBVIOUS
  <2>1. den * (2 * q) >= den * (K + 1) BY <1>6
  <2>2. den * (2 * q) = 2 * (den * q) BY <1>6
  <2>3. den * (2 * q) = K * (2 * p) BY <1>6, <2>2
  <2>4. K * (2 * p) <= K * den BY <1>6
  <2>5. den * (K + 1) = K * den + den OBVIOUS
  <2> QED BY <2>1, <2>3, <2>4, <2>5
<1>7. 2 * y <= K BY <1>2, <1>5, <1>6
<1>8. 2 * (-y) <= K
  <2>1. K * (-x) = den * (-y) BY <1>5
  <2>2. 2 * (-x) <= den BY <1>2
  <2> QED BY <1>6, <2>1, <2>2
<1> QED BY <1>4, <1>7, <1>8

\* Rows that a refine of the sources in lot[1] to lot[m] made.
Inherited(rows, m, lot) ==
    \A k \in DOMAIN rows :
       \E i \in 1..m : /\ rows[k] \in LotRow /\ rows[k].source = "reprocess"
                       /\ rows[k].cost.den = rows[k].left /\ rows[k].left \in Nat \ {0}
                       /\ rows[k].at = lot[i].at /\ rows[k].estimated = lot[i].estimated

\* All rows of the tables: as many of a type and as many cents as in the tables together.
AddedUp(rows, m, tables, lot, out) ==
    /\ IsFiniteSet(DOMAIN rows) /\ Inherited(rows, m, lot)
    /\ \A t : Tally(UnitsIn(t), rows)
                = SumFunctionOnSet([i \in 1..m |-> UnitsAt(out[i], t)], 1..m)
    /\ Tally(CentsIn, rows) = SumFunctionOnSet([i \in 1..m |-> Tally(CentsIn, tables[i])], 1..m)

LEMMA HandedRows ==
    ASSUME NEW m \in Nat, NEW tables, NEW lot, NEW num, NEW den, NEW out,
           Handed(tables, m, lot, num, den, out), NEW rows, rows = Flat(tables)
    PROVE  AddedUp(rows, m, tables, lot, out)
<1>1. DOMAIN tables = 1..m /\ IsFiniteSet(DOMAIN tables) BY CountTo DEF Handed
<1>2. ASSUME NEW i \in 1..m
      PROVE  /\ DOMAIN tables[i] = DOMAIN out[i] /\ IsFiniteSet(DOMAIN tables[i])
             /\ \A t \in DOMAIN out[i] : MadeOf(tables[i][t], lot[i], t, out[i][t])
             /\ \A t \in DOMAIN out[i] : out[i][t] \in Nat \ {0}
             /\ \A t : Tally(UnitsIn(t), tables[i]) = UnitsAt(out[i], t)
  <2>1. /\ lot[i] \in LotRow /\ num[i] \in Nat /\ den[i] \in Nat /\ den[i] > 0 /\ OutputsOK(out[i])
        /\ tables[i] = Children(lot[i], Cost(num[i], den[i]), out[i])
    BY DEF Handed
  <2>2. /\ DOMAIN tables[i] = DOMAIN out[i] /\ IsFiniteSet(DOMAIN out[i])
        /\ \A t \in DOMAIN out[i] : MadeOf(tables[i][t], lot[i], t, out[i][t])
        /\ \A t : Tally(UnitsIn(t), tables[i]) = UnitsAt(out[i], t)
    <3>1. MadeFrom(tables[i], lot[i], num[i], den[i], out[i]) BY <2>1, ChildrenAre
    <3> QED BY <3>1 DEF MadeFrom
  <2> QED BY <2>1, <2>2 DEF OutputsOK
<1>3. \A i \in DOMAIN tables : IsFiniteSet(DOMAIN tables[i]) BY <1>1, <1>2
<1>4. /\ IsFiniteSet(DOMAIN rows)
      /\ \A k \in DOMAIN rows :
                /\ k[1] \in DOMAIN tables /\ k[2] \in DOMAIN tables[k[1]]
                /\ rows[k] = tables[k[1]][k[2]]
  BY <1>1, <1>3, FlatIs
<1>5. ASSUME NEW k \in DOMAIN rows
      PROVE  \E i \in 1..m : /\ rows[k] \in LotRow /\ rows[k].source = "reprocess"
                       /\ rows[k].cost.den = rows[k].left /\ rows[k].left \in Nat \ {0}
                       /\ rows[k].at = lot[i].at /\ rows[k].estimated = lot[i].estimated
  <2>1. PICK i \in 1..m : i = k[1] BY <1>1, <1>4
  <2>2. PICK t \in DOMAIN out[i] : t = k[2] BY <1>2, <1>4, <2>1
  <2>3. rows[k] = tables[i][t] BY <1>4, <2>1, <2>2
  <2>4. MadeOf(rows[k], lot[i], t, out[i][t]) /\ out[i][t] \in Nat \ {0} BY <1>2, <2>3
  <2> QED BY <2>4 DEF MadeOf
<1>7. \A i \in DOMAIN tables : \A j \in DOMAIN tables[i] : tables[i][j] \in LotRow
  BY <1>1, <1>2 DEF MadeOf
<1>8. ASSUME NEW val \in [LotRow -> Int], NEW each, \A i \in DOMAIN tables : each[i] = Tally(val, tables[i])
      PROVE  Tally(val, rows) = SumFunctionOnSet(each, DOMAIN tables)
  BY <1>1, <1>3, <1>7, <1>8, TallyFlat
<1>9. ASSUME NEW t
      PROVE  Tally(UnitsIn(t), rows) = SumFunctionOnSet([i \in 1..m |-> UnitsAt(out[i], t)], 1..m)
  <2>1. PICK each : each = [i \in 1..m |-> UnitsAt(out[i], t)] OBVIOUS
  <2>2. \A i \in DOMAIN tables : each[i] = Tally(UnitsIn(t), tables[i]) BY <1>1, <1>2, <2>1
  <2>3. UnitsIn(t) \in [LotRow -> Int] BY UnitsInType
  <2>4. Tally(UnitsIn(t), rows) = SumFunctionOnSet(each, DOMAIN tables) BY <1>8, <2>2, <2>3
  <2> QED BY <1>1, <2>1, <2>4
<1>10. Tally(CentsIn, rows) = SumFunctionOnSet([i \in 1..m |-> Tally(CentsIn, tables[i])], 1..m)
  <2>1. PICK each : each = [i \in 1..m |-> Tally(CentsIn, tables[i])] OBVIOUS
  <2>2. \A i \in DOMAIN tables : each[i] = Tally(CentsIn, tables[i]) BY <1>1, <2>1
  <2>3. CentsIn \in [LotRow -> Int] BY CentsInIs DEF CentsInType
  <2>4. Tally(CentsIn, rows) = SumFunctionOnSet(each, DOMAIN tables) BY <1>8, <2>2, <2>3
  <2> QED BY <1>1, <2>1, <2>4
<1> QED BY <1>4, <1>5, <1>9, <1>10 DEF Inherited, AddedUp

\* Differences of at most n[i] halves of K add up.
Halves(N, K, c, w, n) ==
    \A i \in N : /\ c[i] \in Nat /\ w[i] \in Int /\ n[i] \in Nat
                 /\ 2 * (K * c[i] - w[i]) <= K * n[i] /\ 2 * (w[i] - K * c[i]) <= K * n[i]

LEMMA HalvesAddUp ==
    ASSUME NEW N, IsFiniteSet(N), NEW K \in Nat, NEW c, NEW w, NEW n, Halves(N, K, c, w, n),
           NEW C, C = SumFunctionOnSet(c, N), NEW W, W = SumFunctionOnSet(w, N),
           NEW H, H = SumFunctionOnSet(n, N)
    PROVE  /\ C \in Nat /\ W \in Int /\ H \in Nat
           /\ 2 * (K * C - W) <= K * H /\ 2 * (W - K * C) <= K * H
<1>1. \A i \in N : c[i] \in Nat /\ w[i] \in Int /\ n[i] \in Nat BY DEF Halves
<1>2. C \in Nat /\ W \in Int /\ H \in Nat
  <2>1. C \in Nat BY <1>1, SumOnNat
  <2>2. W \in Int BY <1>1, SumOnInt
  <2>3. H \in Nat BY <1>1, SumOnNat
  <2> QED BY <2>1, <2>2, <2>3
<1>3. PICK kc : kc = [i \in N |-> K * c[i]] OBVIOUS
<1>4. PICK kn : kn = [i \in N |-> K * n[i]] OBVIOUS
<1>5. PICK tc : tc = [i \in N |-> 2 * kc[i]] OBVIOUS
<1>6. PICK tw : tw = [i \in N |-> 2 * w[i]] OBVIOUS
<1>7. ASSUME NEW i \in N
      PROVE  /\ kc[i] \in Int /\ kn[i] \in Int /\ tc[i] \in Int /\ tw[i] \in Int
             /\ kc[i] = K * c[i] /\ kn[i] = K * n[i] /\ tc[i] = 2 * kc[i] /\ tw[i] = 2 * w[i]
             /\ tc[i] <= tw[i] + kn[i] /\ tw[i] <= tc[i] + kn[i]
  <2>1. PICK x \in Nat : x = c[i] BY <1>1
  <2>2. PICK y \in Nat : y = n[i] BY <1>1
  <2>3. K * x \in Int /\ K * y \in Int BY <2>1, <2>2
  <2>4. kc[i] = K * x /\ kn[i] = K * y /\ tc[i] = 2 * (K * x) /\ tw[i] = 2 * w[i]
    BY <1>3, <1>4, <1>5, <1>6, <2>1, <2>2
  <2>5. 2 * (K * x - w[i]) <= K * y /\ 2 * (w[i] - K * x) <= K * y /\ w[i] \in Int
    BY <2>1, <2>2 DEF Halves
  <2>6. tc[i] <= tw[i] + kn[i] /\ tw[i] <= tc[i] + kn[i] /\ tc[i] \in Int /\ tw[i] \in Int
    BY <2>3, <2>4, <2>5
  <2> QED BY <2>1, <2>2, <2>3, <2>4, <2>6
<1>8. SumFunctionOnSet(kc, N) = K * C
  <2>1. \A i \in N : c[i] \in Int /\ kc[i] = K * c[i] BY <1>1, <1>7
  <2> QED BY <2>1, SumOnTimes
<1>9. SumFunctionOnSet(kn, N) = K * H
  <2>1. \A i \in N : n[i] \in Int /\ kn[i] = K * n[i] BY <1>1, <1>7
  <2> QED BY <2>1, SumOnTimes
<1>10. SumFunctionOnSet(tc, N) = 2 * SumFunctionOnSet(kc, N)
  <2>1. \A i \in N : kc[i] \in Int /\ tc[i] = 2 * kc[i] BY <1>7
  <2> QED BY <2>1, SumOnTimes
<1>11. SumFunctionOnSet(tw, N) = 2 * W
  <2>1. \A i \in N : w[i] \in Int /\ tw[i] = 2 * w[i] BY <1>1, <1>7
  <2> QED BY <2>1, SumOnTimes
<1>12. ASSUME NEW f, NEW g, NEW h, \A i \in N : f[i] \in Int /\ g[i] \in Int /\ h[i] \in Int /\ f[i] <= g[i] + h[i]
       PROVE  SumFunctionOnSet(f, N) <= SumFunctionOnSet(g, N) + SumFunctionOnSet(h, N)
  <2>1. PICK gh : gh = [i \in N |-> g[i] + h[i]] OBVIOUS
  <2>2. \A i \in N : g[i] \in Int /\ h[i] \in Int /\ gh[i] = g[i] + h[i] BY <1>12, <2>1
  <2>3. SumFunctionOnSet(gh, N) = SumFunctionOnSet(g, N) + SumFunctionOnSet(h, N) BY <2>2, SumOnPlus
  <2>4. \A i \in N : f[i] \in Int /\ gh[i] \in Int /\ f[i] <= gh[i] BY <1>12, <2>2
  <2>5. SumFunctionOnSet(f, N) <= SumFunctionOnSet(gh, N) BY <2>4, SumOnAtMost
  <2> QED BY <2>3, <2>5
<1>13. SumFunctionOnSet(tc, N) <= SumFunctionOnSet(tw, N) + SumFunctionOnSet(kn, N)
  <2>1. \A i \in N : tc[i] \in Int /\ tw[i] \in Int /\ kn[i] \in Int /\ tc[i] <= tw[i] + kn[i] BY <1>7
  <2> QED BY <1>12, <2>1
<1>14. SumFunctionOnSet(tw, N) <= SumFunctionOnSet(tc, N) + SumFunctionOnSet(kn, N)
  <2>1. \A i \in N : tw[i] \in Int /\ tc[i] \in Int /\ kn[i] \in Int /\ tw[i] <= tc[i] + kn[i] BY <1>7
  <2> QED BY <1>12, <2>1
<1>15. PICK p \in Int : p = K * C
  <2>1. K * C \in Int BY <1>2
  <2> QED BY <2>1
<1>16. PICK q \in Int : q = K * H
  <2>1. K * H \in Int BY <1>2
  <2> QED BY <2>1
<1>17. 2 * p <= 2 * W + q /\ 2 * W <= 2 * p + q
  BY <1>8, <1>9, <1>10, <1>11, <1>13, <1>14, <1>15, <1>16
<1>18. 2 * (p - W) <= q /\ 2 * (W - p) <= q BY <1>2, <1>17
<1> QED BY <1>2, <1>15, <1>16, <1>18

\* What the sources cost together is what the rows cost, to half a cent a source.
LEMMA HandedCost ==
    ASSUME NEW m \in Nat, NEW tables, NEW lot, NEW num, NEW den, NEW out,
           Handed(tables, m, lot, num, den, out), NEW rows, rows = Flat(tables),
           NEW K \in Nat, K > 0, NEW w, Scaled(m, num, den, K, w)
    PROVE  /\ Tally(CentsIn, rows) \in Nat /\ SumFunctionOnSet(w, 1..m) \in Int
           /\ 2 * (K * Tally(CentsIn, rows) - SumFunctionOnSet(w, 1..m)) <= K * m
           /\ 2 * (SumFunctionOnSet(w, 1..m) - K * Tally(CentsIn, rows)) <= K * m
<1>1. PICK c : c = [i \in 1..m |-> Tally(CentsIn, tables[i])] OBVIOUS
<1>2. Tally(CentsIn, rows) = SumFunctionOnSet(c, 1..m)
  <2>1. AddedUp(rows, m, tables, lot, out) BY HandedRows
  <2> QED BY <1>1, <2>1 DEF AddedUp
<1>3. ASSUME NEW i \in 1..m
      PROVE  c[i] \in Nat /\ w[i] \in Int /\ 2 * (K * c[i] - w[i]) <= K /\ 2 * (w[i] - K * c[i]) <= K
  <2>1. PICK n \in Nat : n = num[i] BY DEF Handed
  <2>2. PICK d \in Nat : d = den[i] /\ d > 0 BY DEF Handed
  <2>3. lot[i] \in LotRow /\ OutputsOK(out[i]) /\ tables[i] = Children(lot[i], Cost(n, d), out[i])
    BY <2>1, <2>2 DEF Handed
  <2>4. PICK C : C = Tally(CentsIn, tables[i]) OBVIOUS
  <2>5. C \in Nat /\ 2 * (d * C - n) <= d /\ 2 * (n - d * C) <= d
    <3>1. MadeFrom(tables[i], lot[i], n, d, out[i]) BY <2>2, <2>3, ChildrenAre
    <3> QED BY <2>4, <3>1 DEF MadeFrom
  <2>6. PICK u \in Int : u = w[i] BY DEF Scaled
  <2>7. n * K = d * u BY <2>1, <2>2, <2>6 DEF Scaled
  <2>8. 2 * (K * C - u) <= K /\ 2 * (u - K * C) <= K BY <2>2, <2>5, <2>7, OnScale
  <2> QED BY <1>1, <2>4, <2>5, <2>6, <2>8
<1>4. PICK N : N = 1..m OBVIOUS
<1>5. PICK one : one = [i \in N |-> 1] OBVIOUS
<1>6. IsFiniteSet(N) /\ SumFunctionOnSet(one, N) = m
  <2>1. IsFiniteSet(N) /\ Cardinality(N) = m BY <1>4, CountTo
  <2>2. \A i \in N : one[i] = 1 BY <1>5
  <2> QED BY <2>1, <2>2, SumOnOnes
<1>7. Halves(N, K, c, w, one) BY <1>3, <1>4, <1>5 DEF Halves
<1>8. PICK C : C = SumFunctionOnSet(c, N) OBVIOUS
<1>9. PICK W : W = SumFunctionOnSet(w, N) OBVIOUS
<1>10. C \in Nat /\ W \in Int /\ 2 * (K * C - W) <= K * m /\ 2 * (W - K * C) <= K * m
  BY <1>6, <1>7, <1>8, <1>9, HalvesAddUp
<1> QED BY <1>2, <1>4, <1>8, <1>9, <1>10

\* A scale on which what any lot costs is whole: K is a multiple of every denominator.
Common(K) ==
    /\ K \in Nat /\ K > 0
    /\ \A l \in DOMAIN lots : \E m \in Nat : K = lots[l].cost.den * m
PartOf(K, l) == CHOOSE m \in Nat : K = lots[l].cost.den * m
OnK(K, l, qty) == (qty * lots[l].cost.num) * PartOf(K, l)

LEMMA CostOf ==
    ASSUME lots \in Seq(LotRow), NEW l \in DOMAIN lots
    PROVE  /\ lots[l].cost.num \in Nat /\ lots[l].cost.den \in Nat /\ lots[l].cost.den > 0
           /\ lots[l].cost = Cost(lots[l].cost.num, lots[l].cost.den)
<1>1. lots[l] \in LotRow BY RowsOf
<1> QED BY <1>1 DEF LotRow, Cost

LEMMA CommonExists ==
    ASSUME lots \in Seq(LotRow)
    PROVE  \E K : Common(K)
<1>1. PICK S : S = DOMAIN lots OBVIOUS
<1>2. PICK costs : costs = [l \in S |-> lots[l].cost] OBVIOUS
<1>3. \A l \in S : costs[l] \in Fractions
  <2> SUFFICES ASSUME NEW l \in S PROVE costs[l] \in Fractions OBVIOUS
  <2>1. costs[l] = Cost(lots[l].cost.num, lots[l].cost.den) BY <1>1, <1>2, CostOf
  <2> QED BY <1>1, <2>1, CostOf DEF Fractions, Cost
<1>4. IsFiniteSet(S) BY <1>1, RowsOf
<1>5. PICK k \in Nat : k > 0 /\ \A l \in S : \E m \in Nat : k = costs[l].den * m
  BY <1>3, <1>4, ScaleExists
<1>6. Common(k) BY <1>1, <1>2, <1>5 DEF Common
<1> QED BY <1>6

LEMMA OnKIs ==
    ASSUME lots \in Seq(LotRow), NEW K, Common(K), NEW l \in DOMAIN lots, NEW qty \in Nat
    PROVE  /\ OnK(K, l, qty) \in Nat
           /\ (qty * lots[l].cost.num) * K = lots[l].cost.den * OnK(K, l, qty)
<1>1. PICK p : p = PartOf(K, l) OBVIOUS
<1>2. p \in Nat /\ K = lots[l].cost.den * p BY <1>1 DEF Common, PartOf
<1>3. PICK num \in Nat : num = lots[l].cost.num BY CostOf
<1>4. PICK den \in Nat : den = lots[l].cost.den BY CostOf
<1>5. PICK x \in Nat : x = qty * num
  <2>1. qty * num \in Nat OBVIOUS
  <2> QED BY <2>1
<1>6. OnK(K, l, qty) = x * p BY <1>1, <1>3, <1>5 DEF OnK
<1>7. x * p \in Nat BY <1>2
<1>8. x * (den * p) = den * (x * p) BY <1>2, Reordered
<1> QED BY <1>2, <1>3, <1>4, <1>5, <1>6, <1>7, <1>8

DrawnCost(K, draws, n) ==
    SumFunctionOnSet([i \in 1..n |-> OnK(K, draws[i].lot, draws[i].qty)], 1..n)

\* The lots drawn from, one by one or all together, become tables of rows.
Becomes(rows, m, tables, lot, num, den, out, draws, n, outputs, K) ==
    /\ m \in 1..n /\ Handed(tables, m, lot, num, den, out) /\ rows = Flat(tables)
    /\ \A i \in 1..m : \E j \in 1..n : /\ lot[i].at = lots[draws[j].lot].at
                                       /\ lots[draws[j].lot].estimated => lot[i].estimated
    /\ \A t : SumFunctionOnSet([i \in 1..m |-> UnitsAt(out[i], t)], 1..m) = UnitsAt(outputs, t)
    /\ \E w : /\ Scaled(m, num, den, K, w)
              /\ SumFunctionOnSet(w, 1..m) = DrawnCost(K, draws, n)

LEMMA PaidIs ==
    ASSUME lots \in Seq(LotRow), NEW n \in Nat, NEW draws, NEW s, DrawsTo(draws, n, s), NEW i \in 1..n
    PROVE  /\ draws[i].lot \in DOMAIN lots /\ lots[draws[i].lot] \in LotRow
           /\ draws[i].qty \in Nat /\ draws[i].qty > 0
           /\ Paid(draws[i]) = Cost(draws[i].qty * lots[draws[i].lot].cost.num, lots[draws[i].lot].cost.den)
           /\ draws[i].qty * lots[draws[i].lot].cost.num \in Nat
           /\ lots[draws[i].lot].cost.den \in Nat \ {0}
<1>1. draws[i].lot \in DOMAIN lots /\ draws[i].qty \in Nat \ {0} BY DEF DrawsTo
<1>2. lots[draws[i].lot] \in LotRow BY <1>1, RowsOf
<1>3. PICK num \in Nat : num = lots[draws[i].lot].cost.num BY <1>1, CostOf
<1>4. lots[draws[i].lot].cost.den \in Nat \ {0} BY <1>1, CostOf
<1>5. PICK q \in Nat : q = draws[i].qty /\ q > 0 BY <1>1
<1>6. q * num \in Nat OBVIOUS
<1>7. Paid(draws[i]) = Cost(draws[i].qty * lots[draws[i].lot].cost.num, lots[draws[i].lot].cost.den)
  BY DEF Paid, Times
<1> QED BY <1>1, <1>2, <1>3, <1>4, <1>5, <1>6, <1>7

LEMMA ApartBecome ==
    ASSUME lots \in Seq(LotRow), NEW n \in Nat, n > 0, NEW draws, NEW s, DrawsTo(draws, n, s),
           NEW outputs, OutputsOK(outputs), NEW K, Common(K),
           NEW shares, shares = ApportionOutputs([i \in DOMAIN draws |-> draws[i].qty], outputs),
           shares # NoShares
    PROVE  \E m, tables, lot, num, den, out :
              Becomes(Observed(draws, outputs), m, tables, lot, num, den, out, draws, n, outputs, K)
<1>1. PICK takes : takes = [i \in 1..n |-> draws[i].qty] OBVIOUS
<1>2. DOMAIN draws = 1..n BY DEF DrawsTo
<1>3. TakesOK(takes)
  <2>1. \A i \in 1..n : takes[i] \in Nat \ {0} BY <1>1 DEF DrawsTo
  <2>2. DOMAIN takes = 1..n BY <1>1
  <2> QED BY <2>1, <2>2 DEF TakesOK
<1>4. /\ DOMAIN shares = DOMAIN takes
      /\ \A i \in DOMAIN takes : OutputsOK(shares[i]) /\ DOMAIN shares[i] \subseteq DOMAIN outputs
      /\ \A t \in DOMAIN outputs :
            outputs[t] = SumFunctionOnSet(
                    [i \in DOMAIN takes |-> IF t \in DOMAIN shares[i] THEN shares[i][t] ELSE 0],
                    DOMAIN takes)
  <2>1. [i \in DOMAIN draws |-> draws[i].qty] = takes BY <1>1, <1>2
  <2>2. SharedOut(shares, takes, outputs) BY <1>3, <2>1, OutputsAddUp
  <2> QED BY <2>2 DEF SharedOut
<1>5. DOMAIN takes = 1..n BY <1>1
<1>6. PICK tables : tables = [i \in 1..n |-> Children(lots[draws[i].lot], Paid(draws[i]), shares[i])]
  OBVIOUS
<1>7. Observed(draws, outputs) = Flat(tables) BY <1>2, <1>6 DEF Observed
<1>8. PICK lot : lot = [i \in 1..n |-> lots[draws[i].lot]] OBVIOUS
<1>9. PICK num : num = [i \in 1..n |-> draws[i].qty * lots[draws[i].lot].cost.num] OBVIOUS
<1>10. PICK den : den = [i \in 1..n |-> lots[draws[i].lot].cost.den] OBVIOUS
<1>11. Handed(tables, n, lot, num, den, shares)
  <2>1. ASSUME NEW i \in 1..n
        PROVE  /\ lot[i] \in LotRow /\ num[i] \in Nat /\ den[i] \in Nat \ {0}
               /\ OutputsOK(shares[i])
               /\ tables[i] = Children(lot[i], Cost(num[i], den[i]), shares[i])
    <3>1. lot[i] = lots[draws[i].lot] BY <1>8
    <3>2. num[i] = draws[i].qty * lots[draws[i].lot].cost.num BY <1>9
    <3>3. den[i] = lots[draws[i].lot].cost.den BY <1>10
    <3>4. tables[i] = Children(lots[draws[i].lot], Paid(draws[i]), shares[i]) BY <1>6
    <3>5. Paid(draws[i]) = Cost(num[i], den[i]) BY <3>2, <3>3, PaidIs
    <3>6. lot[i] \in LotRow /\ num[i] \in Nat /\ den[i] \in Nat \ {0} BY <3>1, <3>2, <3>3, PaidIs
    <3> QED BY <1>4, <1>5, <3>1, <3>4, <3>5, <3>6
  <2>2. DOMAIN tables = 1..n BY <1>6
  <2> QED BY <2>1, <2>2 DEF Handed
<1>12. \A i \in 1..n : \E j \in 1..n : /\ lot[i].at = lots[draws[j].lot].at
                                       /\ lots[draws[j].lot].estimated => lot[i].estimated
  BY <1>8
<1>13. ASSUME NEW t
       PROVE  SumFunctionOnSet([i \in 1..n |-> UnitsAt(shares[i], t)], 1..n) = UnitsAt(outputs, t)
  <2>1. PICK f : f = [i \in 1..n |-> IF t \in DOMAIN shares[i] THEN shares[i][t] ELSE 0] OBVIOUS
  <2>2. [i \in 1..n |-> UnitsAt(shares[i], t)] = f BY <2>1 DEF UnitsAt
  <2>3. CASE t \in DOMAIN outputs
    <3>1. outputs[t] = SumFunctionOnSet(f, 1..n) BY <1>4, <1>5, <2>1, <2>3
    <3> QED BY <2>2, <2>3, <3>1 DEF UnitsAt
  <2>4. CASE t \notin DOMAIN outputs
    <3>1. \A i \in 1..n : f[i] = 0 BY <1>4, <1>5, <2>1, <2>4
    <3>2. SumFunctionOnSet(f, 1..n) = 0 BY <3>1, CountTo, SumOnZero
    <3> QED BY <2>2, <2>4, <3>2 DEF UnitsAt
  <2> QED BY <2>3, <2>4
<1>14. PICK w : w = [i \in 1..n |-> OnK(K, draws[i].lot, draws[i].qty)] OBVIOUS
<1>15. Scaled(n, num, den, K, w)
  <2>1. ASSUME NEW i \in 1..n PROVE w[i] \in Int /\ num[i] * K = den[i] * w[i]
    <3>1. draws[i].lot \in DOMAIN lots /\ draws[i].qty \in Nat BY PaidIs
    <3>2. /\ OnK(K, draws[i].lot, draws[i].qty) \in Nat
          /\ (draws[i].qty * lots[draws[i].lot].cost.num) * K
               = lots[draws[i].lot].cost.den * OnK(K, draws[i].lot, draws[i].qty)
      BY <3>1, OnKIs
    <3> QED BY <1>9, <1>10, <1>14, <3>2
  <2> QED BY <2>1 DEF Scaled
<1>16. SumFunctionOnSet(w, 1..n) = DrawnCost(K, draws, n) BY <1>14 DEF DrawnCost
<1>17. Becomes(Observed(draws, outputs), n, tables, lot, num, den, shares, draws, n, outputs, K)
  <2>1. n \in 1..n OBVIOUS
  <2>2. \E v : Scaled(n, num, den, K, v) /\ SumFunctionOnSet(v, 1..n) = DrawnCost(K, draws, n)
    BY <1>15, <1>16
  <2> QED BY <1>7, <1>11, <1>12, <1>13, <2>1, <2>2 DEF Becomes
<1> QED BY <1>17

LEMMA BlendBecomes ==
    ASSUME lots \in Seq(LotRow), NEW n \in Nat, n > 0, NEW draws, NEW s, DrawsTo(draws, n, s),
           NEW outputs, OutputsOK(outputs), NEW K, Common(K),
           ApportionOutputs([i \in DOMAIN draws |-> draws[i].qty], outputs) = NoShares
    PROVE  \E m, tables, lot, num, den, out :
              Becomes(Observed(draws, outputs), m, tables, lot, num, den, out, draws, n, outputs, K)
<1>1. DOMAIN draws = 1..n BY DEF DrawsTo
<1>2. PICK blend : blend = [lots[draws[1].lot] EXCEPT
                              !.estimated = \E i \in 1..n : lots[draws[i].lot].estimated]
  OBVIOUS
<1>3. PICK costs : costs = [i \in 1..n |-> Paid(draws[i])] OBVIOUS
<1>4. Observed(draws, outputs) = Flat(<<Children(blend, Total(costs), outputs)>>)
  BY <1>1, <1>2, <1>3 DEF Observed
<1>5. PICK w : w = [i \in 1..n |-> OnK(K, draws[i].lot, draws[i].qty)] OBVIOUS
<1>6. K \in Nat /\ K > 0 BY DEF Common
<1>7. ASSUME NEW i \in 1..n
      PROVE  w[i] \in Nat /\ costs[i] \in Fractions /\ costs[i].num * K = costs[i].den * w[i]
  <2>1. draws[i].lot \in DOMAIN lots /\ draws[i].qty \in Nat BY PaidIs
  <2>2. /\ OnK(K, draws[i].lot, draws[i].qty) \in Nat
        /\ (draws[i].qty * lots[draws[i].lot].cost.num) * K
             = lots[draws[i].lot].cost.den * OnK(K, draws[i].lot, draws[i].qty)
    BY <2>1, OnKIs
  <2>3. costs[i] = Cost(draws[i].qty * lots[draws[i].lot].cost.num, lots[draws[i].lot].cost.den)
    BY <1>3, PaidIs
  <2>4. costs[i].num = draws[i].qty * lots[draws[i].lot].cost.num
        /\ costs[i].den = lots[draws[i].lot].cost.den
    BY <2>3 DEF Cost
  <2>5. costs[i] \in Fractions BY <2>3, PaidIs DEF Cost, Fractions
  <2> QED BY <1>5, <2>2, <2>4, <2>5
<1>8. IsFiniteSet(1..n) /\ DOMAIN costs = 1..n BY <1>3, CountTo
<1>9. PICK W : W = SumFunctionOnSet(w, 1..n) OBVIOUS
<1>10. W \in Nat BY <1>7, <1>8, <1>9, SumOnNat
<1>11. Total(costs) \in Fractions /\ Total(costs).num * K = Total(costs).den * W
  <2>1. IsFiniteSet(DOMAIN costs) /\ \A x \in DOMAIN costs : costs[x] \in Fractions BY <1>7, <1>8
  <2>2. \A x \in DOMAIN costs : w[x] \in Int /\ costs[x].num * K = costs[x].den * w[x] BY <1>7, <1>8
  <2>3. /\ Total(costs) \in Fractions
        /\ Total(costs).num * K = Total(costs).den * SumFunctionOnSet(w, DOMAIN costs)
    BY <1>6, <2>1, <2>2, TotalOnScale
  <2> QED BY <1>8, <1>9, <2>3
<1>12. PICK a \in Int : a = Total(costs).num BY <1>11 DEF Fractions
<1>13. PICK d \in Nat : d = Total(costs).den /\ d > 0 BY <1>11 DEF Fractions
<1>14. a * K = d * W BY <1>11, <1>12, <1>13
<1>15. a \in Nat
  <2> SUFFICES ASSUME a <= -1 PROVE FALSE BY <1>12
  <2>1. a * K <= -K BY <1>6
  <2>2. d * W >= 0 BY <1>10
  <2> QED BY <1>6, <1>14, <2>1, <2>2
<1>16. Total(costs) = Cost(a, d) BY <1>11, <1>12, <1>13 DEF Fractions, Cost
<1>17. blend \in LotRow /\ blend.at = lots[draws[1].lot].at
       /\ blend.estimated = \E i \in 1..n : lots[draws[i].lot].estimated
  <2>1. 1 \in 1..n OBVIOUS
  <2>2. lots[draws[1].lot] \in LotRow BY <2>1, PaidIs
  <2> QED BY <1>2, <2>2 DEF LotRow
<1>18. PICK tables : tables = <<Children(blend, Total(costs), outputs)>> OBVIOUS
<1>20. Handed(tables, 1, <<blend>>, <<a>>, <<d>>, <<outputs>>)
  <2>1. DOMAIN tables = 1..1 /\ tables[1] = Children(blend, Cost(a, d), outputs) BY <1>16, <1>18
  <2>2. 1..1 = {1} OBVIOUS
  <2> QED BY <1>13, <1>15, <1>17, <2>1, <2>2 DEF Handed
<1>21. \A i \in 1..1 : \E j \in 1..n : /\ <<blend>>[i].at = lots[draws[j].lot].at
                                       /\ lots[draws[j].lot].estimated => <<blend>>[i].estimated
  <2>1. 1 \in 1..n /\ 1..1 = {1} OBVIOUS
  <2>2. lots[draws[1].lot].estimated => blend.estimated BY <1>17, <2>1
  <2>3. SUFFICES ASSUME NEW i \in 1..1
                 PROVE  /\ <<blend>>[i].at = lots[draws[1].lot].at
                        /\ lots[draws[1].lot].estimated => <<blend>>[i].estimated
    BY <2>1
  <2>4. i = 1 BY <2>1
  <2>5. <<blend>>[i] = blend BY <2>4
  <2> QED BY <1>17, <2>2, <2>5
<1>22. ASSUME NEW f, f[1] \in Int PROVE SumFunctionOnSet(f, 1..1) = f[1]
  <2>1. 1..1 = {1} OBVIOUS
  <2>2. IsFiniteSet({1}) /\ 1 \in {1} BY FS_Singleton
  <2>3. \A y \in {1} \ {1} : f[y] = 0 OBVIOUS
  <2>4. SumFunctionOnSet(f, {1}) = f[1] BY <1>22, <2>2, <2>3, SumOnOne
  <2> QED BY <2>1, <2>4
<1>23. ASSUME NEW t
       PROVE  SumFunctionOnSet([i \in 1..1 |-> UnitsAt(<<outputs>>[i], t)], 1..1) = UnitsAt(outputs, t)
  <2>1. PICK f : f = [i \in 1..1 |-> UnitsAt(<<outputs>>[i], t)] OBVIOUS
  <2>2. 1 \in 1..1 OBVIOUS
  <2>3. f[1] = UnitsAt(outputs, t) BY <2>1, <2>2
  <2>4. UnitsAt(outputs, t) \in Int BY DEF UnitsAt, OutputsOK
  <2> QED BY <1>22, <2>1, <2>3, <2>4
<1>24. Scaled(1, <<a>>, <<d>>, K, <<W>>)
  <2>1. 1..1 = {1} OBVIOUS
  <2> QED BY <1>10, <1>14, <2>1 DEF Scaled
<1>25. SumFunctionOnSet(<<W>>, 1..1) = DrawnCost(K, draws, n)
  <2>1. PICK v : v = <<W>> OBVIOUS
  <2>2. v[1] = W BY <2>1
  <2>3. SumFunctionOnSet(v, 1..1) = W BY <1>10, <1>22, <2>2
  <2> QED BY <1>5, <1>9, <2>1, <2>3 DEF DrawnCost
<1>26. 1 \in 1..n OBVIOUS
<1>27. Becomes(Observed(draws, outputs), 1, tables, <<blend>>, <<a>>, <<d>>, <<outputs>>,
               draws, n, outputs, K)
  BY <1>4, <1>18, <1>20, <1>21, <1>23, <1>24, <1>25, <1>26 DEF Becomes
<1> QED BY <1>27

\* A row a refine made of one of n draws, as old as its lot and as doubtful.
Heir(piece, draws, n) ==
    /\ piece \in LotRow /\ piece.source = "reprocess"
    /\ piece.cost.den = piece.left /\ piece.left \in Nat \ {0}
    /\ \E j \in 1..n : /\ piece.at = lots[draws[j].lot].at
                       /\ lots[draws[j].lot].estimated => piece.estimated

\* A table of what n draws become: the outputs, at their cost to half a cent a draw.
RefineOf(rows, draws, n, outputs, K) ==
    /\ IsFiniteSet(DOMAIN rows) /\ \A k \in DOMAIN rows : Heir(rows[k], draws, n)
    /\ \A t : Tally(UnitsIn(t), rows) = UnitsAt(outputs, t)
    /\ Tally(CentsIn, rows) \in Nat /\ DrawnCost(K, draws, n) \in Int
    /\ 2 * (K * Tally(CentsIn, rows) - DrawnCost(K, draws, n)) <= K * n
    /\ 2 * (DrawnCost(K, draws, n) - K * Tally(CentsIn, rows)) <= K * n

LEMMA ObservedRefines ==
    ASSUME lots \in Seq(LotRow), NEW n \in Nat, n > 0, NEW draws, NEW s, DrawsTo(draws, n, s),
           NEW outputs, OutputsOK(outputs), NEW K, Common(K)
    PROVE  RefineOf(Observed(draws, outputs), draws, n, outputs, K)
<1>1. \E m, tables, lot, num, den, out :
         Becomes(Observed(draws, outputs), m, tables, lot, num, den, out, draws, n, outputs, K)
  <2>1. PICK shares : shares = ApportionOutputs([i \in DOMAIN draws |-> draws[i].qty], outputs) OBVIOUS
  <2>2. CASE shares = NoShares BY <2>1, <2>2, BlendBecomes
  <2>3. CASE shares # NoShares BY <2>1, <2>3, ApartBecome
  <2> QED BY <2>2, <2>3
<1>2. PICK m, tables, lot, num, den, out :
         Becomes(Observed(draws, outputs), m, tables, lot, num, den, out, draws, n, outputs, K)
  BY <1>1
<1>3. PICK rows : rows = Observed(draws, outputs) OBVIOUS
<1>4. m \in Nat /\ m <= n /\ Handed(tables, m, lot, num, den, out) /\ rows = Flat(tables)
  BY <1>2, <1>3 DEF Becomes
<1>5. /\ IsFiniteSet(DOMAIN rows) /\ Inherited(rows, m, lot)
      /\ \A t : Tally(UnitsIn(t), rows)
                  = SumFunctionOnSet([i \in 1..m |-> UnitsAt(out[i], t)], 1..m)
  <2>1. AddedUp(rows, m, tables, lot, out) BY <1>4, HandedRows
  <2> QED BY <2>1 DEF AddedUp
<1>6. ASSUME NEW k \in DOMAIN rows PROVE Heir(rows[k], draws, n)
  <2>1. PICK i \in 1..m : /\ rows[k] \in LotRow /\ rows[k].source = "reprocess"
                       /\ rows[k].cost.den = rows[k].left /\ rows[k].left \in Nat \ {0}
                       /\ rows[k].at = lot[i].at /\ rows[k].estimated = lot[i].estimated
    BY <1>5 DEF Inherited
  <2>2. PICK j \in 1..n : /\ lot[i].at = lots[draws[j].lot].at
                          /\ lots[draws[j].lot].estimated => lot[i].estimated
    BY <1>2 DEF Becomes
  <2> QED BY <2>1, <2>2 DEF Heir
<1>7. \A t : Tally(UnitsIn(t), rows) = UnitsAt(outputs, t) BY <1>2, <1>5 DEF Becomes
<1>8. PICK w : Scaled(m, num, den, K, w) /\ SumFunctionOnSet(w, 1..m) = DrawnCost(K, draws, n)
  BY <1>2 DEF Becomes
<1>9. PICK C : C = Tally(CentsIn, rows) OBVIOUS
<1>10. PICK D : D = DrawnCost(K, draws, n) OBVIOUS
<1>11. K \in Nat /\ K > 0 BY DEF Common
<1>12. C \in Nat /\ D \in Int /\ 2 * (K * C - D) <= K * m /\ 2 * (D - K * C) <= K * m
  BY <1>4, <1>8, <1>9, <1>10, <1>11, HandedCost
<1>13. K * m <= K * n /\ K * m \in Int /\ K * n \in Int BY <1>4, <1>11
<1>14. K * C \in Int BY <1>11, <1>12
<1>15. 2 * (K * C - D) <= K * n /\ 2 * (D - K * C) <= K * n BY <1>12, <1>13, <1>14
<1> QED BY <1>3, <1>5, <1>6, <1>7, <1>9, <1>10, <1>12, <1>15 DEF RefineOf

\* A manager's record is the refine of one draw.
LEMMA RecordRefines ==
    ASSUME lots \in Seq(LotRow), NEW l \in DOMAIN lots, NEW qty \in Nat, qty > 0, qty <= lots[l].left,
           NEW outputs, OutputsOK(outputs), NEW K, Common(K),
           NEW draw, draw = [lot |-> l, qty |-> qty]
    PROVE  /\ DrawsTo(<<draw>>, 1, lots[l].type)
           /\ RefineOf(Children(lots[l], Paid(draw), outputs), <<draw>>, 1, outputs, K)
<1>1. 1..1 = {1} OBVIOUS
<1>2. DrawsTo(<<draw>>, 1, lots[l].type) BY <1>1 DEF DrawsTo
<1>3. PICK draws : draws = <<draw>> OBVIOUS
<1>4. draws[1] = draw /\ draws[1].lot = l /\ draws[1].qty = qty BY <1>3
<1>5. lots[l] \in LotRow BY RowsOf
<1>6. PICK num \in Nat : num = qty * lots[l].cost.num
  <2>1. PICK a \in Nat : a = lots[l].cost.num BY CostOf
  <2>2. qty * a \in Nat OBVIOUS
  <2> QED BY <2>1, <2>2
<1>7. PICK den \in Nat : den = lots[l].cost.den /\ den > 0 BY CostOf
<1>8. Paid(draw) = Cost(num, den) BY <1>6, <1>7 DEF Paid, Times
<1>9. PICK rows : rows = Children(lots[l], Paid(draw), outputs) OBVIOUS
<1>10. MadeFrom(rows, lots[l], num, den, outputs) BY <1>5, <1>7, <1>8, <1>9, ChildrenAre
<1>11. ASSUME NEW k \in DOMAIN rows PROVE Heir(rows[k], draws, 1)
  <2>1. k \in DOMAIN outputs /\ MadeOf(rows[k], lots[l], k, outputs[k]) BY <1>10 DEF MadeFrom
  <2>2. outputs[k] \in Nat \ {0} BY <2>1 DEF OutputsOK
  <2>3. 1 \in 1..1 OBVIOUS
  <2> QED BY <1>4, <2>1, <2>2, <2>3 DEF Heir, MadeOf
<1>12. K \in Nat /\ K > 0 BY DEF Common
<1>13. PICK W \in Nat : W = OnK(K, l, qty) /\ num * K = den * W BY <1>6, <1>7, OnKIs
<1>14. DrawnCost(K, draws, 1) = W
  <2>1. PICK f : f = [i \in 1..1 |-> OnK(K, draws[i].lot, draws[i].qty)] OBVIOUS
  <2>2. 1 \in 1..1 OBVIOUS
  <2>3. f[1] = W BY <1>4, <1>13, <2>1, <2>2
  <2>4. IsFiniteSet({1}) /\ 1 \in {1} /\ \A y \in {1} \ {1} : f[y] = 0 BY FS_Singleton
  <2>5. f[1] \in Int BY <2>3
  <2>6. SumFunctionOnSet(f, {1}) = f[1] BY <2>4, <2>5, SumOnOne
  <2> QED BY <1>1, <2>1, <2>3, <2>6 DEF DrawnCost
<1>15. PICK C \in Nat : C = Tally(CentsIn, rows) BY <1>10 DEF MadeFrom
<1>16. 2 * (den * C - num) <= den /\ 2 * (num - den * C) <= den BY <1>10, <1>15 DEF MadeFrom
<1>17. 2 * (K * C - W) <= K /\ 2 * (W - K * C) <= K
  <2>1. num \in Int /\ W \in Int /\ C \in Int /\ den \in Nat /\ K \in Nat BY <1>12
  <2> QED BY <1>7, <1>12, <1>13, <1>16, <2>1, OnScale
<1>18. 2 * (K * C - W) <= K * 1 /\ 2 * (W - K * C) <= K * 1 BY <1>12, <1>17
<1>19. IsFiniteSet(DOMAIN rows) /\ \A t : Tally(UnitsIn(t), rows) = UnitsAt(outputs, t)
  BY <1>10 DEF MadeFrom
<1> QED BY <1>2, <1>3, <1>9, <1>11, <1>14, <1>15, <1>18, <1>19 DEF RefineOf

\* part gives what the draws of each type make of F, which is 0 where nothing is taken.
Spread(F, part, kinds, draw, taken) ==
    /\ \A l \in DOMAIN lots : F[l] \in Int /\ (taken[l] = 0 => F[l] = 0)
    /\ \A s \in kinds : \E n \in Nat :
          /\ DrawsTo(draw[s], n, s)
          /\ part[s] = SumFunctionOnSet([i \in 1..n |-> F[draw[s][i].lot]], 1..n)

\* A total over the lots drawn from, type by type and draw by draw.
LEMMA FamilySum ==
    ASSUME lots \in Seq(LotRow), NEW kinds, IsFiniteSet(kinds), NEW draw, Family(kinds, draw),
           NEW taken, taken = TakenBy(AllOf(kinds, draw)),
           NEW F, NEW part, Spread(F, part, kinds, draw, taken)
    PROVE  SumFunctionOnSet(F, DOMAIN lots) = SumFunctionOnSet(part, kinds)
<1>0. /\ \A l \in DOMAIN lots : F[l] \in Int /\ (taken[l] = 0 => F[l] = 0)
      /\ \A s \in kinds : \E n \in Nat :
            /\ DrawsTo(draw[s], n, s)
            /\ part[s] = SumFunctionOnSet([i \in 1..n |-> F[draw[s][i].lot]], 1..n)
  BY DEF Spread
<1>1. PICK P : P = {l \in DOMAIN lots : taken[l] # 0} OBVIOUS
<1>2. \A l \in P : l \in DOMAIN lots /\ lots[l].type \in kinds BY <1>1, FamilyDraws
<1>3. SumFunctionOnSet(F, DOMAIN lots) = SumFunctionOnSet(F, P)
  <2>1. P \in SUBSET DOMAIN lots /\ \A l \in DOMAIN lots \ P : F[l] = 0 BY <1>0, <1>1
  <2>2. IsFiniteSet(DOMAIN lots) /\ \A l \in DOMAIN lots : F[l] \in Int BY <1>0, RowsOf
  <2> QED BY <2>1, <2>2, SumOnSupport
<1>4. PICK key : key = [l \in P |-> lots[l].type] OBVIOUS
<1>5. PICK of : of = [s \in kinds |-> {l \in P : lots[l].type = s}] OBVIOUS
<1>6. ASSUME NEW s \in kinds PROVE part[s] = SumFunctionOnSet(F, of[s])
  <2>1. PICK n \in Nat : /\ DrawsTo(draw[s], n, s)
                         /\ part[s] = SumFunctionOnSet([i \in 1..n |-> F[draw[s][i].lot]], 1..n)
    BY <1>0
  <2>2. PICK N : N = 1..n OBVIOUS
  <2>3. PICK draws : draws = draw[s] OBVIOUS
  <2>4. PICK b : b = [i \in N |-> draws[i].lot] OBVIOUS
  <2>5. PICK g : g = [i \in N |-> F[draws[i].lot]] OBVIOUS
  <2>6. PICK T : T = of[s] OBVIOUS
  <2>7. T = {l \in P : lots[l].type = s} BY <1>5, <2>6
  <2>8. /\ DOMAIN draws = N
        /\ \A i \in N : draws[i].lot \in DOMAIN lots /\ lots[draws[i].lot].type = s /\ draws[i].qty \in Nat \ {0}
        /\ \A i, j \in N : draws[i].lot = draws[j].lot => i = j
    BY <2>1, <2>2, <2>3 DEF DrawsTo
  <2>9. \A i \in N : taken[draws[i].lot] = draws[i].qty BY <2>1, <2>2, <2>3, FamilyDraws
  <2>10. b \in [N -> T]
    <3>1. \A i \in N : draws[i].lot \in T BY <1>1, <2>7, <2>8, <2>9
    <3> QED BY <2>4, <3>1
  <2>11. \A i, j \in N : b[i] = b[j] => i = j BY <2>4, <2>8
  <2>12. ASSUME NEW l \in T PROVE \E i \in N : b[i] = l
    <3>1. l \in DOMAIN lots /\ taken[l] # 0 /\ lots[l].type = s BY <1>1, <2>7
    <3>2. OneEach(AllOf(kinds, draw)) BY FamilyDraws
    <3>3. PICK d \in AllOf(kinds, draw) : d.lot = l BY <3>1, <3>2, TakenIs
    <3>4. PICK r \in kinds : d \in Range(draw[r]) BY DEF AllOf
    <3>5. PICK k \in Nat : DrawsTo(draw[r], k, r) BY DEF Family
    <3>6. PICK j \in 1..k : d = draw[r][j] BY <3>4, <3>5 DEF DrawsTo, Range
    <3>7. r = s BY <3>1, <3>3, <3>5, <3>6 DEF DrawsTo
    <3>8. j \in N /\ d = draws[j] BY <2>3, <2>8, <3>4, <3>5, <3>6, <3>7 DEF DrawsTo
    <3> QED BY <2>4, <3>3, <3>8
  <2>13. \A l \in T : F[l] \in Int BY <1>0, <1>2, <2>7
  <2>14. \A i \in N : g[i] = F[b[i]] BY <2>4, <2>5
  <2>15. Renames(b, N, T, g, F)
    BY <2>2, <2>10, <2>11, <2>12, <2>13, <2>14, CountTo DEF Renames
  <2>16. SumFunctionOnSet(g, N) = SumFunctionOnSet(F, T) BY <2>15, SumRenamed
  <2> QED BY <2>1, <2>2, <2>3, <2>5, <2>6, <2>16
<1>7. SumFunctionOnSet(part, kinds) = SumFunctionOnSet(F, P)
  <2>1. IsFiniteSet(P) BY <1>1, RowsOf, FS_Subset
  <2>2. \A l \in P : F[l] \in Int BY <1>0, <1>2
  <2>3. \A l \in P : key[l] \in kinds BY <1>2, <1>4
  <2>4. \A s \in kinds : of[s] = {l \in P : key[l] = s} BY <1>4, <1>5
  <2>5. \A s \in kinds : part[s] = SumFunctionOnSet(F, of[s]) BY <1>6
  <2> QED BY SMTT(60), <2>1, <2>2, <2>3, <2>4, <2>5, SumOnParts
<1> QED BY <1>3, <1>7

-----------------------------------------------------------------------------
(* The stock-take *)

WorldOK ==
    /\ goods \in [Spots -> [Stackable -> Nat]] /\ boxAt \in Divisions /\ marks \subseteq Divisions

LEMMA TwoFinite ==
    ASSUME NEW a, NEW b PROVE IsFiniteSet({a, b})
<1>1. IsFiniteSet({a}) BY FS_Singleton
<1>2. IsFiniteSet({a} \cup {b}) BY <1>1, FS_AddElement
<1>3. {a, b} = {a} \cup {b} OBVIOUS
<1> QED BY <1>2, <1>3

LEMMA SpotsKnown ==
    /\ IsFiniteSet(Spots) /\ IsFiniteSet(Stackable) /\ Divisions \subseteq Spots /\ "Box" \in Spots
    /\ "Box" \notin Divisions /\ "CorpDeliveries" \notin Divisions /\ "OfficeFolder" \notin Divisions
    /\ \A s \in Spots : s \in Divisions \/ s = "Box" \/ s = "CorpDeliveries"
    /\ \A t \in Stackable : t \in Types /\ t # Box /\ t # 0
    /\ IsFiniteSet(Divisions)
<1>1. Spots = Divisions \cup {"Box", "CorpDeliveries"} /\ IsFiniteSet(Divisions)
  BY StockTakeAssumption, RefiningAssumption
<1>2. IsFiniteSet({"Box", "CorpDeliveries"}) BY TwoFinite
<1>3. IsFiniteSet(Spots)
  <2>1. IsFiniteSet(Divisions \cup {"Box", "CorpDeliveries"}) BY <1>1, <1>2, FS_Union
  <2> QED BY <1>1, <2>1
<1>4. IsFiniteSet(Stackable) /\ \A t \in Stackable : t \in Types /\ t # Box /\ t # 0
  <2>1. Stackable \subseteq Types BY DEF Stackable
  <2> QED BY <2>1, TypesKnown DEF Stackable
<1>5. "Box" \notin Divisions /\ "CorpDeliveries" \notin Divisions /\ "OfficeFolder" \notin Divisions
  BY StockTakeAssumption
<1> QED BY <1>1, <1>3, <1>4, <1>5

GoodsRow(s, t) == Row(<<s, t>>, t, goods[s][t], Parent(s), s)
OfficeRow == Row(Office, 0, 1, Station, "OfficeFolder")
BoxRow == Row(TheBox, Box, 1, Office, boxAt)

LEMMA AssetsAre ==
    /\ OfficeRow \in Assets /\ BoxRow \in Assets
    /\ \A s \in Spots, t \in Stackable : goods[s][t] > 0 => GoodsRow(s, t) \in Assets
    /\ \A a \in Assets : \/ a = OfficeRow \/ a = BoxRow
                         \/ \E s \in Spots, t \in Stackable : a = GoodsRow(s, t) /\ goods[s][t] > 0
<1>1. PICK P : P = {q \in Spots \X Stackable : goods[q[1]][q[2]] > 0} OBVIOUS
<1>2. Assets = {OfficeRow, BoxRow} \cup {GoodsRow(p[1], p[2]) : p \in P}
  <2>1. \A p \in P : p = <<p[1], p[2]>> BY <1>1
  <2>2. \A p \in P : Row(p, p[2], goods[p[1]][p[2]], Parent(p[1]), p[1]) = GoodsRow(p[1], p[2])
    BY <2>1 DEF GoodsRow
  <2> QED BY <1>1, <2>2 DEF Assets, OfficeRow, BoxRow
<1>3. ASSUME NEW s \in Spots, NEW t \in Stackable, goods[s][t] > 0 PROVE GoodsRow(s, t) \in Assets
  <2>1. PICK p : p = <<s, t>> OBVIOUS
  <2>2. p \in P /\ p[1] = s /\ p[2] = t BY <1>1, <1>3, <2>1
  <2> QED BY <1>2, <2>2
<1>4. ASSUME NEW p \in P
      PROVE  \E s \in Spots, t \in Stackable :
                GoodsRow(p[1], p[2]) = GoodsRow(s, t) /\ goods[s][t] > 0
  BY <1>1
<1> QED BY <1>2, <1>3, <1>4

LEMMA AssetsFinite == IsFiniteSet(Assets) /\ Cardinality(Assets) \in Nat /\ Cardinality(Assets) > 0
<1>1. PICK R : R = {GoodsRow(p[1], p[2]) : p \in Spots \X Stackable} OBVIOUS
<1>2. IsFiniteSet(R)
  <2>1. IsFiniteSet(Spots \X Stackable) BY SpotsKnown, FS_Product
  <2>2. PICK f : f = [p \in Spots \X Stackable |-> GoodsRow(p[1], p[2])] OBVIOUS
  <2>3. f \in Surjection(Spots \X Stackable, R) BY <1>1, <2>2 DEF Surjection
  <2> QED BY <2>1, <2>3, FS_Surjection
<1>3. IsFiniteSet({OfficeRow, BoxRow}) BY TwoFinite
<1>4. IsFiniteSet(R \cup {OfficeRow, BoxRow}) BY <1>2, <1>3, FS_Union
<1>5. Assets \subseteq R \cup {OfficeRow, BoxRow}
  <2>1. ASSUME NEW s \in Spots, NEW t \in Stackable PROVE GoodsRow(s, t) \in R
    <3>1. PICK p : p = <<s, t>> OBVIOUS
    <3>2. p \in Spots \X Stackable /\ p[1] = s /\ p[2] = t BY <3>1
    <3> QED BY <1>1, <3>2
  <2> QED BY <2>1, AssetsAre
<1>6. IsFiniteSet(Assets) BY <1>4, <1>5, FS_Subset
<1>7. Assets # {} BY AssetsAre
<1>8. Cardinality(Assets) # 0 BY <1>6, <1>7, FS_EmptySet
<1>9. Cardinality(Assets) \in Nat BY <1>6, FS_CardinalityType
<1> QED BY <1>6, <1>8, <1>9

\* Spots whose goods are inside the marked divisions.
Counted == marks \cup IF boxAt \in marks THEN {"Box"} ELSE {}
InsideRows ==
    {a \in Assets : \/ a = BoxRow /\ boxAt \in marks
                    \/ \E s \in Counted, t \in Stackable : a = GoodsRow(s, t) /\ goods[s][t] > 0}

Anchors == {a.item : a \in {b \in Assets : b.at = Station}} \cup {Station}
Flagged == {a \in Assets : a.at \in Anchors /\ a.flag \in marks}
Below(above) == above \cup {a \in Assets : \E b \in above : a.at = b.item}

LEMMA Places ==
    /\ Office # TheBox /\ Station # TheBox /\ Office # Station
    /\ \A s, t : t # 0 => <<s, t>> # Office /\ <<s, t>> # TheBox /\ <<s, t>> # Station
<1>1. ASSUME NEW s, NEW t, t # 0 PROVE <<s, t>> # Office /\ <<s, t>> # TheBox /\ <<s, t>> # Station
  <2>1. PICK p : p = <<s, t>> OBVIOUS
  <2>2. p[2] # 0 BY <1>1, <2>1
  <2>3. Office[2] = 0 /\ TheBox[2] = 0 /\ Station[2] = 0 BY DEF Office, TheBox, Station
  <2> QED BY <2>1, <2>2, <2>3
<1>2. Office[1] = "office" /\ TheBox[1] = "box" /\ Station[1] = "station"
  BY DEF Office, TheBox, Station
<1>3. "office" # "box" /\ "station" # "box" /\ "office" # "station" OBVIOUS
<1> QED BY <1>1, <1>2, <1>3

LEMMA RowFields ==
    /\ OfficeRow.item = Office /\ OfficeRow.at = Station /\ OfficeRow.flag = "OfficeFolder"
    /\ BoxRow.item = TheBox /\ BoxRow.at = Office /\ BoxRow.flag = boxAt /\ BoxRow.type = Box
    /\ BoxRow.qty = 1
    /\ \A s, t : /\ GoodsRow(s, t).item = <<s, t>> /\ GoodsRow(s, t).at = Parent(s)
                 /\ GoodsRow(s, t).flag = s /\ GoodsRow(s, t).type = t
                 /\ GoodsRow(s, t).qty = goods[s][t]
BY DEF OfficeRow, BoxRow, GoodsRow, Row

LEMMA FlaggedIs ==
    ASSUME WorldOK
    PROVE  Flagged = {a \in Assets : \/ a = BoxRow /\ boxAt \in marks
                                     \/ \E s \in marks, t \in Stackable :
                                          a = GoodsRow(s, t) /\ goods[s][t] > 0}
<1>1. Office \in Anchors /\ TheBox \notin Anchors
  <2>1. Office \in Anchors BY AssetsAre, RowFields DEF Anchors
  <2>2. SUFFICES ASSUME TheBox \in Anchors PROVE FALSE BY <2>1
  <2>3. PICK a \in Assets : a.at = Station /\ a.item = TheBox BY <2>2, Places DEF Anchors
  <2>4. a # OfficeRow BY <2>3, RowFields, Places
  <2>5. a # BoxRow BY <2>3, RowFields, Places
  <2>6. ASSUME NEW s \in Spots, NEW t \in Stackable PROVE a # GoodsRow(s, t)
    <3>1. t # 0 BY SpotsKnown
    <3>2. <<s, t>> # TheBox BY <3>1, Places
    <3> QED BY <2>3, <3>2, RowFields
  <2> QED BY <2>3, <2>4, <2>5, <2>6, AssetsAre
<1>2. marks \subseteq Divisions /\ boxAt \in Divisions BY DEF WorldOK
<1>3. ASSUME NEW a \in Flagged
      PROVE  \/ a = BoxRow /\ boxAt \in marks
             \/ \E s \in marks, t \in Stackable : a = GoodsRow(s, t) /\ goods[s][t] > 0
  <2>1. a \in Assets /\ a.flag \in marks BY DEF Flagged
  <2>2. CASE a = OfficeRow BY <1>2, <2>1, <2>2, RowFields, SpotsKnown
  <2>3. CASE a = BoxRow BY <2>1, <2>3, RowFields
  <2>4. CASE \E s \in Spots, t \in Stackable : a = GoodsRow(s, t) /\ goods[s][t] > 0
    BY <2>1, <2>4, RowFields
  <2> QED BY <2>1, <2>2, <2>3, <2>4, AssetsAre
<1>4. ASSUME boxAt \in marks PROVE BoxRow \in Flagged BY <1>1, <1>4, AssetsAre, RowFields DEF Flagged
<1>5. ASSUME NEW s \in marks, NEW t \in Stackable, goods[s][t] > 0 PROVE GoodsRow(s, t) \in Flagged
  <2>1. s \in Divisions /\ s \in Spots BY <1>2, SpotsKnown
  <2>2. GoodsRow(s, t) \in Assets BY <1>5, <2>1, AssetsAre
  <2>3. GoodsRow(s, t).at = Office /\ GoodsRow(s, t).flag = s BY <2>1, RowFields DEF Parent
  <2> QED BY <1>1, <2>2, <2>3 DEF Flagged
<1>6. Flagged \subseteq Assets BY DEF Flagged
<1> QED BY <1>3, <1>4, <1>5, <1>6

\* What is below the flagged rows: with the box, what is in it, and nothing further.
LEMMA BelowIs ==
    ASSUME WorldOK
    PROVE  Below(Flagged) = InsideRows /\ Below(InsideRows) = InsideRows
<1>1. marks \subseteq Divisions /\ boxAt \in Divisions BY DEF WorldOK
<1>2. Parent("Box") = TheBox BY SpotsKnown DEF Parent
<1>3. Flagged \subseteq InsideRows BY FlaggedIs DEF InsideRows, Counted
<1>4. ASSUME NEW a \in Assets, NEW b \in InsideRows, a.at = b.item
      PROVE  boxAt \in marks /\ \E t \in Stackable : a = GoodsRow("Box", t) /\ goods["Box"][t] > 0
  <2>1. b = BoxRow /\ boxAt \in marks
    <3> SUFFICES ASSUME NEW s \in Counted, NEW t \in Stackable, b = GoodsRow(s, t) PROVE FALSE
      BY DEF InsideRows
    <3>1. a.at = <<s, t>> /\ t # 0 BY <1>4, RowFields, SpotsKnown
    <3>2. a.at # Office /\ a.at # TheBox /\ a.at # Station BY <3>1, Places
    <3>3. \A r : Parent(r) \in {Office, TheBox, Station} BY DEF Parent
    <3>4. a.at \in {Office, TheBox, Station} BY <3>3, AssetsAre, RowFields
    <3> QED BY <3>2, <3>4
  <2>2. a.at = TheBox BY <1>4, <2>1, RowFields
  <2>3. a # OfficeRow /\ a # BoxRow BY <2>2, RowFields, Places
  <2>4. PICK s \in Spots, t \in Stackable : a = GoodsRow(s, t) /\ goods[s][t] > 0
    BY <2>3, AssetsAre
  <2>5. Parent(s) = TheBox BY <2>2, <2>4, RowFields
  <2>6. s = "Box" BY <2>5, Places DEF Parent
  <2> QED BY <2>1, <2>4, <2>6
<1>5. Below(InsideRows) = InsideRows
  <2>1. ASSUME NEW a \in Assets, NEW b \in InsideRows, a.at = b.item PROVE a \in InsideRows
    <3>1. boxAt \in marks /\ \E t \in Stackable : a = GoodsRow("Box", t) /\ goods["Box"][t] > 0
      BY <1>4, <2>1
    <3>2. "Box" \in Counted BY <3>1 DEF Counted
    <3> QED BY <3>1, <3>2 DEF InsideRows
  <2> QED BY <2>1 DEF Below
<1>6. ASSUME NEW a \in InsideRows PROVE a \in Below(Flagged)
  <2>1. a \in Assets BY DEF InsideRows
  <2>2. CASE a = BoxRow /\ boxAt \in marks BY <2>1, <2>2, FlaggedIs DEF Below
  <2>3. CASE \E s \in Counted, t \in Stackable : a = GoodsRow(s, t) /\ goods[s][t] > 0
    <3>1. PICK s \in Counted, t \in Stackable : a = GoodsRow(s, t) /\ goods[s][t] > 0 BY <2>3
    <3>2. CASE s \in marks BY <2>1, <3>1, <3>2, FlaggedIs DEF Below
    <3>3. CASE s \notin marks
      <4>1. s = "Box" /\ boxAt \in marks BY <3>1, <3>3 DEF Counted
      <4>2. BoxRow \in Flagged BY <4>1, AssetsAre, FlaggedIs
      <4>3. a.at = BoxRow.item BY <1>2, <3>1, <4>1, RowFields
      <4> QED BY <2>1, <4>2, <4>3 DEF Below
    <3> QED BY <3>2, <3>3
  <2> QED BY <2>2, <2>3 DEF InsideRows
<1>7. Below(Flagged) \subseteq InsideRows
  <2>1. Below(Flagged) \subseteq Below(InsideRows) BY <1>3 DEF Below
  <2> QED BY <1>5, <2>1
<1> QED BY <1>5, <1>6, <1>7

Descends(down) ==
    down = [n \in Nat |-> IF n = 0 THEN Flagged ELSE Below(down[n - 1])]

LEMMA InsideIs ==
    ASSUME WorldOK
    PROVE  Inside(Assets, marks) = InsideRows
<1>1. PICK g : g = [n \in Nat |-> IF n = 0 THEN Flagged ELSE InsideRows] OBVIOUS
<1>2. Descends(g)
  <2>1. ASSUME NEW n \in Nat PROVE g[n] = IF n = 0 THEN Flagged ELSE Below(g[n - 1])
    <3>1. CASE n = 0 BY <1>1, <3>1
    <3>2. CASE n = 1
      <4>1. n - 1 = 0 /\ g[0] = Flagged /\ g[1] = InsideRows BY <1>1, <3>2
      <4> QED BY <3>2, <4>1, BelowIs
    <3>3. CASE n > 1
      <4>1. n - 1 \in Nat /\ n - 1 # 0 /\ n # 0 BY <3>3
      <4>2. g[n - 1] = InsideRows /\ g[n] = InsideRows BY <1>1, <4>1
      <4> QED BY <4>1, <4>2, BelowIs
    <3> QED BY <3>1, <3>2, <3>3
  <2> QED BY <1>1, <2>1 DEF Descends
<1>3. ASSUME NEW f, Descends(f), NEW k \in Nat, k > 0 PROVE f[k] = InsideRows
  <2>1. PICK bad : bad = {n \in Nat : n > 0 /\ f[n] # InsideRows} OBVIOUS
  <2>2. SUFFICES ASSUME bad # {} PROVE FALSE BY <1>3, <2>1
  <2>3. bad \in SUBSET Nat BY <2>1
  <2>4. PICK m \in bad : \A n \in bad : m <= n BY <2>2, <2>3, LeastNumber
  <2>5. m \in Nat /\ m > 0 /\ f[m] # InsideRows BY <2>1
  <2>6. f[m] = Below(f[m - 1]) BY <1>3, <2>5 DEF Descends
  <2>7. CASE m = 1
    <3>1. f[0] = Flagged /\ m - 1 = 0 BY <1>3, <2>7 DEF Descends
    <3> QED BY <2>5, <2>6, <3>1, BelowIs
  <2>8. CASE m # 1
    <3>1. m - 1 \in Nat /\ m - 1 > 0 /\ ~(m <= m - 1) BY <2>5, <2>8
    <3>2. f[m - 1] = InsideRows BY <2>1, <2>4, <3>1
    <3> QED BY <2>5, <2>6, <3>2, BelowIs
  <2> QED BY <2>7, <2>8
<1>4. Inside(Assets, marks) = (CHOOSE f : Descends(f))[Cardinality(Assets)]
  BY DEF Inside, Descends, Below, Flagged, Anchors
<1>5. Descends(CHOOSE f : Descends(f)) BY <1>2
<1> QED BY <1>3, <1>4, <1>5, AssetsFinite

LEMMA BoxCount ==
    ASSUME WorldOK
    PROVE  UnitsOf(InsideRows, Box) = Inventory(Box)
<1>1. PICK T : T = {x \in InsideRows : x.type = Box} OBVIOUS
<1>2. PICK f : f = [r \in T |-> r.qty] OBVIOUS
<1>3. UnitsOf(InsideRows, Box) = SumFunctionOnSet(f, T) BY <1>1, <1>2 DEF UnitsOf, SumFunction
<1>4. ASSUME NEW x \in T PROVE x = BoxRow /\ boxAt \in marks
  <2>1. x \in InsideRows /\ x.type = Box BY <1>1
  <2>2. SUFFICES ASSUME NEW s \in Counted, NEW t \in Stackable, x = GoodsRow(s, t) PROVE FALSE
    BY <2>1 DEF InsideRows
  <2>3. t # Box BY SpotsKnown
  <2> QED BY <2>1, <2>2, <2>3, RowFields
<1>5. CASE boxAt \in marks
  <2>1. BoxRow \in InsideRows BY <1>5, AssetsAre DEF InsideRows
  <2>2. T = {BoxRow} BY <1>1, <1>4, <2>1, RowFields
  <2>3. f[BoxRow] = 1 BY <1>2, <2>2, RowFields
  <2>4. IsFiniteSet({BoxRow}) /\ BoxRow \in {BoxRow} BY FS_Singleton
  <2>5. \A y \in {BoxRow} \ {BoxRow} : f[y] = 0 OBVIOUS
  <2>6. f[BoxRow] \in Int BY <2>3
  <2>7. SumFunctionOnSet(f, {BoxRow}) = f[BoxRow] BY <2>4, <2>5, <2>6, SumOnOne
  <2> QED BY <1>3, <1>5, <2>2, <2>3, <2>7 DEF Inventory
<1>6. CASE boxAt \notin marks
  <2>1. T = {} BY <1>4, <1>6
  <2>2. SumFunctionOnSet(f, {}) = 0 BY SumOnEmpty
  <2> QED BY <1>3, <1>6, <2>1, <2>2 DEF Inventory
<1> QED BY <1>5, <1>6

LEMMA GoodsCount ==
    ASSUME WorldOK, NEW t \in Stackable
    PROVE  UnitsOf(InsideRows, t) = Inventory(t) /\ Inventory(t) \in Nat
<1>1. PICK T : T = {x \in InsideRows : x.type = t} OBVIOUS
<1>2. PICK f : f = [r \in T |-> r.qty] OBVIOUS
<1>3. UnitsOf(InsideRows, t) = SumFunctionOnSet(f, T) BY <1>1, <1>2 DEF UnitsOf, SumFunction
<1>4. PICK all : all = [s \in Spots |-> goods[s][t]] OBVIOUS
<1>5. \A s \in Spots : all[s] \in Nat /\ all[s] = goods[s][t] BY <1>4 DEF WorldOK
<1>6. PICK M : M = Counted OBVIOUS
<1>7. M \subseteq Spots /\ IsFiniteSet(M) /\ marks \subseteq Spots /\ IsFiniteSet(marks) /\ "Box" \notin marks
  <2>1. marks \subseteq Spots /\ "Box" \notin marks BY SpotsKnown DEF WorldOK
  <2>2. M \subseteq Spots BY <1>6, <2>1, SpotsKnown DEF Counted
  <2> QED BY <2>1, <2>2, SpotsKnown, FS_Subset
<1>8. PICK S : S = {s \in M : goods[s][t] > 0} OBVIOUS
<1>9. PICK b : b = [s \in S |-> GoodsRow(s, t)] OBVIOUS
<1>10. ASSUME NEW s \in S PROVE GoodsRow(s, t) \in T
  <2>1. s \in Counted /\ s \in Spots /\ goods[s][t] > 0 BY <1>6, <1>7, <1>8
  <2>2. GoodsRow(s, t) \in Assets BY <2>1, AssetsAre
  <2>3. GoodsRow(s, t) \in InsideRows BY <2>1, <2>2 DEF InsideRows
  <2> QED BY <1>1, <2>3, RowFields
<1>11. ASSUME NEW x \in T PROVE \E s \in S : b[s] = x
  <2>1. x \in InsideRows /\ x.type = t BY <1>1
  <2>2. x # BoxRow BY <2>1, RowFields, SpotsKnown
  <2>3. PICK s \in Counted, u \in Stackable : x = GoodsRow(s, u) /\ goods[s][u] > 0
    BY <2>1, <2>2 DEF InsideRows
  <2>4. u = t BY <2>1, <2>3, RowFields
  <2>5. s \in S BY <1>6, <1>8, <2>3, <2>4
  <2> QED BY <1>9, <2>3, <2>4, <2>5
<1>12. Renames(b, S, T, all, f)
  <2>1. IsFiniteSet(S) BY <1>7, <1>8, FS_Subset
  <2>2. b \in [S -> T] BY <1>9, <1>10
  <2>3. ASSUME NEW x \in S, NEW y \in S, b[x] = b[y] PROVE x = y
    <3>1. GoodsRow(x, t) = GoodsRow(y, t) BY <1>9, <2>3
    <3>2. GoodsRow(x, t).flag = x /\ GoodsRow(y, t).flag = y BY RowFields
    <3> QED BY <3>1, <3>2
  <2>4. \A x \in S : all[x] = f[b[x]]
    <3> SUFFICES ASSUME NEW x \in S PROVE all[x] = f[b[x]] OBVIOUS
    <3>1. b[x] = GoodsRow(x, t) /\ GoodsRow(x, t) \in T BY <1>9, <1>10
    <3>2. f[b[x]] = goods[x][t] BY <1>2, <3>1, RowFields
    <3>3. x \in Spots BY <1>7, <1>8
    <3> QED BY <1>5, <3>2, <3>3
  <2>5. \A z \in T : f[z] \in Int
    <3> SUFFICES ASSUME NEW z \in T PROVE f[z] \in Int OBVIOUS
    <3>1. PICK x \in S : b[x] = z BY <1>11
    <3>2. x \in Spots BY <1>7, <1>8
    <3> QED BY <1>5, <2>4, <3>1, <3>2
  <2> QED BY <1>11, <2>1, <2>2, <2>3, <2>4, <2>5 DEF Renames
<1>13. SumFunctionOnSet(all, S) = SumFunctionOnSet(f, T) BY <1>12, SumRenamed
<1>14. SumFunctionOnSet(all, M) = SumFunctionOnSet(all, S)
  <2>1. \A s \in M : all[s] \in Int BY <1>5, <1>7
  <2>2. \A s \in M \ S : all[s] = 0
    <3> SUFFICES ASSUME NEW s \in M \ S PROVE all[s] = 0 OBVIOUS
    <3>1. all[s] \in Nat /\ all[s] = goods[s][t] /\ ~(goods[s][t] > 0) BY <1>5, <1>7, <1>8
    <3> QED BY <3>1
  <2>3. S \in SUBSET M BY <1>8
  <2> QED BY <1>7, <2>1, <2>2, <2>3, SumOnSupport
<1>15. PICK m : m = [s \in marks |-> goods[s][t]] OBVIOUS
<1>16. SumFunctionOnSet(m, marks) = SumFunctionOnSet(all, marks)
  <2>1. \A s \in marks : m[s] = all[s] BY <1>5, <1>7, <1>15
  <2> QED BY <1>7, <2>1, SumOnSame
<1>17. SumFunction([s \in marks |-> goods[s][t]]) = SumFunctionOnSet(all, marks)
  BY <1>15, <1>16 DEF SumFunction
<1>18. t # Box BY SpotsKnown
<1>19. SumFunctionOnSet(all, M) = Inventory(t)
  <2>1. CASE boxAt \in marks
    <3>1. M = marks \cup {"Box"} BY <1>6, <2>1 DEF Counted
    <3>2. \A s \in marks \cup {"Box"} : all[s] \in Int BY <1>5, <1>7, <3>1
    <3>3. SumFunctionOnSet(all, marks \cup {"Box"}) = all["Box"] + SumFunctionOnSet(all, marks)
      BY <1>7, <3>2, SumOnAdd
    <3>4. all["Box"] = goods["Box"][t] /\ all["Box"] \in Nat BY <1>5, SpotsKnown
    <3>5. SumFunctionOnSet(all, marks) \in Int
      <4>1. \A s \in marks : all[s] \in Int BY <3>2
      <4> QED BY <1>7, <4>1, SumOnInt
    <3>6. Inventory(t) = SumFunctionOnSet(all, marks) + goods["Box"][t]
      BY <1>17, <1>18, <2>1 DEF Inventory
    <3> QED BY <3>1, <3>3, <3>4, <3>5, <3>6
  <2>2. CASE boxAt \notin marks
    <3>1. M = marks BY <1>6, <2>2 DEF Counted
    <3>2. SumFunctionOnSet(all, marks) \in Int
      <4>1. \A s \in marks : all[s] \in Int BY <1>5, <1>7
      <4> QED BY <1>7, <4>1, SumOnInt
    <3>3. Inventory(t) = SumFunctionOnSet(all, marks) + 0 BY <1>17, <1>18, <2>2 DEF Inventory
    <3> QED BY <3>1, <3>2, <3>3
  <2> QED BY <2>1, <2>2
<1>20. SumFunctionOnSet(all, M) \in Nat
  <2>1. \A s \in M : all[s] \in Nat BY <1>5, <1>7
  <2> QED BY <1>7, <2>1, SumOnNat
<1> QED BY <1>3, <1>13, <1>14, <1>19, <1>20

\* What the stock-take counts is what is inside the marked divisions.
LEMMA CountsTrue ==
    ASSUME WorldOK
    PROVE  /\ CountedTruly /\ HangarCounts(Assets, marks) \in [Types -> Nat]
           /\ \A t \in Types : Inventory(t) \in Nat
<1>1. PICK inside : inside = Inside(Assets, marks) OBVIOUS
<1>2. inside = InsideRows BY <1>1, InsideIs
<1>3. HangarCounts(Assets, marks) = [t \in Types |-> UnitsOf(inside, t)] BY <1>1 DEF HangarCounts
<1>4. ASSUME NEW t \in Types PROVE UnitsOf(inside, t) = Inventory(t) /\ Inventory(t) \in Nat
  <2>1. CASE t = Box
    <3>1. Inventory(Box) \in Nat BY DEF Inventory
    <3> QED BY <1>2, <2>1, <3>1, BoxCount
  <2>2. CASE t # Box
    <3>1. t \in Stackable BY <2>2 DEF Stackable
    <3> QED BY <1>2, <3>1, GoodsCount
  <2> QED BY <2>1, <2>2
<1>5. CountedTruly BY <1>3, <1>4 DEF CountedTruly
<1> QED BY <1>3, <1>4, <1>5

-----------------------------------------------------------------------------
(* The rows refines make, and what they cost *)

\* Every row is as old and as doubtful as one of the lots drawn from.
Heirs(made, taken) ==
    \A i \in DOMAIN made :
       /\ made[i].source = "reprocess" /\ made[i].cost.den = made[i].left
       /\ made[i].left \in Nat \ {0}
       /\ \E l \in DOMAIN lots : /\ taken[l] > 0 /\ made[i].at = lots[l].at
                                 /\ lots[l].estimated => made[i].estimated

LotsUsed(taken) == {l \in DOMAIN lots : taken[l] > 0}
CostUsed(K, taken) == SumFunctionOnSet([l \in DOMAIN lots |-> OnK(K, l, taken[l])], DOMAIN lots)

\* On any scale for all costs the rows carry what was taken, half a cent a lot apart.
CentsBack(made, taken) ==
    \A K : Common(K) =>
       /\ Tally(CentsIn, made) \in Nat /\ CostUsed(K, taken) \in Int
       /\ Cardinality(LotsUsed(taken)) \in Nat
       /\ 2 * (K * Tally(CentsIn, made) - CostUsed(K, taken)) <= K * Cardinality(LotsUsed(taken))
       /\ 2 * (CostUsed(K, taken) - K * Tally(CentsIn, made)) <= K * Cardinality(LotsUsed(taken))

\* Per type of kinds: the draws refined, the outputs they gave and the rows of these.
RefinesOf(tabs, kinds, draw, outs) ==
    /\ IsFiniteSet(kinds)
    /\ \A s \in kinds : \E n \in Nat :
          /\ n > 0 /\ DrawsTo(draw[s], n, s) /\ OutputsOK(outs[s])
          /\ \A K : Common(K) => RefineOf(tabs[s], draw[s], n, outs[s], K)

Combined(all, tabs, kinds) ==
    /\ IsFiniteSet(DOMAIN all)
    /\ \A k \in DOMAIN all : \E s \in kinds : \E j \in DOMAIN tabs[s] : all[k] = tabs[s][j]
    /\ \A val \in [LotRow -> Int] :
          Tally(val, all) = SumFunctionOnSet([s \in kinds |-> Tally(val, tabs[s])], kinds)

LEMMA FamilyOf ==
    ASSUME NEW tabs, NEW kinds, NEW draw, NEW outs, RefinesOf(tabs, kinds, draw, outs)
    PROVE  Family(kinds, draw)
BY DEF RefinesOf, Family

\* The rows are rows of lots, each an heir of a lot drawn from.
LEMMA RowsAreHeirs ==
    ASSUME lots \in Seq(LotRow), NEW tabs, NEW kinds, NEW draw, NEW outs,
           RefinesOf(tabs, kinds, draw, outs), NEW all, Combined(all, tabs, kinds),
           NEW taken, taken = TakenBy(AllOf(kinds, draw))
    PROVE  /\ \A k \in DOMAIN all : all[k] \in LotRow
           /\ Heirs(all, taken)
<1> SUFFICES ASSUME NEW k \in DOMAIN all
             PROVE  /\ all[k] \in LotRow
                    /\ all[k].source = "reprocess" /\ all[k].cost.den = all[k].left
                    /\ all[k].left \in Nat \ {0}
                    /\ \E l \in DOMAIN lots : /\ taken[l] > 0 /\ all[k].at = lots[l].at
                                              /\ lots[l].estimated => all[k].estimated
    BY DEF Heirs
<1>1. PICK s \in kinds : \E j \in DOMAIN tabs[s] : all[k] = tabs[s][j] BY DEF Combined
<1>2. PICK j \in DOMAIN tabs[s] : all[k] = tabs[s][j] BY <1>1
<1>3. PICK n \in Nat : /\ n > 0 /\ DrawsTo(draw[s], n, s)
                       /\ \A K : Common(K) => RefineOf(tabs[s], draw[s], n, outs[s], K)
  BY DEF RefinesOf
<1>4. PICK K : Common(K) BY CommonExists
<1>5. RefineOf(tabs[s], draw[s], n, outs[s], K) BY <1>3, <1>4
<1>6. Heir(tabs[s][j], draw[s], n) BY <1>5 DEF RefineOf
<1>7. Heir(all[k], draw[s], n) BY <1>2, <1>6
<1>8. PICK i \in 1..n : /\ all[k].at = lots[draw[s][i].lot].at
                        /\ lots[draw[s][i].lot].estimated => all[k].estimated
  BY <1>7 DEF Heir
<1>9. taken[draw[s][i].lot] = draw[s][i].qty BY <1>3, FamilyDraws, FamilyOf
<1>10. draw[s][i].lot \in DOMAIN lots /\ draw[s][i].qty \in Nat \ {0} BY <1>3 DEF DrawsTo
<1>11. taken[draw[s][i].lot] > 0 BY <1>9, <1>10
<1> QED BY <1>7, <1>8, <1>10, <1>11 DEF Heir

\* And they carry what the lots cost.
LEMMA CentsHandedOn ==
    ASSUME lots \in Seq(LotRow), NEW tabs, NEW kinds, NEW draw, NEW outs,
           RefinesOf(tabs, kinds, draw, outs), NEW all, Combined(all, tabs, kinds),
           NEW taken, taken = TakenBy(AllOf(kinds, draw))
    PROVE  CentsBack(all, taken)
<1> SUFFICES ASSUME NEW K, Common(K)
             PROVE /\ Tally(CentsIn, all) \in Nat /\ CostUsed(K, taken) \in Int
                   /\ Cardinality(LotsUsed(taken)) \in Nat
                   /\ 2 * (K * Tally(CentsIn, all) - CostUsed(K, taken)) <= K * Cardinality(LotsUsed(taken))
                   /\ 2 * (CostUsed(K, taken) - K * Tally(CentsIn, all)) <= K * Cardinality(LotsUsed(taken))
    BY DEF CentsBack
<1>0. IsFiniteSet(kinds) /\ Family(kinds, draw) /\ K \in Nat BY FamilyOf DEF RefinesOf, Common
<1>1. PICK N : N = [s \in kinds |-> CHOOSE n \in Nat :
          /\ n > 0 /\ DrawsTo(draw[s], n, s) /\ RefineOf(tabs[s], draw[s], n, outs[s], K)]
  OBVIOUS
<1>2. ASSUME NEW s \in kinds
      PROVE  /\ N[s] \in Nat /\ N[s] > 0 /\ DrawsTo(draw[s], N[s], s)
             /\ RefineOf(tabs[s], draw[s], N[s], outs[s], K)
  <2>1. \E n \in Nat : n > 0 /\ DrawsTo(draw[s], n, s) /\ RefineOf(tabs[s], draw[s], n, outs[s], K)
    BY DEF RefinesOf
  <2> QED BY <1>1, <2>1
<1>3. PICK c : c = [s \in kinds |-> Tally(CentsIn, tabs[s])] OBVIOUS
<1>4. PICK w : w = [s \in kinds |-> DrawnCost(K, draw[s], N[s])] OBVIOUS
<1>5. Halves(kinds, K, c, w, N)
  <2>1. ASSUME NEW s \in kinds
        PROVE  /\ c[s] \in Nat /\ w[s] \in Int /\ N[s] \in Nat
               /\ 2 * (K * c[s] - w[s]) <= K * N[s] /\ 2 * (w[s] - K * c[s]) <= K * N[s]
    BY <1>2, <1>3, <1>4 DEF RefineOf
  <2> QED BY <2>1 DEF Halves
<1>6. PICK C : C = SumFunctionOnSet(c, kinds) OBVIOUS
<1>7. PICK W : W = SumFunctionOnSet(w, kinds) OBVIOUS
<1>8. PICK H : H = SumFunctionOnSet(N, kinds) OBVIOUS
<1>9. /\ C \in Nat /\ W \in Int /\ H \in Nat
      /\ 2 * (K * C - W) <= K * H /\ 2 * (W - K * C) <= K * H
  BY <1>0, <1>5, <1>6, <1>7, <1>8, HalvesAddUp
<1>10. C = Tally(CentsIn, all) BY <1>3, <1>6, CentsInIs DEF Combined, CentsInType
<1>11. W = CostUsed(K, taken)
  <2>1. PICK F : F = [l \in DOMAIN lots |-> OnK(K, l, taken[l])] OBVIOUS
  <2>2. TakenOK(taken) BY <1>0, FamilyDraws
  <2>3. ASSUME NEW l \in DOMAIN lots PROVE F[l] \in Int /\ (taken[l] = 0 => F[l] = 0)
    <3>1. taken[l] \in Nat BY <2>2 DEF TakenOK
    <3>2. OnK(K, l, taken[l]) \in Nat BY <3>1, OnKIs
    <3>3. taken[l] = 0 => OnK(K, l, taken[l]) = 0
      <4>1. PICK x \in Nat : x = lots[l].cost.num BY CostOf
      <4>2. PartOf(K, l) \in Nat BY DEF PartOf, Common
      <4>3. PICK y \in Nat : y = PartOf(K, l) BY <4>2
      <4> QED BY <4>1, <4>3 DEF OnK
    <3> QED BY <2>1, <3>2, <3>3
  <2>4. ASSUME NEW s \in kinds
        PROVE  \E n \in Nat :
                 /\ DrawsTo(draw[s], n, s)
                 /\ w[s] = SumFunctionOnSet([i \in 1..n |-> F[draw[s][i].lot]], 1..n)
    <3>1. N[s] \in Nat /\ DrawsTo(draw[s], N[s], s) BY <1>2
    <3>2. PICK n \in Nat : n = N[s] BY <3>1
    <3>3. \A i \in 1..n : F[draw[s][i].lot] = OnK(K, draw[s][i].lot, draw[s][i].qty)
      <4>1. \A i \in 1..n : taken[draw[s][i].lot] = draw[s][i].qty /\ draw[s][i].lot \in DOMAIN lots
        <5>1. \A i \in 1..n : taken[draw[s][i].lot] = draw[s][i].qty BY <1>0, <3>1, <3>2, FamilyDraws
        <5> QED BY <3>1, <3>2, <5>1 DEF DrawsTo
      <4> QED BY <2>1, <4>1
    <3>4. [i \in 1..n |-> F[draw[s][i].lot]] = [i \in 1..n |-> OnK(K, draw[s][i].lot, draw[s][i].qty)]
      BY <3>3
    <3>5. w[s] = SumFunctionOnSet([i \in 1..n |-> F[draw[s][i].lot]], 1..n)
      BY <1>4, <3>2, <3>4 DEF DrawnCost
    <3> QED BY <3>1, <3>2, <3>5
  <2>5. SumFunctionOnSet(F, DOMAIN lots) = SumFunctionOnSet(w, kinds)
    <3>1. Spread(F, w, kinds, draw, taken) BY <2>3, <2>4 DEF Spread
    <3> QED BY <1>0, <3>1, FamilySum
  <2> QED BY <1>7, <2>1, <2>5 DEF CostUsed
<1>12. H = Cardinality(LotsUsed(taken))
  <2>1. PICK F : F = [l \in DOMAIN lots |-> IF taken[l] > 0 THEN 1 ELSE 0] OBVIOUS
  <2>2. TakenOK(taken) BY <1>0, FamilyDraws
  <2>3. \A l \in DOMAIN lots : F[l] \in Int /\ (taken[l] = 0 => F[l] = 0) BY <2>1
  <2>4. ASSUME NEW s \in kinds
        PROVE  \E n \in Nat :
                 /\ DrawsTo(draw[s], n, s)
                 /\ N[s] = SumFunctionOnSet([i \in 1..n |-> F[draw[s][i].lot]], 1..n)
    <3>1. N[s] \in Nat /\ DrawsTo(draw[s], N[s], s) BY <1>2
    <3>2. PICK n \in Nat : n = N[s] BY <3>1
    <3>3. PICK f : f = [i \in 1..n |-> F[draw[s][i].lot]] OBVIOUS
    <3>4. \A i \in 1..n : f[i] = 1
      <4>1. \A i \in 1..n : /\ taken[draw[s][i].lot] = draw[s][i].qty /\ draw[s][i].lot \in DOMAIN lots
                            /\ draw[s][i].qty \in Nat \ {0}
        <5>1. \A i \in 1..n : taken[draw[s][i].lot] = draw[s][i].qty BY <1>0, <3>1, <3>2, FamilyDraws
        <5> QED BY <3>1, <3>2, <5>1 DEF DrawsTo
      <4>2. \A i \in 1..n : taken[draw[s][i].lot] > 0 /\ draw[s][i].lot \in DOMAIN lots BY <4>1
      <4> QED BY <2>1, <3>3, <4>2
    <3>5. SumFunctionOnSet(f, 1..n) = Cardinality(1..n) BY <3>4, CountTo, SumOnOnes
    <3> QED BY <3>1, <3>2, <3>3, <3>5, CountTo
  <2>5. SumFunctionOnSet(F, DOMAIN lots) = SumFunctionOnSet(N, kinds)
    <3>1. Spread(F, N, kinds, draw, taken) BY <2>3, <2>4 DEF Spread
    <3> QED BY <1>0, <3>1, FamilySum
  <2>6. PICK P : P = LotsUsed(taken) OBVIOUS
  <2>7. P \subseteq DOMAIN lots /\ IsFiniteSet(P) BY <2>6, RowsOf, FS_Subset DEF LotsUsed
  <2>8. \A l \in P : F[l] = 1 BY <2>1, <2>6 DEF LotsUsed
  <2>9. \A l \in DOMAIN lots \ P : F[l] = 0 BY <2>1, <2>6 DEF LotsUsed
  <2>10. IsFiniteSet(DOMAIN lots) /\ \A l \in DOMAIN lots : F[l] \in Int BY <2>3, RowsOf
  <2>11. SumFunctionOnSet(F, DOMAIN lots) = SumFunctionOnSet(F, P)
    BY <2>7, <2>9, <2>10, SumOnSupport
  <2>12. SumFunctionOnSet(F, P) = Cardinality(P) BY <2>7, <2>8, SumOnOnes
  <2> QED BY <1>8, <2>5, <2>6, <2>11, <2>12
<1> QED BY <1>9, <1>10, <1>11, <1>12

\* The rows in a list: the new lots of one step.
MadeWell(made, taken) == Heirs(made, taken) /\ CentsBack(made, taken)

LEMMA MadeIs ==
    ASSUME lots \in Seq(LotRow), NEW tabs, NEW kinds, NEW draw, NEW outs,
           RefinesOf(tabs, kinds, draw, outs), NEW all, Combined(all, tabs, kinds),
           NEW taken, taken = TakenBy(AllOf(kinds, draw)), NEW made, made = Listed(all)
    PROVE  /\ made \in Seq(LotRow) /\ MadeWell(made, taken)
           /\ \A t : Tally(UnitsIn(t), made)
                       = SumFunctionOnSet([s \in kinds |-> UnitsAt(outs[s], t)], kinds)
<1>1. IsFiniteSet(DOMAIN all) /\ \A k \in DOMAIN all : all[k] \in LotRow
  BY RowsAreHeirs DEF Combined
<1>2. made \in Seq(LotRow) BY <1>1, ListedIs
<1>3. PICK n \in Nat : \E keys : Lists(keys, n, all, made) BY <1>1, ListedIs
<1>4. PICK keys : Lists(keys, n, all, made) BY <1>3
<1>5. Heirs(made, taken)
  <2>1. Heirs(all, taken) BY RowsAreHeirs
  <2>2. \A i \in DOMAIN made : keys[i] \in DOMAIN all /\ made[i] = all[keys[i]] BY <1>4 DEF Lists
  <2> QED BY <2>1, <2>2 DEF Heirs
<1>6. CentsBack(made, taken)
  <2>1. CentsBack(all, taken) BY CentsHandedOn
  <2>2. Tally(CentsIn, made) = Tally(CentsIn, all)
    <3>1. CentsIn \in [LotRow -> Int] BY CentsInIs DEF CentsInType
    <3> QED BY <1>1, <3>1, TallyListed
  <2> QED BY <2>1, <2>2 DEF CentsBack
<1>7. ASSUME NEW t
      PROVE  Tally(UnitsIn(t), made) = SumFunctionOnSet([s \in kinds |-> UnitsAt(outs[s], t)], kinds)
  <2>1. UnitsIn(t) \in [LotRow -> Int] BY UnitsInType
  <2>2. Tally(UnitsIn(t), made) = Tally(UnitsIn(t), all) BY <1>1, <2>1, TallyListed
  <2>3. Tally(UnitsIn(t), all) = SumFunctionOnSet([s \in kinds |-> Tally(UnitsIn(t), tabs[s])], kinds)
    BY <2>1 DEF Combined
  <2>4. ASSUME NEW s \in kinds PROVE Tally(UnitsIn(t), tabs[s]) = UnitsAt(outs[s], t)
    <3>1. PICK K : Common(K) BY CommonExists
    <3>2. PICK n0 \in Nat : RefineOf(tabs[s], draw[s], n0, outs[s], K) BY <3>1 DEF RefinesOf
    <3> QED BY <3>2 DEF RefineOf
  <2>5. [s \in kinds |-> Tally(UnitsIn(t), tabs[s])] = [s \in kinds |-> UnitsAt(outs[s], t)] BY <2>4
  <2> QED BY <2>2, <2>3, <2>5
<1> QED BY <1>2, <1>5, <1>6, <1>7 DEF MadeWell

-----------------------------------------------------------------------------
(* The steps that change the lots *)

\* A step that takes from the lots and adds what it made and what it found.
Turns(taken, made, found) ==
    /\ TakenOK(taken) /\ made \in Seq(LotRow) /\ found \in Seq(LotRow)
    /\ lots' = After(taken) \o (made \o found)
    /\ \A i \in DOMAIN found : found[i].source # "reprocess"
    /\ made = <<>> \/ MadeWell(made, taken)

LEMMA AfterIs ==
    ASSUME lots \in Seq(LotRow), NEW taken, TakenOK(taken)
    PROVE  After(taken) \in Seq(LotRow)
<1>1. /\ Len(lots) \in Nat /\ DOMAIN lots = 1..Len(lots)
      /\ \A l \in DOMAIN lots : /\ lots[l] \in LotRow /\ lots[l].left \in Nat /\ taken[l] \in Nat
                                /\ taken[l] <= lots[l].left
  BY RowsOf DEF TakenOK
<1>2. ASSUME NEW l \in DOMAIN lots PROVE [lots[l] EXCEPT !.left = @ - taken[l]] \in LotRow
  <2>1. lots[l].left - taken[l] \in Nat BY <1>1
  <2> QED BY <1>1, <2>1 DEF LotRow
<1>3. After(taken) \in [1..Len(lots) -> LotRow] BY <1>1, <1>2 DEF After
<1> QED BY <1>1, <1>3

\* Sell: one unit of one lot.
LEMMA SellTurns ==
    ASSUME lots \in Seq(LotRow), NEW t \in Types, Sell(t)
    PROVE  \E taken : Turns(taken, <<>>, <<>>)
<1>1. PICK draws \in Drawings(t, 1) : draws # <<>> /\ lots' = Consumed(Range(draws)) BY DEF Sell
<1>2. PICK n \in Nat : DrawsTo(draws, n, t)
  <2>1. 1 \in Nat /\ 1 > 0 OBVIOUS
  <2> QED BY <2>1, DrawingsAre
<1>3. PICK D : D = Range(draws) OBVIOUS
<1>4. PICK taken : taken = TakenBy(D) OBVIOUS
<1>5. OneEach(D)
  <2>1. \A d \in D : \E i \in 1..n : d = draws[i] BY <1>2, <1>3 DEF Range, DrawsTo
  <2> QED BY <1>2, <2>1 DEF OneEach, DrawsTo
<1>6. TakenOK(taken) BY <1>4, <1>5, TakenIs
<1>7. lots' = After(taken) BY <1>1, <1>3, <1>4, ConsumedAfter
<1>8. After(taken) \in Seq(LotRow) BY <1>6, AfterIs
<1>9. <<>> \in Seq(LotRow) /\ <<>> \o <<>> = <<>> OBVIOUS
<1>10. After(taken) = After(taken) \o (<<>> \o <<>>) BY <1>8, <1>9
<1> QED BY <1>6, <1>7, <1>9, <1>10 DEF Turns

LEMMA AtOnce ==
    ASSUME NEW draw, NEW s, NEW K, K = {s},
           NEW d, d = [x \in K |-> <<draw>>]
    PROVE  AllOf(K, d) = {draw}
<1>1. d[s] = <<draw>> OBVIOUS
<1>2. Range(<<draw>>) = {draw} BY DEF Range
<1> QED BY <1>1, <1>2 DEF AllOf

\* What the dialog opens with, or what was typed, is something.
LEMMA DialogOutputs ==
    ASSUME NEW type \in Types, NEW qty \in Nat,
           NEW outputs \in Edits \cup {BaseYieldOutputs(type, qty)}, DOMAIN outputs # {}
    PROVE  OutputsOK(outputs)
<1>1. CASE outputs \in Edits BY <1>1, StockTakeAssumption DEF OutputsOK
<1>2. CASE outputs = BaseYieldOutputs(type, qty)
  <2>1. PICK f : f = [m \in DOMAIN Materials[type] |->
                          ((qty \div Portion[type]) * Materials[type][m] * Yield[1]) \div Yield[2]]
    OBVIOUS
  <2>2. outputs = Positive(f) BY <1>2, <2>1 DEF BaseYieldOutputs
  <2>3. DOMAIN f \subseteq Types BY <2>1, RefiningAssumption
  <2>4. ASSUME NEW m \in DOMAIN f PROVE f[m] \in Int
    <3>1. Portion[type] \in Nat \ {0} /\ Materials[type][m] \in Nat BY <2>1, RefiningAssumption
    <3>2. Yield[1] \in Nat /\ Yield[2] \in Nat \ {0} BY RefiningAssumption
    <3>3. PICK b \in Nat : b = qty \div Portion[type] BY <3>1
    <3>4. PICK g \in Nat : g = b * Materials[type][m] BY <3>1, <3>3
    <3>5. PICK h \in Nat : h = g * Yield[1] BY <3>2, <3>4
    <3>6. h \div Yield[2] \in Int BY <3>2, <3>5
    <3> QED BY <2>1, <3>3, <3>4, <3>5, <3>6
  <2>5. DOMAIN outputs = {m \in DOMAIN f : f[m] > 0} /\ \A m \in DOMAIN outputs : outputs[m] = f[m]
    BY <2>2 DEF Positive, Restrict
  <2> QED BY <2>3, <2>4, <2>5 DEF OutputsOK
<1> QED BY <1>1, <1>2

\* RecordReprocess: one draw from one lot, and the rows of its outputs.
LEMMA RecordTurns ==
    ASSUME lots \in Seq(LotRow), NEW l \in DOMAIN lots, NEW qty \in 1..MaxRecorded,
           RecordReprocess(l, qty)
    PROVE  \E taken, made : Turns(taken, made, <<>>)
<1>1. PICK outputs \in Edits \cup {BaseYieldOutputs(lots[l].type, qty)} :
        /\ qty <= lots[l].left /\ DOMAIN outputs # {}
        /\ lots' = Consumed({[lot |-> l, qty |-> qty]})
                     \o Listed(Children(lots[l], Paid([lot |-> l, qty |-> qty]), outputs))
  BY DEF RecordReprocess
<1>2. PICK draw : draw = [lot |-> l, qty |-> qty] OBVIOUS
<1>3. PICK all : all = Children(lots[l], Paid(draw), outputs) OBVIOUS
<1>4. PICK type \in Types : type = lots[l].type BY RowsOf
<1>5. qty \in Nat /\ qty > 0 BY StockTakeAssumption
<1>6. OutputsOK(outputs) BY <1>1, <1>4, <1>5, DialogOutputs
<1>7. DrawsTo(<<draw>>, 1, type) /\ \A K : Common(K) => RefineOf(all, <<draw>>, 1, outputs, K)
  <2>1. \A K : Common(K) => DrawsTo(<<draw>>, 1, type) /\ RefineOf(all, <<draw>>, 1, outputs, K)
    BY <1>1, <1>2, <1>3, <1>4, <1>5, <1>6, RecordRefines
  <2> QED BY <2>1, CommonExists
<1>8. PICK kinds : kinds = {type} OBVIOUS
<1>9. PICK tabs : tabs = [s \in kinds |-> all] OBVIOUS
<1>10. PICK d : d = [s \in kinds |-> <<draw>>] OBVIOUS
<1>11. PICK outs : outs = [s \in kinds |-> outputs] OBVIOUS
<1>12. type \in kinds /\ IsFiniteSet(kinds) /\ \A s \in kinds : s = type BY <1>8, FS_Singleton
<1>13. RefinesOf(tabs, kinds, d, outs)
  <2>1. tabs[type] = all /\ d[type] = <<draw>> /\ outs[type] = outputs BY <1>9, <1>10, <1>11, <1>12
  <2>2. 1 \in Nat /\ 1 > 0 OBVIOUS
  <2> QED BY <1>6, <1>7, <1>12, <2>1, <2>2 DEF RefinesOf
<1>14. Combined(all, tabs, kinds)
  <2>1. PICK K : RefineOf(all, <<draw>>, 1, outputs, K) BY <1>7, CommonExists
  <2>2. IsFiniteSet(DOMAIN all) /\ \A k \in DOMAIN all : all[k] \in LotRow BY <2>1 DEF RefineOf, Heir
  <2>3. tabs[type] = all BY <1>9, <1>12
  <2>4. ASSUME NEW val \in [LotRow -> Int]
        PROVE  Tally(val, all) = SumFunctionOnSet([s \in kinds |-> Tally(val, tabs[s])], kinds)
    <3>1. PICK g : g = [s \in kinds |-> Tally(val, tabs[s])] OBVIOUS
    <3>2. g[type] = Tally(val, all) BY <1>12, <2>3, <3>1
    <3>3. g[type] \in Int BY <2>2, <3>2, TallyInt
    <3>4. \A y \in kinds \ {type} : g[y] = 0 BY <1>12
    <3>5. SumFunctionOnSet(g, kinds) = g[type] BY <1>12, <3>3, <3>4, SumOnOne
    <3> QED BY <3>1, <3>2, <3>5
  <2> QED BY <1>12, <2>2, <2>3, <2>4 DEF Combined
<1>15. AllOf(kinds, d) = {draw}
  BY <1>8, <1>10, AtOnce
<1>16. PICK taken : taken = TakenBy({draw}) OBVIOUS
<1>17. TakenOK(taken) BY <1>13, <1>15, <1>16, FamilyOf, FamilyDraws
<1>18. PICK made : made = Listed(all) OBVIOUS
<1>19. made \in Seq(LotRow) /\ MadeWell(made, taken)
  BY <1>13, <1>14, <1>15, <1>16, <1>18, MadeIs
<1>20. lots' = After(taken) \o made BY <1>1, <1>2, <1>3, <1>16, <1>18, ConsumedAfter
<1>21. made \o <<>> = made BY <1>19
<1>22. <<>> \in Seq(LotRow) /\ DOMAIN <<>> = {} OBVIOUS
<1>23. Turns(taken, made, <<>>) BY <1>17, <1>19, <1>20, <1>21, <1>22 DEF Turns
<1> QED BY <1>23

-----------------------------------------------------------------------------
(* What a check books *)

SourcesOf(delta) == {s[1] : s \in Claims(delta)}
HintedOf(delta) == {s[2] : s \in Claims(delta)}
OutputsOf(delta, s) == [m \in {x[2] : x \in {y \in Claims(delta) : y[1] = s}} |-> delta[m]]
RecordedOf(delta) == {s \in SourcesOf(delta) : Expected(s) >= QtyRecordable(s, delta)}
FoundOf(delta) ==
    {t \in Types : delta[t] > 0 /\ t \notin HintedOf(delta) /\ Bookable(t, delta[t])}

\* A source is short of the batches it claims by; its claims are excesses it could give.
ClaimsBy(delta, s) ==
    /\ s \in Types /\ delta[s] < 0 /\ Batches(s, delta) \in Nat \ {0}
    /\ QtyRecordable(s, delta) \in Nat \ {0} /\ QtyRecordable(s, delta) <= -delta[s]
    /\ OutputsOK(OutputsOf(delta, s))
    /\ \A m \in DOMAIN OutputsOf(delta, s) :
          /\ OutputsOf(delta, s)[m] = delta[m] /\ delta[m] > 0 /\ m \in HintedOf(delta)
          /\ m \in DOMAIN Materials[s] /\ Materials[s][m] \in Nat
          /\ delta[m] <= Batches(s, delta) * Materials[s][m]

LEMMA OneClaimer ==
    ASSUME NEW delta, NEW r \in Types, NEW s \in Types, NEW m,
           <<r, m>> \in Claims(delta), <<s, m>> \in Claims(delta)
    PROVE  r = s
<1>1. r \in Nat \ {0} /\ s \in Nat \ {0} BY TypesKnown
<1>2. /\ Explains(r, m, delta) /\ Explains(s, m, delta)
      /\ \A k \in 1 .. r - 1 : ~Explains(k, m, delta)
      /\ \A k \in 1 .. s - 1 : ~Explains(k, m, delta)
  BY DEF Claims
<1>3. ~(r < s) BY <1>1, <1>2
<1>4. ~(s < r) BY <1>1, <1>2
<1> QED BY <1>1, <1>3, <1>4

LEMMA BatchesAre ==
    ASSUME NEW delta \in [Types -> Int], NEW s \in Types, delta[s] < 0
    PROVE  /\ Batches(s, delta) \in Nat /\ QtyRecordable(s, delta) \in Nat
           /\ QtyRecordable(s, delta) <= -delta[s]
<1>1. PICK p \in Nat \ {0} : p = Portion[s] BY RefiningAssumption
<1>2. PICK a \in Nat : a = -delta[s] OBVIOUS
<1>3. PICK b \in Nat : b = a \div p /\ b * p <= a BY <1>1, <1>2, WholeAndRest
<1>4. Batches(s, delta) = b BY <1>1, <1>2, <1>3 DEF Batches
<1>5. b * p \in Nat BY <1>1, <1>3
<1> QED BY <1>1, <1>2, <1>3, <1>4, <1>5 DEF QtyRecordable

LEMMA ClaimsAre ==
    ASSUME NEW delta \in [Types -> Int], NEW s \in SourcesOf(delta)
    PROVE  ClaimsBy(delta, s)
<1>1. PICK c \in Claims(delta) : s = c[1] BY DEF SourcesOf
<1>2. PICK S : S = {x[2] : x \in {y \in Claims(delta) : y[1] = s}} OBVIOUS
<1>3. PICK out : out = OutputsOf(delta, s) OBVIOUS
<1>4. DOMAIN out = S /\ \A m \in S : out[m] = delta[m] BY <1>2, <1>3 DEF OutputsOf
<1>5. c[2] \in S BY <1>1, <1>2
<1>6. c \in Types \X Types /\ s \in Types BY <1>1 DEF Claims
<1>7. ASSUME NEW m \in S
      PROVE  /\ m \in Types /\ delta[m] > 0 /\ m \in HintedOf(delta) /\ m \in DOMAIN Materials[s]
             /\ Materials[s][m] \in Nat /\ delta[m] <= Batches(s, delta) * Materials[s][m]
  <2>1. PICK x \in Claims(delta) : x[1] = s /\ x[2] = m BY <1>2
  <2>2. x \in Types \X Types /\ Explains(s, m, delta) BY <2>1 DEF Claims
  <2>3. m \in HintedOf(delta) BY <2>1 DEF HintedOf
  <2>4. Materials[s] \in [DOMAIN Materials[s] -> Nat] BY <1>6, RefiningAssumption
  <2> QED BY <2>1, <2>2, <2>3, <2>4 DEF Explains
<1>8. delta[s] < 0
  <2>1. SUFFICES ASSUME ~(delta[s] < 0) PROVE FALSE OBVIOUS
  <2>2. Batches(s, delta) = 0 BY <2>1 DEF Batches
  <2>3. PICK m \in S : m = c[2] BY <1>5
  <2>4. PICK y \in Nat : y = Materials[s][m] BY <1>7
  <2>5. delta[m] > 0 /\ delta[m] <= 0 * y /\ delta[m] \in Int BY <1>7, <2>2, <2>4
  <2> QED BY <2>4, <2>5
<1>9. /\ Batches(s, delta) \in Nat /\ QtyRecordable(s, delta) \in Nat
      /\ QtyRecordable(s, delta) <= -delta[s]
  BY <1>6, <1>8, BatchesAre
<1>10. Batches(s, delta) # 0
  <2>1. SUFFICES ASSUME Batches(s, delta) = 0 PROVE FALSE OBVIOUS
  <2>3. PICK m \in S : m = c[2] BY <1>5
  <2>4. PICK y \in Nat : y = Materials[s][m] BY <1>7
  <2>5. delta[m] > 0 /\ delta[m] <= 0 * y /\ delta[m] \in Int BY <1>7, <2>1, <2>4
  <2> QED BY <2>4, <2>5
<1>11. QtyRecordable(s, delta) # 0
  <2>1. PICK p \in Nat \ {0} : p = Portion[s] BY <1>6, RefiningAssumption
  <2>2. PICK b \in Nat \ {0} : b = Batches(s, delta) BY <1>9, <1>10
  <2>3. b * p # 0 BY <2>1, <2>2
  <2> QED BY <2>1, <2>2, <2>3 DEF QtyRecordable
<1>12. OutputsOK(out) BY <1>4, <1>5, <1>7 DEF OutputsOK
<1> QED BY <1>3, <1>4, <1>6, <1>7, <1>8, <1>9, <1>10, <1>11, <1>12 DEF ClaimsBy

\* What is claimed is an excess, and of one source's outputs only.
LEMMA HintedAre ==
    ASSUME NEW delta \in [Types -> Int]
    PROVE  /\ IsFiniteSet(SourcesOf(delta)) /\ SourcesOf(delta) \subseteq Types
           /\ \A m \in HintedOf(delta) :
                /\ m \in Types /\ delta[m] > 0
                /\ \E s \in SourcesOf(delta) : m \in DOMAIN OutputsOf(delta, s)
           /\ \A r, s \in SourcesOf(delta) : \A m :
                m \in DOMAIN OutputsOf(delta, r) /\ m \in DOMAIN OutputsOf(delta, s) => r = s
<1>1. SourcesOf(delta) \subseteq Types BY DEF SourcesOf, Claims
<1>2. IsFiniteSet(SourcesOf(delta)) BY <1>1, TypesKnown
<1>3. \A s, m : m \in DOMAIN OutputsOf(delta, s) => \E x \in Claims(delta) : x[1] = s /\ x[2] = m
  BY DEF OutputsOf
<1>4. \A x \in Claims(delta) : x[1] \in SourcesOf(delta) /\ x[2] \in DOMAIN OutputsOf(delta, x[1])
  BY DEF SourcesOf, OutputsOf
<1>5. ASSUME NEW m \in HintedOf(delta)
      PROVE  /\ m \in Types /\ delta[m] > 0
             /\ \E s \in SourcesOf(delta) : m \in DOMAIN OutputsOf(delta, s)
  <2>1. PICK x \in Claims(delta) : m = x[2] BY DEF HintedOf
  <2>2. x \in Types \X Types /\ Explains(x[1], x[2], delta) BY <2>1 DEF Claims
  <2> QED BY <1>4, <2>1, <2>2 DEF Explains
<1>6. ASSUME NEW r \in SourcesOf(delta), NEW s \in SourcesOf(delta), NEW m,
             m \in DOMAIN OutputsOf(delta, r), m \in DOMAIN OutputsOf(delta, s)
      PROVE  r = s
  <2>1. PICK x \in Claims(delta) : x[1] = r /\ x[2] = m BY <1>3, <1>6
  <2>2. PICK y \in Claims(delta) : y[1] = s /\ y[2] = m BY <1>3, <1>6
  <2>3. x \in Types \X Types /\ y \in Types \X Types BY <2>1, <2>2 DEF Claims
  <2>4. x = <<r, m>> /\ y = <<s, m>> BY <2>1, <2>2, <2>3
  <2>5. <<r, m>> \in Claims(delta) /\ <<s, m>> \in Claims(delta) BY <2>1, <2>2, <2>4
  <2>6. r \in Types /\ s \in Types BY <1>1
  <2> QED BY <2>5, <2>6, OneClaimer
<1> QED BY <1>1, <1>2, <1>5, <1>6

-----------------------------------------------------------------------------
(* The lots after a check booked *)

\* By type: what was refined, what came of it, and what was found.
Booked(delta, taken, made, found) ==
    \A t : /\ UsedOf(taken, t) = IF t \in RecordedOf(delta) THEN QtyRecordable(t, delta) ELSE 0
           /\ Tally(UnitsIn(t), made)
                = IF \E s \in RecordedOf(delta) : t \in DOMAIN OutputsOf(delta, s)
                  THEN delta[t] ELSE 0
           /\ Tally(UnitsIn(t), found) = IF t \in FoundOf(delta) THEN delta[t] ELSE 0

LEMMA CostIs ==
    ASSUME NEW t \in Types, NEW qty \in Nat, lots \in Seq(LotRow)
    PROVE  /\ Found(t, qty) \in LotRow /\ Found(t, qty).type = t /\ Found(t, qty).left = qty
           /\ Found(t, qty).source = "opening_balance"
<1>1. Value[t] \in Nat /\ Len(lots) + 1 \in Nat BY StockTakeAssumption
<1>2. Cost(Value[t], 1) \in [num : Nat, den : Nat \ {0}] BY <1>1 DEF Cost
<1> QED BY <1>1, <1>2 DEF Found, LotRow

\* Found stock, a row a type.
FoundRows(rows, T, delta) ==
    /\ rows \in Seq(LotRow) /\ \A i \in DOMAIN rows : rows[i].source = "opening_balance"
    /\ \A t : Tally(UnitsIn(t), rows) = IF t \in T THEN delta[t] ELSE 0

LEMMA FoundAre ==
    ASSUME lots \in Seq(LotRow), NEW T, T \subseteq Types, NEW delta,
           \A t \in T : delta[t] \in Nat,
           NEW rows, rows = Listed([t \in T |-> Found(t, delta[t])])
    PROVE  FoundRows(rows, T, delta)
<1>1. PICK new : new = [t \in T |-> Found(t, delta[t])] OBVIOUS
<1>2. IsFiniteSet(T) BY TypesKnown
<1>3. /\ DOMAIN new = T
      /\ \A t \in T : /\ new[t] \in LotRow /\ new[t].type = t /\ new[t].left = delta[t]
                      /\ new[t].source = "opening_balance"
  BY <1>1, CostIs
<1>4. rows \in Seq(LotRow) /\ \E n \in Nat : \E keys : Lists(keys, n, new, rows)
  BY <1>1, <1>2, <1>3, ListedIs
<1>5. PICK n \in Nat : \E keys : Lists(keys, n, new, rows) BY <1>4
<1>6. PICK keys : Lists(keys, n, new, rows) BY <1>5
<1>7. \A i \in DOMAIN rows : rows[i].source = "opening_balance" BY <1>3, <1>6 DEF Lists
<1>8. ASSUME NEW t PROVE Tally(UnitsIn(t), rows) = IF t \in T THEN delta[t] ELSE 0
  <2>1. PICK val \in [LotRow -> Int] : val = UnitsIn(t) BY UnitsInType
  <2>2. Tally(val, rows) = Tally(val, new) BY <1>1, <1>2, <1>3, TallyListed
  <2>3. PICK g : g = [k \in T |-> val[new[k]]] OBVIOUS
  <2>4. Tally(val, new) = SumFunctionOnSet(g, T) BY <1>3, <2>3 DEF Tally
  <2>5. \A k \in T : g[k] = IF k = t THEN delta[k] ELSE 0 BY <1>3, <2>1, <2>3, UnitsInType
  <2>6. CASE t \in T
    <3>1. g[t] = delta[t] /\ g[t] \in Int /\ \A k \in T \ {t} : g[k] = 0 BY <2>5, <2>6
    <3>2. SumFunctionOnSet(g, T) = g[t] BY <1>2, <2>6, <3>1, SumOnOne
    <3> QED BY <2>1, <2>2, <2>4, <2>6, <3>1, <3>2
  <2>7. CASE t \notin T
    <3>1. \A k \in T : g[k] = 0 BY <2>5, <2>7
    <3>2. SumFunctionOnSet(g, T) = 0 BY <1>2, <3>1, SumOnZero
    <3> QED BY <2>1, <2>2, <2>4, <2>7, <3>2
  <2> QED BY <2>6, <2>7
<1> QED BY <1>4, <1>7, <1>8 DEF FoundRows

\* What one check writes to the lots, draw by draw.
BookWrites(delta, draw) ==
    /\ \A s \in RecordedOf(delta) : draw[s] \in Drawings(s, QtyRecordable(s, delta))
    /\ lots' = Consumed(AllOf(RecordedOf(delta), draw))
         \o Listed(Flat([s \in RecordedOf(delta) |-> Observed(draw[s], OutputsOf(delta, s))]))
         \o Listed([t \in FoundOf(delta) |-> Found(t, delta[t])])

LEMMA BookIs ==
    ASSUME NEW c \in Checks, Book(c), NEW delta, delta = check[c].delta
    PROVE  \E draw : BookWrites(delta, draw)
<1>1. PICK draw \in [RecordedOf(check[c].delta) -> UNION {Drawings(s, QtyRecordable(s, check[c].delta)) :
                                                          s \in RecordedOf(check[c].delta)}] :
        /\ \A s \in RecordedOf(check[c].delta) : draw[s] \in Drawings(s, QtyRecordable(s, check[c].delta))
        /\ lots' = Consumed(UNION {Range(draw[s]) : s \in RecordedOf(check[c].delta)})
              \o Listed(Flat([s \in RecordedOf(check[c].delta) |->
                                Observed(draw[s], OutputsOf(check[c].delta, s))]))
              \o Listed([t \in FoundOf(check[c].delta) |-> Found(t, check[c].delta[t])])
  BY DEF Book, RecordedOf, SourcesOf, HintedOf, OutputsOf, FoundOf
<1> QED BY <1>1 DEF BookWrites, AllOf

\* The draws cover what is refined, and every refine is one.
LEMMA BookRefines ==
    ASSUME lots \in Seq(LotRow), NEW delta \in [Types -> Int], NEW draw, BookWrites(delta, draw),
           NEW kinds, kinds = RecordedOf(delta),
           NEW outs, outs = [s \in kinds |-> OutputsOf(delta, s)],
           NEW tabs, tabs = [s \in kinds |-> Observed(draw[s], outs[s])]
    PROVE  /\ RefinesOf(tabs, kinds, draw, outs)
           /\ \A s \in kinds : \E n \in Nat :
                 DrawsTo(draw[s], n, s) /\ DrawnSum(draw[s], n) = QtyRecordable(s, delta)
<1>1. kinds \subseteq SourcesOf(delta) /\ \A s \in kinds : Expected(s) >= QtyRecordable(s, delta)
  BY DEF RecordedOf
<1>2. IsFiniteSet(kinds) BY <1>1, HintedAre, FS_Subset
<1>3. ASSUME NEW s \in kinds
      PROVE  \E n \in Nat :
                /\ n > 0 /\ DrawsTo(draw[s], n, s) /\ OutputsOK(outs[s])
                /\ DrawnSum(draw[s], n) = QtyRecordable(s, delta)
                /\ \A K : Common(K) => RefineOf(tabs[s], draw[s], n, outs[s], K)
  <2>1. ClaimsBy(delta, s) BY <1>1, ClaimsAre
  <2>2. PICK qty \in Nat : qty = QtyRecordable(s, delta) /\ qty > 0 BY <2>1 DEF ClaimsBy
  <2>3. PICK d : d = draw[s] OBVIOUS
  <2>4. d \in Drawings(s, qty) BY <2>2, <2>3 DEF BookWrites
  <2>5. PICK n \in Nat : DrawsTo(d, n, s) /\ DrawnSum(d, n) = Least(qty, Expected(s))
    BY <2>2, <2>4, DrawingsAre
  <2>6. Expected(s) \in Nat BY ExpectedNow, ExpectedIs
  <2>7. DrawnSum(d, n) = qty BY <1>1, <2>2, <2>5, <2>6 DEF Least
  <2>8. n > 0
    <3>1. SUFFICES ASSUME n = 0 PROVE FALSE BY <2>5
    <3>2. 1..n = {} BY <3>1
    <3>3. DrawnSum(d, n) = 0 BY <3>2, SumOnEmpty DEF DrawnSum
    <3> QED BY <2>2, <2>7, <3>3
  <2>9. PICK out : out = outs[s] OBVIOUS
  <2>10. out = OutputsOf(delta, s) /\ OutputsOK(out) BY <2>1, <2>9 DEF ClaimsBy
  <2>11. tabs[s] = Observed(d, out) BY <2>3, <2>9
  <2>12. \A K : Common(K) => RefineOf(Observed(d, out), d, n, out, K)
    BY <2>5, <2>8, <2>10, ObservedRefines
  <2> QED BY <2>2, <2>3, <2>5, <2>7, <2>8, <2>9, <2>10, <2>11, <2>12
<1>4. RefinesOf(tabs, kinds, draw, outs) BY <1>2, <1>3 DEF RefinesOf
<1> QED BY <1>3, <1>4

LEMMA FlatCombines ==
    ASSUME lots \in Seq(LotRow), NEW tabs, NEW kinds, NEW draw, NEW outs,
           RefinesOf(tabs, kinds, draw, outs), DOMAIN tabs = kinds
    PROVE  Combined(Flat(tabs), tabs, kinds)
<1>1. IsFiniteSet(kinds) BY DEF RefinesOf
<1>2. ASSUME NEW s \in kinds
      PROVE  IsFiniteSet(DOMAIN tabs[s]) /\ \A j \in DOMAIN tabs[s] : tabs[s][j] \in LotRow
  <2>1. PICK K : Common(K) BY CommonExists
  <2>2. PICK n \in Nat : RefineOf(tabs[s], draw[s], n, outs[s], K) BY <2>1 DEF RefinesOf
  <2> QED BY <2>2 DEF RefineOf, Heir
<1>3. PICK all : all = Flat(tabs) OBVIOUS
<1>4. /\ IsFiniteSet(DOMAIN all)
      /\ \A k \in DOMAIN all : k[1] \in kinds /\ k[2] \in DOMAIN tabs[k[1]] /\ all[k] = tabs[k[1]][k[2]]
  BY <1>1, <1>2, <1>3, FlatIs
<1>5. ASSUME NEW val \in [LotRow -> Int]
      PROVE  Tally(val, all) = SumFunctionOnSet([s \in kinds |-> Tally(val, tabs[s])], kinds)
  <2>1. PICK each : each = [s \in kinds |-> Tally(val, tabs[s])] OBVIOUS
  <2>2. \A s \in kinds : each[s] = Tally(val, tabs[s]) BY <2>1
  <2>3. Tally(val, Flat(tabs)) = SumFunctionOnSet(each, DOMAIN tabs)
    BY <1>1, <1>2, <2>2, TallyFlat
  <2> QED BY <1>3, <2>1, <2>3
<1> QED BY <1>3, <1>4, <1>5 DEF Combined

LEMMA BookTurns ==
    ASSUME lots \in Seq(LotRow), NEW delta \in [Types -> Int], NEW draw, BookWrites(delta, draw)
    PROVE  \E taken, made, found : Turns(taken, made, found) /\ Booked(delta, taken, made, found)
<1>1. PICK kinds : kinds = RecordedOf(delta) OBVIOUS
<1>2. PICK outs : outs = [s \in kinds |-> OutputsOf(delta, s)] OBVIOUS
<1>3. PICK tabs : tabs = [s \in kinds |-> Observed(draw[s], outs[s])] OBVIOUS
<1>4. RefinesOf(tabs, kinds, draw, outs) BY <1>1, <1>2, <1>3, BookRefines
<1>5. \A s \in kinds : \E n \in Nat :
        DrawsTo(draw[s], n, s) /\ DrawnSum(draw[s], n) = QtyRecordable(s, delta)
  BY <1>1, <1>2, <1>3, BookRefines
<1>6. PICK all : all = Flat(tabs) OBVIOUS
<1>7. Combined(all, tabs, kinds) BY <1>3, <1>4, <1>6, FlatCombines
<1>8. PICK taken : taken = TakenBy(AllOf(kinds, draw)) OBVIOUS
<1>9. PICK made : made = Listed(all) OBVIOUS
<1>10. PICK found : found = Listed([t \in FoundOf(delta) |-> Found(t, delta[t])]) OBVIOUS
<1>11. /\ made \in Seq(LotRow) /\ MadeWell(made, taken)
       /\ \A t : Tally(UnitsIn(t), made) = SumFunctionOnSet([s \in kinds |-> UnitsAt(outs[s], t)], kinds)
  BY <1>4, <1>7, <1>8, <1>9, MadeIs
<1>12. Family(kinds, draw) BY <1>4, FamilyOf
<1>13. TakenOK(taken) BY <1>8, <1>12, FamilyDraws
<1>14. /\ found \in Seq(LotRow) /\ \A i \in DOMAIN found : found[i].source = "opening_balance"
       /\ \A t : Tally(UnitsIn(t), found) = IF t \in FoundOf(delta) THEN delta[t] ELSE 0
  <2>1. PICK T : T = FoundOf(delta) OBVIOUS
  <2>2. T \subseteq Types /\ \A t \in T : delta[t] \in Nat BY <2>1 DEF FoundOf
  <2>3. found = Listed([t \in T |-> Found(t, delta[t])]) BY <1>10, <2>1
  <2>4. FoundRows(found, T, delta) BY <2>2, <2>3, FoundAre
  <2> QED BY <2>1, <2>4 DEF FoundRows
<1>15. lots' = After(taken) \o (made \o found)
  <2>1. tabs = [s \in RecordedOf(delta) |-> Observed(draw[s], OutputsOf(delta, s))]
    BY <1>1, <1>2, <1>3
  <2>2. lots' = (After(taken) \o made) \o found
    BY <1>1, <1>6, <1>8, <1>9, <1>10, <2>1, ConsumedAfter DEF BookWrites
  <2>3. After(taken) \in Seq(LotRow) BY <1>13, AfterIs
  <2> QED BY <1>11, <1>14, <2>2, <2>3, ConcatAssociative
<1>16. Turns(taken, made, found) BY <1>11, <1>13, <1>14, <1>15 DEF Turns
<1>17. ASSUME NEW t
       PROVE  UsedOf(taken, t) = IF t \in RecordedOf(delta) THEN QtyRecordable(t, delta) ELSE 0
  <2>1. CASE t \in kinds
    <3>1. PICK n \in Nat : DrawsTo(draw[t], n, t) /\ DrawnSum(draw[t], n) = QtyRecordable(t, delta)
      BY <1>5, <2>1
    <3>2. UsedOf(taken, t) = DrawnSum(draw[t], n) BY <1>8, <1>12, <2>1, <3>1, FamilyDraws
    <3> QED BY <1>1, <2>1, <3>1, <3>2
  <2>2. CASE t \notin kinds
    <3>1. UsedOf(taken, t) = 0 BY <1>8, <1>12, <2>2, FamilyDraws
    <3> QED BY <1>1, <2>2, <3>1
  <2> QED BY <2>1, <2>2
<1>18. ASSUME NEW t
       PROVE  Tally(UnitsIn(t), made) = IF \E s \in RecordedOf(delta) : t \in DOMAIN OutputsOf(delta, s)
                                        THEN delta[t] ELSE 0
  <2>1. PICK g : g = [s \in kinds |-> UnitsAt(outs[s], t)] OBVIOUS
  <2>2. Tally(UnitsIn(t), made) = SumFunctionOnSet(g, kinds) BY <1>11, <2>1
  <2>3. IsFiniteSet(kinds) /\ kinds \subseteq SourcesOf(delta) BY <1>1, <1>4 DEF RefinesOf, RecordedOf
  <2>4. CASE \E s \in kinds : t \in DOMAIN OutputsOf(delta, s)
    <3>1. PICK s \in kinds : t \in DOMAIN OutputsOf(delta, s) BY <2>4
    <3>2. ClaimsBy(delta, s) BY <2>3, ClaimsAre
    <3>3. g[s] = delta[t] /\ g[s] \in Int /\ t \in Types
      <4>1. OutputsOf(delta, s)[t] = delta[t] /\ t \in Types BY <3>1, <3>2 DEF ClaimsBy, OutputsOK
      <4> QED BY <1>2, <2>1, <3>1, <4>1 DEF UnitsAt
    <3>4. \A r \in kinds \ {s} : g[r] = 0
      <4>1. \A r \in kinds \ {s} : t \notin DOMAIN OutputsOf(delta, r) BY <2>3, <3>1, HintedAre
      <4> QED BY <1>2, <2>1, <4>1 DEF UnitsAt
    <3>5. SumFunctionOnSet(g, kinds) = g[s] BY <2>3, <3>3, <3>4, SumOnOne
    <3> QED BY <1>1, <2>2, <2>4, <3>3, <3>5
  <2>5. CASE ~(\E s \in kinds : t \in DOMAIN OutputsOf(delta, s))
    <3>1. \A r \in kinds : g[r] = 0 BY <1>2, <2>1, <2>5 DEF UnitsAt
    <3>2. SumFunctionOnSet(g, kinds) = 0 BY <2>3, <3>1, SumOnZero
    <3> QED BY <1>1, <2>2, <2>5, <3>2
  <2> QED BY <2>4, <2>5
<1>19. Booked(delta, taken, made, found) BY <1>14, <1>17, <1>18 DEF Booked
<1> QED BY <1>16, <1>19

-----------------------------------------------------------------------------
(* What a step changed, told from the lots before and after *)

\* Rows of a list that stand in a longer one from m + 1 on, at S.
StandsIn(list, after, m, S) ==
    /\ list \in Seq(LotRow) /\ m \in Nat /\ S = m + 1 .. m + Len(list)
    /\ \A i \in 1..Len(list) : after[m + i] = list[i]

Reads(g, S, val, after) == \A l \in S : g[l] = val[after[l]]

LEMMA ShiftedSum ==
    ASSUME NEW list, NEW after, NEW m, NEW S, StandsIn(list, after, m, S),
           NEW val \in [LotRow -> Int], NEW g, Reads(g, S, val, after)
    PROVE  IsFiniteSet(S) /\ SumFunctionOnSet(g, S) = Tally(val, list)
<1>1. PICK n \in Nat : n = Len(list) /\ DOMAIN list = 1..n BY DEF StandsIn
<1>0. S = m + 1 .. m + n /\ \A l \in S : g[l] = val[after[l]] BY <1>1 DEF StandsIn, Reads
<1>2. m \in Nat /\ \A i \in 1..n : list[i] \in LotRow /\ after[m + i] = list[i]
  BY <1>1 DEF StandsIn
<1>3. PICK N : N = 1..n OBVIOUS
<1>4. PICK b : b = [i \in N |-> m + i] OBVIOUS
<1>5. \A x \in S : x \in Nat /\ x - m \in N /\ m + (x - m) = x BY <1>0, <1>2, <1>3
<1>6. b \in [N -> S] BY <1>0, <1>2, <1>3, <1>4
<1>7. \A i, j \in N : b[i] = b[j] => i = j BY <1>2, <1>3, <1>4
<1>8. \A x \in S : \E i \in N : b[i] = x BY <1>4, <1>5
<1>9. \A i \in N : b[i] \in S /\ g[b[i]] = val[list[i]] /\ val[list[i]] \in Int
  BY <1>0, <1>2, <1>3, <1>4, <1>6
<1>10. \A x \in S : g[x] \in Int BY <1>8, <1>9
<1>11. PICK f : f = [i \in N |-> val[list[i]]] OBVIOUS
<1>12. \A i \in N : f[i] = g[b[i]] BY <1>9, <1>11
<1>13. IsFiniteSet(N) BY <1>3, CountTo
<1>14. Renames(b, N, S, f, g) BY <1>6, <1>7, <1>8, <1>10, <1>12, <1>13 DEF Renames
<1>15. SumFunctionOnSet(f, N) = SumFunctionOnSet(g, S) BY <1>14, SumRenamed
<1>16. m + 1 \in Int /\ m + n \in Int BY <1>1, <1>2
<1>17. IsFiniteSet(S) BY <1>0, <1>16, FS_Interval
<1> QED BY <1>1, <1>3, <1>11, <1>15, <1>17 DEF Tally

LEMMA ShiftedUnits ==
    ASSUME NEW list, NEW after, NEW m, NEW S, StandsIn(list, after, m, S), NEW t
    PROVE  SumFunction([l \in {x \in S : after[x].type = t} |-> after[l].left]) = Tally(UnitsIn(t), list)
<1>1. PICK val : val = UnitsIn(t) OBVIOUS
<1>2. val \in [LotRow -> Int] /\ \A r \in LotRow : val[r] = IF r.type = t THEN r.left ELSE 0
  BY <1>1, UnitsInType
<1>3. PICK g : g = [l \in S |-> val[after[l]]] OBVIOUS
<1>4. IsFiniteSet(S) /\ SumFunctionOnSet(g, S) = Tally(val, list)
  <2>1. Reads(g, S, val, after) BY <1>3 DEF Reads
  <2>2. val \in [LotRow -> Int] BY <1>2
  <2> QED BY <2>1, <2>2, ShiftedSum
<1>5. ASSUME NEW l \in S PROVE after[l] \in LotRow
  <2>1. m \in Nat /\ Len(list) \in Nat /\ l - m \in 1..Len(list) /\ m + (l - m) = l BY DEF StandsIn
  <2>2. after[l] = list[l - m] /\ list[l - m] \in LotRow BY <2>1 DEF StandsIn
  <2> QED BY <2>2
<1>6. PICK P : P = {x \in S : after[x].type = t} OBVIOUS
<1>7. PICK f : f = [l \in P |-> after[l].left] OBVIOUS
<1>8. \A x \in S : g[x] \in Int BY <1>2, <1>3, <1>5
<1>9. \A x \in P : f[x] = g[x] BY <1>2, <1>3, <1>5, <1>6, <1>7
<1>10. \A x \in S \ P : g[x] = 0 BY <1>2, <1>3, <1>5, <1>6
<1>11. P \in SUBSET S BY <1>6
<1>12. SumFunctionOnSet(f, P) = SumFunctionOnSet(g, S)
  <2>1. IsFiniteSet(S) BY <1>4
  <2> QED BY <1>8, <1>9, <1>10, <1>11, <2>1, SumOnFilter
<1>13. SumFunction(f) = SumFunctionOnSet(f, P) BY <1>7 DEF SumFunction
<1> QED BY <1>1, <1>4, <1>6, <1>7, <1>12, <1>13

\* The lots after a step in terms of what it took, made and found.
Turned(taken, made, found) ==
    /\ lots' \in Seq(LotRow)
    /\ Drawn = LotsUsed(taken)
    /\ StandsIn(made, lots', Len(lots), Refined)
    /\ \A l \in DOMAIN lots : lots'[l].left = lots[l].left - taken[l]
    /\ \A t : /\ NewUnits(t) = Tally(UnitsIn(t), made) + Tally(UnitsIn(t), found)
              /\ UsedUnits(t) = UsedOf(taken, t)
              /\ SumFunction([l \in {x \in Refined : lots'[x].type = t} |-> lots'[l].left])
                   = Tally(UnitsIn(t), made)
              /\ Expected(t)' = Expected(t) - UsedOf(taken, t)
                                  + (Tally(UnitsIn(t), made) + Tally(UnitsIn(t), found))
              /\ Expected(t) \in Nat /\ UsedOf(taken, t) \in Nat /\ UsedOf(taken, t) <= Expected(t)
              /\ Tally(UnitsIn(t), made) \in Nat /\ Tally(UnitsIn(t), found) \in Nat

LEMMA TurnIs ==
    ASSUME lots \in Seq(LotRow), NEW taken, NEW made, NEW found, Turns(taken, made, found)
    PROVE  Turned(taken, made, found)
<1>1. /\ TakenOK(taken) /\ made \in Seq(LotRow) /\ found \in Seq(LotRow)
      /\ \A i \in DOMAIN found : found[i].source # "reprocess"
      /\ \A i \in DOMAIN made : made[i].source = "reprocess"
  BY DEF Turns, MadeWell, Heirs
<1>2. PICK rows : rows = made \o found OBVIOUS
<1>3. PICK after : after = lots' OBVIOUS
<1>4. after = After(taken) \o rows BY <1>2, <1>3 DEF Turns
<1>5. /\ rows \in Seq(LotRow) /\ Len(made) \in Nat /\ Len(found) \in Nat
      /\ Len(rows) = Len(made) + Len(found)
      /\ DOMAIN made = 1..Len(made) /\ DOMAIN found = 1..Len(found)
      /\ \A k \in 1..Len(made) : rows[k] = made[k]
      /\ \A k \in 1..Len(found) : rows[Len(made) + k] = found[k]
  BY <1>1, <1>2, Joined
<1>0. TurnedOver(taken, rows, after) BY <1>1, <1>4, <1>5, Turnover
<1>6. PICK m \in Nat : m = Len(lots) BY RowsOf
<1>7. PICK n \in Nat : n = Len(made) BY <1>5
<1>8. PICK k \in Nat : k = Len(found) BY <1>5
<1>9. /\ after \in Seq(LotRow) /\ Len(after) = m + (n + k) /\ DOMAIN lots = 1..m
      /\ \A l \in 1..m : after[l] = [lots[l] EXCEPT !.left = @ - taken[l]]
      /\ \A i \in 1..(n + k) : after[m + i] = rows[i]
  BY <1>5, <1>6, <1>7, <1>8, <1>0 DEF TurnedOver
<1>10. ASSUME NEW t
       PROVE  /\ ExpectedIn(after, t) = Expected(t) - UsedOf(taken, t) + Tally(UnitsIn(t), rows)
              /\ UsedOf(taken, t) \in Nat /\ Expected(t) \in Nat /\ UsedOf(taken, t) <= Expected(t)
  BY <1>0 DEF TurnedOver
<1>11. \A l \in 1..m : /\ lots[l] \in LotRow /\ lots[l].left \in Nat /\ taken[l] \in Nat
                       /\ taken[l] <= lots[l].left
                       /\ after[l].left = lots[l].left - taken[l]
  <2>1. \A l \in 1..m : lots[l] \in LotRow /\ lots[l].left \in Nat /\ taken[l] \in Nat /\ taken[l] <= lots[l].left
    BY <1>1, <1>9, RowsOf DEF TakenOK
  <2> QED BY <1>9, <2>1 DEF LotRow
<1>12. StandsIn(made, after, m, m + 1 .. m + n) BY <1>1, <1>5, <1>7, <1>8, <1>9 DEF StandsIn
<1>13. StandsIn(rows, after, m, m + 1 .. m + (n + k)) BY <1>5, <1>7, <1>8, <1>9 DEF StandsIn
<1>14. Drawn = LotsUsed(taken)
  <2>1. \A l \in DOMAIN lots : after[l].left < lots[l].left <=> taken[l] > 0 BY <1>9, <1>11
  <2> QED BY <1>3, <2>1 DEF Drawn, LotsUsed
<1>15. New = m + 1 .. m + (n + k) BY <1>3, <1>6, <1>9 DEF New
<1>16. Refined = m + 1 .. m + n
  <2>1. ASSUME NEW l \in New, l <= m + n PROVE after[l].source = "reprocess"
    <3>1. l - m \in 1..n /\ m + (l - m) = l /\ l - m \in 1..(n + k) BY <1>15, <2>1
    <3>2. after[l] = made[l - m] BY <1>5, <1>7, <1>9, <3>1
    <3> QED BY <1>1, <1>5, <1>7, <3>1, <3>2
  <2>2. ASSUME NEW l \in New, ~(l <= m + n) PROVE after[l].source # "reprocess"
    <3>1. l - m \in 1..(n + k) /\ m + (l - m) = l BY <1>15, <2>2
    <3>2. l - m - n \in 1..k /\ n + (l - m - n) = l - m BY <1>15, <2>2
    <3>3. after[l] = rows[l - m] BY <1>9, <3>1
    <3>4. rows[l - m] = found[l - m - n] BY <1>5, <1>7, <1>8, <3>2
    <3> QED BY <1>1, <1>5, <1>8, <3>2, <3>3, <3>4
  <2>3. Refined = {l \in New : after[l].source = "reprocess"} BY <1>3 DEF Refined
  <2>4. \A l \in Refined : l \in m + 1 .. m + n BY <1>15, <2>2, <2>3
  <2>5. \A l \in m + 1 .. m + n : l \in New /\ l <= m + n BY <1>15
  <2>6. \A l \in m + 1 .. m + n : l \in Refined BY <2>1, <2>3, <2>5
  <2> QED BY <2>4, <2>6
<1>17. ASSUME NEW t
       PROVE  Tally(UnitsIn(t), rows) = Tally(UnitsIn(t), made) + Tally(UnitsIn(t), found)
  <2>1. PICK val : val = UnitsIn(t) OBVIOUS
  <2>2. val \in [LotRow -> Int] BY <2>1, UnitsInType
  <2>3. Tally(val, made \o found) = Tally(val, made) + Tally(val, found) BY <1>1, <2>2, TallyJoined
  <2> QED BY <1>2, <2>1, <2>3
<1>18. ASSUME NEW t, NEW list \in Seq(LotRow) PROVE Tally(UnitsIn(t), list) \in Nat
  BY <1>18, ExpectedIs
<1>19. ASSUME NEW t PROVE NewUnits(t) = Tally(UnitsIn(t), rows)
  <2>1. StandsIn(rows, after, m, New) BY <1>13, <1>15
  <2>2. SumFunction([l \in {x \in New : after[x].type = t} |-> after[l].left]) = Tally(UnitsIn(t), rows)
    BY <2>1, ShiftedUnits
  <2> QED BY <1>3, <2>2 DEF NewUnits
<1>20. ASSUME NEW t
       PROVE  SumFunction([l \in {x \in Refined : lots'[x].type = t} |-> lots'[l].left])
                = Tally(UnitsIn(t), made)
  <2>1. PICK S : S = Refined OBVIOUS
  <2>2. StandsIn(made, after, m, S) BY <1>12, <1>16, <2>1
  <2>3. SumFunction([l \in {x \in S : after[x].type = t} |-> after[l].left]) = Tally(UnitsIn(t), made)
    BY <2>2, ShiftedUnits
  <2> QED BY <1>3, <2>1, <2>3
<1>21. ASSUME NEW t PROVE UsedUnits(t) = UsedOf(taken, t)
  <2>1. PICK g : g = [l \in DOMAIN lots |-> IF lots[l].type = t THEN taken[l] ELSE 0] OBVIOUS
  <2>2. UsedOf(taken, t) = SumFunctionOnSet(g, DOMAIN lots) BY <2>1 DEF UsedOf
  <2>3. PICK D : D = Drawn OBVIOUS
  <2>4. D = {l \in DOMAIN lots : taken[l] > 0} BY <1>14, <2>3 DEF LotsUsed
  <2>5. PICK P : P = {x \in D : lots[x].type = t} OBVIOUS
  <2>6. PICK f : f = [l \in P |-> lots[l].left - after[l].left] OBVIOUS
  <2>7. UsedUnits(t) = SumFunctionOnSet(f, P) BY <1>3, <2>3, <2>5, <2>6 DEF UsedUnits, SumFunction
  <2>8. P \in SUBSET DOMAIN lots /\ IsFiniteSet(DOMAIN lots) BY <2>4, <2>5, RowsOf
  <2>9. \A x \in DOMAIN lots : g[x] \in Int BY <1>9, <1>11, <2>1
  <2>10. \A x \in P : f[x] = g[x] BY <1>9, <1>11, <2>1, <2>4, <2>5, <2>6
  <2>11. \A x \in DOMAIN lots \ P : g[x] = 0 BY <1>9, <1>11, <2>1, <2>4, <2>5
  <2>12. SumFunctionOnSet(f, P) = SumFunctionOnSet(g, DOMAIN lots)
    <3>1. IsFiniteSet(P) BY <2>8, FS_Subset
    <3>2. SumFunctionOnSet(f, P) = SumFunctionOnSet(g, P) BY <2>10, <3>1, SumOnSame
    <3>3. SumFunctionOnSet(g, DOMAIN lots) = SumFunctionOnSet(g, P)
      BY <2>8, <2>9, <2>11, SumOnSupport
    <3> QED BY <3>2, <3>3
  <2> QED BY <2>2, <2>7, <2>12
<1>22. ASSUME NEW t PROVE Expected(t)' = ExpectedIn(after, t)
  BY <1>3 DEF Expected, OpenLots, ExpectedIn
<1>23. lots' \in Seq(LotRow) /\ StandsIn(made, lots', Len(lots), Refined)
  BY <1>3, <1>6, <1>9, <1>12, <1>16
<1>24. \A l \in DOMAIN lots : lots'[l].left = lots[l].left - taken[l] BY <1>3, <1>9, <1>11
<1>25. ASSUME NEW t
       PROVE  /\ NewUnits(t) = Tally(UnitsIn(t), made) + Tally(UnitsIn(t), found)
              /\ UsedUnits(t) = UsedOf(taken, t)
              /\ SumFunction([l \in {x \in Refined : lots'[x].type = t} |-> lots'[l].left])
                   = Tally(UnitsIn(t), made)
              /\ Expected(t)' = Expected(t) - UsedOf(taken, t)
                                  + (Tally(UnitsIn(t), made) + Tally(UnitsIn(t), found))
              /\ Expected(t) \in Nat /\ UsedOf(taken, t) \in Nat /\ UsedOf(taken, t) <= Expected(t)
              /\ Tally(UnitsIn(t), made) \in Nat /\ Tally(UnitsIn(t), found) \in Nat
  BY <1>1, <1>10, <1>17, <1>18, <1>19, <1>20, <1>21, <1>22
<1> QED BY <1>14, <1>23, <1>24, <1>25 DEF Turned

-----------------------------------------------------------------------------
(* Type correctness *)

CheckState == [step : {"idle", "fetched", "looked"}, counted : [Types -> Nat],
               delta : [Types -> Int], since : SUBSET {"world", "books", "check"}]
BooksOK ==
    /\ DOMAIN stock \subseteq Types /\ \A t \in DOMAIN stock : stock[t] \in Nat \ {0}
    /\ lots \in Seq(LotRow)
    /\ latest \in [Types -> Entry]
ClockOK ==
    /\ check \in [Checks -> CheckState] /\ changes \in 0..MaxChanges /\ settled \in BOOLEAN

LEMMA TypeParts ==
    StockTakeTypeOK <=> WorldOK /\ priced \subseteq Types /\ BooksOK /\ ClockOK
BY DEF StockTakeTypeOK, WorldOK, BooksOK, ClockOK, CheckState

LEMMA IdleIs == Idle \in CheckState /\ None \in [Types -> Nat]
<1>1. None \in [Types -> Nat] /\ None \in [Types -> Int] BY DEF None
<1> QED BY <1>1 DEF Idle, CheckState

LEMMA BoundsAre == MaxChanges \in Nat /\ MaxDelivery \in Nat /\ MaxRecorded \in Nat
BY StockTakeAssumption

LEMMA ChangeType ==
    ASSUME ClockOK, NEW what \in {"world", "books"}, Change(what) PROVE ClockOK'
<1>1. changes' \in 0..MaxChanges /\ settled' \in BOOLEAN
  <2>1. changes \in 0..MaxChanges /\ changes < MaxChanges /\ changes' = changes + 1 /\ settled' = FALSE
    BY DEF ClockOK, Change, Bounded
  <2>2. changes' \in 0..MaxChanges BY <2>1, BoundsAre
  <2>3. settled' \in BOOLEAN BY <2>1
  <2> QED BY <2>2, <2>3
<1>2. ASSUME NEW c \in Checks
      PROVE  (IF c \in Checks /\ check[c].step # "idle"
              THEN [check[c] EXCEPT !.since = @ \cup {what}] ELSE check[c]) \in CheckState
  <2>1. check[c] \in CheckState BY DEF ClockOK
  <2> QED BY <2>1 DEF CheckState
<1>3. check' \in [Checks -> CheckState] BY <1>2 DEF Change, Disturb
<1> QED BY <1>1, <1>3 DEF ClockOK

LEMMA WorldUnchanged ==
    ASSUME WorldOK, UNCHANGED <<world, marks>> PROVE WorldOK'
BY DEF WorldOK, world

LEMMA BooksUnchanged ==
    ASSUME BooksOK, UNCHANGED books PROVE BooksOK'
BY DEF BooksOK, books

\* What a refine of whole batches leaves.
LEMMA RefineType ==
    ASSUME WorldOK, NEW s \in Spots, NEW t \in Stackable, Refine(s, t)
    PROVE  goods' \in [Spots -> [Stackable -> Nat]]
<1>1. PICK p \in Nat \ {0} : p = Portion[t] BY SpotsKnown, RefiningAssumption
<1>2. PICK q \in Nat : q = goods[s][t] BY DEF WorldOK
<1>3. PICK n \in 1..(goods[s][t] \div Portion[t]) : \E good \in BOOLEAN :
        goods' = [goods EXCEPT ![s] = [m \in Stackable |->
           @[m] + (IF m \notin DOMAIN Materials[t] THEN 0
                   ELSE IF good THEN n * Materials[t][m]
                   ELSE (n * Materials[t][m] * Yield[1]) \div Yield[2])
                - IF m = t THEN n * Portion[t] ELSE 0]]
  BY DEF Refine
<1>4. PICK good \in BOOLEAN :
        goods' = [goods EXCEPT ![s] = [m \in Stackable |->
           @[m] + (IF m \notin DOMAIN Materials[t] THEN 0
                   ELSE IF good THEN n * Materials[t][m]
                   ELSE (n * Materials[t][m] * Yield[1]) \div Yield[2])
                - IF m = t THEN n * Portion[t] ELSE 0]]
  BY <1>3
<1>5. PICK f : f = [m \in Stackable |->
           goods[s][m] + (IF m \notin DOMAIN Materials[t] THEN 0
                          ELSE IF good THEN n * Materials[t][m]
                          ELSE (n * Materials[t][m] * Yield[1]) \div Yield[2])
                - IF m = t THEN n * Portion[t] ELSE 0]
  OBVIOUS
<1>6. n \in Nat /\ n * p <= q
  <2>1. PICK w \in Nat : w = q \div p /\ p * w <= q BY <1>1, <1>2, WholeAndRest
  <2>2. n \in Nat /\ n <= w BY <1>1, <1>2, <2>1
  <2>3. n * p <= p * w BY <1>1, <2>1, <2>2
  <2> QED BY <1>1, <1>2, <2>1, <2>2, <2>3
<1>7. ASSUME NEW m \in Stackable PROVE f[m] \in Nat
  <2>1. goods[s][m] \in Nat /\ m \in Types /\ t \in Types BY SpotsKnown DEF WorldOK
  <2>2. PICK g : g = IF m \notin DOMAIN Materials[t] THEN 0
                     ELSE IF good THEN n * Materials[t][m]
                     ELSE (n * Materials[t][m] * Yield[1]) \div Yield[2]
    OBVIOUS
  <2>3. g \in Nat
    <3>1. CASE m \notin DOMAIN Materials[t] BY <2>2, <3>1
    <3>2. CASE m \in DOMAIN Materials[t]
      <4>1. PICK y \in Nat : y = Materials[t][m] BY <2>1, <3>2, RefiningAssumption
      <4>2. PICK a \in Nat : a = n * y BY <1>6, <4>1
      <4>3. PICK u \in Nat : u = Yield[1] BY RefiningAssumption
      <4>4. PICK v \in Nat : v = Yield[2] /\ v > 0 BY RefiningAssumption
      <4>5. PICK b \in Nat : b = a * u BY <4>2, <4>3
      <4>6. b \div v \in Nat BY <4>4, <4>5, WholeAndRest
      <4> QED BY <2>2, <3>2, <4>1, <4>2, <4>3, <4>4, <4>5, <4>6
    <3> QED BY <3>1, <3>2
  <2>4. f[m] = goods[s][m] + g - IF m = t THEN n * p ELSE 0 BY <1>1, <1>5, <2>2
  <2>5. CASE m = t
    <3>1. f[m] = q + g - n * p BY <1>2, <2>4, <2>5
    <3>2. PICK x \in Nat : x = n * p BY <1>1, <1>6
    <3> QED BY <1>2, <1>6, <2>3, <3>1, <3>2
  <2>6. CASE m # t BY <2>1, <2>3, <2>4, <2>6
  <2> QED BY <2>5, <2>6
<1>8. f \in [Stackable -> Nat] BY <1>5, <1>7
<1>9. goods' = [goods EXCEPT ![s] = f] BY <1>4, <1>5 DEF WorldOK
<1> QED BY <1>8, <1>9 DEF WorldOK

\* Everything that happens in the world, to the marks and to the prices.
Around ==
    \/ \E s \in Spots, t \in Stackable : Refine(s, t) \/ TakeAway(s, t)
    \/ \E s \in Docks, t \in Stackable : Deliver(s, t)
    \/ \E r \in Routes, t \in Stackable : Stow(r[1], r[2], t)
    \/ \E d \in Divisions : MoveBox(d) \/ Mark(d) \/ Unmark(d)
    \/ \E t \in Types : PriceChanges(t)

LEMMA WaysKnown ==
    /\ Docks \subseteq Spots
    /\ \A r \in Routes : r[1] \in Spots /\ r[2] \in Spots
BY StockTakeAssumption

LEMMA AroundType ==
    ASSUME StockTakeTypeOK, Around
    PROVE  StockTakeTypeOK' /\ Change("world") /\ UNCHANGED <<lots, latest>>
<1>0. WorldOK /\ priced \subseteq Types /\ BooksOK /\ ClockOK BY TypeParts
<1>1. SUFFICES /\ WorldOK' /\ priced' \subseteq Types /\ BooksOK' /\ Change("world")
               /\ UNCHANGED <<lots, latest>>
  <2>1. "world" \in {"world", "books"} OBVIOUS
  <2>2. Change("world") => ClockOK' BY <1>0, <2>1, ChangeType
  <2>3. (WorldOK /\ priced \subseteq Types /\ BooksOK /\ ClockOK)' => StockTakeTypeOK'
    BY TypeParts, PTL
  <2> QED BY <2>2, <2>3
<1>2. ASSUME NEW s \in Spots, NEW t \in Stackable, Refine(s, t)
      PROVE  /\ WorldOK' /\ priced' \subseteq Types /\ BooksOK' /\ Change("world")
             /\ UNCHANGED <<lots, latest>>
  <2>1. goods' \in [Spots -> [Stackable -> Nat]] BY <1>0, <1>2, RefineType
  <2>2. Change("world") /\ UNCHANGED <<boxAt, marks, books, priced>> BY <1>2 DEF Refine
  <2> QED BY <1>0, <2>1, <2>2, BooksUnchanged DEF WorldOK, books
<1>3. ASSUME NEW s \in Spots, NEW t \in Stackable, TakeAway(s, t)
      PROVE  /\ WorldOK' /\ priced' \subseteq Types /\ BooksOK' /\ Change("world")
             /\ UNCHANGED <<lots, latest>>
  <2>1. goods' \in [Spots -> [Stackable -> Nat]] BY <1>0, <1>3 DEF TakeAway, WorldOK
  <2>2. Change("world") /\ UNCHANGED <<boxAt, marks, books, priced>> BY <1>3 DEF TakeAway
  <2> QED BY <1>0, <2>1, <2>2, BooksUnchanged DEF WorldOK, books
<1>4. ASSUME NEW s \in Docks, NEW t \in Stackable, Deliver(s, t)
      PROVE  /\ WorldOK' /\ priced' \subseteq Types /\ BooksOK' /\ Change("world")
             /\ UNCHANGED <<lots, latest>>
  <2>1. goods' \in [Spots -> [Stackable -> Nat]]
    BY <1>0, <1>4, BoundsAre, WaysKnown DEF Deliver, WorldOK
  <2>2. Change("world") /\ UNCHANGED <<boxAt, marks, books, priced>> BY <1>4 DEF Deliver
  <2> QED BY <1>0, <2>1, <2>2, BooksUnchanged DEF WorldOK, books
<1>5. ASSUME NEW r \in Routes, NEW t \in Stackable, Stow(r[1], r[2], t)
      PROVE  /\ WorldOK' /\ priced' \subseteq Types /\ BooksOK' /\ Change("world")
             /\ UNCHANGED <<lots, latest>>
  <2>1. goods' \in [Spots -> [Stackable -> Nat]]
    <3>1. PICK from \in Spots : from = r[1] BY WaysKnown
    <3>2. PICK to \in Spots : to = r[2] BY WaysKnown
    <3>3. goods' = [[goods EXCEPT ![from][t] = 0] EXCEPT ![to][t] = @ + goods[from][t]]
      BY <1>5, <3>1, <3>2 DEF Stow
    <3>4. PICK q \in Nat : q = goods[from][t] BY <1>0 DEF WorldOK
    <3>5. PICK g : g = [goods EXCEPT ![from][t] = 0] OBVIOUS
    <3>6. g \in [Spots -> [Stackable -> Nat]] BY <1>0, <3>5 DEF WorldOK
    <3>7. goods' = [g EXCEPT ![to][t] = @ + q] BY <3>3, <3>4, <3>5
    <3> QED BY <3>4, <3>6, <3>7
  <2>2. Change("world") /\ UNCHANGED <<boxAt, marks, books, priced>> BY <1>5 DEF Stow
  <2> QED BY <1>0, <2>1, <2>2, BooksUnchanged DEF WorldOK, books
<1>6. ASSUME NEW d \in Divisions, MoveBox(d) \/ Mark(d)
      PROVE  /\ WorldOK' /\ priced' \subseteq Types /\ BooksOK' /\ Change("world")
             /\ UNCHANGED <<lots, latest>>
  <2>1. Change("world") /\ UNCHANGED <<goods, books, priced>> BY <1>6 DEF MoveBox, Mark, world
  <2>2. boxAt' \in Divisions /\ marks' \subseteq Divisions
    BY <1>0, <1>6 DEF MoveBox, Mark, WorldOK, world
  <2> QED BY <1>0, <2>1, <2>2, BooksUnchanged DEF WorldOK, books
<1>7. ASSUME NEW d \in Divisions, Unmark(d)
      PROVE  /\ WorldOK' /\ priced' \subseteq Types /\ BooksOK' /\ Change("world")
             /\ UNCHANGED <<lots, latest>>
  <2>1. Change("world") /\ UNCHANGED <<goods, boxAt, lots, latest, priced>> BY <1>7 DEF Unmark, world
  <2>2. marks' \subseteq Divisions BY <1>0, <1>7 DEF Unmark, WorldOK
  <2>3. stock' = NoStock \/ stock' = stock BY <1>7 DEF Unmark
  <2>4. BooksOK' BY <1>0, <2>1, <2>3 DEF BooksOK, NoStock
  <2> QED BY <1>0, <2>1, <2>2, <2>4 DEF WorldOK
<1>8. ASSUME NEW t \in Types, PriceChanges(t)
      PROVE  /\ WorldOK' /\ priced' \subseteq Types /\ BooksOK' /\ Change("world")
             /\ UNCHANGED <<lots, latest>>
  <2>1. Change("world") /\ UNCHANGED <<world, marks, books>> BY <1>8 DEF PriceChanges
  <2>2. priced' \subseteq Types BY <1>0, <1>8 DEF PriceChanges
  <2> QED BY <1>0, <2>1, <2>2, WorldUnchanged, BooksUnchanged DEF books
<1> QED BY <1>2, <1>3, <1>4, <1>5, <1>6, <1>7, <1>8 DEF Around

-----------------------------------------------------------------------------
(* The steps and what they leave alone *)

\* What a check logs of a type, and what it may log last of a type it refined.
RemainderOf(delta, s) == -delta[s] - QtyRecordable(s, delta)
LeftoverOf(delta) ==
    {s \in RecordedOf(delta) : /\ RemainderOf(delta, s) > 0
                               /\ ~Logged(s, "shortfall", RemainderOf(delta, s))}
SeenOf(delta, t) ==
    IF t \in RecordedOf(delta) THEN Event("reprocess_recorded", QtyRecordable(t, delta), FALSE)
    ELSE IF t \in SourcesOf(delta) THEN Event("reprocess_hint", -delta[t], FALSE)
    ELSE IF t \in HintedOf(delta) \/ delta[t] = 0 THEN latest[t]
    ELSE IF delta[t] < 0 THEN Event("shortfall", -delta[t], FALSE)
    ELSE Event("excess", delta[t], t \in FoundOf(delta))
BookLogs(delta, last) ==
    /\ last \subseteq LeftoverOf(delta)
    /\ latest' = [t \in Types |-> IF t \in last THEN Event("shortfall", RemainderOf(delta, t), FALSE)
                                  ELSE SeenOf(delta, t)]

LEMMA BookLogsIs ==
    ASSUME NEW c \in Checks, Book(c), NEW delta, delta = check[c].delta
    PROVE  \E last : BookLogs(delta, last)
<1>1. PICK last \in SUBSET LeftoverOf(check[c].delta) :
        latest' = [t \in Types |-> IF t \in last
                                   THEN Event("shortfall", RemainderOf(check[c].delta, t), FALSE)
                                   ELSE SeenOf(check[c].delta, t)]
  BY DEF Book, LeftoverOf, RemainderOf, SeenOf, RecordedOf, SourcesOf, HintedOf, FoundOf
<1> QED BY <1>1 DEF BookLogs

LEMMA EventType ==
    ASSUME NEW kind \in {"none", "excess", "shortfall", "reprocess_hint", "reprocess_recorded"},
           NEW qty \in Nat, NEW lot \in BOOLEAN
    PROVE  Event(kind, qty, lot) \in Entry
BY DEF Event, Entry

LEMMA LogType ==
    ASSUME NEW delta \in [Types -> Int], latest \in [Types -> Entry],
           NEW last, BookLogs(delta, last)
    PROVE  latest' \in [Types -> Entry]
<1>1. SUFFICES ASSUME NEW t \in Types
               PROVE  (IF t \in last THEN Event("shortfall", RemainderOf(delta, t), FALSE)
                       ELSE SeenOf(delta, t)) \in Entry
  BY DEF BookLogs
<1>2. delta[t] \in Int OBVIOUS
<1>3. ASSUME t \in SourcesOf(delta)
      PROVE  QtyRecordable(t, delta) \in Nat /\ delta[t] < 0 /\ RemainderOf(delta, t) \in Int
  BY <1>3, ClaimsAre DEF ClaimsBy, RemainderOf
<1>4. ASSUME t \in last PROVE Event("shortfall", RemainderOf(delta, t), FALSE) \in Entry
  <2>1. t \in SourcesOf(delta) /\ RemainderOf(delta, t) > 0
    BY <1>4 DEF BookLogs, LeftoverOf, RecordedOf
  <2>2. RemainderOf(delta, t) \in Nat BY <1>3, <2>1
  <2> QED BY <2>2, EventType
<1>5. SeenOf(delta, t) \in Entry
  <2>1. ASSUME t \in RecordedOf(delta)
        PROVE  Event("reprocess_recorded", QtyRecordable(t, delta), FALSE) \in Entry
    BY <1>3, <2>1, EventType DEF RecordedOf
  <2>2. ASSUME t \in SourcesOf(delta) PROVE Event("reprocess_hint", -delta[t], FALSE) \in Entry
    <3>1. -delta[t] \in Nat BY <1>2, <1>3, <2>2
    <3> QED BY <3>1, EventType
  <2>3. latest[t] \in Entry OBVIOUS
  <2>4. ASSUME delta[t] < 0 PROVE Event("shortfall", -delta[t], FALSE) \in Entry
    <3>1. -delta[t] \in Nat BY <1>2, <2>4
    <3> QED BY <3>1, EventType
  <2>5. ASSUME ~(delta[t] < 0) PROVE Event("excess", delta[t], t \in FoundOf(delta)) \in Entry
    <3>1. delta[t] \in Nat BY <1>2, <2>5
    <3>2. (t \in FoundOf(delta)) \in BOOLEAN OBVIOUS
    <3> QED BY <3>1, <3>2, EventType
  <2> QED BY <2>1, <2>2, <2>3, <2>4, <2>5 DEF SeenOf
<1> QED BY <1>4, <1>5

LEMMA PositiveIs ==
    ASSUME NEW f \in [Types -> Nat]
    PROVE  /\ DOMAIN Positive(f) \subseteq Types
           /\ \A t \in DOMAIN Positive(f) : Positive(f)[t] \in Nat \ {0}
BY DEF Positive, Restrict

LEMMA CheckStateIs ==
    ASSUME ClockOK, NEW c \in Checks
    PROVE  /\ check[c] \in CheckState /\ check[c].step \in {"idle", "fetched", "looked"}
           /\ check[c].counted \in [Types -> Nat] /\ check[c].delta \in [Types -> Int]
           /\ check[c].since \subseteq {"world", "books", "check"}
BY DEF ClockOK, CheckState

\* Books change by a turnover of the lots.
LEMMA LedgerType ==
    ASSUME StockTakeTypeOK, NEW taken, NEW made, NEW found, Turns(taken, made, found),
           UNCHANGED <<world, marks, latest, stock, priced>>, NEW what \in {"world", "books"}, Change(what)
    PROVE  StockTakeTypeOK'
<1>1. WorldOK /\ priced \subseteq Types /\ BooksOK /\ ClockOK BY TypeParts
<1>2. lots \in Seq(LotRow) BY <1>1 DEF BooksOK
<1>3. lots' \in Seq(LotRow) BY <1>2, TurnIs DEF Turned
<1>4. BooksOK' BY <1>1, <1>3 DEF BooksOK
<1>5. WorldOK' BY <1>1 DEF WorldOK, world
<1>6. ClockOK' BY <1>1, ChangeType
<1>7. priced' \subseteq Types BY <1>1
<1>8. (WorldOK /\ priced \subseteq Types /\ BooksOK /\ ClockOK)' => StockTakeTypeOK'
  BY TypeParts, PTL
<1> QED BY <1>4, <1>5, <1>6, <1>7, <1>8

LEMMA BookType ==
    ASSUME StockTakeTypeOK, NEW c \in Checks, Book(c)
    PROVE  StockTakeTypeOK'
<1>1. WorldOK /\ priced \subseteq Types /\ BooksOK /\ ClockOK BY TypeParts
<1>2. lots \in Seq(LotRow) /\ latest \in [Types -> Entry] BY <1>1 DEF BooksOK
<1>3. PICK delta \in [Types -> Int] : delta = check[c].delta BY <1>1, CheckStateIs
<1>4. PICK draw : BookWrites(delta, draw) BY <1>3, BookIs
<1>5. PICK taken, made, found : Turns(taken, made, found) BY <1>2, <1>3, <1>4, BookTurns
<1>6. lots' \in Seq(LotRow) BY <1>2, <1>5, TurnIs DEF Turned
<1>7. PICK last : BookLogs(delta, last) BY <1>3, BookLogsIs
<1>8. latest' \in [Types -> Entry] BY <1>2, <1>7, LogType
<1>9. /\ stock' = Positive(check[c].counted)
      /\ check' = [d \in Checks |->
                     IF d = c THEN Idle
                     ELSE IF check[d].step = "idle" THEN check[d]
                     ELSE [check[d] EXCEPT !.since = @ \cup {"check"}]]
      /\ settled' = (check[c].since = {})
      /\ UNCHANGED <<world, marks, priced, changes>>
  BY DEF Book
<1>10. DOMAIN stock' \subseteq Types /\ \A t \in DOMAIN stock' : stock'[t] \in Nat \ {0}
  <2>1. check[c].counted \in [Types -> Nat] BY <1>1, CheckStateIs
  <2> QED BY <1>9, <2>1, PositiveIs
<1>11. BooksOK' BY <1>6, <1>8, <1>10 DEF BooksOK
<1>12. check' \in [Checks -> CheckState]
  <2>1. ASSUME NEW d \in Checks PROVE [check[d] EXCEPT !.since = @ \cup {"check"}] \in CheckState
    <3>1. check[d] \in CheckState BY <1>1, CheckStateIs
    <3> QED BY <3>1 DEF CheckState
  <2>2. \A d \in Checks : check[d] \in CheckState BY <1>1, CheckStateIs
  <2> QED BY <1>9, <2>1, <2>2, IdleIs
<1>13. settled' \in BOOLEAN BY <1>9
<1>14. changes' \in 0..MaxChanges BY <1>1, <1>9 DEF ClockOK
<1>15. ClockOK' BY <1>12, <1>13, <1>14 DEF ClockOK
<1>16. WorldOK' /\ priced' \subseteq Types BY <1>1, <1>9, WorldUnchanged
<1>17. (WorldOK /\ priced \subseteq Types /\ BooksOK /\ ClockOK)' => StockTakeTypeOK'
  BY TypeParts, PTL
<1> QED BY <1>11, <1>15, <1>16, <1>17

LEMMA EarlyStepsType ==
    ASSUME StockTakeTypeOK, NEW c \in Checks, Fetch(c) \/ Look(c) \/ Clash(c)
    PROVE  StockTakeTypeOK' /\ UNCHANGED lots
<1>1. WorldOK /\ priced \subseteq Types /\ BooksOK /\ ClockOK BY TypeParts
<1>2. UNCHANGED <<world, marks, books, priced, changes>> BY DEF Fetch, Look, Clash
<1>3. WorldOK' /\ priced' \subseteq Types /\ BooksOK' BY <1>1, <1>2, WorldUnchanged, BooksUnchanged
<1>4. settled' \in BOOLEAN /\ changes' \in 0..MaxChanges
  <2>1. settled' = FALSE \/ settled' = settled BY DEF Fetch, Look, Clash
  <2>2. settled' \in BOOLEAN BY <1>1, <2>1 DEF ClockOK
  <2>3. changes' \in 0..MaxChanges BY <1>1, <1>2 DEF ClockOK
  <2> QED BY <2>2, <2>3
<1>5. \E s \in CheckState : check' = [check EXCEPT ![c] = s]
  <2>1. CASE Fetch(c)
    <3>1. PICK counted \in {IF marks = {} THEN None ELSE HangarCounts(Assets, marks)} :
            check' = [check EXCEPT ![c] = [Idle EXCEPT !.step = "fetched", !.counted = counted]]
      BY <2>1 DEF Fetch
    <3>2. HangarCounts(Assets, marks) \in [Types -> Nat] BY <1>1, CountsTrue
    <3>3. counted \in [Types -> Nat] BY <3>1, <3>2, IdleIs
    <3>4. [Idle EXCEPT !.step = "fetched", !.counted = counted] \in CheckState
      BY <3>3, IdleIs DEF CheckState
    <3> QED BY <3>1, <3>4
  <2>2. CASE Look(c)
    <3>1. PICK d : d = [t \in Types |-> check[c].counted[t] - Expected(t)] OBVIOUS
    <3>2. d \in [Types -> Int]
      <4>1. ASSUME NEW t \in Types PROVE check[c].counted[t] - Expected(t) \in Int
        <5>1. check[c].counted[t] \in Nat BY <1>1, CheckStateIs
        <5>2. Expected(t) \in Nat BY <1>1, ExpectedNow, ExpectedIs DEF BooksOK
        <5> QED BY <5>1, <5>2
      <4> QED BY <3>1, <4>1
    <3>3. [check[c] EXCEPT !.step = "looked", !.delta = d] \in CheckState
      <4>1. check[c] \in CheckState BY <1>1, CheckStateIs
      <4> QED BY <3>2, <4>1 DEF CheckState
    <3>4. check' = [check EXCEPT ![c] = IF marks = {} THEN Idle
                                        ELSE [check[c] EXCEPT !.step = "looked", !.delta = d]]
      BY <2>2, <3>1 DEF Look
    <3> QED BY <3>3, <3>4, IdleIs
  <2>3. CASE Clash(c) BY <2>3, IdleIs DEF Clash
  <2> QED BY <2>1, <2>2, <2>3
<1>6. check' \in [Checks -> CheckState] BY <1>1, <1>5 DEF ClockOK
<1>7. ClockOK' BY <1>4, <1>6 DEF ClockOK
<1>8. (WorldOK /\ priced \subseteq Types /\ BooksOK /\ ClockOK)' => StockTakeTypeOK'
  BY TypeParts, PTL
<1> QED BY <1>2, <1>3, <1>7, <1>8 DEF books

LEMMA StockTakeInitType ==
    StockTakeInit => StockTakeTypeOK
<1> SUFFICES ASSUME StockTakeInit PROVE StockTakeTypeOK OBVIOUS
<1>1. PICK s \in Start : goods = s.goods /\ boxAt = s.box /\ marks = s.marks BY DEF StockTakeInit
<1>2. s \in [goods : [Spots -> [Types \ {Box} -> Nat]], box : Divisions, marks : SUBSET Divisions]
  BY StockTakeAssumption
<1>3. WorldOK BY <1>1, <1>2 DEF WorldOK, Stackable
<1>4. priced \subseteq Types BY DEF StockTakeInit
<1>5. latest \in [Types -> Entry]
  <2>1. NoEvent \in Entry BY DEF NoEvent, Entry
  <2> QED BY <2>1 DEF StockTakeInit
<1>6. BooksOK BY <1>5, StockTakeAssumption DEF BooksOK, StockTakeInit, NoStock
<1>7. settled \in BOOLEAN BY DEF StockTakeInit
<1>8. check \in [Checks -> CheckState] BY IdleIs DEF StockTakeInit
<1>9. changes \in 0..MaxChanges BY BoundsAre DEF StockTakeInit
<1>10. ClockOK BY <1>7, <1>8, <1>9 DEF ClockOK
<1> QED BY <1>3, <1>4, <1>6, <1>10, TypeParts

LEMMA StockTakeSteps ==
    ASSUME StockTakeNext
    PROVE  \/ Around
           \/ \E t \in Types : Sell(t)
           \/ \E l \in DOMAIN lots, qty \in 1..MaxRecorded : RecordReprocess(l, qty)
           \/ \E c \in Checks : Fetch(c) \/ Look(c) \/ Clash(c)
           \/ \E c \in Checks : Book(c)
BY DEF StockTakeNext, Around, Check

\* What the books take part in besides a check: a sale, and a refine recorded by hand.
LEMMA LedgerSteps ==
    ASSUME StockTakeTypeOK,
           \/ \E t \in Types : Sell(t)
           \/ \E l \in DOMAIN lots, qty \in 1..MaxRecorded : RecordReprocess(l, qty)
    PROVE  /\ \E taken, made : Turns(taken, made, <<>>)
           /\ UNCHANGED <<world, marks, latest, stock, priced>>
           /\ \E what \in {"world", "books"} :
                 /\ Change(what)
                 /\ what = "world" => \E taken : Turns(taken, <<>>, <<>>)
<1>1. lots \in Seq(LotRow) BY TypeParts DEF BooksOK
<1>2. ASSUME NEW t \in Types, Sell(t)
      PROVE  /\ \E taken, made : Turns(taken, made, <<>>)
             /\ UNCHANGED <<world, marks, latest, stock, priced>>
             /\ \E what \in {"world", "books"} :
                   /\ Change(what)
                   /\ what = "world" => \E taken : Turns(taken, <<>>, <<>>)
  <2>1. PICK taken : Turns(taken, <<>>, <<>>) BY <1>1, <1>2, SellTurns
  <2>2. Change("world") /\ UNCHANGED <<world, marks, latest, stock, priced>> BY <1>2 DEF Sell
  <2> QED BY <2>1, <2>2
<1>3. ASSUME NEW l \in DOMAIN lots, NEW qty \in 1..MaxRecorded, RecordReprocess(l, qty)
      PROVE  /\ \E taken, made : Turns(taken, made, <<>>)
             /\ UNCHANGED <<world, marks, latest, stock, priced>>
             /\ \E what \in {"world", "books"} :
                   /\ Change(what)
                   /\ what = "world" => \E taken : Turns(taken, <<>>, <<>>)
  <2>1. \E taken, made : Turns(taken, made, <<>>) BY <1>1, <1>3, RecordTurns
  <2>2. Change("books") /\ UNCHANGED <<world, marks, latest, stock, priced>>
    BY <1>3 DEF RecordReprocess
  <2> QED BY <2>1, <2>2
<1> QED BY <1>2, <1>3

LEMMA StockTakeStepType ==
    ASSUME StockTakeTypeOK, [StockTakeNext]_stockTakeVars
    PROVE  StockTakeTypeOK'
<1>1. CASE UNCHANGED stockTakeVars
  BY <1>1 DEF StockTakeTypeOK, stockTakeVars, world, books
<1>2. CASE Around BY <1>2, AroundType
<1>3. CASE \/ \E t \in Types : Sell(t)
           \/ \E l \in DOMAIN lots, qty \in 1..MaxRecorded : RecordReprocess(l, qty)
  <2>1. PICK taken, made : Turns(taken, made, <<>>) BY <1>3, LedgerSteps
  <2>2. UNCHANGED <<world, marks, latest, stock, priced>> BY <1>3, LedgerSteps
  <2>3. PICK what \in {"world", "books"} : Change(what) BY <1>3, LedgerSteps
  <2> QED BY <2>1, <2>2, <2>3, LedgerType
<1>4. CASE \E c \in Checks : Fetch(c) \/ Look(c) \/ Clash(c) BY <1>4, EarlyStepsType
<1>5. CASE \E c \in Checks : Book(c) BY <1>5, BookType
<1> QED BY <1>1, <1>2, <1>3, <1>4, <1>5, StockTakeSteps

LEMMA StockTakeTypeCorrect == StockTakeSpec => []StockTakeTypeOK
<1>1. StockTakeTypeOK /\ [StockTakeNext]_stockTakeVars => StockTakeTypeOK' BY StockTakeStepType
<1> QED BY <1>1, StockTakeInitType, PTL DEF StockTakeSpec

\* The stock-take counts what is inside the marked divisions, no more and no
\* less, whatever was refined, delivered, stowed and booked before.
THEOREM TheCountIsTrue == StockTakeSpec => []CountsSound
<1>1. StockTakeTypeOK => CountsSound
  <2>1. StockTakeTypeOK => WorldOK BY TypeParts
  <2> QED BY <2>1, CountsTrue DEF CountsSound
<1> QED BY <1>1, StockTakeTypeCorrect, PTL

-----------------------------------------------------------------------------
(* The inductive invariant of the stock-take *)

\* One check at a time holds the row of hangar_sync.
OneLooks == \A c, d \in Checks : check[c].step = "looked" /\ check[d].step = "looked" => c = d

\* While no refine is recorded by hand, the books plus what a check will book
\* stay at or below what it counted.
NotAbove ==
    \A c \in Checks : check[c].step = "looked" /\ "books" \notin check[c].since =>
       \A t \in Types : Expected(t) + check[c].delta[t] <= check[c].counted[t]

\* What an undisturbed check compared is still so.
Exact ==
    \A c \in Checks : check[c].step = "looked" /\ check[c].since = {} =>
       \A t \in Types : Expected(t) + check[c].delta[t] = check[c].counted[t]
Seen ==
    \A c \in Checks : check[c].step # "idle" /\ check[c].since = {} /\ marks # {} =>
       \A t \in Types : check[c].counted[t] = Inventory(t)

StockTakeInv == StockTakeTypeOK /\ OneLooks /\ NotAbove /\ Exact /\ Seen /\ ChecksSettle

-----------------------------------------------------------------------------
(* What disturbs a check *)

\* A change reaches every check under way; no check takes a step by it.
LEMMA ChangeMarks ==
    ASSUME ClockOK, NEW what \in {"world", "books"}, Change(what), NEW c \in Checks
    PROVE  /\ check'[c].step = check[c].step /\ check'[c].delta = check[c].delta
           /\ check'[c].counted = check[c].counted
           /\ check[c].step # "idle" => check'[c].since = check[c].since \cup {what}
           /\ settled' = FALSE
<1>1. check[c] \in CheckState BY CheckStateIs
<1>2. check'[c] = IF check[c].step # "idle" THEN [check[c] EXCEPT !.since = @ \cup {what}]
                  ELSE check[c]
  BY DEF Change, Disturb
<1>3. settled' = FALSE BY DEF Change, Bounded
<1> QED BY <1>1, <1>2, <1>3 DEF CheckState

\* A check that books ends; the others under way learn of it.
LEMMA BookMarks ==
    ASSUME ClockOK, NEW c \in Checks, Book(c)
    PROVE  /\ check[c].step = "looked" /\ check'[c] = Idle /\ check'[c].step = "idle"
           /\ \A d \in Checks \ {c} :
                /\ check'[d].step = check[d].step /\ check'[d].delta = check[d].delta
                /\ check'[d].counted = check[d].counted
                /\ check[d].step # "idle" => check'[d].since = check[d].since \cup {"check"}
<1>1. check' = [d \in Checks |->
                  IF d = c THEN Idle
                  ELSE IF check[d].step = "idle" THEN check[d]
                  ELSE [check[d] EXCEPT !.since = @ \cup {"check"}]]
  BY DEF Book
<1>2. check[c].step = "looked" BY DEF Book
<1>3. check'[c] = Idle /\ Idle.step = "idle" BY <1>1 DEF Idle
<1>4. ASSUME NEW d \in Checks \ {c}
      PROVE  /\ check'[d].step = check[d].step /\ check'[d].delta = check[d].delta
             /\ check'[d].counted = check[d].counted
             /\ check[d].step # "idle" => check'[d].since = check[d].since \cup {"check"}
  <2>1. check[d] \in CheckState BY CheckStateIs
  <2>2. check'[d] = IF check[d].step = "idle" THEN check[d]
                    ELSE [check[d] EXCEPT !.since = @ \cup {"check"}]
    BY <1>1
  <2> QED BY <2>1, <2>2 DEF CheckState
<1> QED BY <1>2, <1>3, <1>4

\* The other steps of a check.
LEMMA EarlySteps ==
    ASSUME StockTakeTypeOK, NEW c \in Checks, Fetch(c) \/ Look(c) \/ Clash(c)
    PROVE  /\ \A d \in Checks \ {c} : check'[d] = check[d]
           /\ \/ check'[c] = Idle
              \/ /\ check[c].step = "idle" /\ check'[c].step = "fetched" /\ check'[c].since = {}
                 /\ marks # {} => check'[c].counted = HangarCounts(Assets, marks)
              \/ /\ check[c].step = "fetched" /\ check'[c].step = "looked"
                 /\ check'[c].since = check[c].since /\ check'[c].counted = check[c].counted
                 /\ check'[c].delta = [t \in Types |-> check[c].counted[t] - Expected(t)]
                 /\ \A d \in Checks : check[d].step # "looked"
           /\ settled' \in {FALSE, settled}
           /\ UNCHANGED <<world, marks, books, priced>>
<1>1. ClockOK /\ check \in [Checks -> CheckState] BY TypeParts DEF ClockOK
<1>2. UNCHANGED <<world, marks, books, priced>> /\ settled' \in {FALSE, settled}
  BY DEF Fetch, Look, Clash
<1>3. CASE Fetch(c)
  <2>1. PICK counted \in {IF marks = {} THEN None ELSE HangarCounts(Assets, marks)} :
          check' = [check EXCEPT ![c] = [Idle EXCEPT !.step = "fetched", !.counted = counted]]
    BY <1>3 DEF Fetch
  <2>2. check'[c] = [Idle EXCEPT !.step = "fetched", !.counted = counted] BY <1>1, <2>1
  <2>3. /\ check'[c].step = "fetched" /\ check'[c].since = {} /\ check'[c].counted = counted
    BY <2>2 DEF Idle
  <2>4. check[c].step = "idle" BY <1>3 DEF Fetch
  <2>5. \A d \in Checks \ {c} : check'[d] = check[d] BY <1>1, <2>1
  <2>6. marks # {} => check'[c].counted = HangarCounts(Assets, marks) BY <2>1, <2>3
  <2> QED BY <1>2, <2>3, <2>4, <2>5, <2>6
<1>4. CASE Look(c)
  <2>1. check[c] \in CheckState /\ check[c].step = "fetched" BY <1>1, <1>4 DEF Look
  <2>2. PICK D : D = [t \in Types |-> check[c].counted[t] - Expected(t)] OBVIOUS
  <2>3. check' = [check EXCEPT ![c] = IF marks = {} THEN Idle
                                      ELSE [check[c] EXCEPT !.step = "looked", !.delta = D]]
    BY <1>4, <2>2 DEF Look
  <2>4. \A d \in Checks \ {c} : check'[d] = check[d] BY <1>1, <2>3
  <2>5. CASE marks = {} BY <1>1, <1>2, <2>3, <2>4, <2>5
  <2>6. CASE marks # {}
    <3>1. check'[c] = [check[c] EXCEPT !.step = "looked", !.delta = D] BY <1>1, <2>3, <2>6
    <3>2. /\ check'[c].step = "looked" /\ check'[c].since = check[c].since
          /\ check'[c].counted = check[c].counted /\ check'[c].delta = D
      BY <2>1, <3>1 DEF CheckState
    <3>3. \A d \in Checks : check[d].step # "looked" BY <1>4, <2>6 DEF Look
    <3> QED BY <1>2, <2>1, <2>2, <2>4, <3>2, <3>3
  <2> QED BY <2>5, <2>6
<1>5. CASE Clash(c)
  <2>1. check' = [check EXCEPT ![c] = Idle] BY <1>5 DEF Clash
  <2>2. check'[c] = Idle /\ \A d \in Checks \ {c} : check'[d] = check[d] BY <1>1, <2>1
  <2> QED BY <1>2, <2>2
<1> QED BY <1>3, <1>4, <1>5

\* Only Book ends a check that has looked.
LEMMA BookingIsBook ==
    ASSUME StockTakeTypeOK, [StockTakeNext]_stockTakeVars, NEW c \in Checks, Booking(c)
    PROVE  Book(c)
<1>1. check[c].step = "looked" /\ check'[c].step = "idle" BY DEF Booking
<1>2. ClockOK BY TypeParts
<1>3. ASSUME UNCHANGED stockTakeVars PROVE FALSE BY <1>1, <1>3 DEF stockTakeVars
<1>4. ASSUME NEW what \in {"world", "books"}, Change(what) PROVE FALSE
  BY <1>1, <1>2, <1>4, ChangeMarks
<1>5. ASSUME NEW d \in Checks, Fetch(d) \/ Look(d) \/ Clash(d) PROVE FALSE
  <2>1. check[d].step # "looked" BY <1>5 DEF Fetch, Look, Clash
  <2>2. check'[c] = check[c] BY <1>1, <1>5, <2>1, EarlySteps
  <2> QED BY <1>1, <2>2
<1>6. ASSUME NEW d \in Checks, Book(d) PROVE d = c
  <2>1. SUFFICES ASSUME d # c PROVE FALSE OBVIOUS
  <2>2. check'[c].step = check[c].step BY <1>2, <1>6, <2>1, BookMarks
  <2> QED BY <1>1, <2>2
<1>7. ~Around BY <1>4, AroundType
<1>8. ~(\/ \E t \in Types : Sell(t)
        \/ \E l \in DOMAIN lots, qty \in 1..MaxRecorded : RecordReprocess(l, qty))
  BY <1>4, LedgerSteps
<1> QED BY <1>3, <1>5, <1>6, <1>7, <1>8, StockTakeSteps

-----------------------------------------------------------------------------
(* What a check books is what it found *)

\* What a check leaves of each type: refined, made of it, and found.
BooksThis(delta) ==
    \E taken, made, found : /\ Turned(taken, made, found) /\ Booked(delta, taken, made, found)

LEMMA BookedAre ==
    ASSUME StockTakeTypeOK, NEW c \in Checks, Book(c), NEW delta, delta = check[c].delta
    PROVE  delta \in [Types -> Int] /\ BooksThis(delta)
<1>1. ClockOK /\ lots \in Seq(LotRow) BY TypeParts DEF BooksOK
<1>2. delta \in [Types -> Int] BY <1>1, CheckStateIs
<1>3. PICK draw : BookWrites(delta, draw) BY BookIs
<1>4. PICK taken, made, found : Turns(taken, made, found) /\ Booked(delta, taken, made, found)
  BY <1>1, <1>2, <1>3, BookTurns
<1> QED BY <1>1, <1>2, <1>4, TurnIs DEF BooksThis

\* By type, the units that are new after a check, and what the books then expect.
LEMMA BookedUnits ==
    ASSUME NEW delta \in [Types -> Int], BooksThis(delta), NEW t \in Types
    PROVE  /\ NewUnits(t) = IF \/ \E s \in RecordedOf(delta) : t \in DOMAIN OutputsOf(delta, s)
                               \/ t \in FoundOf(delta)
                            THEN delta[t] ELSE 0
           /\ UsedUnits(t) = IF t \in RecordedOf(delta) THEN QtyRecordable(t, delta) ELSE 0
           /\ SumFunction([l \in {x \in Refined : lots'[x].type = t} |-> lots'[l].left])
                = IF \E s \in RecordedOf(delta) : t \in DOMAIN OutputsOf(delta, s) THEN delta[t] ELSE 0
           /\ Expected(t)' = Expected(t) - UsedUnits(t) + NewUnits(t)
           /\ Expected(t) \in Nat /\ UsedUnits(t) \in Nat
<1>1. PICK taken, made, found : /\ Turned(taken, made, found)
                                /\ Booked(delta, taken, made, found)
  BY DEF BooksThis
<1>2. PICK M \in Nat : M = Tally(UnitsIn(t), made) BY <1>1 DEF Turned
<1>3. PICK F \in Nat : F = Tally(UnitsIn(t), found) BY <1>1 DEF Turned
<1>4. PICK U \in Nat : U = UsedOf(taken, t) BY <1>1 DEF Turned
<1>5. /\ NewUnits(t) = M + F /\ UsedUnits(t) = U
      /\ SumFunction([l \in {x \in Refined : lots'[x].type = t} |-> lots'[l].left]) = M
      /\ Expected(t)' = Expected(t) - U + (M + F) /\ Expected(t) \in Nat
  BY <1>1, <1>2, <1>3, <1>4 DEF Turned
<1>6. /\ U = IF t \in RecordedOf(delta) THEN QtyRecordable(t, delta) ELSE 0
      /\ M = IF \E s \in RecordedOf(delta) : t \in DOMAIN OutputsOf(delta, s) THEN delta[t] ELSE 0
      /\ F = IF t \in FoundOf(delta) THEN delta[t] ELSE 0
  BY <1>1, <1>2, <1>3, <1>4 DEF Booked
<1>7. ~((\E s \in RecordedOf(delta) : t \in DOMAIN OutputsOf(delta, s)) /\ t \in FoundOf(delta))
  <2>1. SUFFICES ASSUME NEW s \in RecordedOf(delta), t \in DOMAIN OutputsOf(delta, s),
                        t \in FoundOf(delta)
                 PROVE  FALSE
    OBVIOUS
  <2>2. s \in SourcesOf(delta) BY DEF RecordedOf
  <2>3. t \in HintedOf(delta) BY <2>1, <2>2, ClaimsAre DEF ClaimsBy
  <2> QED BY <2>1, <2>3 DEF FoundOf
<1>8. delta[t] \in Int OBVIOUS
<1> QED BY <1>5, <1>6, <1>7, <1>8

\* Whole batches, and how many.
LEMMA WholeBatches ==
    ASSUME NEW b \in Nat, NEW p \in Nat, p > 0
    PROVE  (b * p) % p = 0 /\ (b * p) \div p = b
<1>1. PICK n \in Nat : n = b * p OBVIOUS
<1>2. PICK q \in Nat : q = n \div p BY <1>1, WholeAndRest
<1>3. PICK r \in Nat : r = n % p /\ r < p BY <1>1, WholeAndRest
<1>4. n = p * q + r BY <1>1, <1>2, <1>3, WholeAndRest
<1>5. ~(b >= q + 1)
  <2>1. SUFFICES ASSUME b >= q + 1 PROVE FALSE OBVIOUS
  <2>2. b * p >= (q + 1) * p BY <2>1
  <2>3. (q + 1) * p = p * q + p OBVIOUS
  <2> QED BY <1>1, <1>3, <1>4, <2>2, <2>3
<1>6. ~(b <= q - 1)
  <2>1. SUFFICES ASSUME b + 1 <= q PROVE FALSE BY <1>2
  <2>2. (b + 1) * p <= q * p BY <2>1
  <2>3. (b + 1) * p = b * p + p OBVIOUS
  <2>4. q * p = p * q OBVIOUS
  <2> QED BY <1>1, <1>3, <1>4, <2>2, <2>3, <2>4
<1>7. b = q BY <1>5, <1>6
<1>8. r = 0 BY <1>1, <1>4, <1>7
<1> QED BY <1>1, <1>2, <1>3, <1>7, <1>8

\* What is refined of a type is the batches its shortage makes.
LEMMA UsedBatches ==
    ASSUME NEW delta \in [Types -> Int], BooksThis(delta), NEW t \in Types
    PROVE  /\ UsedUnits(t) % Portion[t] = 0 /\ UsedUnits(t) \div Portion[t] \in Nat
           /\ t \in RecordedOf(delta) => UsedUnits(t) \div Portion[t] = Batches(t, delta)
<1>1. PICK p \in Nat : p = Portion[t] /\ p > 0 BY RefiningAssumption
<1>2. CASE t \in RecordedOf(delta)
  <2>1. t \in SourcesOf(delta) BY <1>2 DEF RecordedOf
  <2>2. PICK b \in Nat : b = Batches(t, delta) BY <2>1, ClaimsAre DEF ClaimsBy
  <2>3. UsedUnits(t) = b * p BY <1>1, <1>2, <2>2, BookedUnits DEF QtyRecordable
  <2> QED BY <1>1, <2>2, <2>3, WholeBatches
<1>3. CASE t \notin RecordedOf(delta)
  <2>0. 0 * p = 0 OBVIOUS
  <2>1. UsedUnits(t) = 0 BY <1>3, BookedUnits
  <2>2. 0 \in Nat OBVIOUS
  <2>3. (0 * p) % p = 0 /\ (0 * p) \div p = 0 BY <1>1, <2>2, WholeBatches
  <2>4. 0 % p = 0 /\ 0 \div p = 0 BY Zenon, <2>0, <2>3
  <2>5. UsedUnits(t) % p = 0 /\ UsedUnits(t) \div p = 0 BY Zenon, <2>1, <2>4
  <2> QED BY <1>1, <1>3, <2>2, <2>5
<1> QED BY <1>2, <1>3

\* What came of refines is at most what those batches give.
LEMMA MadeWithinYield ==
    ASSUME NEW delta \in [Types -> Int], BooksThis(delta), NEW m \in Types
    PROVE  SumFunction([l \in {x \in Refined : lots'[x].type = m} |-> lots'[l].left]) <=
           SumFunction([t \in {x \in Types : m \in DOMAIN Materials[x]} |->
                            (UsedUnits(t) \div Portion[t]) * Materials[t][m]])
<1>1. PICK S : S = {x \in Types : m \in DOMAIN Materials[x]} OBVIOUS
<1>2. PICK f : f = [t \in S |-> (UsedUnits(t) \div Portion[t]) * Materials[t][m]] OBVIOUS
<1>3. IsFiniteSet(S) BY <1>1, TypesKnown
<1>4. ASSUME NEW t \in S PROVE f[t] \in Nat
  <2>1. PICK y \in Nat : y = Materials[t][m] BY <1>1, RefiningAssumption
  <2>2. PICK b \in Nat : b = UsedUnits(t) \div Portion[t] BY <1>1, UsedBatches
  <2> QED BY <1>2, <2>1, <2>2
<1>5. SumFunction(f) = SumFunctionOnSet(f, S) BY <1>2 DEF SumFunction
<1>6. SumFunctionOnSet(f, S) \in Nat BY <1>3, <1>4, SumOnNat
<1>7. PICK a : a = SumFunction([l \in {x \in Refined : lots'[x].type = m} |-> lots'[l].left]) OBVIOUS
<1>8. CASE \E s \in RecordedOf(delta) : m \in DOMAIN OutputsOf(delta, s)
  <2>1. PICK s \in RecordedOf(delta) : m \in DOMAIN OutputsOf(delta, s) BY <1>8
  <2>2. s \in SourcesOf(delta) BY DEF RecordedOf
  <2>3. /\ s \in Types /\ m \in DOMAIN Materials[s]
        /\ delta[m] <= Batches(s, delta) * Materials[s][m]
    BY <2>1, <2>2, ClaimsAre DEF ClaimsBy
  <2>4. s \in S BY <1>1, <2>3
  <2>5. f[s] = Batches(s, delta) * Materials[s][m] BY <1>2, <2>1, <2>3, <2>4, UsedBatches
  <2>6. f[s] <= SumFunctionOnSet(f, S) BY <1>3, <1>4, <2>4, SumOnTerm
  <2>7. a = delta[m] BY <1>7, <1>8, BookedUnits
  <2>8. delta[m] <= f[s] /\ delta[m] \in Int /\ f[s] \in Nat BY <1>4, <2>3, <2>4, <2>5
  <2> QED BY <1>1, <1>2, <1>5, <1>6, <1>7, <2>6, <2>7, <2>8
<1>9. CASE ~(\E s \in RecordedOf(delta) : m \in DOMAIN OutputsOf(delta, s))
  <2>1. a = 0 BY <1>7, <1>9, BookedUnits
  <2> QED BY <1>1, <1>2, <1>5, <1>6, <1>7, <2>1
<1> QED BY <1>8, <1>9

\* A check refines whole batches of what is missing, within what they can give.
LEMMA BookStaysWithinYield ==
    ASSUME StockTakeTypeOK, NEW c \in Checks, Book(c)
    PROVE  /\ \A t \in Types : UsedUnits(t) % Portion[t] = 0
           /\ \A m \in Types :
                SumFunction([l \in {x \in Refined : lots'[x].type = m} |-> lots'[l].left]) <=
                SumFunction([t \in {x \in Types : m \in DOMAIN Materials[x]} |->
                                 (UsedUnits(t) \div Portion[t]) * Materials[t][m]])
<1>1. PICK delta : delta = check[c].delta OBVIOUS
<1>2. delta \in [Types -> Int] /\ BooksThis(delta) BY <1>1, BookedAre
<1>3. \A t \in Types : UsedUnits(t) % Portion[t] = 0 BY <1>2, UsedBatches
<1> QED BY <1>2, <1>3, MadeWithinYield

LEMMA BookBooksTheExcess ==
    ASSUME StockTakeTypeOK, NEW c \in Checks, Book(c), NEW t \in Types
    PROVE  NewUnits(t) = 0 \/ NewUnits(t) = check[c].delta[t]
<1>1. PICK delta : delta = check[c].delta OBVIOUS
<1>2. delta \in [Types -> Int] /\ BooksThis(delta) BY <1>1, BookedAre
<1> QED BY <1>1, <1>2, BookedUnits

LEMMA BookDoesNotStack ==
    ASSUME StockTakeTypeOK, NotAbove, NEW c \in Checks, Book(c), "books" \notin check[c].since,
           NEW t \in Types, NewUnits(t) > 0
    PROVE  Expected(t)' <= check[c].counted[t]
<1>1. PICK delta : delta = check[c].delta OBVIOUS
<1>2. delta \in [Types -> Int] /\ BooksThis(delta) BY <1>1, BookedAre
<1>3. PICK d \in Int : d = delta[t] BY <1>2
<1>4. PICK e \in Nat : e = Expected(t) BY <1>2, BookedUnits
<1>5. NewUnits(t) = d /\ d > 0
  <2>1. NewUnits(t) = 0 \/ NewUnits(t) = d BY <1>2, <1>3, BookedUnits
  <2> QED BY <1>3, <2>1
<1>6. t \notin RecordedOf(delta)
  <2>1. t \in RecordedOf(delta) => t \in SourcesOf(delta) BY DEF RecordedOf
  <2>2. t \in SourcesOf(delta) => delta[t] < 0 BY <1>2, ClaimsAre DEF ClaimsBy
  <2> QED BY <1>3, <1>5, <2>1, <2>2
<1>7. UsedUnits(t) = 0 BY <1>2, <1>6, BookedUnits
<1>8. Expected(t)' = e - 0 + d BY <1>2, <1>4, <1>5, <1>7, BookedUnits
<1>9. check[c].step = "looked" BY DEF Book
<1>10. e + d <= check[c].counted[t] BY <1>1, <1>3, <1>4, <1>9 DEF NotAbove
<1> QED BY <1>3, <1>4, <1>8, <1>10

-----------------------------------------------------------------------------
(* Every step keeps the invariant *)

LEMMA SameExpected ==
    ASSUME UNCHANGED lots, NEW t PROVE Expected(t)' = Expected(t)
BY DEF Expected, OpenLots

LEMMA SameInventory ==
    ASSUME UNCHANGED <<world, marks>>, NEW t PROVE Inventory(t)' = Inventory(t)
BY DEF Inventory, world

CheckLaws == OneLooks /\ NotAbove /\ Exact /\ Seen

\* A change makes the books fall or is remembered, by every check under way.
LEMMA ChangeKeepsLaws ==
    ASSUME StockTakeTypeOK, CheckLaws, NEW what \in {"world", "books"}, Change(what),
           what = "world" => \A t \in Types : Expected(t)' <= Expected(t) /\ Expected(t)' \in Nat
    PROVE  CheckLaws' /\ ChecksSettle'
<1>1. ClockOK BY TypeParts
<1>2. OneLooks' BY <1>1, ChangeMarks DEF OneLooks, CheckLaws
<1>3. ASSUME NEW c \in Checks, check'[c].step # "idle"
      PROVE  /\ check[c].step # "idle" /\ check'[c].since = check[c].since \cup {what}
             /\ check'[c].since # {}
  <2>1. check[c].step # "idle" BY <1>1, <1>3, ChangeMarks
  <2>2. check'[c].since = check[c].since \cup {what} BY <1>1, <2>1, ChangeMarks
  <2> QED BY <2>1, <2>2
<1>4. Exact' BY <1>3 DEF Exact
<1>5. Seen' BY <1>3 DEF Seen
<1>6. NotAbove'
  <2>1. SUFFICES ASSUME NEW c \in Checks, check'[c].step = "looked", "books" \notin check'[c].since,
                        NEW t \in Types
                 PROVE  Expected(t)' + check'[c].delta[t] <= check'[c].counted[t]
    BY DEF NotAbove
  <2>2. "books" \notin check[c].since /\ what # "books" BY <1>3, <2>1
  <2>3. Expected(t)' <= Expected(t) /\ Expected(t)' \in Nat BY <2>2
  <2>4. /\ check[c].step = "looked" /\ check'[c].delta = check[c].delta
        /\ check'[c].counted = check[c].counted
    BY <1>1, <2>1, ChangeMarks
  <2>5. Expected(t) + check[c].delta[t] <= check[c].counted[t]
    BY <2>2, <2>4 DEF CheckLaws, NotAbove
  <2>6. check[c].delta[t] \in Int /\ check[c].counted[t] \in Nat BY <1>1, CheckStateIs
  <2>7. Expected(t) \in Nat BY ExpectedNow, ExpectedIs, TypeParts DEF BooksOK
  <2> QED BY <2>3, <2>4, <2>5, <2>6, <2>7
<1>7. ChecksSettle'
  <2>1. settled' = FALSE BY DEF Change, Bounded
  <2> QED BY <2>1 DEF ChecksSettle
<1> QED BY <1>2, <1>4, <1>5, <1>6, <1>7 DEF CheckLaws

LEMMA AroundKeepsLaws ==
    ASSUME StockTakeTypeOK, CheckLaws, Around
    PROVE  CheckLaws' /\ ChecksSettle'
<1>1. Change("world") /\ UNCHANGED lots BY AroundType
<1>2. ASSUME NEW t \in Types PROVE Expected(t)' <= Expected(t) /\ Expected(t)' \in Nat
  <2>1. Expected(t) \in Nat BY ExpectedNow, ExpectedIs, TypeParts DEF BooksOK
  <2> QED BY <1>1, <2>1, SameExpected
<1> QED BY <1>1, <1>2, ChangeKeepsLaws

LEMMA LedgerKeepsLaws ==
    ASSUME StockTakeTypeOK, CheckLaws,
           \/ \E t \in Types : Sell(t)
           \/ \E l \in DOMAIN lots, qty \in 1..MaxRecorded : RecordReprocess(l, qty)
    PROVE  CheckLaws' /\ ChecksSettle'
<1>1. PICK what \in {"world", "books"} :
        Change(what) /\ (what = "world" => \E taken : Turns(taken, <<>>, <<>>))
  BY LedgerSteps
<1>2. ASSUME what = "world", NEW t \in Types PROVE Expected(t)' <= Expected(t) /\ Expected(t)' \in Nat
  <2>1. PICK taken : Turns(taken, <<>>, <<>>) BY <1>1, <1>2
  <2>2. lots \in Seq(LotRow) BY TypeParts DEF BooksOK
  <2>3. Turned(taken, <<>>, <<>>) BY <2>1, <2>2, TurnIs
  <2>4. Tally(UnitsIn(t), <<>>) = 0
    <3>1. DOMAIN <<>> = {} OBVIOUS
    <3> QED BY <3>1, SumOnEmpty DEF Tally
  <2>5. /\ Expected(t)' = Expected(t) - UsedOf(taken, t)
                            + (Tally(UnitsIn(t), <<>>) + Tally(UnitsIn(t), <<>>))
        /\ Expected(t) \in Nat /\ UsedOf(taken, t) \in Nat /\ UsedOf(taken, t) <= Expected(t)
    BY <2>3 DEF Turned
  <2> QED BY <2>4, <2>5
<1> QED BY <1>1, <1>2, ChangeKeepsLaws

\* Between two bookings a check only reads: what it read is what there is.
LEMMA EarlyKeepsLaws ==
    ASSUME StockTakeTypeOK, CheckLaws, ChecksSettle, NEW c \in Checks, Fetch(c) \/ Look(c) \/ Clash(c)
    PROVE  CheckLaws' /\ ChecksSettle'
<1>1. ClockOK /\ WorldOK /\ lots \in Seq(LotRow) BY TypeParts DEF BooksOK
<1>2. /\ UNCHANGED <<world, marks, books, priced>> /\ settled' \in {FALSE, settled}
      /\ \A d \in Checks \ {c} : check'[d] = check[d]
  BY EarlySteps
<1>3. \A t : Expected(t)' = Expected(t) /\ Inventory(t)' = Inventory(t)
  BY <1>2, SameExpected, SameInventory DEF books
<1>4. \/ check'[c] = Idle
      \/ /\ check[c].step = "idle" /\ check'[c].step = "fetched" /\ check'[c].since = {}
         /\ marks # {} => check'[c].counted = HangarCounts(Assets, marks)
      \/ /\ check[c].step = "fetched" /\ check'[c].step = "looked"
         /\ check'[c].since = check[c].since /\ check'[c].counted = check[c].counted
         /\ check'[c].delta = [t \in Types |-> check[c].counted[t] - Expected(t)]
         /\ \A d \in Checks : check[d].step # "looked"
  BY EarlySteps
<1>5. Idle.step = "idle" BY DEF Idle
<1>6. ASSUME check'[c].step = "looked"
      PROVE  /\ check'[c].counted = check[c].counted /\ check[c].step = "fetched"
             /\ check'[c].since = check[c].since
             /\ check'[c].delta = [t \in Types |-> check[c].counted[t] - Expected(t)]
             /\ \A d \in Checks : check[d].step # "looked"
  BY <1>4, <1>5, <1>6
<1>7. OneLooks'
  <2>1. SUFFICES ASSUME NEW d \in Checks, NEW e \in Checks,
                        check'[d].step = "looked", check'[e].step = "looked"
                 PROVE  d = e
    BY DEF OneLooks
  <2>2. CASE d = c /\ e # c BY <1>2, <1>6, <2>1, <2>2
  <2>3. CASE d # c /\ e = c BY <1>2, <1>6, <2>1, <2>3
  <2>4. CASE d # c /\ e # c BY <1>2, <2>1, <2>4 DEF CheckLaws, OneLooks
  <2> QED BY <2>2, <2>3, <2>4
<1>8. ASSUME check'[c].step = "looked", NEW t \in Types
      PROVE  Expected(t)' + check'[c].delta[t] = check'[c].counted[t] /\ check'[c].counted[t] \in Nat
  <2>1. check[c].counted[t] \in Nat /\ Expected(t) \in Nat
    BY <1>1, CheckStateIs, ExpectedNow, ExpectedIs
  <2>2. check'[c].delta[t] = check[c].counted[t] - Expected(t) BY <1>6, <1>8
  <2> QED BY <1>3, <1>6, <1>8, <2>1, <2>2
<1>9. NotAbove'
  <2>1. SUFFICES ASSUME NEW d \in Checks, check'[d].step = "looked", "books" \notin check'[d].since,
                        NEW t \in Types
                 PROVE  Expected(t)' + check'[d].delta[t] <= check'[d].counted[t]
    BY DEF NotAbove
  <2>2. CASE d = c
    <3>1. Expected(t)' + check'[c].delta[t] = check'[c].counted[t] /\ check'[c].counted[t] \in Nat
      BY <1>8, <2>1, <2>2
    <3>2. check'[c].counted[t] <= check'[c].counted[t] BY <3>1
    <3> QED BY <2>2, <3>1, <3>2
  <2>3. CASE d # c BY <1>2, <1>3, <2>1, <2>3 DEF CheckLaws, NotAbove
  <2> QED BY <2>2, <2>3
<1>10. Exact'
  <2>1. SUFFICES ASSUME NEW d \in Checks, check'[d].step = "looked", check'[d].since = {},
                        NEW t \in Types
                 PROVE  Expected(t)' + check'[d].delta[t] = check'[d].counted[t]
    BY DEF Exact
  <2>2. CASE d = c BY <1>8, <2>1, <2>2
  <2>3. CASE d # c BY <1>2, <1>3, <2>1, <2>3 DEF CheckLaws, Exact
  <2> QED BY <2>2, <2>3
<1>11. Seen'
  <2>1. SUFFICES ASSUME NEW d \in Checks, check'[d].step # "idle", check'[d].since = {},
                        marks' # {}, NEW t \in Types
                 PROVE  check'[d].counted[t] = Inventory(t)'
    BY DEF Seen
  <2>2. CASE d # c BY <1>2, <1>3, <2>1, <2>2 DEF CheckLaws, Seen
  <2>3. CASE d = c /\ check'[c].step = "fetched"
    <3>1. check'[c].counted = HangarCounts(Assets, marks) BY <1>2, <1>4, <1>5, <2>1, <2>3
    <3>2. HangarCounts(Assets, marks) = [x \in Types |-> Inventory(x)] BY <1>1, CountsTrue DEF CountedTruly
    <3>3. check'[c].counted[t] = Inventory(t) BY <3>1, <3>2
    <3> QED BY <1>3, <2>3, <3>3
  <2>4. CASE d = c /\ check'[c].step = "looked"
    <3>1. check[c].counted[t] = Inventory(t) BY <1>2, <1>6, <2>1, <2>4 DEF CheckLaws, Seen
    <3> QED BY <1>3, <1>6, <2>4, <3>1
  <2>5. check'[c].step \in {"idle", "fetched", "looked"} BY <1>4, <1>5
  <2> QED BY <2>1, <2>2, <2>3, <2>4, <2>5
<1>12. ChecksSettle'
  <2>1. CASE settled' = FALSE BY <2>1 DEF ChecksSettle
  <2>2. CASE settled' = settled
    <3>1. SUFFICES ASSUME settled', marks' # {}, NEW t \in Types
                   PROVE  /\ Expected(t)' < Inventory(t)' =>
                               t \notin priced' /\ Logged(t, "excess", Inventory(t) - Expected(t))'
                          /\ Expected(t)' > Inventory(t)' =>
                               \/ Logged(t, "shortfall", Expected(t) - Inventory(t))'
                               \/ latest'[t].kind = "reprocess_recorded"
      BY DEF ChecksSettle
    <3>2. settled /\ marks # {} BY <1>2, <2>2, <3>1
    <3>3. latest' = latest /\ priced' = priced BY <1>2 DEF books
    <3>4. /\ Expected(t) < Inventory(t) => t \notin priced /\ Logged(t, "excess", Inventory(t) - Expected(t))
          /\ Expected(t) > Inventory(t) => \/ Logged(t, "shortfall", Expected(t) - Inventory(t))
                                           \/ latest[t].kind = "reprocess_recorded"
      BY <3>2 DEF ChecksSettle
    <3> QED BY <1>3, <3>3, <3>4 DEF Logged
  <2> QED BY <1>2, <2>1, <2>2
<1> QED BY <1>7, <1>9, <1>10, <1>11, <1>12 DEF CheckLaws

\* An undisturbed check records every refine it claims: the books cannot be
\* shorter of a source than the units it misses.
LEMMA EveryClaimRecorded ==
    ASSUME StockTakeTypeOK, CheckLaws, NEW c \in Checks, Book(c), check[c].since = {},
           NEW delta, delta = check[c].delta
    PROVE  RecordedOf(delta) = SourcesOf(delta)
<1>1. SUFFICES ASSUME NEW s \in SourcesOf(delta) PROVE Expected(s) >= QtyRecordable(s, delta)
  BY DEF RecordedOf
<1>2. ClockOK /\ check[c].step = "looked" BY TypeParts DEF Book
<1>3. delta \in [Types -> Int] /\ check[c].counted \in [Types -> Nat] BY <1>2, CheckStateIs
<1>4. s \in Types /\ QtyRecordable(s, delta) \in Nat /\ QtyRecordable(s, delta) <= -delta[s]
  BY <1>3, ClaimsAre DEF ClaimsBy
<1>5. Expected(s) + delta[s] = check[c].counted[s] BY <1>2, <1>4 DEF CheckLaws, Exact
<1>6. Expected(s) \in Nat BY ExpectedNow, ExpectedIs, TypeParts DEF BooksOK
<1>7. check[c].counted[s] \in Nat /\ delta[s] \in Int BY <1>3, <1>4
<1> QED BY <1>4, <1>5, <1>6, <1>7

\* After it the books hold what there is, as far as it has a price, and the log says the rest.
SettledFor(t) ==
    /\ Expected(t) < Inventory(t) => t \notin priced /\ Logged(t, "excess", Inventory(t) - Expected(t))
    /\ Expected(t) > Inventory(t) => \/ Logged(t, "shortfall", Expected(t) - Inventory(t))
                                     \/ latest[t].kind = "reprocess_recorded"

LEMMA BookSettles ==
    ASSUME StockTakeTypeOK, CheckLaws, NEW c \in Checks, Book(c), check[c].since = {},
           marks # {}, NEW t \in Types
    PROVE  SettledFor(t)'
<1>0. PICK delta : delta = check[c].delta OBVIOUS
<1>1. ClockOK /\ check[c].step = "looked" BY TypeParts DEF Book
<1>2. delta \in [Types -> Int] /\ BooksThis(delta) BY <1>0, BookedAre
<1>3. PICK d \in Int : d = delta[t] BY <1>2
<1>4. PICK e \in Nat : e = Expected(t) BY <1>2, BookedUnits
<1>5. PICK n \in Nat : n = check[c].counted[t] BY <1>1, CheckStateIs
<1>6. e + d = n BY <1>0, <1>1, <1>3, <1>4, <1>5 DEF CheckLaws, Exact
<1>7. Inventory(t)' = n
  <2>1. check[c].counted[t] = Inventory(t) BY <1>1 DEF CheckLaws, Seen
  <2>2. UNCHANGED <<world, marks>> BY DEF Book
  <2> QED BY <1>5, <2>1, <2>2, SameInventory
<1>8. PICK last : BookLogs(delta, last) BY <1>0, BookLogsIs
<1>9. latest'[t] = IF t \in last THEN Event("shortfall", RemainderOf(delta, t), FALSE)
                   ELSE SeenOf(delta, t)
  BY <1>8 DEF BookLogs
<1>10. last \subseteq RecordedOf(delta) BY <1>8 DEF BookLogs, LeftoverOf
<1>11. RecordedOf(delta) = SourcesOf(delta) BY <1>0, EveryClaimRecorded
<1>12. priced' = priced BY DEF Book
<1>13. \A s \in SourcesOf(delta) : ClaimsBy(delta, s) BY <1>2, ClaimsAre
<1>14. PICK u \in Nat : u = UsedUnits(t) BY <1>2, BookedUnits
<1>15. PICK w : w = NewUnits(t) OBVIOUS
<1>16. /\ w = (IF \/ \E s \in RecordedOf(delta) : t \in DOMAIN OutputsOf(delta, s)
                  \/ t \in FoundOf(delta)
               THEN d ELSE 0)
       /\ u = (IF t \in RecordedOf(delta) THEN QtyRecordable(t, delta) ELSE 0)
       /\ Expected(t)' = e - u + w
  BY <1>2, <1>3, <1>4, <1>14, <1>15, BookedUnits
<1>17. \A s \in RecordedOf(delta) : t \in DOMAIN OutputsOf(delta, s) => d > 0 /\ t \in HintedOf(delta)
  BY <1>3, <1>11, <1>13 DEF ClaimsBy
<1>18. CASE t \in RecordedOf(delta)
  <2>1. PICK q \in Nat : q = QtyRecordable(t, delta) /\ q <= -d /\ d < 0
    BY <1>3, <1>11, <1>13, <1>18 DEF ClaimsBy
  <2>2. w = 0 BY <1>3, <1>16, <1>17, <2>1 DEF FoundOf
  <2>3. u = q BY <1>16, <1>18, <2>1
  <2>4. Expected(t)' = e - q BY <1>16, <2>1, <2>2, <2>3
  <2>5. Expected(t)' - Inventory(t)' = RemainderOf(delta, t) /\ ~(Expected(t)' < Inventory(t)')
    BY <1>3, <1>6, <1>7, <2>1, <2>4 DEF RemainderOf
  <2>6. CASE t \in last
    <3>1. latest'[t] = Event("shortfall", RemainderOf(delta, t), FALSE) BY <1>9, <2>6
    <3>2. latest'[t].kind = "shortfall" /\ latest'[t].qty = Expected(t)' - Inventory(t)'
      BY <2>5, <3>1 DEF Event
    <3>3. Logged(t, "shortfall", Expected(t) - Inventory(t))' BY <3>2 DEF Logged
    <3> QED BY <2>5, <3>3 DEF SettledFor
  <2>7. CASE t \notin last
    <3>1. latest'[t].kind = "reprocess_recorded" BY <1>9, <1>18, <2>7 DEF SeenOf, Event
    <3> QED BY <2>5, <3>1 DEF SettledFor
  <2> QED BY <2>6, <2>7
<1>19. CASE t \notin RecordedOf(delta) /\ t \in HintedOf(delta)
  <2>1. PICK s \in SourcesOf(delta) : t \in DOMAIN OutputsOf(delta, s) BY <1>2, <1>19, HintedAre
  <2>2. s \in RecordedOf(delta) BY <1>11
  <2>3. w = d /\ u = 0 BY <1>16, <1>19, <2>1, <2>2
  <2>4. Expected(t)' = Inventory(t)' /\ Inventory(t)' \in Nat BY <1>6, <1>7, <1>16, <2>3
  <2>5. ~(Expected(t)' < Inventory(t)') /\ ~(Expected(t)' > Inventory(t)') BY <2>4
  <2> QED BY <2>5 DEF SettledFor
<1>20. CASE t \notin RecordedOf(delta) /\ t \notin HintedOf(delta)
  <2>1. ~(\E s \in RecordedOf(delta) : t \in DOMAIN OutputsOf(delta, s)) BY <1>17, <1>20
  <2>2. u = 0 /\ w = IF t \in FoundOf(delta) THEN d ELSE 0 BY <1>16, <1>20, <2>1
  <2>3. t \notin last /\ t \notin SourcesOf(delta) BY <1>10, <1>11, <1>20
  <2>4. CASE d < 0
    <3>1. t \notin FoundOf(delta) BY <1>3, <2>4 DEF FoundOf
    <3>2. Expected(t)' = e BY <1>16, <2>2, <3>1
    <3>3. ~(Expected(t)' < Inventory(t)') /\ Expected(t)' - Inventory(t)' = -delta[t]
      BY <1>3, <1>6, <1>7, <2>4, <3>2
    <3>4. latest'[t] = Event("shortfall", -delta[t], FALSE)
      <4>1. delta[t] < 0 /\ ~(delta[t] = 0) BY <1>3, <2>4
      <4>2. latest'[t] = SeenOf(delta, t) BY <1>9, <2>3
      <4> QED BY Zenon, <1>20, <2>3, <4>1, <4>2 DEF SeenOf
    <3>5. latest'[t].kind = "shortfall" /\ latest'[t].qty = Expected(t)' - Inventory(t)'
      BY <3>3, <3>4 DEF Event
    <3>6. Logged(t, "shortfall", Expected(t) - Inventory(t))' BY <3>5 DEF Logged
    <3> QED BY <3>3, <3>6 DEF SettledFor
  <2>5. CASE d >= 0 /\ w = d
    <3>1. Expected(t)' = Inventory(t)' /\ Inventory(t)' \in Nat BY <1>6, <1>7, <1>16, <2>2, <2>5
    <3>2. ~(Expected(t)' < Inventory(t)') /\ ~(Expected(t)' > Inventory(t)') BY <3>1
    <3> QED BY <3>2 DEF SettledFor
  <2>6. CASE d >= 0 /\ w # d
    <3>1. d > 0 /\ w = 0 /\ t \notin FoundOf(delta) BY <2>2, <2>6
    <3>2. t \notin priced BY <1>3, <1>20, <3>1 DEF FoundOf, Bookable
    <3>3. Expected(t)' = e BY <1>16, <2>2, <3>1
    <3>4. ~(Expected(t)' > Inventory(t)') /\ Inventory(t)' - Expected(t)' = delta[t]
      BY <1>3, <1>6, <1>7, <3>1, <3>3
    <3>5. latest'[t] = Event("excess", delta[t], t \in FoundOf(delta))
      <4>1. ~(delta[t] < 0) /\ ~(delta[t] = 0) BY <1>3, <3>1
      <4>2. latest'[t] = SeenOf(delta, t) BY <1>9, <2>3
      <4> QED BY Zenon, <1>20, <2>3, <4>1, <4>2 DEF SeenOf
    <3>6. latest'[t].kind = "excess" /\ latest'[t].qty = Inventory(t)' - Expected(t)'
      BY <3>4, <3>5 DEF Event
    <3>7. Logged(t, "excess", Inventory(t) - Expected(t))' BY <3>6 DEF Logged
    <3> QED BY <1>12, <3>2, <3>4, <3>7 DEF SettledFor
  <2> QED BY <2>4, <2>5, <2>6
<1> QED BY <1>18, <1>19, <1>20

LEMMA BookKeepsLaws ==
    ASSUME StockTakeTypeOK, CheckLaws, NEW c \in Checks, Book(c)
    PROVE  CheckLaws' /\ ChecksSettle'
<1>1. ClockOK BY TypeParts
<1>2. ASSUME NEW d \in Checks PROVE check'[d].step # "looked"
  <2>1. CASE d = c BY <1>1, <2>1, BookMarks
  <2>2. CASE d # c
    <3>1. check[d].step # "looked" BY <1>1, <2>2, BookMarks DEF CheckLaws, OneLooks
    <3> QED BY <1>1, <2>2, <3>1, BookMarks
  <2> QED BY <2>1, <2>2
<1>3. OneLooks' /\ NotAbove' /\ Exact' BY <1>2 DEF OneLooks, NotAbove, Exact
<1>4. ASSUME NEW d \in Checks, check'[d].step # "idle" PROVE check'[d].since # {}
  <2>1. d # c BY <1>1, <1>4, BookMarks
  <2>2. check'[d].since = check[d].since \cup {"check"} BY <1>1, <1>4, <2>1, BookMarks
  <2> QED BY <2>2
<1>5. Seen' BY <1>4 DEF Seen
<1>6. ChecksSettle'
  <2>1. SUFFICES ASSUME settled', marks' # {}, NEW t \in Types PROVE SettledFor(t)'
    BY DEF ChecksSettle, SettledFor
  <2>2. settled' = (check[c].since = {}) /\ marks' = marks BY DEF Book
  <2>3. check[c].since = {} /\ marks # {} BY <2>1, <2>2
  <2> QED BY <2>3, BookSettles
<1> QED BY <1>3, <1>5, <1>6 DEF CheckLaws

LEMMA LawsKept ==
    ASSUME StockTakeTypeOK, CheckLaws, ChecksSettle, [StockTakeNext]_stockTakeVars
    PROVE  CheckLaws' /\ ChecksSettle'
<1>1. CASE UNCHANGED stockTakeVars
  <2>1. /\ UNCHANGED <<world, marks, lots, latest, priced, check, settled>> BY <1>1 DEF stockTakeVars, books
  <2>2. \A t : Expected(t)' = Expected(t) /\ Inventory(t)' = Inventory(t)
    BY <2>1, SameExpected, SameInventory
  <2>3. OneLooks' /\ NotAbove' /\ Exact' /\ Seen'
    BY <2>1, <2>2 DEF CheckLaws, OneLooks, NotAbove, Exact, Seen
  <2>4. ChecksSettle' BY <2>1, <2>2 DEF ChecksSettle, Logged
  <2> QED BY <2>3, <2>4 DEF CheckLaws
<1>2. CASE Around BY <1>2, AroundKeepsLaws
<1>3. CASE \/ \E t \in Types : Sell(t)
           \/ \E l \in DOMAIN lots, qty \in 1..MaxRecorded : RecordReprocess(l, qty)
  BY <1>3, LedgerKeepsLaws
<1>4. CASE \E c \in Checks : Fetch(c) \/ Look(c) \/ Clash(c) BY <1>4, EarlyKeepsLaws
<1>5. CASE \E c \in Checks : Book(c) BY <1>5, BookKeepsLaws
<1> QED BY <1>1, <1>2, <1>3, <1>4, <1>5, StockTakeSteps

LEMMA LawsAtFirst ==
    StockTakeInit => CheckLaws /\ ChecksSettle
<1>1. ASSUME StockTakeInit, NEW c \in Checks PROVE check[c].step = "idle"
  BY <1>1 DEF StockTakeInit, Idle
<1>2. StockTakeInit => CheckLaws BY <1>1 DEF CheckLaws, OneLooks, NotAbove, Exact, Seen
<1>3. StockTakeInit => ChecksSettle BY DEF StockTakeInit, ChecksSettle
<1> QED BY <1>2, <1>3

LEMMA StockTakeInvHolds == StockTakeSpec => []StockTakeInv
<1>1. StockTakeInv <=> StockTakeTypeOK /\ CheckLaws /\ ChecksSettle BY DEF StockTakeInv, CheckLaws
<1>2. StockTakeInit => StockTakeTypeOK /\ CheckLaws /\ ChecksSettle BY StockTakeInitType, LawsAtFirst
<1>3. StockTakeTypeOK /\ CheckLaws /\ ChecksSettle /\ [StockTakeNext]_stockTakeVars
        => StockTakeTypeOK' /\ CheckLaws' /\ ChecksSettle'
  BY StockTakeStepType, LawsKept
<1> QED BY <1>1, <1>2, <1>3, PTL DEF StockTakeSpec

\* After a check that nothing disturbed, the books hold everything with a price
\* that is there, what has none is flagged and every shortage was logged.
THEOREM AnUndisturbedCheckSettles == StockTakeSpec => []ChecksSettle
<1>1. StockTakeInv => ChecksSettle BY DEF StockTakeInv
<1> QED BY <1>1, StockTakeInvHolds, PTL

LEMMA BookedTrulyStep ==
    ASSUME StockTakeInv, [StockTakeNext]_stockTakeVars, NEW c \in Checks, Booking(c)
    PROVE  /\ \A t \in Types : NewUnits(t) = 0 \/ NewUnits(t) = check[c].delta[t]
           /\ \A t \in Types : UsedUnits(t) % Portion[t] = 0
           /\ \A m \in Types :
                SumFunction([l \in {x \in Refined : lots'[x].type = m} |-> lots'[l].left]) <=
                SumFunction([t \in {x \in Types : m \in DOMAIN Materials[x]} |->
                                 (UsedUnits(t) \div Portion[t]) * Materials[t][m]])
           /\ "books" \notin check[c].since =>
                \A t \in Types : NewUnits(t) > 0 => Expected(t)' <= check[c].counted[t]
<1>1. StockTakeTypeOK /\ NotAbove BY DEF StockTakeInv
<1>2. Book(c) BY <1>1, BookingIsBook
<1> QED BY <1>1, <1>2, BookBooksTheExcess, BookStaysWithinYield, BookDoesNotStack

\* Whatever a check books was found, could be made of what is missing, and is not
\* booked on top of another check: three promises of every step of the program.
THEOREM ChecksBookTruly == StockTakeSpec => BookedTruly
<1>1. StockTakeInv /\ [StockTakeNext]_stockTakeVars =>
        [\A c \in Checks : Booking(c) =>
            \A t \in Types : NewUnits(t) = 0 \/ NewUnits(t) = check[c].delta[t]]_stockTakeVars
  BY BookedTrulyStep
<1>2. StockTakeInv /\ [StockTakeNext]_stockTakeVars =>
        [\A c \in Checks : Booking(c) =>
            /\ \A t \in Types : UsedUnits(t) % Portion[t] = 0
            /\ \A m \in Types :
                  SumFunction([l \in {x \in Refined : lots'[x].type = m} |-> lots'[l].left]) <=
                  SumFunction([t \in {x \in Types : m \in DOMAIN Materials[x]} |->
                                   (UsedUnits(t) \div Portion[t]) * Materials[t][m]])]_stockTakeVars
  BY BookedTrulyStep
<1>3. StockTakeInv /\ [StockTakeNext]_stockTakeVars =>
        [\A c \in Checks : Booking(c) /\ "books" \notin check[c].since =>
            \A t \in Types : NewUnits(t) > 0 => Expected(t)' <= check[c].counted[t]]_stockTakeVars
  BY BookedTrulyStep
<1>4. StockTakeSpec => ExcessBookedOnce BY <1>1, StockTakeInvHolds, PTL DEF StockTakeSpec, ExcessBookedOnce
<1>5. StockTakeSpec => OnlyWhatItCouldYield
  BY <1>2, StockTakeInvHolds, PTL DEF StockTakeSpec, OnlyWhatItCouldYield
<1>6. StockTakeSpec => ChecksDoNotStack BY <1>3, StockTakeInvHolds, PTL DEF StockTakeSpec, ChecksDoNotStack
<1> QED BY <1>4, <1>5, <1>6, PTL DEF BookedTruly

-----------------------------------------------------------------------------
(* What a refine hands on *)

\* A step leaves the lots alone or turns them over.
LEMMA LotsTurn ==
    ASSUME StockTakeTypeOK, [StockTakeNext]_stockTakeVars
    PROVE  UNCHANGED lots \/ \E taken, made, found : Turns(taken, made, found)
<1>1. CASE UNCHANGED stockTakeVars BY <1>1 DEF stockTakeVars, books
<1>2. CASE Around BY <1>2, AroundType
<1>3. CASE \/ \E t \in Types : Sell(t)
           \/ \E l \in DOMAIN lots, qty \in 1..MaxRecorded : RecordReprocess(l, qty)
  BY <1>3, LedgerSteps
<1>4. CASE \E c \in Checks : Fetch(c) \/ Look(c) \/ Clash(c) BY <1>4, EarlyStepsType
<1>5. CASE \E c \in Checks : Book(c)
  <2>1. PICK c \in Checks : Book(c) BY <1>5
  <2>2. ClockOK /\ lots \in Seq(LotRow) BY TypeParts DEF BooksOK
  <2>3. PICK delta : delta = check[c].delta OBVIOUS
  <2>4. delta \in [Types -> Int] BY <2>2, <2>3, CheckStateIs
  <2>5. PICK draw : BookWrites(delta, draw) BY <2>1, <2>3, BookIs
  <2> QED BY <2>2, <2>4, <2>5, BookTurns
<1> QED BY <1>1, <1>2, <1>3, <1>4, <1>5, StockTakeSteps

LEMMA NothingRefined ==
    ASSUME lots \in Seq(LotRow), UNCHANGED lots PROVE Refined = {}
<1>1. New = {} BY RowsOf DEF New
<1> QED BY <1>1 DEF Refined

\* Every refined row is a row made, and so an heir.
LEMMA RefinedIs ==
    ASSUME StockTakeTypeOK, NEW taken, NEW made, NEW found, Turns(taken, made, found),
           NEW l \in Refined
    PROVE  /\ MadeWell(made, taken)
           /\ \E i \in DOMAIN made : lots'[l] = made[i] /\ made[i] \in LotRow
<1>1. lots \in Seq(LotRow) BY TypeParts DEF BooksOK
<1>2. Turned(taken, made, found) BY <1>1, TurnIs
<1>3. StandsIn(made, lots', Len(lots), Refined) BY <1>2 DEF Turned
<1>4. PICK m \in Nat : m = Len(lots) BY <1>1, RowsOf
<1>5. /\ made \in Seq(LotRow) /\ Refined = m + 1 .. m + Len(made)
      /\ \A i \in 1..Len(made) : lots'[m + i] = made[i]
  BY <1>3, <1>4 DEF StandsIn
<1>6. Len(made) \in Nat /\ DOMAIN made = 1..Len(made) /\ \A i \in 1..Len(made) : made[i] \in LotRow
  BY <1>5
<1>7. PICK i \in 1..Len(made) : l = m + i
  <2>1. l - m \in 1..Len(made) /\ l = m + (l - m) BY <1>4, <1>5, <1>6
  <2> QED BY <2>1
<1>8. made # <<>> BY <1>6, <1>7
<1> QED BY <1>5, <1>6, <1>7, <1>8 DEF Turns

LEMMA RefinedInherits ==
    ASSUME StockTakeTypeOK, [StockTakeNext]_stockTakeVars, NEW l \in Refined
    PROVE  \E d \in Drawn : /\ lots'[l].at = lots[d].at
                            /\ lots[d].estimated => lots'[l].estimated
<1>1. lots \in Seq(LotRow) BY TypeParts DEF BooksOK
<1>2. PICK taken, made, found : Turns(taken, made, found) BY <1>1, LotsTurn, NothingRefined
<1>3. PICK i \in DOMAIN made : lots'[l] = made[i] BY <1>2, RefinedIs
<1>4. Heirs(made, taken) BY <1>2, RefinedIs DEF MadeWell
<1>5. PICK d \in DOMAIN lots : /\ taken[d] > 0 /\ made[i].at = lots[d].at
                               /\ lots[d].estimated => made[i].estimated
  BY <1>4 DEF Heirs
<1>6. d \in Drawn BY <1>1, <1>2, <1>5, TurnIs DEF Turned, LotsUsed
<1> QED BY <1>3, <1>5, <1>6

\* The two totals in plain numbers: K divides out.
LEMMA ScaleDividesOut ==
    ASSUME NEW A \in Nat, A > 0, NEW B \in Nat, B > 0, NEW K \in Nat, K > 0, NEW N \in Nat,
           NEW C \in Int, NEW W \in Int, NEW x \in Int, NEW y \in Int,
           x = A * C, y * K = B * W,
           2 * (K * C - W) <= K * N, 2 * (W - K * C) <= K * N
    PROVE  2 * (x * B - y * A) <= N * A * B /\ 2 * (y * A - x * B) <= N * A * B
<1>1. PICK P \in Nat : P = A * B /\ P > 0
  <2>1. A * B \in Nat /\ A * B > 0 OBVIOUS
  <2> QED BY <2>1
<1>2. PICK X \in Int : X = x * B OBVIOUS
<1>3. PICK Y \in Int : Y = y * A OBVIOUS
<1>4. X = P * C
  <2>1. (A * C) * B = C * (A * B) BY Reordered
  <2>2. C * P = P * C BY <1>1
  <2> QED BY <1>1, <1>2, <2>1, <2>2
<1>5. K * X = P * (K * C)
  <2>1. (K * P) * C = P * (K * C) /\ (K * P) * C = K * (P * C) BY <1>1, Reordered
  <2> QED BY <1>4, <2>1
<1>6. K * Y = P * W
  <2>1. (y * A) * K = A * (y * K) BY Reordered
  <2>2. (A * B) * W = A * (B * W) BY Reordered
  <2>3. K * Y = Y * K BY <1>3
  <2> QED BY <1>1, <1>3, <2>1, <2>2, <2>3
<1>7. PICK G \in Int : G = K * C OBVIOUS
<1>8. PICK M \in Nat : M = K * N OBVIOUS
<1>9. PICK L \in Nat : L = N * P BY <1>1
<1>10. P * M = K * L
  <2>1. (P * K) * N = P * (K * N) /\ (P * K) * N = K * (P * N) BY <1>1, Reordered
  <2>2. P * N = N * P BY <1>1
  <2> QED BY <1>8, <1>9, <2>1, <2>2
<1>11. PICK D \in Int : D = X - Y BY <1>2, <1>3
<1>12. K * D = P * (G - W)
  <2>1. K * D = K * X - K * Y BY <1>2, <1>3, <1>11
  <2>2. P * (G - W) = P * G - P * W BY <1>1, <1>7
  <2> QED BY <1>5, <1>6, <1>7, <2>1, <2>2
<1>13. 2 * D <= L
  <2>1. SUFFICES ASSUME 2 * D >= L + 1 PROVE FALSE BY <1>9, <1>11
  <2>2. K * (2 * D) >= K * (L + 1) BY <1>9, <1>11, <2>1
  <2>3. K * (2 * D) = P * (2 * (G - W))
    <3>1. K * (2 * D) = 2 * (K * D) BY <1>11
    <3>2. P * (2 * (G - W)) = 2 * (P * (G - W)) BY <1>1, <1>7
    <3> QED BY <1>12, <3>1, <3>2
  <2>4. P * (2 * (G - W)) <= P * M
    <3>1. 2 * (G - W) <= M BY <1>7, <1>8
    <3>2. PICK g \in Int : g = 2 * (G - W) BY <1>7
    <3> QED BY <1>1, <1>8, <3>1, <3>2
  <2>5. K * (L + 1) = K * L + K BY <1>9
  <2>6. PICK a \in Int : a = K * L BY <1>9
  <2> QED BY <1>10, <2>2, <2>3, <2>4, <2>5, <2>6
<1>14. -(2 * D) <= L
  <2>1. SUFFICES ASSUME -(2 * D) >= L + 1 PROVE FALSE BY <1>9, <1>11
  <2>2. K * (-(2 * D)) >= K * (L + 1) BY <1>9, <1>11, <2>1
  <2>3. K * (-(2 * D)) = P * (2 * (W - G))
    <3>1. K * (-(2 * D)) = -(2 * (K * D)) BY <1>11
    <3>2. P * (2 * (W - G)) = -(2 * (P * (G - W))) BY <1>1, <1>7
    <3> QED BY <1>12, <3>1, <3>2
  <2>4. P * (2 * (W - G)) <= P * M
    <3>1. 2 * (W - G) <= M BY <1>7, <1>8
    <3>2. PICK g \in Int : g = 2 * (W - G) BY <1>7
    <3> QED BY <1>1, <1>8, <3>1, <3>2
  <2>5. K * (L + 1) = K * L + K BY <1>9
  <2>6. PICK a \in Int : a = K * L BY <1>9
  <2> QED BY <1>10, <2>2, <2>3, <2>4, <2>5, <2>6
<1>15. N * A * B = L
  <2>1. (N * A) * B = N * (A * B) BY Reordered
  <2> QED BY <1>1, <1>9, <2>1
<1> QED BY <1>2, <1>3, <1>11, <1>13, <1>14, <1>15

\* What the refined rows cost together is their cents.
LEMMA RefinedTotal ==
    ASSUME StockTakeTypeOK, NEW taken, NEW made, NEW found, Turns(taken, made, found),
           NEW a, a = Total([l \in Refined |-> Times(lots'[l].left, lots'[l].cost)])
    PROVE  a \in Fractions /\ a.num = a.den * Tally(CentsIn, made)
<1>1. lots \in Seq(LotRow) BY TypeParts DEF BooksOK
<1>2. Turned(taken, made, found) BY <1>1, TurnIs
<1>3. PICK after : after = lots' OBVIOUS
<1>4. PICK S : S = Refined OBVIOUS
<1>5. StandsIn(made, after, Len(lots), S) BY <1>2, <1>3, <1>4 DEF Turned
<1>6. PICK costs : costs = [l \in S |-> Times(after[l].left, after[l].cost)] OBVIOUS
<1>7. PICK w : w = [l \in S |-> after[l].cost.num] OBVIOUS
<1>8. ASSUME NEW l \in S
      PROVE  /\ after[l] \in LotRow /\ costs[l] \in Fractions /\ w[l] \in Int
             /\ w[l] = CentsIn[after[l]] /\ costs[l].num * 1 = costs[l].den * w[l]
  <2>1. PICK i \in DOMAIN made : after[l] = made[i] /\ made[i] \in LotRow
    BY <1>3, <1>4, RefinedIs
  <2>2. MadeWell(made, taken) BY <1>4, RefinedIs
  <2>3. after[l].cost.den = after[l].left /\ after[l].left \in Nat \ {0}
    BY <2>1, <2>2 DEF MadeWell, Heirs
  <2>4. PICK q \in Nat : q = after[l].left /\ q > 0 BY <2>3
  <2>5. PICK x \in Nat : x = after[l].cost.num BY <2>1 DEF LotRow
  <2>6. PICK n \in Nat : n = q * x BY <2>4, <2>5
  <2>7. costs[l] = [num |-> n, den |-> q] BY <1>6, <2>3, <2>4, <2>5, <2>6 DEF Times, Cost
  <2>8. costs[l] \in Fractions BY <2>4, <2>6, <2>7 DEF Fractions
  <2>9. costs[l].num * 1 = costs[l].den * w[l] BY <1>7, <2>4, <2>5, <2>6, <2>7
  <2>10. CentsIn[after[l]] = after[l].cost.num BY <2>1, CentsInIs DEF CentsInType
  <2> QED BY <1>7, <2>1, <2>5, <2>8, <2>9, <2>10
<1>9. Reads(w, S, CentsIn, after) BY <1>8 DEF Reads
<1>10. IsFiniteSet(S) /\ SumFunctionOnSet(w, S) = Tally(CentsIn, made)
  <2>1. CentsIn \in [LotRow -> Int] BY CentsInIs DEF CentsInType
  <2> QED BY <1>5, <1>9, <2>1, ShiftedSum
<1>11. DOMAIN costs = S BY <1>6
<1>12. Total(costs) \in Fractions /\ Total(costs).num * 1 = Total(costs).den * SumFunctionOnSet(w, S)
  <2>1. 1 \in Nat /\ 1 > 0 OBVIOUS
  <2>2. \A l \in DOMAIN costs : costs[l] \in Fractions BY <1>8, <1>11
  <2>3. \A l \in DOMAIN costs : w[l] \in Int /\ costs[l].num * 1 = costs[l].den * w[l] BY <1>8, <1>11
  <2>4. IsFiniteSet(DOMAIN costs) BY <1>10, <1>11
  <2> QED BY <1>11, <2>1, <2>2, <2>3, <2>4, TotalOnScale
<1>13. a = Total(costs) BY <1>3, <1>4, <1>6
<1>14. a \in Fractions /\ a.num * 1 = a.den * Tally(CentsIn, made) BY <1>10, <1>12, <1>13
<1>15. a.num \in Int BY <1>14 DEF Fractions
<1> QED BY <1>14, <1>15

\* And what the lots drawn from lose is the cost used of them.
LEMMA DrawnTotal ==
    ASSUME StockTakeTypeOK, NEW taken, NEW made, NEW found, Turns(taken, made, found),
           NEW K, Common(K),
           NEW b, b = Total([l \in Drawn |-> Times(lots[l].left - lots'[l].left, lots[l].cost)])
    PROVE  b \in Fractions /\ b.num * K = b.den * CostUsed(K, taken)
<1>1. lots \in Seq(LotRow) BY TypeParts DEF BooksOK
<1>2. Turned(taken, made, found) BY <1>1, TurnIs
<1>3. TakenOK(taken) BY DEF Turns
<1>4. PICK D : D = Drawn OBVIOUS
<1>5. D = {l \in DOMAIN lots : taken[l] > 0} BY <1>2, <1>4 DEF Turned, LotsUsed
<1>6. PICK costs : costs = [l \in D |-> Times(lots[l].left - lots'[l].left, lots[l].cost)] OBVIOUS
<1>7. PICK w : w = [l \in DOMAIN lots |-> OnK(K, l, taken[l])] OBVIOUS
<1>8. ASSUME NEW l \in DOMAIN lots PROVE taken[l] \in Nat /\ w[l] \in Int /\ (l \notin D => w[l] = 0)
  <2>1. taken[l] \in Nat BY <1>3 DEF TakenOK
  <2>2. w[l] \in Nat /\ (taken[l] * lots[l].cost.num) * K = lots[l].cost.den * w[l]
    BY <1>1, <1>7, <2>1, OnKIs
  <2>3. ASSUME l \notin D PROVE w[l] = 0
    <3>1. taken[l] = 0 BY <1>5, <2>1, <2>3
    <3>2. PICK x \in Nat : x = lots[l].cost.num BY <1>1, CostOf
    <3>3. PartOf(K, l) \in Nat BY DEF PartOf, Common
    <3>4. PICK y \in Nat : y = PartOf(K, l) BY <3>3
    <3> QED BY <1>7, <3>1, <3>2, <3>4 DEF OnK
  <2> QED BY <2>1, <2>2, <2>3
<1>9. ASSUME NEW l \in D
      PROVE  costs[l] \in Fractions /\ w[l] \in Int /\ costs[l].num * K = costs[l].den * w[l]
  <2>1. l \in DOMAIN lots /\ taken[l] \in Nat BY <1>5, <1>8
  <2>2. lots'[l].left = lots[l].left - taken[l] BY <1>2, <2>1 DEF Turned
  <2>3. lots[l].left \in Nat BY <1>1, <2>1, RowsOf
  <2>4. lots[l].left - lots'[l].left = taken[l] BY <2>1, <2>2, <2>3
  <2>5. PICK x \in Nat : x = lots[l].cost.num BY <1>1, <2>1, CostOf
  <2>6. PICK y \in Nat : y = lots[l].cost.den /\ y > 0 BY <1>1, <2>1, CostOf
  <2>7. PICK n \in Nat : n = taken[l] * x BY <2>1, <2>5
  <2>8. costs[l] = [num |-> n, den |-> y] BY <1>6, <2>4, <2>5, <2>6, <2>7 DEF Times, Cost
  <2>9. (taken[l] * lots[l].cost.num) * K = lots[l].cost.den * w[l] BY <1>1, <1>7, <2>1, OnKIs
  <2>10. costs[l].num * K = costs[l].den * w[l] BY <2>5, <2>6, <2>7, <2>8, <2>9
  <2>11. costs[l] \in Fractions BY <2>6, <2>7, <2>8 DEF Fractions
  <2> QED BY <1>8, <2>1, <2>10, <2>11
<1>10. IsFiniteSet(DOMAIN lots) /\ D \in SUBSET DOMAIN lots /\ IsFiniteSet(D)
  BY <1>1, <1>5, RowsOf, FS_Subset
<1>11. SumFunctionOnSet(w, DOMAIN lots) = SumFunctionOnSet(w, D)
  <2>1. \A l \in DOMAIN lots : w[l] \in Int BY <1>8
  <2>2. \A l \in DOMAIN lots \ D : w[l] = 0 BY <1>8
  <2> QED BY <1>10, <2>1, <2>2, SumOnSupport
<1>12. CostUsed(K, taken) = SumFunctionOnSet(w, D) BY <1>7, <1>11 DEF CostUsed
<1>13. DOMAIN costs = D BY <1>6
<1>14. Total(costs) \in Fractions /\ Total(costs).num * K = Total(costs).den * SumFunctionOnSet(w, D)
  <2>1. K \in Nat /\ K > 0 BY DEF Common
  <2>2. \A l \in DOMAIN costs : costs[l] \in Fractions BY <1>9, <1>13
  <2>3. \A l \in DOMAIN costs : w[l] \in Int /\ costs[l].num * K = costs[l].den * w[l] BY <1>9, <1>13
  <2>4. IsFiniteSet(DOMAIN costs) BY <1>10, <1>13
  <2> QED BY <1>13, <2>1, <2>2, <2>3, <2>4, TotalOnScale
<1> QED BY <1>4, <1>6, <1>12, <1>14

LEMMA CostHandedOn ==
    ASSUME StockTakeTypeOK, [StockTakeNext]_stockTakeVars, Refined # {}
    PROVE  WithinHalfCents(Total([l \in Refined |-> Times(lots'[l].left, lots'[l].cost)]),
                           Total([l \in Drawn |-> Times(lots[l].left - lots'[l].left, lots[l].cost)]),
                           Cardinality(Drawn))
<1>1. lots \in Seq(LotRow) BY TypeParts DEF BooksOK
<1>2. PICK taken, made, found : Turns(taken, made, found) BY <1>1, LotsTurn, NothingRefined
<1>3. MadeWell(made, taken) BY <1>2, RefinedIs
<1>4. PICK K : Common(K) BY <1>1, CommonExists
<1>5. PICK a : a = Total([l \in Refined |-> Times(lots'[l].left, lots'[l].cost)]) OBVIOUS
<1>6. PICK b : b = Total([l \in Drawn |-> Times(lots[l].left - lots'[l].left, lots[l].cost)]) OBVIOUS
<1>7. a \in Fractions /\ a.num = a.den * Tally(CentsIn, made) BY <1>2, <1>5, RefinedTotal
<1>8. b \in Fractions /\ b.num * K = b.den * CostUsed(K, taken) BY <1>2, <1>4, <1>6, DrawnTotal
<1>9. Drawn = LotsUsed(taken) BY <1>1, <1>2, TurnIs DEF Turned
<1>10. PICK C \in Int : C = Tally(CentsIn, made) BY <1>3, <1>4 DEF MadeWell, CentsBack
<1>11. PICK W \in Int : W = CostUsed(K, taken) BY <1>3, <1>4 DEF MadeWell, CentsBack
<1>12. PICK N \in Nat : N = Cardinality(LotsUsed(taken)) BY <1>3, <1>4 DEF MadeWell, CentsBack
<1>13. 2 * (K * C - W) <= K * N /\ 2 * (W - K * C) <= K * N
  BY <1>3, <1>4, <1>10, <1>11, <1>12 DEF MadeWell, CentsBack
<1>14. PICK A \in Nat : A = a.den /\ A > 0 BY <1>7 DEF Fractions
<1>15. PICK B \in Nat : B = b.den /\ B > 0 BY <1>8 DEF Fractions
<1>16. PICK x \in Int : x = a.num BY <1>7 DEF Fractions
<1>17. PICK y \in Int : y = b.num BY <1>8 DEF Fractions
<1>18. x = A * C /\ y * K = B * W BY <1>7, <1>8, <1>10, <1>11, <1>14, <1>15, <1>16, <1>17
<1>19. K \in Nat /\ K > 0 BY <1>4 DEF Common
<1>20. 2 * (x * B - y * A) <= N * A * B /\ 2 * (y * A - x * B) <= N * A * B
  <2>1. A \in Nat /\ A > 0 /\ B \in Nat /\ B > 0 BY <1>14, <1>15
  <2>2. x = A * C /\ y * K = B * W BY <1>18
  <2>3. K \in Nat /\ K > 0 BY <1>19
  <2>4. 2 * (K * C - W) <= K * N /\ 2 * (W - K * C) <= K * N BY <1>13
  <2> QED BY <2>1, <2>2, <2>3, <2>4, ScaleDividesOut, Zenon
<1>21. PICK d \in Int : d = x * B - y * A BY <1>14, <1>15
<1>22. 2 * d <= N * A * B /\ 2 * (-d) <= N * A * B
  <2>1. y * A - x * B = -d
    <3>1. PICK p \in Int : p = x * B BY <1>15
    <3>2. PICK q \in Int : q = y * A BY <1>14
    <3> QED BY <1>21, <3>1, <3>2
  <2> QED BY <1>20, <1>21, <2>1
<1>23. 2 * (IF d < 0 THEN -d ELSE d) <= N * A * B BY <1>21, <1>22
<1>24. WithinHalfCents(a, b, N) BY <1>14, <1>15, <1>16, <1>17, <1>21, <1>23 DEF WithinHalfCents
<1> QED BY <1>5, <1>6, <1>9, <1>12, <1>24

\* A refine, recorded by hand or by a check, hands on what its lots cost, half a
\* cent a lot apart; every output is as old and as doubtful as one of them.
THEOREM RefinesHandOn == StockTakeSpec => HandedOn
<1>1. StockTakeTypeOK /\ [StockTakeNext]_stockTakeVars =>
        [Refined # {} =>
           WithinHalfCents(Total([l \in Refined |-> Times(lots'[l].left, lots'[l].cost)]),
                           Total([l \in Drawn |-> Times(lots[l].left - lots'[l].left, lots[l].cost)]),
                           Cardinality(Drawn))]_stockTakeVars
  BY CostHandedOn
<1>2. StockTakeTypeOK /\ [StockTakeNext]_stockTakeVars =>
        [\A l \in Refined : \E d \in Drawn :
            /\ lots'[l].at = lots[d].at
            /\ lots[d].estimated => lots'[l].estimated]_stockTakeVars
  BY RefinedInherits
<1>3. StockTakeSpec => CostToTheCent BY <1>1, StockTakeTypeCorrect, PTL DEF StockTakeSpec, CostToTheCent
<1>4. StockTakeSpec => AgeInherited BY <1>2, StockTakeTypeCorrect, PTL DEF StockTakeSpec, AgeInherited
<1> QED BY <1>3, <1>4, PTL DEF HandedOn
=============================================================================
