------------------------ MODULE ContractLinksProofs ------------------------
(***************************************************************************)
(* An appraisal's life, proved for every value of the constants: the first *)
(* half is about ContractLinks, which finds the contract that settles it,  *)
(* the second about Appraisals and Pricing, which draw it up.              *)
(*                                                                         *)
(* The watcher's inductive invariant, IInv, adds what a pass knows.  A contract it has      *)
(* listed as finished can since have been reversed or delisted, but was    *)
(* accepted; and the best link kept so far is a best one of what was       *)
(* observed so far, whatever the order, since better-than is a total order *)
(* on ranks and dates that the observed links are compared by.             *)
(*                                                                         *)
(* That of the appraisals, AppraisalInv, says that an edit in flight fits  *)
(* the row it loaded and a request holds what its phase needs.  Which rule *)
(* wins is a matter of climbing a tree of groups that may hold a cycle:    *)
(* Climb is the way up as a function, HigherIsMet says that it meets what  *)
(* lies above, and MetSoon that it does so within as many steps as there   *)
(* are groups, which is where the code stops looking.                      *)
(*                                                                         *)
(* What an order book is quoted at rests on the slices it is cut into.     *)
(* The code's stable sort is a permutation (BestFirstIs); a slice has the  *)
(* price of the order whose stretch of cumulative volume it lies in        *)
(* (NthIs); so the loop's total is the price of the best slices, run by    *)
(* run (SlicesAddUp), and, since it takes more than its share of the       *)
(* orders ahead of the last slice and nothing behind it (TakesLean), no    *)
(* worse than the mean of the whole book.                                  *)
(***************************************************************************)
EXTENDS ContractLinks, Appraisals, SumLaws, SequenceTheorems, FiniteSetTheorems, TLAPS

Accepted == {"finished", "deleted", "delisted"}
Listing == [contract : Contracts, status : Statuses, page : Nat]

ListedOK ==
    /\ IsFiniteSet(shot)
    /\ \A o \in shot \cup todo : o.status = "finished" => eve[o.contract] \in Accepted
    /\ \A o \in todo : Cites[o.contract] # Nil /\ Lifecycle(o.status) # Nil

SeenOK ==
    \A x \in seen : x.standing = "completed" =>
        Matches(x.contract) /\ eve[x.contract] \in Accepted

BestOK == \A a \in Appraisals : best[a] \in Promise!Bests(seen, a)

IInv == TypeOK /\ NoPhantomPurchase /\ ListedOK /\ SeenOK /\ BestOK

-----------------------------------------------------------------------------

\* What validation makes of a listed contract: a link with one of the five
\* standings, completed only where terms match and EVE said finished.
LEMMA JudgedLink ==
    ASSUME NEW o \in Listing, Lifecycle(o.status) # Nil
    PROVE  /\ Judged(o) \in Promise!Observations
           /\ Judged(o).contract = o.contract
           /\ Judged(o).standing = "completed" =>
                 o.status = "finished" /\ Matches(o.contract)
<1>1. o.contract \in Contracts
  BY DEF Listing
<1>2. Lifecycle(o.status) \in {"completed", "rejected", "in_progress", "expired"}
  BY DEF Lifecycle
<1>3. Lifecycle(o.status) = "completed" => o.status = "finished"
  BY DEF Lifecycle
<1>4. Lifecycle(o.status) \in Validatable
         <=> Lifecycle(o.status) \in {"in_progress", "completed"}
  BY DEF Validatable
<1> QED
  BY <1>1, <1>2, <1>3, <1>4 DEF Judged, Promise!Observations, Promise!Standings

\* The code's order is the promise's: the lower the number, the more meaningful.
LEMMA SameOrder ==
    ASSUME NEW x \in Promise!Observations, NEW y \in Promise!Observations
    PROVE  IsBetter(x, y) <=> Promise!MoreMeaningful(x, y)
<1>1. /\ x.standing \in Promise!Standings /\ y.standing \in Promise!Standings
      /\ IssuedAt[x.contract] \in Nat /\ IssuedAt[y.contract] \in Nat
  BY IssuedAssumption DEF Promise!Observations
<1>2. \A s \in Promise!Standings :
         Promise!Rank(s) \in 0..3 /\ Priority(s) = 3 - Promise!Rank(s)
  BY DEF Promise!Standings, Promise!Rank, Priority
<1> QED
  BY <1>1, <1>2 DEF IsBetter, Promise!MoreMeaningful

\* More meaningful is a strict order whose incomparable links are equals.
LEMMA StrictOrder ==
    ASSUME NEW x \in Promise!Observations, NEW y \in Promise!Observations,
           NEW z \in Promise!Observations
    PROVE  /\ ~Promise!MoreMeaningful(x, x)
           /\ Promise!MoreMeaningful(x, y) => ~Promise!MoreMeaningful(y, x)
           /\ Promise!MoreMeaningful(x, y) /\ ~Promise!MoreMeaningful(z, y)
                 => ~Promise!MoreMeaningful(z, x)
<1>1. \A o \in Promise!Observations :
         o.standing \in Promise!Standings /\ IssuedAt[o.contract] \in Nat
  BY IssuedAssumption DEF Promise!Observations
<1>2. \A s \in Promise!Standings : Promise!Rank(s) \in 0..3
  BY DEF Promise!Standings, Promise!Rank
<1> DEFINE r(o) == Promise!Rank(o.standing)
           t(o) == IssuedAt[o.contract]
<1>3. /\ r(x) \in Nat /\ r(y) \in Nat /\ r(z) \in Nat
      /\ t(x) \in Nat /\ t(y) \in Nat /\ t(z) \in Nat
  BY <1>1, <1>2
<1>4. /\ Promise!MoreMeaningful(x, x) <=> r(x) > r(x) \/ (r(x) = r(x) /\ t(x) > t(x))
      /\ Promise!MoreMeaningful(x, y) <=> r(x) > r(y) \/ (r(x) = r(y) /\ t(x) > t(y))
      /\ Promise!MoreMeaningful(y, x) <=> r(y) > r(x) \/ (r(y) = r(x) /\ t(y) > t(x))
      /\ Promise!MoreMeaningful(z, y) <=> r(z) > r(y) \/ (r(z) = r(y) /\ t(z) > t(y))
      /\ Promise!MoreMeaningful(z, x) <=> r(z) > r(x) \/ (r(z) = r(x) /\ t(z) > t(x))
  BY DEF Promise!MoreMeaningful
<1> HIDE DEF r, t
<1> QED
  BY <1>3, <1>4

LEMMA NilIsNoLink == Nil \notin Promise!Observations
  BY ContractsAssumption DEF Promise!Observations, Promise!Standings

\* One observation: whoever was best before it, the one kept is best after it.
LEMMA BestKept ==
    ASSUME NEW S \in SUBSET Promise!Observations, NEW link \in Promise!Observations,
           NEW a \in Appraisals, NEW b \in Promise!Bests(S, a)
    PROVE  /\ Cites[link.contract] # a => b \in Promise!Bests(S \cup {link}, a)
           /\ Cites[link.contract] = a =>
                 (IF b = Nil \/ IsBetter(link, b) THEN link ELSE b)
                     \in Promise!Bests(S \cup {link}, a)
<1> DEFINE mine(R) == {o \in R : Cites[o.contract] = a}
           top(R) == {o \in mine(R) : \A p \in mine(R) : ~Promise!MoreMeaningful(p, o)}
<1>1. \A R : Promise!Bests(R, a) = top(R) \cup (IF mine(R) = {} THEN {Nil} ELSE {})
  BY DEF Promise!Bests
<1>2. Nil \notin mine(S)
  BY NilIsNoLink
<1>3. CASE Cites[link.contract] # a
  <2>1. mine(S \cup {link}) = mine(S)
    BY <1>3
  <2> QED
    BY <1>1, <1>3, <2>1
<1>4. CASE Cites[link.contract] = a
  <2>1. mine(S \cup {link}) = mine(S) \cup {link}
    BY <1>4
  <2>2. CASE b = Nil
    <3>1. mine(S) = {}
      BY <1>1, <1>2, <2>2
    <3> QED
      BY <1>1, <1>4, <2>1, <2>2, <3>1, StrictOrder
  <2>3. CASE b # Nil
    <3>1. b \in mine(S) /\ \A p \in mine(S) : ~Promise!MoreMeaningful(p, b)
      BY <1>1, <2>3
    <3>2. CASE IsBetter(link, b)
      <4>1. Promise!MoreMeaningful(link, b)
        BY <3>1, <3>2, SameOrder
      <4>2. \A p \in mine(S) : ~Promise!MoreMeaningful(p, link)
        BY <3>1, <4>1, StrictOrder
      <4> QED
        BY <1>1, <1>4, <2>1, <2>3, <3>2, <4>2, StrictOrder
    <3>3. CASE ~IsBetter(link, b)
      <4>1. ~Promise!MoreMeaningful(link, b)
        BY <3>1, <3>3, SameOrder
      <4> QED
        BY <1>1, <1>4, <2>1, <2>3, <3>1, <3>3, <4>1
    <3> QED
      BY <3>2, <3>3
  <2> QED
    BY <2>2, <2>3
<1> QED
  BY <1>3, <1>4

\* An empty answer has no link for anyone.
LEMMA NothingReported == \A a \in Appraisals : NoLinks[a] \in Promise!Bests({}, a)
  BY DEF NoLinks, Promise!Bests

-----------------------------------------------------------------------------

LEMMA InitHolds == Init => IInv
<1> SUFFICES ASSUME Init PROVE IInv
  OBVIOUS
<1>1. TypeOK
  BY PagesAssumption DEF Init, TypeOK, NoLinks, Statuses, Promise!Links
<1>2. ListedOK
  BY FS_EmptySet DEF Init, ListedOK
<1>3. NoPhantomPurchase /\ SeenOK
  BY DEF Init, NoPhantomPurchase, NoLinks, SeenOK
<1>4. BestOK
  BY NothingReported DEF Init, BestOK
<1> QED
  BY <1>1, <1>2, <1>3, <1>4 DEF IInv

-----------------------------------------------------------------------------
(* Steps *)

\* What EVE once accepted it can only reverse and forget.
LEMMA AcceptedStays ==
    ASSUME TypeOK, NEW c \in Contracts, Eve(c), NEW d \in Contracts
    PROVE  /\ eve' \in [Contracts -> Statuses]
           /\ eve[d] \in Accepted => eve'[d] \in Accepted
<1>1. PICK from, to :
         /\ Turn(c, from, to) /\ to \in Statuses
         /\ \A s \in from : s \in Accepted => to \in Accepted
  <2>1. CASE Issue(c)
    BY <2>1 DEF Issue, Accepted, Statuses
  <2>2. CASE Accept(c)
    BY <2>2 DEF Accept, Accepted, Statuses
  <2>3. CASE Void(c)
    BY <2>3 DEF Void, Accepted, Statuses
  <2>4. CASE RunOut(c)
    BY <2>4 DEF RunOut, Accepted, Statuses
  <2>5. CASE Remove(c)
    BY <2>5 DEF Remove, Accepted, Statuses
  <2>6. CASE Delist(c)
    BY <2>6 DEF Delist, Accepted, Statuses
  <2> QED
    BY <2>1, <2>2, <2>3, <2>4, <2>5, <2>6 DEF Eve
<1> QED
  BY <1>1 DEF Turn, TypeOK

LEMMA EveHolds == ASSUME IInv, NEW c \in Contracts, Eve(c) PROVE IInv'
<1>1. UNCHANGED <<entitled, pass, tables, failures>>
  BY DEF Eve
<1>2. TypeOK
  BY DEF IInv
<1>3. /\ eve' \in [Contracts -> Statuses]
      /\ \A d \in Contracts : eve[d] \in Accepted => eve'[d] \in Accepted
  BY <1>2, AcceptedStays
<1>4. TypeOK'
  BY <1>1, <1>2, <1>3 DEF TypeOK, pass, tables
<1>5. NoPhantomPurchase'
  BY <1>1, <1>2, <1>3 DEF IInv, NoPhantomPurchase, TypeOK, tables, Accepted
<1>6. ListedOK'
  <2>1. \A o \in shot \cup todo : o.contract \in Contracts
    BY <1>2 DEF TypeOK
  <2> QED
    BY <1>1, <1>3, <2>1 DEF IInv, ListedOK, pass
<1>7. SeenOK'
  <2>1. \A x \in seen : x.contract \in Contracts
    BY <1>2 DEF TypeOK, Promise!Observations
  <2> QED
    BY <1>1, <1>3, <2>1 DEF IInv, SeenOK, pass
<1>8. BestOK'
  BY <1>1 DEF IInv, BestOK, pass
<1> QED
  BY <1>4, <1>5, <1>6, <1>7, <1>8 DEF IInv

LEMMA StartHolds == ASSUME IInv, Start PROVE IInv'
<1>1. TypeOK'
  BY DEF IInv, TypeOK, Start, world, tables
<1>2. NoPhantomPurchase' /\ SeenOK' /\ BestOK'
  BY DEF IInv, NoPhantomPurchase, SeenOK, BestOK, Start, world, tables
<1>3. ListedOK'
  BY FS_EmptySet DEF IInv, ListedOK, Start, world
<1> QED
  BY <1>1, <1>2, <1>3 DEF IInv

LEMMA ListPageHolds == ASSUME IInv, ListPage PROVE IInv'
<1> DEFINE row(c) == [contract |-> c, status |-> eve[c], page |-> page]
           fresh == {row(c) : c \in OnPage(page)}
           listed == shot \cup fresh
<1>1. TypeOK /\ ListedOK
  BY DEF IInv
<1>2. OnPage(page) \subseteq Contracts
  BY DEF OnPage, Listed
<1>3. fresh \subseteq Listing
  BY <1>1, <1>2 DEF TypeOK, Listing
<1>4. IsFiniteSet(listed)
  <2>1. IsFiniteSet(OnPage(page))
    BY <1>2, ContractsAssumption, FS_Subset
  <2>2. [c \in OnPage(page) |-> row(c)] \in Surjection(OnPage(page), fresh)
    BY DEF Surjection
  <2>3. IsFiniteSet(fresh)
    BY <2>1, <2>2, FS_Surjection
  <2> QED
    BY <1>1, <2>3, FS_Union DEF ListedOK
<1>5. listed \subseteq Listing
  BY <1>1, <1>3 DEF TypeOK, Listing
<1>6. \A o \in listed : o.status = "finished" => eve[o.contract] \in Accepted
  BY <1>1 DEF ListedOK, Accepted
<1>7. /\ UNCHANGED <<world, best, seen, tables, failures>>
      /\ \/ /\ pc' = "observe" /\ page' = 1
            /\ todo' = Candidates(listed) /\ shot' = {o \in listed : IsOutgoingSale(o)}
         \/ pc' = pc /\ page' = page + 1 /\ shot' = listed /\ todo' = todo
  BY DEF ListPage
<1> HIDE DEF listed
<1>8. shot' \subseteq listed /\ (todo' = Candidates(listed) \/ todo' = todo)
  BY <1>7
<1>9. TypeOK'
  <2>1. shot' \subseteq Listing /\ todo' \subseteq Listing
    BY <1>1, <1>5, <1>8 DEF TypeOK, Listing, Candidates
  <2>2. pc' \in {"idle", "list", "observe"} /\ page' \in Nat \ {0}
    BY <1>1, <1>7 DEF TypeOK
  <2> QED
    BY <1>1, <1>7, <2>1, <2>2 DEF TypeOK, Listing, world, tables
<1>10. ListedOK'
  <2>1. IsFiniteSet(shot')
    BY <1>4, <1>8, FS_Subset
  <2>2. eve' = eve
    BY <1>7 DEF world
  <2> QED
    BY <1>1, <1>6, <1>8, <2>1, <2>2 DEF ListedOK, Candidates
<1>11. NoPhantomPurchase' /\ SeenOK' /\ BestOK'
  BY <1>7 DEF IInv, NoPhantomPurchase, SeenOK, BestOK, world, tables
<1> QED
  BY <1>9, <1>10, <1>11 DEF IInv

\* What one observation does to what is kept and seen.
LEMMA Observed ==
    ASSUME IInv, NEW o \in todo, Observe(o)
    PROVE  /\ Cites[o.contract] \in Appraisals
           /\ Judged(o) \in Promise!Observations /\ Judged(o).contract = o.contract
           /\ Judged(o).standing = "completed" =>
                 Matches(o.contract) /\ eve[o.contract] \in Accepted
           /\ seen' = seen \cup {Judged(o)}
           /\ best' = [a \in Appraisals |->
                 IF a = Cites[o.contract] /\ (best[a] = Nil \/ IsBetter(Judged(o), best[a]))
                   THEN Judged(o) ELSE best[a]]
<1>1. o \in Listing /\ Cites[o.contract] # Nil /\ Lifecycle(o.status) # Nil
  BY DEF IInv, TypeOK, ListedOK, Listing
<1>2. Cites[o.contract] \in Appraisals
  BY <1>1, CitesAssumption DEF Listing
<1>3. o.status = "finished" => eve[o.contract] \in Accepted
  BY DEF IInv, ListedOK
<1>4. best \in [Appraisals -> Promise!Links]
  BY DEF IInv, TypeOK
<1>5. /\ seen' = seen \cup {Judged(o)}
      /\ best' = IF best[Cites[o.contract]] = Nil \/ IsBetter(Judged(o), best[Cites[o.contract]])
                   THEN [best EXCEPT ![Cites[o.contract]] = Judged(o)] ELSE best
  BY DEF Observe
<1> QED
  BY <1>1, <1>2, <1>3, <1>4, <1>5, JudgedLink

LEMMA ObserveHolds == ASSUME IInv, NEW o \in todo, Observe(o) PROVE IInv'
<1> DEFINE link == Judged(o)
<1>1. /\ Cites[o.contract] \in Appraisals
      /\ link \in Promise!Observations /\ link.contract = o.contract
      /\ link.standing = "completed" => Matches(o.contract) /\ eve[o.contract] \in Accepted
      /\ seen' = seen \cup {link}
      /\ best' = [a \in Appraisals |->
            IF a = Cites[o.contract] /\ (best[a] = Nil \/ IsBetter(link, best[a]))
              THEN link ELSE best[a]]
  BY Observed
<1>2. UNCHANGED <<world, pc, page, shot, tables, failures>> /\ todo' \subseteq todo
  BY DEF Observe
<1> HIDE DEF link
<1>3. TypeOK /\ NoPhantomPurchase /\ ListedOK /\ SeenOK /\ BestOK
  BY DEF IInv
<1>4. TypeOK'
  <2>1. seen' \subseteq Promise!Observations
    BY <1>1, <1>3 DEF TypeOK
  <2>2. best' \in [Appraisals -> Promise!Links]
    BY <1>1, <1>3 DEF TypeOK, Promise!Links
  <2> QED
    BY <1>2, <1>3, <2>1, <2>2 DEF TypeOK, world, tables
<1>5. NoPhantomPurchase' /\ ListedOK'
  BY <1>2, <1>3 DEF NoPhantomPurchase, ListedOK, world, tables
<1>6. SeenOK'
  BY <1>1, <1>2, <1>3 DEF SeenOK, world
<1>7. BestOK'
  <2> SUFFICES ASSUME NEW a \in Appraisals PROVE best'[a] \in Promise!Bests(seen', a)
    BY DEF BestOK
  <2>1. seen \in SUBSET Promise!Observations /\ best[a] \in Promise!Bests(seen, a)
    BY <1>3 DEF TypeOK, BestOK
  <2>2. /\ Cites[link.contract] # a => best[a] \in Promise!Bests(seen \cup {link}, a)
        /\ Cites[link.contract] = a =>
              (IF best[a] = Nil \/ IsBetter(link, best[a]) THEN link ELSE best[a])
                  \in Promise!Bests(seen \cup {link}, a)
    BY <1>1, <2>1, BestKept
  <2> QED
    BY <1>1, <2>2
<1> QED
  BY <1>4, <1>5, <1>6, <1>7 DEF IInv

\* A best link that is shown as completed was accepted on matching terms.
LEMMA CompletedIsTrue ==
    ASSUME IInv, NEW a \in Appraisals, best[a] # Nil, best[a].standing = "completed"
    PROVE  LET c == best[a].contract IN
           c \in Contracts /\ Cites[c] = a /\ Matches(c) /\ eve[c] \in Accepted
<1>1. best[a] \in seen /\ Cites[best[a].contract] = a
  BY DEF IInv, BestOK, Promise!Bests
<1> QED
  BY <1>1 DEF IInv, SeenOK, TypeOK, Promise!Observations

LEMMA Resting == ASSUME Rest PROVE ListedOK' /\ SeenOK' /\ BestOK'
  BY FS_EmptySet, NothingReported DEF Rest, ListedOK, SeenOK, BestOK

LEMMA RestingTypes ==
    ASSUME TypeOK, Rest, eve' = eve, entitled' = entitled
    PROVE  /\ eve' \in [Contracts -> Statuses] /\ entitled' \in BOOLEAN
           /\ pc' \in {"idle", "list", "observe"} /\ page' \in Nat \ {0}
           /\ shot' \subseteq Listing /\ todo' \subseteq Listing
           /\ seen' \subseteq Promise!Observations
           /\ best' \in [Appraisals -> Promise!Links]
  BY DEF TypeOK, Rest, NoLinks, Promise!Links

LEMMA CommitHolds == ASSUME IInv, Commit PROVE IInv'
<1>1. /\ Rest /\ UNCHANGED <<eve, entitled, failures>>
      /\ links' = best /\ bought' = Materialized /\ sold' = Recorded
  BY DEF Commit, Reconciled, world
<1>2. TypeOK
  BY DEF IInv
<1>3. \A c \in Contracts : Times(c) \in Nat
  <2> SUFFICES ASSUME NEW c \in Contracts PROVE Times(c) \in Nat
    OBVIOUS
  <2>1. IsFiniteSet({o \in shot : o.contract = c})
    BY FS_Subset DEF IInv, ListedOK
  <2> QED
    BY <2>1, FS_CardinalityType DEF Times
<1>4. TypeOK'
  <2>1. bought' \in [Appraisals -> Contracts \cup {Nil}]
    BY <1>1, <1>2, CompletedIsTrue DEF Materialized, TypeOK
  <2>2. sold' \in [Contracts -> Nat]
    BY <1>1, <1>2, <1>3 DEF Recorded, TypeOK
  <2>3. links' \in [Appraisals -> Promise!Links] /\ failures' \in 0 .. MaxFailures
    BY <1>1, <1>2 DEF TypeOK
  <2> QED
    BY <1>1, <1>2, <2>1, <2>2, <2>3, RestingTypes DEF TypeOK, Listing
<1>5. NoPhantomPurchase'
  <2> SUFFICES ASSUME NEW a \in Appraisals, bought'[a] # Nil
               PROVE  /\ Cites[bought'[a]] = a /\ Matches(bought'[a])
                      /\ eve[bought'[a]] \in Accepted
    BY <1>1 DEF NoPhantomPurchase, Accepted
  <2>1. CASE best[a] # Nil /\ best[a].standing = "completed" /\ bought[a] = Nil
    BY <1>1, <2>1, CompletedIsTrue DEF Materialized
  <2>2. CASE ~(best[a] # Nil /\ best[a].standing = "completed" /\ bought[a] = Nil)
    <3>1. bought'[a] = bought[a]
      BY <1>1, <2>2 DEF Materialized
    <3> QED
      BY <3>1 DEF IInv, NoPhantomPurchase, Accepted
  <2> QED
    BY <2>1, <2>2
<1>6. ListedOK' /\ SeenOK' /\ BestOK'
  BY <1>1, Resting
<1> QED
  BY <1>4, <1>5, <1>6 DEF IInv

LEMMA FailHolds == ASSUME IInv, Fail PROVE IInv'
<1>1. /\ Rest /\ UNCHANGED <<eve, entitled, links, bought, sold>>
      /\ failures < MaxFailures /\ failures' = failures + 1
  BY DEF Fail, world, tables
<1>2. TypeOK /\ NoPhantomPurchase
  BY DEF IInv
<1>3. failures' \in 0 .. MaxFailures
  BY <1>1, <1>2, PagesAssumption DEF TypeOK
<1>4. TypeOK'
  BY <1>1, <1>2, <1>3, RestingTypes DEF TypeOK, Listing
<1>5. NoPhantomPurchase'
  BY <1>1, <1>2 DEF NoPhantomPurchase
<1> QED
  BY <1>1, <1>4, <1>5, Resting DEF IInv

LEMMA QuietHolds ==
    ASSUME IInv, eve' = eve, entitled' \in BOOLEAN, UNCHANGED <<pass, tables, failures>>
    PROVE  IInv'
<1>1. TypeOK'
  BY DEF IInv, TypeOK, pass, tables
<1>2. NoPhantomPurchase' /\ ListedOK' /\ SeenOK' /\ BestOK'
  BY DEF IInv, NoPhantomPurchase, ListedOK, SeenOK, BestOK, pass, tables
<1> QED
  BY <1>1, <1>2 DEF IInv

LEMMA StepHolds == IInv /\ [Next]_vars => IInv'
<1> SUFFICES ASSUME IInv, [Next]_vars PROVE IInv'
  OBVIOUS
<1>1. CASE Start
  BY <1>1, StartHolds
<1>2. CASE ListPage
  BY <1>2, ListPageHolds
<1>3. CASE \E o \in todo : Observe(o)
  BY <1>3, ObserveHolds
<1>4. CASE Commit
  BY <1>4, CommitHolds
<1>5. CASE Fail
  BY <1>5, FailHolds
<1>6. CASE Entitle
  BY <1>6, QuietHolds DEF Entitle
<1>7. CASE \E c \in Contracts : Eve(c)
  BY <1>7, EveHolds
<1>8. CASE UNCHANGED vars
  <2>1. entitled' \in BOOLEAN /\ eve' = eve /\ UNCHANGED <<pass, tables, failures>>
    BY <1>8 DEF vars, world, IInv, TypeOK
  <2> QED
    BY <2>1, QuietHolds
<1> QED
  BY <1>1, <1>2, <1>3, <1>4, <1>5, <1>6, <1>7, <1>8 DEF Next, Watch

\* The invariant holds in every reachable state.
THEOREM Inductive == Spec => []IInv
  BY InitHolds, StepHolds, PTL DEF Spec

-----------------------------------------------------------------------------
(* Results *)

\* A step never takes a purchase or a recorded sale back.
LEMMA BookedStay ==
    ASSUME IInv, [Next]_vars
    PROVE  /\ \A a \in Appraisals : bought[a] # Nil => bought'[a] = bought[a]
           /\ \A c \in Contracts : sold[c] # 0 => sold'[c] = sold[c]
<1>1. CASE Commit
  BY <1>1 DEF Commit, Materialized, Recorded
<1>2. CASE UNCHANGED tables
  BY <1>2 DEF tables
<1>3. Commit \/ UNCHANGED tables
  BY DEF Next, Watch, Start, ListPage, Observe, Fail, Entitle, Eve, vars, tables
<1> QED
  BY <1>1, <1>2, <1>3

\* Lots come only from a contract that cites the appraisal, carries its terms and was
\* accepted, whichever pages a pass saw; and what was booked once is never booked anew
\* (materialize_buyback_lots, run_corp_contracts).
THEOREM PurchasesStayTrue == Spec => PurchasesTrue
<1>1. IInv => TypeOK /\ NoPhantomPurchase
  BY DEF IInv
<1>2. IInv /\ [Next]_vars =>
        [/\ \A a \in Appraisals : bought[a] # Nil => bought'[a] = bought[a]
         /\ \A c \in Contracts : sold[c] # 0 => sold'[c] = sold[c]]_vars
  BY BookedStay
<1> QED
  BY <1>1, <1>2, Inductive, PTL DEF Spec, PurchasesTrue, BookedOnceEach

\* Every commit publishes, for all appraisals at once, a best link of what the pass saw,
\* and buys exactly the appraisals it shows as completed.
LEMMA CommitPublishes == ASSUME IInv, Commit PROVE Promise!Publish
<1>1. /\ Rest /\ links' = best /\ bought' = Materialized
  BY DEF Commit, Reconciled
<1>2. seen' \in SUBSET Promise!Observations
  BY <1>1 DEF Rest
<1>3. links' \in [Appraisals -> Promise!Links]
  BY <1>1 DEF IInv, TypeOK
<1>4. \A a \in Appraisals : links'[a] \in Promise!Bests(seen, a)
  BY <1>1 DEF IInv, BestOK
<1>5. {a \in Appraisals : bought'[a] # Nil} =
        {a \in Appraisals : bought[a] # Nil}
          \cup {a \in Appraisals : Promise!Completed(links'[a])}
  <2>1. \A a \in Appraisals : bought'[a] # Nil <=>
            bought[a] # Nil \/ Promise!Completed(links'[a])
    <3> SUFFICES ASSUME NEW a \in Appraisals
                 PROVE  bought'[a] # Nil <=> bought[a] # Nil \/ Promise!Completed(links'[a])
      OBVIOUS
    <3>1. Promise!Completed(links'[a]) <=> best[a] # Nil /\ best[a].standing = "completed"
      BY <1>1 DEF Promise!Completed
    <3>2. Promise!Completed(links'[a]) => best[a].contract # Nil
      BY <3>1, CompletedIsTrue, ContractsAssumption
    <3> QED
      BY <1>1, <3>1, <3>2 DEF Materialized
  <2> QED
    BY <2>1
<1> QED
  BY <1>2, <1>3, <1>4, <1>5 DEF Promise!Publish

LEMMA StepRefines == IInv /\ IInv' /\ [Next]_vars => [Promise!Next]_Promise!vars
<1> SUFFICES ASSUME IInv, IInv', [Next]_vars PROVE [Promise!Next]_Promise!vars
  OBVIOUS
<1>1. CASE Commit
  BY <1>1, CommitPublishes DEF Promise!Next
<1>2. CASE UNCHANGED <<links, bought>>
  <2>1. seen' \in SUBSET Promise!Observations
    BY DEF IInv, TypeOK
  <2> QED
    BY <1>2, <2>1 DEF Promise!Next, Promise!Report
<1>3. Commit \/ UNCHANGED <<links, bought>>
  BY DEF Next, Watch, Start, ListPage, Observe, Fail, Entitle, Eve, vars, tables
<1> QED
  BY <1>1, <1>2, <1>3

\* The watcher implements BestLinks, for every page size, order and number of failures.
THEOREM WatcherFollowsBest == Spec => FollowsBest
<1>1. Init => Promise!Init
  BY DEF Init, Promise!Init, NoLinks
<1> QED
  BY <1>1, StepRefines, Inductive, PTL DEF Spec, FollowsBest, Promise!Spec

-----------------------------------------------------------------------------
(* Appraisals: what is stored and in flight *)

\* An edit in flight: what it wants fits the row it loaded.
UnitOK(e) ==
    /\ e.op \in {"set_rule", "update_config", "set_division", "delete_rule"}
    /\ e.op \in {"set_rule", "delete_rule"} => e.key \in Targets
    /\ e.op \in {"update_config", "set_division"} => e.key = ConfigKey
    /\ e.op = "set_rule" => e.want \in RuleBody
    /\ e.op = "update_config" => e.want \in ConfigBody
    /\ e.op = "set_division" =>
         e.loaded # None /\ \E d \in Divisions \cup {None} : e.want = [division |-> d]
    /\ e.loaded = None \/ e.loaded \in Stored(e.key)

\* What a member asked, with the place it was given.
AskedFor == [items : Seq([type : Types \cup {None}, quantity : Nat \ {0}]),
             paste : Seq([name : DOMAIN TypesNamed, quantity : Nat \ {0}]),
             place : Places \cup Hubs \cup {None}]

AskOK(a) ==
    /\ a = [phase |-> a.phase, request |-> a.request, config |-> a.config, resolve |-> a.resolve]
    /\ a.phase \in {"absent", "create", "rules", "price"}
    /\ a.config = None \/ a.config \in ConfigRow
    /\ a.phase \in {"rules", "price"} => a.config # None
    /\ a.request \in AskedFor
    /\ a.phase = "price" => /\ a.request.place \in Places \cup Hubs
                            /\ Len(Gathered(a.request)) <= MaxItems

SavedOK(a) ==
    /\ a.rejected_count \in 0 .. MaxItems /\ a.delivery \in Places \cup Hubs
    /\ \A i \in Bought(a) : a.lines[i].line_total = a.lines[i].unit_price * a.lines[i].quantity
    /\ a.accepted_total = SumFunction([i \in Bought(a) |-> a.lines[i].line_total])

RowsKept ==
    /\ rows = [k \in Keys |-> rows[k]]
    /\ \A k \in Keys : rows[k] # None => rows[k] \in Stored(k)
    /\ edits \in Nat

UnitsKept ==
    /\ unit = [m \in Managers |-> unit[m]]
    /\ \A m \in Managers : unit[m] # None => UnitOK(unit[m])

AsksKept ==
    /\ ask = [u \in Members |-> ask[u]]
    /\ \A u \in Members : ask[u] # None => AskOK(ask[u])

SavedKept ==
    /\ \E S : saved \in Seq(S)
    /\ \A i \in DOMAIN saved : SavedOK(saved[i])

AppraisalInv ==
    /\ RowsKept /\ UnitsKept /\ AsksKept /\ SavedKept
    /\ places \subseteq Places /\ token \in {"none", "works", "failing"} /\ books \in Books

LEMMA KeysKnown == ConfigKey \in Keys /\ ConfigKey \notin Targets /\ Keys = Targets \cup {ConfigKey}
BY DEF Keys, ConfigKey, Targets, TypeTarget, GroupTarget

LEMMA NoneKnown ==
    /\ None \notin ConfigRow /\ None \notin RuleRow /\ None \notin Hubs \cup Places
    /\ \A k \in Keys : None \notin Stored(k)
BY RowsAssumption, HubsAssumption DEF Stored

LEMMA DefaultKnown == Default \in ConfigBody
<1>1. PICK h0 \in Hubs : h0 = CHOOSE h \in Hubs \ EsiHubs : TRUE BY HubsAssumption
<1>2. Default = [hub |-> h0, basis |-> "buy", percentage |-> 90,
                 agg |-> "percentile", accepted |-> TRUE]
  BY <1>1 DEF Default
<1> QED BY <1>1, <1>2 DEF ConfigBody, Bases, AggregateField

\* A row made of a body, and a row some columns of which are written.
LEMMA FreshStored ==
    ASSUME edits \in Nat, NEW want
    PROVE  /\ want \in ConfigBody => Fresh(want) \in ConfigRow
           /\ want \in RuleBody => Fresh(want) \in RuleRow
<1>1. want \in ConfigBody => Fresh(want) \in ConfigRow BY DEF Fresh, ConfigBody, ConfigRow
<1>2. want \in RuleBody => Fresh(want) \in RuleRow BY DEF Fresh, RuleBody, RuleRow
<1> QED BY <1>1, <1>2

LEMMA MergedConfig ==
    ASSUME NEW row \in ConfigRow, NEW loaded, NEW want
    PROVE  /\ want \in ConfigBody => Merged(row, loaded, want) \in ConfigRow
           /\ want \in ConfigBody => Merged(row, loaded, want).division = row.division
           /\ \A d \in Divisions \cup {None} :
                want = [division |-> d] => Merged(row, loaded, want) \in ConfigRow
<1>1. want \in ConfigBody => Merged(row, loaded, want) \in ConfigRow
  BY DEF Merged, ConfigBody, ConfigRow
<1>2. want \in ConfigBody => Merged(row, loaded, want).division = row.division
  BY DEF Merged, ConfigBody, ConfigRow
<1>3. ASSUME NEW d \in Divisions \cup {None}, want = [division |-> d]
      PROVE  Merged(row, loaded, want) \in ConfigRow
  BY <1>3 DEF Merged, ConfigRow
<1> QED BY <1>1, <1>2, <1>3

LEMMA MergedRule ==
    ASSUME NEW row \in RuleRow, NEW loaded, NEW want \in RuleBody
    PROVE  Merged(row, loaded, want) \in RuleRow
BY DEF Merged, RuleBody, RuleRow

\* A write of a body leaves a stored row, and a write of the configuration that
\* is not about its division leaves that alone.
LEMMA WriteStores ==
    ASSUME RowsKept, NEW k \in Keys, NEW loaded, NEW want,
           CanWrite(k, loaded), Write(k, loaded, want),
           \/ k \in Targets /\ want \in RuleBody
           \/ k = ConfigKey /\ want \in ConfigBody
           \/ /\ k = ConfigKey /\ loaded # None
              /\ \E d \in Divisions \cup {None} : want = [division |-> d]
    PROVE  /\ rows' = [j \in Keys |-> rows'[j]]
           /\ \A j \in Keys : rows'[j] # None => rows'[j] \in Stored(j)
           /\ \A j \in Keys \ {k} : rows'[j] = rows[j]
           /\ rows'[k] \in Stored(k)
           /\ loaded = None => rows[k] = None
           /\ want \in ConfigBody /\ k = ConfigKey /\ rows[k] # None => rows'[k].division = rows[k].division
<1>1. rows = [j \in Keys |-> rows[j]] /\ edits \in Nat
      /\ \A j \in Keys : rows[j] # None => rows[j] \in Stored(j)
  BY DEF RowsKept
<1>2. PICK new : new = IF loaded = None THEN Fresh(want) ELSE Merged(rows[k], loaded, want)
  OBVIOUS
<1>3. rows' = [rows EXCEPT ![k] = new] BY <1>2 DEF Write
<1>4. rows'[k] = new /\ rows' = [j \in Keys |-> rows'[j]]
      /\ \A j \in Keys \ {k} : rows'[j] = rows[j]
  BY <1>1, <1>3
<1>5. loaded = None => rows[k] = None BY DEF CanWrite
<1>6. loaded # None => rows[k] # None /\ rows[k] \in Stored(k) BY <1>1 DEF CanWrite
<1>7. new \in Stored(k)
  <2>1. CASE k \in Targets
    <3>1. k # ConfigKey /\ Stored(k) = RuleRow /\ want \in RuleBody
      BY <2>1, KeysKnown DEF Stored
    <3> QED BY <1>1, <1>2, <1>6, <3>1, FreshStored, MergedRule
  <2>2. CASE k = ConfigKey /\ want \in ConfigBody
    <3>1. Stored(k) = ConfigRow BY <2>2 DEF Stored
    <3> QED BY <1>1, <1>2, <1>6, <2>2, <3>1, FreshStored, MergedConfig
  <2>3. CASE k = ConfigKey /\ loaded # None /\ \E d \in Divisions \cup {None} : want = [division |-> d]
    <3>1. Stored(k) = ConfigRow /\ rows[k] \in ConfigRow BY <1>6, <2>3 DEF Stored
    <3>2. PICK d \in Divisions \cup {None} : want = [division |-> d] BY <2>3
    <3>3. Merged(rows[k], loaded, want) \in ConfigRow BY <3>1, <3>2, MergedConfig
    <3> QED BY <1>2, <2>3, <3>1, <3>3
  <2> QED BY <2>1, <2>2, <2>3
<1>8. want \in ConfigBody /\ k = ConfigKey /\ rows[k] # None => new.division = rows[k].division
  <2>1. SUFFICES ASSUME want \in ConfigBody, k = ConfigKey, rows[k] # None
                 PROVE  new.division = rows[k].division
    OBVIOUS
  <2>2. loaded # None /\ rows[k] \in ConfigRow BY <1>1, <1>5, <2>1 DEF Stored
  <2> QED BY <1>2, <2>1, <2>2, MergedConfig
<1> QED BY <1>1, <1>4, <1>5, <1>7, <1>8

-----------------------------------------------------------------------------
(* Every step keeps the invariant *)

LEMMA AppraisalStarts == AppraisalInit => AppraisalInv
<1> SUFFICES ASSUME AppraisalInit PROVE AppraisalInv
  OBVIOUS
<1>1. RowsKept
  <2>1. PICK config \in {FirstConfig, None} :
          rows = [k \in Keys |-> IF k = ConfigKey THEN config ELSE FirstRules[k]]
    BY DEF AppraisalInit
  <2>2. \A k \in Keys : rows[k] = IF k = ConfigKey THEN config ELSE FirstRules[k] BY <2>1
  <2>3. \A k \in Keys : rows[k] # None => rows[k] \in Stored(k)
    BY <2>2, KeysKnown, RowsAssumption DEF Stored
  <2> QED BY <2>1, <2>3 DEF AppraisalInit, RowsKept
<1>2. UnitsKept BY DEF AppraisalInit, UnitsKept
<1>3. AsksKept BY DEF AppraisalInit, AsksKept
<1>4. SavedKept
  <2>1. saved \in Seq({}) /\ DOMAIN saved = {} BY DEF AppraisalInit
  <2> QED BY <2>1 DEF SavedKept
<1> QED BY <1>1, <1>2, <1>3, <1>4 DEF AppraisalInit, AppraisalInv

\* The parts a step leaves alone.
LEMMA RowsAlone == RowsKept /\ rows' = rows /\ edits' \in Nat => RowsKept'
BY DEF RowsKept
LEMMA UnitsAlone == UnitsKept /\ unit' = unit => UnitsKept'
BY DEF UnitsKept
LEMMA AsksAlone == AsksKept /\ ask' = ask => AsksKept'
BY DEF AsksKept
LEMMA SavedAlone == SavedKept /\ saved' = saved => SavedKept'
BY DEF SavedKept

LEMMA BeginKeeps ==
    ASSUME AppraisalInv, NEW m \in Managers, NEW op, NEW k, NEW want,
           Begin(m, op, k, want),
           UnitOK([op |-> op, key |-> k, want |-> want, loaded |-> rows[k]])
    PROVE  AppraisalInv'
<1>1. PICK e : e = [op |-> op, key |-> k, want |-> want, loaded |-> rows[k]] OBVIOUS
<1>2. unit' = [unit EXCEPT ![m] = e] /\ edits' = edits + 1 /\ UNCHANGED <<rows, places, market, ask, saved, asked>>
  BY <1>1 DEF Begin
<1>3. UnitOK(e) BY <1>1
<1>4. UnitsKept' BY <1>2, <1>3 DEF AppraisalInv, UnitsKept
<1>5. edits' \in Nat BY <1>2 DEF AppraisalInv, RowsKept
<1> QED BY <1>2, <1>4, <1>5, RowsAlone, AsksAlone, SavedAlone DEF AppraisalInv, market

\* Loading a row for an edit: what is in flight fits it.
LEMMA LoadedOK ==
    ASSUME RowsKept, NEW k \in Keys
    PROVE  rows[k] = None \/ rows[k] \in Stored(k)
BY DEF RowsKept

LEMMA EditsBegin ==
    ASSUME AppraisalInv, NEW m \in Managers,
           \/ \E k \in Targets : SetRule(m, k) \/ DeleteRule(m, k)
           \/ UpdateConfig(m)
           \/ \E d \in Divisions \cup {None} : SetDivision(m, d)
    PROVE  AppraisalInv'
<1>0. RowsKept BY DEF AppraisalInv
<1>1. ASSUME NEW k \in Targets, SetRule(m, k) PROVE AppraisalInv'
  <2>1. PICK want \in Edits[k] : Begin(m, "set_rule", k, want) BY <1>1 DEF SetRule
  <2>2. want \in RuleBody /\ k \in Keys BY <2>1, RowsAssumption, KeysKnown
  <2>3. UnitOK([op |-> "set_rule", key |-> k, want |-> want, loaded |-> rows[k]])
    BY <1>0, <2>2, LoadedOK DEF UnitOK
  <2> QED BY <2>1, <2>3, BeginKeeps
<1>2. ASSUME NEW k \in Targets, DeleteRule(m, k) PROVE AppraisalInv'
  <2>1. Begin(m, "delete_rule", k, <<>>) /\ k \in Keys BY <1>2, KeysKnown DEF DeleteRule
  <2>2. UnitOK([op |-> "delete_rule", key |-> k, want |-> <<>>, loaded |-> rows[k]])
    BY <1>0, <2>1, LoadedOK DEF UnitOK
  <2> QED BY <2>1, <2>2, BeginKeeps
<1>3. ASSUME UpdateConfig(m) PROVE AppraisalInv'
  <2>1. PICK want \in Edits[ConfigKey] : Begin(m, "update_config", ConfigKey, want)
    BY <1>3 DEF UpdateConfig
  <2>2. want \in ConfigBody /\ ConfigKey \in Keys BY <2>1, RowsAssumption, KeysKnown
  <2>3. UnitOK([op |-> "update_config", key |-> ConfigKey, want |-> want, loaded |-> rows[ConfigKey]])
    BY <1>0, <2>2, LoadedOK DEF UnitOK
  <2> QED BY <2>1, <2>3, BeginKeeps
<1>4. ASSUME NEW d \in Divisions \cup {None}, SetDivision(m, d) PROVE AppraisalInv'
  <2>1. Begin(m, "set_division", ConfigKey, [division |-> d]) /\ rows[ConfigKey] # None
    BY <1>4 DEF SetDivision, Config
  <2>2. UnitOK([op |-> "set_division", key |-> ConfigKey, want |-> [division |-> d],
                loaded |-> rows[ConfigKey]])
    BY <1>0, <2>1, LoadedOK, KeysKnown DEF UnitOK
  <2> QED BY <2>1, <2>2, BeginKeeps
<1> QED BY <1>1, <1>2, <1>3, <1>4

\* What an edit's last statement does to the rows: nothing, a row deleted, or one written.
LEMMA FinishStores ==
    ASSUME AppraisalInv, NEW m \in Managers, Finish(m)
    PROVE  /\ RowsKept'
           /\ \A j \in Keys : j # unit[m].key => rows'[j] = rows[j]
           /\ unit[m].op \in {"set_rule", "update_config", "delete_rule"}
                => (Config # None => rows'[ConfigKey].division = Config.division)
<1>1. PICK e : e = unit[m] OBVIOUS
<1>2. UnitOK(e) /\ RowsKept /\ edits' = edits /\ unit[m] # None
  BY <1>1 DEF AppraisalInv, UnitsKept, Finish
<1>3. e.key \in Keys BY <1>2, KeysKnown DEF UnitOK
<1>4. CASE rows' = rows
  BY <1>2, <1>4 DEF RowsKept, Config
<1>5. CASE e.op = "delete_rule" /\ rows' # rows
  <2>1. rows' = [rows EXCEPT ![e.key] = None]
    BY <1>1, <1>2, <1>3, <1>5 DEF Finish, RowsKept
  <2>2. e.key \in Targets /\ e.key # ConfigKey BY <1>2, <1>5, KeysKnown DEF UnitOK
  <2> QED BY <1>1, <1>2, <2>1, <2>2, KeysKnown DEF RowsKept, Config
<1>6. CASE e.op # "delete_rule" /\ rows' # rows
  <2>1. CanWrite(e.key, e.loaded) /\ Write(e.key, e.loaded, e.want)
    BY <1>1, <1>6 DEF Finish
  <2>2. \/ e.key \in Targets /\ e.want \in RuleBody
        \/ e.key = ConfigKey /\ e.want \in ConfigBody
        \/ /\ e.key = ConfigKey /\ e.loaded # None
           /\ \E d \in Divisions \cup {None} : e.want = [division |-> d]
    BY <1>2, <1>6 DEF UnitOK
  <2>3. /\ rows' = [j \in Keys |-> rows'[j]]
        /\ \A j \in Keys : rows'[j] # None => rows'[j] \in Stored(j)
        /\ \A j \in Keys \ {e.key} : rows'[j] = rows[j]
        /\ e.want \in ConfigBody /\ e.key = ConfigKey /\ rows[e.key] # None
             => rows'[e.key].division = rows[e.key].division
    BY <1>2, <1>3, <2>1, <2>2, WriteStores
  <2>4. e.op \in {"set_rule", "update_config"} => e.key # ConfigKey \/ e.want \in ConfigBody
    BY <1>2, KeysKnown DEF UnitOK
  <2>5. RowsKept' BY <1>2, <2>3 DEF RowsKept
  <2> QED BY <1>1, <1>6, <2>3, <2>4, <2>5, KeysKnown DEF Config
<1> QED BY <1>4, <1>5, <1>6

LEMMA FinishKeeps ==
    ASSUME AppraisalInv, NEW m \in Managers, Finish(m)
    PROVE  AppraisalInv'
<1>1. RowsKept' BY FinishStores
<1>2. unit' = [unit EXCEPT ![m] = None] /\ UNCHANGED <<places, market, ask, saved, edits, asked>>
  BY DEF Finish
<1>3. UnitsKept' BY <1>2 DEF AppraisalInv, UnitsKept
<1> QED BY <1>1, <1>2, <1>3, AsksAlone, SavedAlone DEF AppraisalInv, market

LEMMA PlacesAndTokenKeep ==
    ASSUME AppraisalInv, EditPlaces \/ TokenLost
    PROVE  AppraisalInv'
<1>1. RowsKept' /\ UnitsKept' /\ AsksKept' /\ SavedKept'
  <2>1. edits' \in Nat BY DEF EditPlaces, TokenLost, AppraisalInv, RowsKept
  <2>2. rows' = rows /\ unit' = unit /\ ask' = ask /\ saved' = saved BY DEF EditPlaces, TokenLost
  <2> QED BY <2>1, <2>2, RowsAlone, UnitsAlone, AsksAlone, SavedAlone DEF AppraisalInv
<1> QED BY <1>1 DEF EditPlaces, TokenLost, AppraisalInv, market

-----------------------------------------------------------------------------
(* Requests *)

LEMMA GatheredIsSequence ==
    ASSUME NEW r, NEW p, r \in AskedFor
    PROVE  /\ \E S : Gathered(r) \in Seq(S)
           /\ Gathered([r EXCEPT !.place = p]) = Gathered(r)
<1>1. PICK it : it = r.items OBVIOUS
<1>2. PICK g : g = [i \in DOMAIN r.paste |->
                  LET named == TypesNamed[r.paste[i].name] IN
                  [type |-> IF Cardinality(named) = 1 THEN CHOOSE t \in named : TRUE ELSE None,
                   quantity |-> r.paste[i].quantity]]
  OBVIOUS
<1>3. r.items \in Seq([type : Types \cup {None}, quantity : Nat \ {0}])
      /\ r.paste \in Seq([name : DOMAIN TypesNamed, quantity : Nat \ {0}])
  BY DEF AskedFor
<1>4. PICK S : S = {it[i] : i \in DOMAIN it} \cup {g[i] : i \in DOMAIN g} OBVIOUS
<1>5. it \in Seq(S) /\ g \in Seq(S)
  <2>1. PICK n \in Nat : it = [i \in 1 .. n |-> it[i]] /\ DOMAIN it = 1 .. n
    <3>1. it = [i \in 1 .. Len(it) |-> it[i]] /\ Len(it) \in Nat /\ DOMAIN it = 1 .. Len(it)
      BY <1>1, <1>3
    <3> QED BY <3>1
  <2>2. PICK k \in Nat : g = [i \in 1 .. k |-> g[i]] /\ DOMAIN g = 1 .. k
    <3>1. DOMAIN r.paste = 1 .. Len(r.paste) /\ Len(r.paste) \in Nat BY <1>3
    <3>2. g = [i \in 1 .. Len(r.paste) |-> g[i]] /\ DOMAIN g = 1 .. Len(r.paste) BY <1>2, <3>1
    <3> QED BY <3>1, <3>2
  <2>3. \A i \in 1 .. n : it[i] \in S BY <1>4, <2>1
  <2>4. \A i \in 1 .. k : g[i] \in S BY <1>4, <2>2
  <2>5. [i \in 1 .. n |-> it[i]] \in Seq(S) BY <2>3
  <2>6. [i \in 1 .. k |-> g[i]] \in Seq(S) BY <2>4
  <2> QED BY <2>1, <2>2, <2>5, <2>6
<1>6. Gathered(r) = r.items \o g BY <1>2 DEF Gathered
<1>7. Gathered(r) \in Seq(S) BY <1>1, <1>5, <1>6
<1>8. Gathered([r EXCEPT !.place = p]) = r.items \o g
  <2>1. PICK q : q = [r EXCEPT !.place = p] OBVIOUS
  <2>2. q.items = r.items /\ q.paste = r.paste BY <2>1 DEF AskedFor
  <2>3. Gathered(q) = q.items \o g BY <1>2, <2>2 DEF Gathered
  <2> QED BY <2>1, <2>2, <2>3
<1> QED BY <1>6, <1>7, <1>8

LEMMA AskKeeps ==
    ASSUME AppraisalInv, NEW u \in Members, Ask(u)
    PROVE  AppraisalInv'
<1>1. PICK r \in Requests :
         ask' = [ask EXCEPT ![u] = [phase |-> IF Config = None THEN "absent" ELSE "rules",
                                    request |-> r, config |-> Config, resolve |-> None]]
    BY DEF Ask
<1>2. PICK a : a = [phase |-> IF Config = None THEN "absent" ELSE "rules",
                    request |-> r, config |-> Config, resolve |-> None]
  OBVIOUS
<1>3. r \in AskedFor BY RequestsAssumption DEF AskedFor
<1>4. Config = None \/ Config \in ConfigRow
  BY KeysKnown DEF AppraisalInv, RowsKept, Config, Stored
<1>5. AskOK(a) BY <1>2, <1>3, <1>4 DEF AskOK
<1>6. ask' = [ask EXCEPT ![u] = a] BY <1>1, <1>2
<1>7. AsksKept' BY <1>5, <1>6 DEF AppraisalInv, AsksKept
<1> QED BY <1>7, RowsAlone, UnitsAlone, SavedAlone DEF Ask, AppraisalInv, market, RowsKept

LEMMA ReloadKeeps ==
    ASSUME AppraisalInv, NEW u \in Members, Reload(u)
    PROVE  AppraisalInv'
<1>1. PICK a : a = [ask[u] EXCEPT !.phase = "create", !.config = Config] OBVIOUS
<1>2. AskOK(ask[u]) /\ ask[u].phase = "absent" BY DEF Reload, Step, AppraisalInv, AsksKept
<1>3. Config = None \/ Config \in ConfigRow
  BY KeysKnown DEF AppraisalInv, RowsKept, Config, Stored
<1>4. a = [phase |-> "create", request |-> ask[u].request, config |-> Config,
           resolve |-> ask[u].resolve]
  <2>1. PICK b : b = ask[u] OBVIOUS
  <2>2. b = [phase |-> b.phase, request |-> b.request, config |-> b.config, resolve |-> b.resolve]
    BY <1>2, <2>1 DEF AskOK
  <2> QED BY <1>1, <2>1, <2>2
<1>5. AskOK(a) BY <1>2, <1>3, <1>4 DEF AskOK
<1>6. ask' = [ask EXCEPT ![u] = a] BY <1>1 DEF Reload
<1>7. AsksKept' BY <1>5, <1>6 DEF AppraisalInv, AsksKept
<1> QED BY <1>7, RowsAlone, UnitsAlone, SavedAlone DEF Reload, AppraisalInv, market, RowsKept

\* Creating the missing configuration writes it only where there is none.
LEMMA CreateStores ==
    ASSUME AppraisalInv, NEW u \in Members, CreateConfig(u)
    PROVE  /\ RowsKept'
           /\ \A j \in Targets : rows'[j] = rows[j]
           /\ Config # None => rows'[ConfigKey].division = Config.division
<1>1. CASE rows' = rows BY <1>1 DEF CreateConfig, AppraisalInv, RowsKept, Config
<1>2. CASE rows' # rows
  <2>1. CanWrite(ConfigKey, ask[u].config) /\ Write(ConfigKey, ask[u].config, Default)
        /\ RowsKept /\ edits' = edits
    BY <1>2 DEF CreateConfig, AppraisalInv
  <2>2. /\ rows' = [j \in Keys |-> rows'[j]]
        /\ \A j \in Keys : rows'[j] # None => rows'[j] \in Stored(j)
        /\ \A j \in Keys \ {ConfigKey} : rows'[j] = rows[j]
        /\ rows[ConfigKey] # None => rows'[ConfigKey].division = rows[ConfigKey].division
    BY <2>1, DefaultKnown, KeysKnown, WriteStores
  <2>3. RowsKept' BY <2>1, <2>2 DEF RowsKept
  <2> QED BY <2>2, <2>3, KeysKnown DEF Config
<1> QED BY <1>1, <1>2

LEMMA CreateConfigKeeps ==
    ASSUME AppraisalInv, NEW u \in Members, CreateConfig(u)
    PROVE  AppraisalInv'
<1>1. RowsKept' BY CreateStores
<1>2. AskOK(ask[u]) /\ ask[u].phase = "create" BY DEF CreateConfig, Step, AppraisalInv, AsksKept
<1>3. CASE CanWrite(ConfigKey, ask[u].config)
  <2>1. PICK a : a = [ask[u] EXCEPT !.phase = "rules", !.config = rows'[ConfigKey]] OBVIOUS
  <2>2. Write(ConfigKey, ask[u].config, Default) /\ ask' = [ask EXCEPT ![u] = a]
    BY <1>3, <2>1 DEF CreateConfig
  <2>3. rows'[ConfigKey] \in ConfigRow
    <3>1. rows'[ConfigKey] \in Stored(ConfigKey)
      BY <1>3, <2>2, DefaultKnown, KeysKnown, WriteStores DEF AppraisalInv
    <3> QED BY <3>1 DEF Stored
  <2>4. a = [phase |-> "rules", request |-> ask[u].request, config |-> rows'[ConfigKey],
             resolve |-> ask[u].resolve]
    <3>1. PICK b : b = ask[u] OBVIOUS
    <3>2. b = [phase |-> b.phase, request |-> b.request, config |-> b.config, resolve |-> b.resolve]
      BY <1>2, <3>1 DEF AskOK
    <3> QED BY <2>1, <3>1, <3>2
  <2>5. AskOK(a) BY <1>2, <2>3, <2>4, NoneKnown DEF AskOK
  <2>6. AsksKept' BY <2>2, <2>5 DEF AppraisalInv, AsksKept
  <2> QED BY <1>1, <2>6, UnitsAlone, SavedAlone DEF CreateConfig, AppraisalInv, market
<1>4. CASE ~CanWrite(ConfigKey, ask[u].config)
  <2>1. ask' = [ask EXCEPT ![u] = None] BY <1>4 DEF CreateConfig
  <2>2. AsksKept' BY <2>1 DEF AppraisalInv, AsksKept
  <2> QED BY <1>1, <2>2, UnitsAlone, SavedAlone DEF CreateConfig, AppraisalInv, market
<1> QED BY <1>3, <1>4

LEMMA ReadRulesKeeps ==
    ASSUME AppraisalInv, NEW u \in Members, ReadRules(u)
    PROVE  AppraisalInv'
<1>1. PICK b : b = ask[u] OBVIOUS
<1>2. PICK resolve : resolve = Resolver(rows, b.config) OBVIOUS
<1>3. AskOK(b) /\ b.phase = "rules" BY <1>1 DEF ReadRules, Step, AppraisalInv, AsksKept
<1>4. CASE Refused(b.request, b.config, resolve)
  <2>1. ask' = [ask EXCEPT ![u] = None] BY <1>1, <1>2, <1>4 DEF ReadRules
  <2>2. AsksKept' BY <2>1 DEF AppraisalInv, AsksKept
  <2> QED BY <2>2, RowsAlone, UnitsAlone, SavedAlone DEF ReadRules, AppraisalInv, market, RowsKept
<1>5. CASE ~Refused(b.request, b.config, resolve)
  <2>1. PICK place : place = Delivery(b.request, b.config) OBVIOUS
  <2>2. PICK r : r = [b.request EXCEPT !.place = place] OBVIOUS
  <2>3. PICK a : a = [b EXCEPT !.phase = "price", !.resolve = resolve, !.request = r] OBVIOUS
  <2>4. ask' = [ask EXCEPT ![u] = a] BY <1>1, <1>2, <1>5, <2>1, <2>2, <2>3 DEF ReadRules
  <2>5. place # None /\ Len(Gathered(b.request)) <= MaxItems
    <3>1. place # None /\ ~(Len(Gathered(b.request)) > MaxItems) BY <1>5, <2>1 DEF Refused
    <3>2. Len(Gathered(b.request)) \in Nat
      <4>1. \E S : Gathered(b.request) \in Seq(S) BY <1>3, GatheredIsSequence DEF AskOK
      <4> QED BY <4>1
    <3> QED BY <3>1, <3>2, BoundsAssumption
  <2>6. place \in Places \cup Hubs
    <3>1. b.config \in ConfigRow BY <1>3 DEF AskOK
    <3>2. b.config.hub \in Hubs BY <3>1 DEF ConfigRow
    <3> QED BY <2>1, <2>5, <3>2 DEF Delivery, AppraisalInv
  <2>7. r \in AskedFor /\ r.place = place BY <1>3, <2>2, <2>6 DEF AskOK, AskedFor
  <2>8. Gathered(r) = Gathered(b.request) BY <1>3, <2>2, GatheredIsSequence DEF AskOK
  <2>9. a = [phase |-> "price", request |-> r, config |-> b.config, resolve |-> resolve]
    <3>1. b = [phase |-> b.phase, request |-> b.request, config |-> b.config, resolve |-> b.resolve]
      BY <1>3 DEF AskOK
    <3> QED BY <2>3, <3>1
  <2>10. AskOK(a) BY <1>3, <2>5, <2>6, <2>7, <2>8, <2>9 DEF AskOK
  <2>11. AsksKept' BY <2>4, <2>10 DEF AppraisalInv, AsksKept
  <2> QED BY <2>11, RowsAlone, UnitsAlone, SavedAlone DEF ReadRules, AppraisalInv, market, RowsKept
<1> QED BY <1>4, <1>5

\* A line is rejected, or it is accepted and its total is price times quantity.
LEMMA LineAddsUp ==
    ASSUME NEW w, NEW resolve, NEW config, NEW answered,
           ComputeLine(w, resolve, config, answered).status = "accepted"
    PROVE  ComputeLine(w, resolve, config, answered).line_total
             = ComputeLine(w, resolve, config, answered).unit_price
                 * ComputeLine(w, resolve, config, answered).quantity
<1>1. PICK line : line = ComputeLine(w, resolve, config, answered) OBVIOUS
<1>2. (\E reason : line = RejectedLine(w, reason)) \/ (\E value, rule : line = AcceptedLine(w, value, rule))
  BY <1>1 DEF ComputeLine
<1>3. \A reason : RejectedLine(w, reason).status = "rejected" BY DEF RejectedLine
<1>4. ASSUME NEW value, NEW rule
      PROVE  AcceptedLine(w, value, rule).line_total
               = AcceptedLine(w, value, rule).unit_price * AcceptedLine(w, value, rule).quantity
  <2>1. PICK up : up = UnitPrice(value, rule.percentage) OBVIOUS
  <2>2. AcceptedLine(w, value, rule)
          = [type |-> w.type, quantity |-> w.quantity, status |-> "accepted",
             unit_price |-> up, line_total |-> up * w.quantity, reason |-> None]
    BY <2>1 DEF AcceptedLine, LineTotal
  <2> QED BY <2>2
<1> QED BY <1>1, <1>2, <1>3, <1>4

LEMMA PriceKeeps ==
    ASSUME AppraisalInv, NEW u \in Members, Price(u)
    PROVE  AppraisalInv'
<1>1. PICK a : a = ask[u] OBVIOUS
<1>2. AskOK(a) /\ a.phase = "price" BY <1>1 DEF Price, Step, AppraisalInv, AsksKept
<1>3. PICK work : work = Gathered(a.request) OBVIOUS
<1>4. PICK answered, new :
        /\ saved' = Append(saved, new)
        /\ LET lines == [i \in DOMAIN work |-> ComputeLine(work[i], a.resolve, a.config, answered)]
               accepted == {i \in DOMAIN lines : lines[i].status = "accepted"}
           IN  new = [market_hub |-> a.config.hub, delivery |-> a.request.place, lines |-> lines,
                      accepted_total |-> SumFunction([i \in accepted |-> lines[i].line_total]),
                      rejected_count |-> Cardinality(DOMAIN lines \ accepted)]
  BY <1>1, <1>3 DEF Price
<1>5. PICK lines : lines = [i \in DOMAIN work |-> ComputeLine(work[i], a.resolve, a.config, answered)]
  OBVIOUS
<1>6. PICK accepted : accepted = {i \in DOMAIN lines : lines[i].status = "accepted"} OBVIOUS
<1>7. new = [market_hub |-> a.config.hub, delivery |-> a.request.place, lines |-> lines,
             accepted_total |-> SumFunction([i \in accepted |-> lines[i].line_total]),
             rejected_count |-> Cardinality(DOMAIN lines \ accepted)]
  BY <1>4, <1>5, <1>6
<1>8. Bought(new) = accepted BY <1>6, <1>7 DEF Bought
<1>9. \A i \in accepted : lines[i].line_total = lines[i].unit_price * lines[i].quantity
  <2>1. SUFFICES ASSUME NEW i \in accepted
                 PROVE  lines[i].line_total = lines[i].unit_price * lines[i].quantity
    OBVIOUS
  <2>2. lines[i] = ComputeLine(work[i], a.resolve, a.config, answered) /\ lines[i].status = "accepted"
    BY <1>5, <1>6
  <2> QED BY <2>2, LineAddsUp
<1>10. new.rejected_count \in 0 .. MaxItems
  <2>1. PICK n \in Nat : DOMAIN lines = 1 .. n /\ n <= MaxItems
    <3>1. PICK S : work \in Seq(S) BY <1>2, <1>3, GatheredIsSequence DEF AskOK
    <3>2. Len(work) \in Nat /\ DOMAIN work = 1 .. Len(work) /\ Len(work) <= MaxItems
      BY <1>2, <1>3, <3>1 DEF AskOK
    <3> QED BY <1>5, <3>2
  <2>2. IsFiniteSet(1 .. n) /\ Cardinality(1 .. n) = n BY FS_Interval
  <2>3. DOMAIN lines \ accepted \subseteq 1 .. n BY <2>1
  <2>4. /\ Cardinality(DOMAIN lines \ accepted) <= n
        /\ Cardinality(DOMAIN lines \ accepted) \in Nat
    BY <2>2, <2>3, FS_Subset, FS_CardinalityType
  <2> QED BY <1>7, <2>1, <2>4, BoundsAssumption
<1>11. SavedOK(new)
  <2>1. new.lines = lines /\ new.delivery \in Places \cup Hubs BY <1>2, <1>7 DEF AskOK
  <2>2. new.accepted_total = SumFunction([i \in accepted |-> lines[i].line_total]) BY <1>7
  <2> QED BY <1>8, <1>9, <1>10, <2>1, <2>2 DEF SavedOK
<1>12. SavedKept'
  <2>1. PICK S : saved \in Seq(S) BY DEF AppraisalInv, SavedKept
  <2>2. PICK T : T = S \cup {new} OBVIOUS
  <2>3. saved \in Seq(T) BY <2>1, <2>2, SeqMonotonic
  <2>4. new \in T BY <2>2
  <2>5. /\ saved' \in Seq(T) /\ Len(saved') = Len(saved) + 1
        /\ \A i \in 1 .. Len(saved) : saved'[i] = saved[i]
        /\ saved'[Len(saved) + 1] = new
    BY <1>4, <2>3, <2>4, AppendProperties
  <2>6. DOMAIN saved' = 1 .. (Len(saved) + 1) /\ DOMAIN saved = 1 .. Len(saved) /\ Len(saved) \in Nat
    BY <2>3, <2>5, LenProperties
  <2>7. \A i \in DOMAIN saved' : i \in DOMAIN saved \/ i = Len(saved) + 1 BY <2>6
  <2>8. \A i \in DOMAIN saved' : SavedOK(saved'[i])
    <3>1. SUFFICES ASSUME NEW i \in DOMAIN saved' PROVE SavedOK(saved'[i])
      OBVIOUS
    <3>2. CASE i \in DOMAIN saved
      <4>1. saved'[i] = saved[i] BY <2>5, <2>6, <3>2
      <4> QED BY <3>2, <4>1 DEF AppraisalInv, SavedKept
    <3>3. CASE i = Len(saved) + 1
      <4>1. saved'[Len(saved) + 1] = new BY <2>5
      <4> QED BY <1>11, <3>3, <4>1
    <3> QED BY <2>7, <3>2, <3>3
  <2> QED BY <2>5, <2>8 DEF SavedKept
<1>13. AsksKept'
  <2>1. ask' = [ask EXCEPT ![u] = None] BY DEF Price
  <2> QED BY <2>1 DEF AppraisalInv, AsksKept
<1> QED BY <1>12, <1>13, RowsAlone, UnitsAlone DEF Price, AppraisalInv, market, RowsKept

LEMMA RequestsKeep ==
    ASSUME AppraisalInv, NEW u \in Members, Request(u)
    PROVE  AppraisalInv'
BY AskKeeps, ReloadKeeps, CreateConfigKeeps, ReadRulesKeeps, PriceKeeps DEF Request

LEMMA AppraisalSteps == AppraisalInv /\ [AppraisalNext]_appraisalVars => AppraisalInv'
<1> SUFFICES ASSUME AppraisalInv, [AppraisalNext]_appraisalVars PROVE AppraisalInv'
  OBVIOUS
<1>1. ASSUME NEW m \in Managers, Manage(m) PROVE AppraisalInv'
  BY <1>1, EditsBegin, FinishKeeps DEF Manage
<1>2. ASSUME NEW u \in Members, Request(u) PROVE AppraisalInv'
  BY <1>2, RequestsKeep
<1>3. CASE EditPlaces \/ TokenLost BY <1>3, PlacesAndTokenKeep
<1>4. CASE UNCHANGED appraisalVars
  <2>1. rows' = rows /\ edits' = edits /\ unit' = unit /\ ask' = ask /\ saved' = saved
        /\ places' = places /\ token' = token /\ books' = books
    BY <1>4 DEF appraisalVars, market
  <2>2. edits' \in Nat BY <2>1 DEF AppraisalInv, RowsKept
  <2> QED BY <2>1, <2>2, RowsAlone, UnitsAlone, AsksAlone, SavedAlone DEF AppraisalInv
<1> QED BY <1>1, <1>2, <1>3, <1>4 DEF AppraisalNext

LEMMA AppraisalAlways == AppraisalSpec => []AppraisalInv
<1>1. AppraisalInit => AppraisalInv BY AppraisalStarts
<1>2. AppraisalInv /\ [AppraisalNext]_appraisalVars => AppraisalInv' BY AppraisalSteps
<1> QED BY <1>1, <1>2, PTL DEF AppraisalSpec

-----------------------------------------------------------------------------
(* What an appraisal's readers and the stock check may rely on *)

LEMMA LotsFollow == AppraisalInv => LotsMatchTheContract
<1> SUFFICES ASSUME AppraisalInv, NEW i \in DOMAIN saved
             PROVE  LET a == saved[i]  lots == AcceptedLinesForLots(a)  items == AcceptedLineItems(a) IN
                    /\ a.accepted_total
                         = SumFunction([n \in DOMAIN lots |-> lots[n].unit_price * lots[n].quantity])
                    /\ \A t \in DOMAIN items :
                         items[t] = SumFunction([n \in {m \in DOMAIN lots : lots[m].type = t} |-> lots[n].quantity])
  BY DEF LotsMatchTheContract
<1>1. PICK a : a = saved[i] OBVIOUS
<1>2. PICK lots : lots = AcceptedLinesForLots(a) OBVIOUS
<1>3. PICK items : items = AcceptedLineItems(a) OBVIOUS
<1>4. SavedOK(a) BY <1>1 DEF AppraisalInv, SavedKept
<1>5. DOMAIN lots = Bought(a) /\ \A n \in Bought(a) : lots[n] = a.lines[n]
  BY <1>2 DEF AcceptedLinesForLots
<1>6. a.accepted_total = SumFunction([n \in DOMAIN lots |-> lots[n].unit_price * lots[n].quantity])
  <2>1. [n \in DOMAIN lots |-> lots[n].unit_price * lots[n].quantity]
          = [n \in Bought(a) |-> a.lines[n].line_total]
    BY <1>4, <1>5 DEF SavedOK
  <2> QED BY <1>4, <2>1 DEF SavedOK
<1>7. ASSUME NEW t \in DOMAIN items
      PROVE  items[t] = SumFunction([n \in {m \in DOMAIN lots : lots[m].type = t} |-> lots[n].quantity])
  <2>1. PICK S : S = {j \in Bought(a) : a.lines[j].type = t} OBVIOUS
  <2>2. S = {m \in DOMAIN lots : lots[m].type = t} BY <1>5, <2>1
  <2>3. [n \in S |-> a.lines[n].quantity] = [n \in S |-> lots[n].quantity] BY <1>5, <2>1
  <2>4. items[t] = SumFunction([n \in S |-> a.lines[n].quantity])
    BY <1>3, <1>7, <2>1 DEF AcceptedLineItems
  <2> QED BY <2>2, <2>3, <2>4
<1> QED BY <1>1, <1>2, <1>3, <1>6, <1>7

\* For every configuration, market and request: the three readings of a stored
\* appraisal, its total, its contract's items and its lots, agree.
THEOREM LotsAndContractAgree == AppraisalSpec => []LotsMatchTheContract
<1>1. AppraisalInv => LotsMatchTheContract BY LotsFollow
<1> QED BY <1>1, AppraisalAlways, PTL

LEMMA DeemedFollows == AppraisalInv => DeemedIsBuybackPrice
<1> SUFFICES ASSUME AppraisalInv, Config # None, NEW resolve \in {Resolver(rows, Config)}, NEW t \in Types,
                    resolve[t].hub = None, ~resolve[t].reprocess,
                    NEW line \in {ComputeLine([type |-> t, quantity |-> 1], resolve, Config, Hubs)},
                    line.status = "accepted"
             PROVE  DeemedUnitCost(t) = line.unit_price
  BY DEF DeemedIsBuybackPrice
<1>1. PICK config : config = Config OBVIOUS
<1>2. PICK rule : rule = Resolve(rows, config, t) OBVIOUS
<1>3. PICK w : w = [type |-> t, quantity |-> 1] OBVIOUS
<1>4. resolve[t] = rule BY <1>1, <1>2 DEF Resolver
<1>5. config.hub \in Hubs
  <2>1. config \in ConfigRow BY <1>1, KeysKnown DEF AppraisalInv, RowsKept, Config, Stored
  <2> QED BY <2>1 DEF ConfigRow
<1>6. HubOf(rule, config) = config.hub BY <1>4 DEF HubOf
<1>7. PICK value : value = BasisValue(prices[config.hub][t], config.agg, rule.basis) OBVIOUS
<1>8. \A reason : RejectedLine(w, reason).status # "accepted" BY DEF RejectedLine
<1>9. w.type = t BY <1>3
<1>10. line = ComputeLine(w, resolve, config, Hubs) BY <1>1, <1>3
<1>11. rule.accepted /\ value # None /\ line = AcceptedLine(w, value, rule)
  BY <1>4, <1>5, <1>6, <1>7, <1>8, <1>9, <1>10 DEF ComputeLine
<1>12. line.unit_price = UnitPrice(value, rule.percentage) BY <1>11 DEF AcceptedLine
<1>13. DeemedUnitCost(t) = UnitPrice(value, rule.percentage)
  BY <1>1, <1>2, <1>7, <1>11 DEF DeemedUnitCost
<1> QED BY <1>12, <1>13

\* Whatever the rules, the market and the moment: found stock is booked at the price
\* the same type would have been bought at.
THEOREM FoundStockIsPricedAlike == AppraisalSpec => []DeemedIsBuybackPrice
<1>1. AppraisalInv => DeemedIsBuybackPrice BY DeemedFollows
<1> QED BY <1>1, AppraisalAlways, PTL

-----------------------------------------------------------------------------
(* Overlapping edits *)

\* A step of SwitchKept and one of AloneReplacesAll.
SwitchStep ==
    Config # None /\ Config'.division # Config.division
      => \E m \in Managers : unit[m] # None /\ unit[m].op = "set_division" /\ unit'[m] = None

ReplaceStep ==
    \A m \in Managers :
      unit[m] # None /\ unit'[m] = None /\ unit[m].op \in {"set_rule", "update_config"}
        /\ rows[unit[m].key] = unit[m].loaded
      => \A c \in DOMAIN unit[m].want : rows'[unit[m].key][c] = unit[m].want[c]

\* A step that writes no row, or only one that finishes an edit or creates a configuration.
LEMMA WhoWrites ==
    ASSUME [AppraisalNext]_appraisalVars
    PROVE  \/ rows' = rows /\ \A m \in Managers : unit[m] # None /\ unit = [k \in Managers |-> unit[k]] => unit'[m] = unit[m]
           \/ \E m \in Managers : Finish(m)
           \/ unit' = unit /\ \E u \in Members : CreateConfig(u)
<1>1. CASE UNCHANGED appraisalVars BY <1>1 DEF appraisalVars
<1>2. CASE EditPlaces \/ TokenLost BY <1>2 DEF EditPlaces, TokenLost
<1>3. ASSUME NEW u \in Members, Request(u), ~CreateConfig(u) PROVE rows' = rows /\ unit' = unit
  BY <1>3 DEF Request, Ask, Reload, ReadRules, Price
<1>4. ASSUME NEW u \in Members, CreateConfig(u) PROVE unit' = unit
  BY <1>4 DEF CreateConfig
<1>5. ASSUME NEW m \in Managers, Manage(m), ~Finish(m)
      PROVE  rows' = rows /\ \A k \in Managers : unit[k] # None /\ unit = [n \in Managers |-> unit[n]] => unit'[k] = unit[k]
  <2>1. PICK op, k, want : Begin(m, op, k, want)
    BY <1>5 DEF Manage, SetRule, UpdateConfig, SetDivision, DeleteRule
  <2>2. PICK e : unit' = [unit EXCEPT ![m] = e] /\ unit[m] = None /\ rows' = rows
    BY <2>1 DEF Begin
  <2> QED BY <2>2
<1> QED BY <1>1, <1>2, <1>3, <1>4, <1>5 DEF AppraisalNext

LEMMA SwitchSteps == AppraisalInv /\ [AppraisalNext]_appraisalVars => SwitchStep
<1> SUFFICES ASSUME AppraisalInv, [AppraisalNext]_appraisalVars, Config # None,
                    rows'[ConfigKey].division # Config.division
             PROVE  \E m \in Managers : unit[m] # None /\ unit[m].op = "set_division" /\ unit'[m] = None
  BY DEF SwitchStep, Config
<1>1. rows' # rows BY DEF Config
<1>2. ~\E u \in Members : CreateConfig(u) BY CreateStores
<1>3. PICK m \in Managers : Finish(m) BY <1>1, <1>2, WhoWrites
<1>4. unit[m].op \notin {"set_rule", "update_config", "delete_rule"} BY <1>3, FinishStores
<1>5. unit[m] # None /\ unit' = [unit EXCEPT ![m] = None] BY <1>3 DEF Finish
<1>6. UnitOK(unit[m]) /\ unit = [k \in Managers |-> unit[k]] BY <1>5 DEF AppraisalInv, UnitsKept
<1>7. unit[m].op = "set_division" BY <1>4, <1>6 DEF UnitOK
<1>8. unit'[m] = None BY <1>5, <1>6
<1> QED BY <1>5, <1>7, <1>8

LEMMA FreshAsWanted ==
    ASSUME NEW want, want \in ConfigBody \/ want \in RuleBody, NEW c \in DOMAIN want
    PROVE  Fresh(want)[c] = want[c]
BY DEF Fresh, ConfigBody, RuleBody

LEMMA MergedAsWanted ==
    ASSUME NEW row, NEW want, NEW c \in DOMAIN want,
           \/ want \in ConfigBody /\ row \in ConfigRow
           \/ want \in RuleBody /\ row \in RuleRow
    PROVE  Merged(row, row, want)[c] = want[c]
<1>1. c \in DOMAIN row BY DEF ConfigBody, RuleBody, ConfigRow, RuleRow
<1> QED BY <1>1 DEF Merged

LEMMA ReplaceSteps == AppraisalInv /\ [AppraisalNext]_appraisalVars => ReplaceStep
<1> SUFFICES ASSUME AppraisalInv, [AppraisalNext]_appraisalVars, NEW m \in Managers,
                    unit[m] # None, unit'[m] = None, unit[m].op \in {"set_rule", "update_config"},
                    rows[unit[m].key] = unit[m].loaded,
                    NEW c \in DOMAIN unit[m].want
             PROVE  rows'[unit[m].key][c] = unit[m].want[c]
  BY DEF ReplaceStep
<1>1. PICK e : e = unit[m] OBVIOUS
<1>2. UnitOK(e) /\ unit = [k \in Managers |-> unit[k]] /\ rows = [k \in Keys |-> rows[k]]
  BY <1>1 DEF AppraisalInv, UnitsKept, RowsKept
<1>3. unit'[m] # unit[m] BY <1>1
<1>4. PICK n \in Managers : Finish(n) BY <1>2, <1>3, WhoWrites
<1>5. unit' = [unit EXCEPT ![n] = None] BY <1>4 DEF Finish
<1>6. n = m BY <1>2, <1>3, <1>5
<1>7. CanWrite(e.key, e.loaded) BY <1>1 DEF CanWrite
<1>8. Write(e.key, e.loaded, e.want) BY <1>1, <1>4, <1>6, <1>7 DEF Finish
<1>9. e.key \in Keys /\ (e.want \in ConfigBody \/ e.want \in RuleBody)
  BY <1>1, <1>2, KeysKnown DEF UnitOK
<1>10. CASE e.loaded = None
  <2>1. rows'[e.key] = Fresh(e.want) BY <1>2, <1>8, <1>9, <1>10 DEF Write
  <2> QED BY <1>1, <1>9, <2>1, FreshAsWanted
<1>11. CASE e.loaded # None
  <2>1. rows'[e.key] = Merged(e.loaded, e.loaded, e.want) BY <1>1, <1>2, <1>8, <1>9, <1>11 DEF Write
  <2>2. \/ e.want \in ConfigBody /\ e.loaded \in ConfigRow
        \/ e.want \in RuleBody /\ e.loaded \in RuleRow
    BY <1>1, <1>2, <1>11, KeysKnown DEF UnitOK, Stored
  <2> QED BY <1>1, <2>1, <2>2, MergedAsWanted
<1> QED BY <1>10, <1>11

\* However edits overlap: only setting the switch changes it, and a lone edit leaves
\* the row it was asked for.
THEOREM OverlappingEditsKeepApart == AppraisalSpec => EditsKeepApart
<1>1. AppraisalInv /\ [AppraisalNext]_appraisalVars => [SwitchStep]_appraisalVars BY SwitchSteps
<1>2. AppraisalInv /\ [AppraisalNext]_appraisalVars => [ReplaceStep]_appraisalVars BY ReplaceSteps
<1>3. AppraisalSpec => [][SwitchStep]_appraisalVars BY <1>1, AppraisalAlways, PTL DEF AppraisalSpec
<1>4. AppraisalSpec => [][ReplaceStep]_appraisalVars BY <1>2, AppraisalAlways, PTL DEF AppraisalSpec
<1>5. AppraisalSpec => SwitchKept BY <1>3 DEF SwitchKept, SwitchStep
<1>6. AppraisalSpec => AloneReplacesAll BY <1>4 DEF AloneReplacesAll, ReplaceStep
<1> QED BY <1>5, <1>6 DEF EditsKeepApart

-----------------------------------------------------------------------------
(* The way up from a group *)

\* f repeats the function next, from x on; h does so n times.
Iterates(f, next, x) == /\ f \in [Nat -> DOMAIN next] /\ f[0] = x
                        /\ \A n \in Nat : f[n + 1] = next[f[n]]
FirstOnes(h, n, next, x) == /\ h \in [0 .. n -> DOMAIN next] /\ h[0] = x
                            /\ \A i \in 0 .. (n - 1) : h[i + 1] = next[h[i]]

\* f lists the groups met from x upwards; None above the last one.
Parent == [x \in Groups \cup {None} |-> IF x = None THEN None ELSE ParentOf[x]]
Climb(f, x) == Iterates(f, Parent, x)

LEMMA ParentType == Parent \in [Groups \cup {None} -> Groups \cup {None}]
BY GroupsAssumption DEF Parent

LEMMA FirstOnesAgree ==
    ASSUME NEW next, NEW x, NEW n \in Nat, NEW k \in Nat, NEW g, NEW h, FirstOnes(g, n, next, x), FirstOnes(h, k, next, x)
    PROVE  \A i \in Nat : i <= n /\ i <= k => g[i] = h[i]
<1> DEFINE Bad == {i \in Nat : i <= n /\ i <= k /\ g[i] # h[i]}
<1> SUFFICES ASSUME Bad # {} PROVE FALSE
  OBVIOUS
<1>1. PICK i \in Bad : \A j \in Bad : i <= j
  <2> Bad \in SUBSET Nat OBVIOUS
  <2> HIDE DEF Bad
  <2> QED BY LeastNumber
<1>2. i # 0 BY <1>1 DEF FirstOnes
<1>3. i - 1 \in Nat /\ i - 1 <= n /\ i - 1 <= k /\ i - 1 \notin Bad /\ i - 1 \in 0 .. (n - 1) /\ i - 1 \in 0 .. (k - 1)
  BY <1>1, <1>2
<1>4. g[i - 1] = h[i - 1] BY <1>3
<1>5. g[(i - 1) + 1] = next[g[i - 1]] /\ h[(i - 1) + 1] = next[h[i - 1]] BY <1>3 DEF FirstOnes
<1>6. (i - 1) + 1 = i BY <1>1
<1> QED BY <1>1, <1>4, <1>5, <1>6

LEMMA FirstOnesExist ==
    ASSUME NEW X, NEW next \in [X -> X], NEW x \in X, NEW n \in Nat
    PROVE  \E h : FirstOnes(h, n, next, x)
<1> DEFINE Bad == {i \in Nat : ~ \E h : FirstOnes(h, i, next, x)}
<1> SUFFICES ASSUME Bad # {} PROVE FALSE
  OBVIOUS
<1>1. PICK i \in Bad : \A j \in Bad : i <= j
  <2> Bad \in SUBSET Nat OBVIOUS
  <2> HIDE DEF Bad
  <2> QED BY LeastNumber
<1>2. CASE i = 0
  <2>1. PICK h : h = [j \in 0 .. 0 |-> x] OBVIOUS
  <2>2. FirstOnes(h, 0, next, x) BY <2>1 DEF FirstOnes
  <2> QED BY <1>1, <1>2, <2>2
<1>3. CASE i # 0
  <2>1. i - 1 \in Nat /\ i - 1 \notin Bad BY <1>1, <1>3
  <2>2. PICK g : FirstOnes(g, i - 1, next, x) BY <2>1
  <2>3. PICK h : h = [j \in 0 .. i |-> IF j = i THEN next[g[i - 1]] ELSE g[j]] OBVIOUS
  <2>4. i \in Nat /\ i > 0 BY <1>1, <1>3
  <2>5. \A j \in 0 .. (i - 1) : g[j] \in X BY <2>2 DEF FirstOnes
  <2>6. next[g[i - 1]] \in X BY <2>4, <2>5
  <2>7. h \in [0 .. i -> X] BY <2>3, <2>4, <2>5, <2>6
  <2>8. h[0] = x BY <2>2, <2>3, <2>4 DEF FirstOnes
  <2>9. \A j \in 0 .. (i - 1) : h[j + 1] = next[h[j]]
    <3>1. SUFFICES ASSUME NEW j \in 0 .. (i - 1) PROVE h[j + 1] = next[h[j]]
      OBVIOUS
    <3>2. h[j] = g[j] BY <2>3, <2>4, <3>1
    <3>3. CASE j = i - 1
      <4>1. j + 1 = i BY <2>4, <3>3
      <4> QED BY <2>3, <2>4, <3>2, <3>3, <4>1
    <3>4. CASE j # i - 1
      <4>1. j \in 0 .. ((i - 1) - 1) /\ j + 1 \in 0 .. i /\ j + 1 # i BY <2>4, <3>1, <3>4
      <4>2. g[j + 1] = next[g[j]] BY <2>2, <4>1 DEF FirstOnes
      <4> QED BY <2>3, <3>2, <4>1, <4>2
    <3> QED BY <3>3, <3>4
  <2>10. FirstOnes(h, i, next, x) BY <2>7, <2>8, <2>9 DEF FirstOnes
  <2> QED BY <1>1, <2>10
<1> QED BY <1>2, <1>3

LEMMA IterationExists ==
    ASSUME NEW X, NEW next \in [X -> X], NEW x \in X
    PROVE  \E f : Iterates(f, next, x)
<1> DEFINE part(n) == CHOOSE h : FirstOnes(h, n, next, x)
           f == [n \in Nat |-> part(n)[n]]
<1>0. DOMAIN next = X OBVIOUS
<1>1. ASSUME NEW n \in Nat PROVE FirstOnes(part(n), n, next, x) BY FirstOnesExist
<1> HIDE DEF part
<1>2. f \in [Nat -> X]
  <2>1. \A n \in Nat : part(n)[n] \in X BY <1>0, <1>1 DEF FirstOnes
  <2> QED BY <2>1
<1>3. f[0] = x
  <2>1. part(0)[0] = x BY <1>1 DEF FirstOnes
  <2> QED BY <2>1
<1>4. ASSUME NEW n \in Nat PROVE f[n + 1] = next[f[n]]
  <2>1. n + 1 \in Nat /\ n \in 0 .. ((n + 1) - 1) /\ n <= n + 1 BY <1>4
  <2>2. FirstOnes(part(n + 1), n + 1, next, x) /\ FirstOnes(part(n), n, next, x) BY <1>1, <2>1
  <2>3. part(n + 1)[n + 1] = next[part(n + 1)[n]] BY <2>1, <2>2 DEF FirstOnes
  <2>4. part(n + 1)[n] = part(n)[n] BY <2>1, <2>2, FirstOnesAgree
  <2>5. f[n + 1] = part(n + 1)[n + 1] /\ f[n] = part(n)[n] BY <2>1
  <2> HIDE DEF f
  <2> QED BY <2>3, <2>4, <2>5
<1>5. Iterates(f, next, x)
  <2> HIDE DEF f
  <2> QED BY <1>0, <1>2, <1>3, <1>4 DEF Iterates
<1> QED BY <1>5

LEMMA ClimbExists ==
    ASSUME NEW x \in Groups \cup {None}
    PROVE  \E f : Climb(f, x)
BY ParentType, IterationExists DEF Climb

\* Going on from a group already met.
LEMMA ClimbsJoin ==
    ASSUME NEW x, NEW f, NEW g, NEW i \in Nat, Climb(f, x), Climb(g, f[i])
    PROVE  \A k \in Nat : f[i + k] = g[k]
<1> DEFINE Bad == {k \in Nat : f[i + k] # g[k]}
<1> SUFFICES ASSUME Bad # {} PROVE FALSE
  OBVIOUS
<1>1. PICK k \in Bad : \A j \in Bad : k <= j
  <2> Bad \in SUBSET Nat OBVIOUS
  <2> HIDE DEF Bad
  <2> QED BY LeastNumber
<1>2. k # 0
  <2>1. f[i + 0] = f[i] /\ g[0] = f[i] BY DEF Climb, Iterates
  <2> QED BY <1>1, <2>1
<1>3. k - 1 \in Nat /\ k - 1 \notin Bad /\ i + (k - 1) \in Nat BY <1>1, <1>2
<1>4. f[i + (k - 1)] = g[k - 1] BY <1>3
<1>5. f[(i + (k - 1)) + 1] = Parent[f[i + (k - 1)]] /\ g[(k - 1) + 1] = Parent[g[k - 1]]
  BY <1>3 DEF Climb, Iterates
<1>6. (i + (k - 1)) + 1 = i + k /\ (k - 1) + 1 = k BY <1>1
<1> QED BY <1>1, <1>4, <1>5, <1>6

\* A group met at all is met within as many steps as there are groups.
LEMMA MetSoon ==
    ASSUME NEW x, NEW f, Climb(f, x), NEW n \in Nat, f[n] \in Groups
    PROVE  \E k \in Nat : k < Cardinality(Groups) /\ f[k] = f[n]
<1> DEFINE Met == {i \in Nat : f[i] = f[n]}
<1>1. PICK k \in Met : \A j \in Met : k <= j
  <2>1. Met \in SUBSET Nat /\ Met # {} OBVIOUS
  <2> HIDE DEF Met
  <2> QED BY <2>1, LeastNumber
<1>2. ASSUME NEW i \in 0 .. k, f[i] = None PROVE FALSE
  <2>0. PICK z : z = [m \in Nat |-> None] OBVIOUS
  <2>1. Climb(z, f[i])
    <3>1. Parent[None] = None /\ DOMAIN Parent = Groups \cup {None} BY DEF Parent
    <3> QED BY <1>2, <2>0, <3>1 DEF Climb, Iterates
  <2>2. i \in Nat /\ k - i \in Nat /\ i + (k - i) = k BY <1>1, <1>2
  <2>3. f[i + (k - i)] = z[k - i]
    BY <2>1, <2>2, ClimbsJoin
  <2>4. z[k - i] = None BY <2>0, <2>2
  <2> QED BY <1>1, <2>2, <2>3, <2>4, GroupsAssumption
<1>3. ASSUME NEW i \in 0 .. k, NEW j \in 0 .. k, i < j, f[i] = f[j] PROVE FALSE
  <2>1. i \in Nat /\ j \in Nat /\ k - j \in Nat /\ i + (k - j) \in Nat /\ i + (k - j) < k
        /\ j + (k - j) = k
    BY <1>1, <1>3
  <2>2. f[i] \in Groups \cup {None} BY <2>1, ParentType DEF Climb, Iterates
  <2>3. PICK g : Climb(g, f[i]) BY <2>2, ClimbExists
  <2>4. f[i + (k - j)] = g[k - j] /\ f[j + (k - j)] = g[k - j] BY <1>3, <2>1, <2>3, ClimbsJoin
  <2>5. i + (k - j) \in Met BY <1>1, <2>1, <2>4
  <2> QED BY <1>1, <2>1, <2>5
<1>4. k < Cardinality(Groups)
  <2>1. PICK p : p = [i \in 0 .. k |-> f[i]] OBVIOUS
  <2>2. k \in Nat BY <1>1
  <2>3. \A i \in 0 .. k : f[i] \in Groups BY <1>2, <2>2, ParentType DEF Climb, Iterates
  <2>4. \A i, j \in 0 .. k : f[i] = f[j] => i = j
    <3>1. SUFFICES ASSUME NEW i \in 0 .. k, NEW j \in 0 .. k, f[i] = f[j], i # j PROVE FALSE
      OBVIOUS
    <3>2. i < j \/ j < i BY <3>1
    <3> QED BY <1>3, <3>1, <3>2
  <2>5. p \in Injection(0 .. k, Groups) BY <2>1, <2>3, <2>4 DEF Injection, IsInjective
  <2>6. Cardinality(0 .. k) <= Cardinality(Groups) BY <2>5, FS_Injection, GroupsAssumption
  <2>7. Cardinality(0 .. k) = k + 1 BY <2>2, FS_Interval
  <2>8. Cardinality(Groups) \in Nat BY FS_CardinalityType, GroupsAssumption
  <2> QED BY <2>2, <2>6, <2>7, <2>8
<1> QED BY <1>1, <1>4

\* What the walk from a type upwards is: the climb from its group.
WalksUp(g, t) == g = [n \in Nat |-> IF n = 0 THEN GroupOf[t]
                                    ELSE IF g[n - 1] = None THEN None ELSE ParentOf[g[n - 1]]]

LEMMA WalkClimbs ==
    ASSUME NEW t \in Types, NEW g, WalksUp(g, t)
    PROVE  Climb(g, GroupOf[t])
<1>1. /\ DOMAIN g = Nat
      /\ \A n \in Nat : g[n] = IF n = 0 THEN GroupOf[t]
                               ELSE IF g[n - 1] = None THEN None ELSE ParentOf[g[n - 1]]
  BY DEF WalksUp
<1>2. GroupOf[t] \in Groups \cup {None} BY GroupsAssumption
<1>3. \A n \in Nat : g[n] \in Groups \cup {None}
  <2> DEFINE Bad == {n \in Nat : g[n] \notin Groups \cup {None}}
  <2> SUFFICES ASSUME Bad # {} PROVE FALSE
    OBVIOUS
  <2>1. PICK n \in Bad : \A j \in Bad : n <= j
    <3> Bad \in SUBSET Nat OBVIOUS
    <3> HIDE DEF Bad
    <3> QED BY LeastNumber
  <2>2. n # 0 BY <1>1, <1>2, <2>1
  <2>3. n - 1 \in Nat /\ n - 1 \notin Bad BY <2>1, <2>2
  <2>4. g[n - 1] \in Groups \cup {None} BY <2>3
  <2>5. g[n] \in Groups \cup {None} BY <1>1, <2>1, <2>2, <2>4, GroupsAssumption
  <2> QED BY <2>1, <2>5
<1>4. \A n \in Nat : g[n + 1] = Parent[g[n]]
  <2>1. SUFFICES ASSUME NEW n \in Nat PROVE g[n + 1] = Parent[g[n]]
    OBVIOUS
  <2>2. n + 1 \in Nat /\ n + 1 # 0 /\ (n + 1) - 1 = n BY <2>1
  <2>3. g[n + 1] = IF g[n] = None THEN None ELSE ParentOf[g[n]] BY <1>1, <2>2
  <2> QED BY <1>3, <2>3 DEF Parent
<1>5. g \in [Nat -> Groups \cup {None}]
  <2>1. g = [n \in Nat |-> g[n]] BY <1>1 DEF WalksUp
  <2> QED BY <1>3, <2>1
<1>6. g[0] = GroupOf[t] BY <1>1
<1> QED BY <1>4, <1>5, <1>6, ParentType DEF Climb, Iterates

LEMMA AboveClimbs ==
    ASSUME NEW t \in Types
    PROVE  \E f : Climb(f, GroupOf[t]) /\ Above(t) = [n \in 0 .. Cardinality(Groups) |-> f[n]]
<1>1. Above(t) = [n \in 0 .. Cardinality(Groups) |-> (CHOOSE g : WalksUp(g, t))[n]]
  BY DEF Above, WalksUp
<1>2. GroupOf[t] \in Groups \cup {None} BY GroupsAssumption
<1>3. PICK f : Climb(f, GroupOf[t]) BY <1>2, ClimbExists
<1>4. WalksUp(f, t)
  <2>1. f = [n \in Nat |-> f[n]] /\ f[0] = GroupOf[t] BY <1>3, ParentType DEF Climb, Iterates
  <2>2. ASSUME NEW n \in Nat, n # 0
        PROVE  f[n] = IF f[n - 1] = None THEN None ELSE ParentOf[f[n - 1]]
    <3>1. n - 1 \in Nat /\ (n - 1) + 1 = n BY <2>2
    <3>2. f[n - 1] \in Groups \cup {None} /\ f[(n - 1) + 1] = Parent[f[n - 1]]
      BY <1>3, <3>1, ParentType DEF Climb, Iterates
    <3>3. f[n] = Parent[f[n - 1]] BY <3>1, <3>2
    <3> QED BY <3>2, <3>3 DEF Parent
  <2> QED BY <2>1, <2>2 DEF WalksUp
<1>5. PICK g : g = CHOOSE h : WalksUp(h, t) OBVIOUS
<1>6. WalksUp(g, t) BY <1>4, <1>5
<1>7. Climb(g, GroupOf[t]) BY <1>6, WalkClimbs
<1> QED BY <1>1, <1>5, <1>7

\* What lies above a group is what its climb meets after the first step.
LEMMA HigherIsMet ==
    ASSUME NEW x \in Groups, NEW f, Climb(f, x), NEW y \in Groups
    PROVE  y \in Higher[x] <=> \E k \in Nat : k > 0 /\ f[k] = y
<1>0. f[0] = x /\ \A n \in Nat : f[n] \in Groups \cup {None} /\ f[n + 1] = Parent[f[n]]
  BY ParentType DEF Climb, Iterates
<1>1. ASSUME y \in Higher[x] PROVE \E k \in Nat : k > 0 /\ f[k] = y
  <2> DEFINE A == {h \in Groups : \E k \in Nat : k > 0 /\ f[k] = h}
  <2>1. ASSUME NEW a \in A \cup {x} PROVE ParentOf[a] \in A \cup {None}
    <3>1. PICK k \in Nat : f[k] = a BY <1>0, <2>1
    <3>2. k + 1 \in Nat /\ k + 1 > 0 BY <3>1
    <3>3. a \in Groups /\ a # None BY <2>1, GroupsAssumption
    <3>4. f[k + 1] = ParentOf[a] BY <1>0, <3>1, <3>3 DEF Parent
    <3>5. ParentOf[a] \in Groups \cup {None} BY <3>3, GroupsAssumption
    <3> QED BY <3>2, <3>4, <3>5
  <2>2. A \in SUBSET Groups OBVIOUS
  <2>3. y \in A
    <3> HIDE DEF A
    <3> QED BY <1>1, <2>1, <2>2 DEF Higher
  <2> QED BY <2>3
<1>2. ASSUME NEW k \in Nat, k > 0, f[k] = y PROVE y \in Higher[x]
  <2>1. SUFFICES ASSUME NEW A \in SUBSET Groups, \A a \in A \cup {x} : ParentOf[a] \in A \cup {None}
                 PROVE  y \in A
    BY DEF Higher
  <2> DEFINE Bad == {n \in Nat : n > 0 /\ f[n] \notin A \cup {None}}
  <2>2. Bad = {}
    <3> SUFFICES ASSUME Bad # {} PROVE FALSE
      OBVIOUS
    <3>1. PICK n \in Bad : \A j \in Bad : n <= j
      <4> Bad \in SUBSET Nat OBVIOUS
      <4> HIDE DEF Bad
      <4> QED BY LeastNumber
    <3>2. n - 1 \in Nat /\ n - 1 \notin Bad /\ (n - 1) + 1 = n BY <3>1
    <3>3. f[n - 1] \in A \cup {x} \cup {None} BY <1>0, <3>2
    <3>4. f[n] = Parent[f[n - 1]]
      <4>1. f[(n - 1) + 1] = Parent[f[n - 1]] BY <1>0, <3>2
      <4> QED BY <3>2, <4>1
    <3>5. f[n] \in A \cup {None}
      <4>1. CASE f[n - 1] = None BY <3>4, <4>1 DEF Parent
      <4>2. CASE f[n - 1] # None
        <5>1. f[n - 1] \in A \cup {x} /\ f[n - 1] \in Groups BY <3>3, <4>2
        <5>2. f[n] = ParentOf[f[n - 1]] BY <3>4, <4>2, <5>1 DEF Parent
        <5> QED BY <2>1, <5>1, <5>2
      <4> QED BY <4>1, <4>2
    <3> QED BY <3>1, <3>5
  <2>3. k \notin Bad BY <2>2
  <2> QED BY <1>2, <2>3, GroupsAssumption
<1> QED BY <1>1, <1>2

\* The rule that wins, whatever the rules are.
LEMMA WinnerIsNearest == NearestRuleWins
<1> SUFFICES ASSUME NEW t \in Types
             PROVE  LET w == Winner(rows, t)
                        ruled == {g \in Groups : /\ g = GroupOf[t] \/ (GroupOf[t] # None /\ g \in Higher[GroupOf[t]])
                                                 /\ Enabled(rows, GroupTarget(g))}
                    IN  IF Enabled(rows, TypeTarget(t)) THEN w = TypeTarget(t)
                        ELSE IF ruled = {} THEN w = None
                        ELSE \E g \in ruled : /\ w = GroupTarget(g)
                                              /\ ruled \ {g} \subseteq Higher[g]
  BY DEF NearestRuleWins
<1>1. PICK C : C = Cardinality(Groups) /\ C \in Nat BY FS_CardinalityType, GroupsAssumption
<1>2. PICK f : Climb(f, GroupOf[t]) /\ Above(t) = [n \in 0 .. C |-> f[n]] BY <1>1, AboveClimbs
<1>3. PICK chain : chain = Above(t) OBVIOUS
<1>4. PICK hits : hits = {n \in DOMAIN chain : chain[n] # None /\ Enabled(rows, GroupTarget(chain[n]))}
  OBVIOUS
<1>5. PICK ruled : ruled = {g \in Groups : /\ g = GroupOf[t] \/ (GroupOf[t] # None /\ g \in Higher[GroupOf[t]])
                                           /\ Enabled(rows, GroupTarget(g))}
  OBVIOUS
<1>6. Winner(rows, t) = IF Enabled(rows, TypeTarget(t)) THEN TypeTarget(t)
                        ELSE IF hits = {} THEN None ELSE GroupTarget(chain[Min(hits)])
  BY <1>3, <1>4 DEF Winner
<1>7. f[0] = GroupOf[t] /\ \A n \in Nat : f[n] \in Groups \cup {None} /\ f[n + 1] = Parent[f[n]]
  BY <1>2, ParentType DEF Climb, Iterates
<1>8. hits \in SUBSET (0 .. C) /\ hits \in SUBSET Nat
      /\ \A n \in hits : chain[n] = f[n] /\ f[n] \in Groups /\ Enabled(rows, GroupTarget(f[n]))
  BY <1>1, <1>2, <1>3, <1>4, <1>7
<1>9. \A n \in 0 .. C : f[n] # None /\ Enabled(rows, GroupTarget(f[n])) => n \in hits
  BY <1>2, <1>3, <1>4
<1>10. ASSUME NEW n \in hits PROVE f[n] \in ruled
  <2>1. n \in Nat /\ f[n] \in Groups /\ Enabled(rows, GroupTarget(f[n])) BY <1>8
  <2>2. CASE n = 0 BY <1>5, <1>7, <2>1, <2>2
  <2>3. CASE n # 0
    <3>1. GroupOf[t] # None
      <4>1. SUFFICES ASSUME GroupOf[t] = None PROVE FALSE
        OBVIOUS
      <4>2. PICK z : z = [m \in Nat |-> None] OBVIOUS
      <4>3. Climb(z, f[0])
        <5>1. Parent[None] = None /\ DOMAIN Parent = Groups \cup {None} BY DEF Parent
        <5> QED BY <1>7, <4>1, <4>2, <5>1 DEF Climb, Iterates
      <4>4. f[0 + n] = z[n] BY <1>2, <2>1, <4>3, ClimbsJoin
      <4>5. 0 + n = n /\ z[n] = None BY <2>1, <4>2
      <4> QED BY <2>1, <4>4, <4>5, GroupsAssumption
    <3>2. GroupOf[t] \in Groups BY <3>1, GroupsAssumption
    <3>3. f[n] \in Higher[GroupOf[t]] BY <1>2, <2>1, <2>3, <3>2, HigherIsMet
    <3> QED BY <1>5, <2>1, <3>1, <3>3
  <2> QED BY <2>2, <2>3
<1>11. ASSUME NEW g \in ruled PROVE \E n \in hits : f[n] = g
  <2>1. g \in Groups /\ Enabled(rows, GroupTarget(g)) /\ g # None BY <1>5, GroupsAssumption
  <2>2. PICK n \in Nat : f[n] = g
    <3>1. CASE g = GroupOf[t] BY <1>7, <3>1
    <3>2. CASE GroupOf[t] # None /\ g \in Higher[GroupOf[t]]
      <4>1. GroupOf[t] \in Groups BY <3>2, GroupsAssumption
      <4> QED BY <1>2, <2>1, <3>2, <4>1, HigherIsMet
    <3> QED BY <1>5, <3>1, <3>2
  <2>3. PICK k \in Nat : k < C /\ f[k] = g BY <1>1, <1>2, <2>1, <2>2, MetSoon
  <2>4. k \in 0 .. C BY <1>1, <2>3
  <2> QED BY <1>9, <2>1, <2>3, <2>4
<1>12. CASE hits = {} BY <1>5, <1>6, <1>11, <1>12
<1>13. CASE hits # {}
  <2>1. PICK m \in hits : \A n \in hits : m <= n BY <1>8, <1>13, LeastNumber
  <2>2. Min(hits) = m
    <3>1. \A n \in hits : (\A j \in hits : n <= j) => n = m BY <1>8, <2>1
    <3> QED BY <2>1, <3>1 DEF Min
  <2>3. f[m] \in ruled /\ chain[Min(hits)] = f[m] BY <1>8, <1>10, <2>2
  <2>4. ASSUME NEW h \in ruled, h # f[m] PROVE h \in Higher[f[m]]
    <3>1. PICK n \in hits : f[n] = h BY <1>11, <2>4
    <3>2. n \in Nat /\ m \in Nat /\ n > m /\ n - m \in Nat /\ n - m > 0 /\ m + (n - m) = n
      BY <1>8, <2>1, <2>4, <3>1
    <3>3. f[m] \in Groups /\ h \in Groups BY <1>8, <3>1
    <3>4. PICK g : Climb(g, f[m]) BY <3>3, ClimbExists
    <3>5. f[m + (n - m)] = g[n - m] BY <1>2, <3>2, <3>4, ClimbsJoin
    <3>6. g[n - m] = h BY <3>1, <3>2, <3>5
    <3> QED BY <3>2, <3>3, <3>4, <3>6, HigherIsMet
  <2>5. ruled \ {f[m]} \subseteq Higher[f[m]] BY <2>4
  <2>6. ruled # {} BY <2>3
  <2>7. ~Enabled(rows, TypeTarget(t)) => Winner(rows, t) = GroupTarget(f[m]) BY <1>6, <1>13, <2>3
  <2> QED BY <1>5, <1>6, <2>3, <2>5, <2>6, <2>7
<1> QED BY <1>12, <1>13

LEMMA AppraisalTyped == AppraisalInv => AppraisalTypeOK
<1> SUFFICES ASSUME AppraisalInv PROVE AppraisalTypeOK
  OBVIOUS
<1>1. \A k \in Keys : rows[k] # None => rows[k] \in Stored(k) BY DEF AppraisalInv, RowsKept
<1>2. \A m \in Managers : unit[m] # None => unit[m].key \in Keys
  BY KeysKnown DEF AppraisalInv, UnitsKept, UnitOK
<1>3. \A u \in Members : ask[u] # None =>
         /\ ask[u].phase \in {"absent", "create", "rules", "price"}
         /\ ask[u].phase \in {"rules", "price"} => ask[u].config # None
  BY DEF AppraisalInv, AsksKept, AskOK
<1>4. \A i \in DOMAIN saved : /\ saved[i].rejected_count \in 0 .. MaxItems
                              /\ saved[i].delivery \in Places \cup Hubs
  BY DEF AppraisalInv, SavedKept, SavedOK
<1> QED BY <1>1, <1>2, <1>3, <1>4 DEF AppraisalInv, AppraisalTypeOK

\* For every tree of market groups, one with a cycle too, and every set of rules: what
\* is stored is well formed, and the rule that prices a type is its own or that of the
\* nearest group above it with an enabled one.
THEOREM RulesAlwaysResolve == AppraisalSpec => []RulesResolve
<1>1. AppraisalInv => RulesResolve BY AppraisalTyped, WinnerIsNearest DEF RulesResolve
<1> QED BY <1>1, AppraisalAlways, PTL

-----------------------------------------------------------------------------
(* What an order book is quoted at *)

Sorts(perm, o, isBuy, n) ==
    /\ n \in Nat /\ o \in Seq(Order) /\ n = Len(o) /\ perm \in [1 .. n -> 1 .. n]
    /\ \A x, y \in 1 .. n : perm[x] = perm[y] => x = y
    /\ \A i \in 1 .. n : \E m \in 1 .. n : perm[m] = i
    /\ \A x, y \in 1 .. n : x < y => ~Better(isBuy, o[perm[y]].price, o[perm[x]].price)

LEMMA OrdersAre ==
    ASSUME NEW o \in Seq(Order)
    PROVE  /\ Len(o) \in Nat /\ DOMAIN o = 1 .. Len(o)
           /\ IsFiniteSet(DOMAIN o) /\ Cardinality(DOMAIN o) = Len(o)
           /\ \A i \in DOMAIN o : o[i] \in Order /\ o[i].price \in Nat /\ o[i].volume \in Nat
<1>1. PICK n \in Nat : n = Len(o) OBVIOUS
<1>2. DOMAIN o = 1 .. n BY <1>1
<1>3. IsFiniteSet(1 .. n) /\ Cardinality(1 .. n) = n BY FS_Interval
<1>4. \A i \in DOMAIN o : o[i] \in Order OBVIOUS
<1>5. \A i \in DOMAIN o : o[i].price \in Nat /\ o[i].volume \in Nat BY <1>4 DEF Order
<1> QED BY <1>1, <1>2, <1>3, <1>4, <1>5

\* The code's stable sort puts every order in one place, the better price first.
LEMMA BestFirstIs ==
    ASSUME NEW o \in Seq(Order), NEW isBuy \in BOOLEAN
    PROVE  \E perm : /\ Sorts(perm, o, isBuy, Len(o))
                     /\ BestFirst(o, isBuy) = [m \in 1 .. Len(o) |-> o[perm[m]]]
<1>1. PICK n \in Nat : n = Len(o) OBVIOUS
<1> DEFINE I == DOMAIN o
<1>2. I = 1 .. n BY <1>1
<1>3. IsFiniteSet(I) /\ Cardinality(I) = n /\ \A i \in I : i \in Nat /\ o[i].price \in Nat
  BY <1>1, <1>2, OrdersAre
<1> DEFINE first(i, j) == \/ Better(isBuy, o[i].price, o[j].price)
                          \/ o[i].price = o[j].price /\ i < j
<1>4. PICK bf : bf = [i \in I |-> {j \in I : first(j, i)}] OBVIOUS
<1>5. PICK rank : rank = [i \in I |-> Cardinality(bf[i])] OBVIOUS
<1>6. /\ rank \in [I -> 0 .. n - 1]
      /\ \A m \in 0 .. n - 1 : \E i \in I : rank[i] = m
      /\ \A i, j \in I : (rank[i] = rank[j] => i = j) /\ (j \in bf[i] => rank[j] < rank[i])
  <2>1. \A i \in I : bf[i] \in SUBSET I BY <1>4
  <2>2. \A i, j \in I : j \in bf[i] <=> first(j, i) BY <1>4
  <2>3. \A i \in I : i \notin bf[i] BY <1>3, <2>2 DEF Better
  <2>4. \A i, j \in I : i # j => j \in bf[i] \/ i \in bf[j] BY <1>3, <2>2 DEF Better
  <2>5. \A i, j, k \in I : j \in bf[i] /\ k \in bf[j] => k \in bf[i] BY <1>3, <2>2 DEF Better
  <2> HIDE DEF first
  <2> QED BY <1>3, <1>5, <2>1, <2>3, <2>4, <2>5, RanksAre
<1>7. PICK perm : perm = [m \in I |-> CHOOSE i \in I : Cardinality({j \in I : first(j, i)}) + 1 = m] OBVIOUS
<1>8. \A m \in I : perm[m] \in I /\ rank[perm[m]] = m - 1
  <2> SUFFICES ASSUME NEW m \in I PROVE perm[m] \in I /\ rank[perm[m]] = m - 1 OBVIOUS
  <2>1. m - 1 \in 0 .. n - 1 BY <1>2
  <2>2. PICK i \in I : rank[i] = m - 1 BY <1>6, <2>1
  <2>3. \A x \in I : rank[x] = Cardinality({j \in I : first(j, x)}) /\ rank[x] \in Int BY <1>4, <1>5, <1>6
  <2> HIDE DEF first
  <2>4. Cardinality({j \in I : first(j, i)}) + 1 = m BY <1>2, <2>2, <2>3
  <2>5. perm[m] \in I /\ Cardinality({j \in I : first(j, perm[m])}) + 1 = m BY <1>7, <2>4
  <2>6. rank[perm[m]] = Cardinality({j \in I : first(j, perm[m])}) BY <2>3, <2>5
  <2>7. rank[perm[m]] \in Int /\ rank[perm[m]] + 1 = m BY <2>3, <2>5, <2>6
  <2> HIDE DEF I
  <2>8. m \in Int BY <1>2
  <2> QED BY <2>5, <2>7, <2>8
<1>9. BestFirst(o, isBuy) = [m \in I |-> o[perm[m]]]
  <2>1. BestFirst(o, isBuy)
          = [m \in I |-> o[CHOOSE i \in I : Cardinality({j \in I : first(j, i)}) + 1 = m]]
    BY DEF BestFirst
  <2> HIDE DEF first
  <2> QED BY <1>7, <2>1
<1>10. \A x, y \in I : perm[x] = perm[y] => x = y BY <1>2, <1>8
<1>11. \A i \in I : \E m \in I : perm[m] = i
  <2> SUFFICES ASSUME NEW i \in I PROVE \E m \in I : perm[m] = i OBVIOUS
  <2>1. rank[i] \in 0 .. n - 1 BY <1>6
  <2>2. PICK m \in I : m = rank[i] + 1 BY <1>2, <2>1
  <2> HIDE DEF I
  <2>3. rank[perm[m]] = rank[i] BY <1>8, <2>1, <2>2
  <2> QED BY <1>6, <1>8, <2>2, <2>3
<1>12. \A x, y \in I : x < y => ~Better(isBuy, o[perm[y]].price, o[perm[x]].price)
  <2> SUFFICES ASSUME NEW x \in I, NEW y \in I, x < y, Better(isBuy, o[perm[y]].price, o[perm[x]].price)
               PROVE  FALSE
    OBVIOUS
  <2>1. perm[y] \in bf[perm[x]] BY <1>4, <1>8
  <2>2. rank[perm[y]] < rank[perm[x]] BY <1>6, <1>8, <2>1
  <2> QED BY <1>2, <1>8, <2>2
<1>13. perm \in [I -> I] BY <1>7, <1>8
<1>14. Sorts(perm, o, isBuy, n) BY <1>1, <1>2, <1>10, <1>11, <1>12, <1>13 DEF Sorts
<1> QED BY <1>1, <1>2, <1>9, <1>14

\* Volume in the first m orders of a book.
Cum(book, m) == Volume(book, 1 .. m)

LEMMA CumIs ==
    ASSUME NEW n \in Nat, NEW s \in [1 .. n -> Order]
    PROVE  /\ Cum(s, 0) = 0 /\ Volume(s, DOMAIN s) = Cum(s, n)
           /\ \A m \in 0 .. n : Cum(s, m) \in Nat
           /\ \A m \in 1 .. n : Cum(s, m) = Cum(s, m - 1) + s[m].volume
           /\ \A x, y \in 0 .. n : x <= y => Cum(s, x) <= Cum(s, y)
<1>1. PICK v : v = [i \in DOMAIN s |-> s[i].volume] OBVIOUS
<1>2. DOMAIN s = 1 .. n /\ \A i \in 1 .. n : v[i] \in Nat /\ v[i] = s[i].volume BY <1>1 DEF Order
<1>3. \A m : Cum(s, m) = SumFunctionOnSet(v, 1 .. m) BY <1>1 DEF Cum, Volume
<1>4. Cum(s, 0) = 0
  <2>1. 1 .. 0 = {} OBVIOUS
  <2> QED BY <1>3, <2>1, SumOnEmpty
<1>5. Volume(s, DOMAIN s) = Cum(s, n) BY <1>2 DEF Cum
<1>6. ASSUME NEW m \in 0 .. n PROVE IsFiniteSet(1 .. m) /\ 1 .. m \in SUBSET (1 .. n) /\ Cum(s, m) \in Nat
  <2>1. IsFiniteSet(1 .. m) /\ 1 .. m \in SUBSET (1 .. n) BY FS_Interval
  <2>2. \A i \in 1 .. m : v[i] \in Nat BY <1>2, <2>1
  <2> QED BY <1>3, <2>1, <2>2, SumOnNat
<1>7. ASSUME NEW m \in 1 .. n PROVE Cum(s, m) = Cum(s, m - 1) + s[m].volume
  <2>1. PICK l \in 0 .. n : l = m - 1 OBVIOUS
  <2>2. (1 .. l) \cup {m} = 1 .. m /\ m \notin 1 .. l BY <2>1
  <2>3. \A y \in (1 .. l) \cup {m} : v[y] \in Int BY <1>2, <2>1
  <2>4. IsFiniteSet(1 .. l) BY <1>6
  <2>5. SumFunctionOnSet(v, (1 .. l) \cup {m}) = v[m] + SumFunctionOnSet(v, 1 .. l)
    BY <2>2, <2>3, <2>4, SumOnAdd
  <2>6. Cum(s, m) = v[m] + Cum(s, l) BY <1>3, <2>2, <2>5
  <2>7. Cum(s, l) \in Nat BY <1>6
  <2> QED BY <1>2, <2>1, <2>6, <2>7
<1>8. ASSUME NEW x \in 0 .. n, NEW y \in 0 .. n, x <= y PROVE Cum(s, x) <= Cum(s, y)
  <2>1. 1 .. x \in SUBSET (1 .. y) BY <1>8
  <2>2. IsFiniteSet(1 .. y) /\ \A i \in 1 .. y : v[i] \in Nat BY <1>2, <1>6
  <2> QED BY <1>3, <2>1, <2>2, SumOnPart
<1> QED BY <1>4, <1>5, <1>6, <1>7, <1>8

\* Sorting moves volume from place to place.
LEMMA SortedVolume ==
    ASSUME NEW o, NEW isBuy, NEW n, NEW perm, Sorts(perm, o, isBuy, n),
           NEW s, s = [m \in 1 .. n |-> o[perm[m]]],
           NEW J \in SUBSET (1 .. n), NEW I \in SUBSET (1 .. n),
           \A m \in 1 .. n : m \in J <=> perm[m] \in I
    PROVE  Volume(o, I) = Volume(s, J) /\ Volume(s, J) \in Nat
<1>1. /\ n \in Nat /\ o \in Seq(Order) /\ n = Len(o) /\ perm \in [1 .. n -> 1 .. n]
      /\ \A x, y \in 1 .. n : perm[x] = perm[y] => x = y
      /\ \A i \in 1 .. n : \E m \in 1 .. n : perm[m] = i
  BY DEF Sorts
<1>2. DOMAIN o = 1 .. n /\ \A i \in 1 .. n : o[i].volume \in Nat BY <1>1, OrdersAre
<1>3. PICK f : f = [i \in DOMAIN o |-> o[i].volume] OBVIOUS
<1>4. PICK g : g = [i \in DOMAIN s |-> s[i].volume] OBVIOUS
<1>5. PICK b : b = [m \in J |-> perm[m]] OBVIOUS
<1>6. IsFiniteSet(J)
  <2>1. IsFiniteSet(1 .. n) BY <1>1, FS_Interval
  <2> QED BY <2>1, FS_Subset
<1>7. b \in [J -> I] BY <1>5
<1>8. \A x, y \in J : b[x] = b[y] => x = y BY <1>1, <1>5
<1>9. \A z \in I : \E x \in J : b[x] = z
  <2> SUFFICES ASSUME NEW z \in I PROVE \E x \in J : b[x] = z OBVIOUS
  <2>1. PICK x \in 1 .. n : perm[x] = z BY <1>1
  <2> QED BY <1>5, <2>1
<1>10. \A z \in I : f[z] \in Int BY <1>2, <1>3
<1>11. \A x \in J : g[x] = f[b[x]] /\ g[x] \in Nat
  <2> SUFFICES ASSUME NEW x \in J PROVE g[x] = f[b[x]] /\ g[x] \in Nat OBVIOUS
  <2>1. x \in 1 .. n /\ perm[x] \in 1 .. n /\ b[x] = perm[x] BY <1>1, <1>5
  <2>2. s[x] = o[perm[x]] /\ DOMAIN s = 1 .. n BY <2>1
  <2> QED BY <1>2, <1>3, <1>4, <2>1, <2>2
<1>12. SumFunctionOnSet(g, J) = SumFunctionOnSet(f, I)
  <2>1. Renames(b, J, I, g, f) BY <1>6, <1>7, <1>8, <1>9, <1>10, <1>11 DEF Renames
  <2> QED BY <2>1, SumRenamed
<1>13. SumFunctionOnSet(g, J) \in Nat BY <1>6, <1>11, SumOnNat
<1> QED BY <1>3, <1>4, <1>12, <1>13 DEF Volume

LEMMA VolumeGrows ==
    ASSUME NEW n \in Nat, NEW s \in [1 .. n -> Order], NEW A \in SUBSET (1 .. n), NEW B \in SUBSET A
    PROVE  Volume(s, B) <= Volume(s, A) /\ Volume(s, A) \in Nat /\ Volume(s, B) \in Nat
<1>1. PICK v : v = [i \in DOMAIN s |-> s[i].volume] OBVIOUS
<1>2. \A i \in A : v[i] \in Nat BY <1>1 DEF Order
<1>3. IsFiniteSet(A) /\ IsFiniteSet(B)
  <2>1. IsFiniteSet(1 .. n) BY FS_Interval
  <2>2. IsFiniteSet(A) BY <2>1, FS_Subset
  <2> QED BY <2>2, FS_Subset
<1>4. SumFunctionOnSet(v, B) <= SumFunctionOnSet(v, A) BY <1>2, <1>3, SumOnPart
<1>5. SumFunctionOnSet(v, A) \in Nat /\ SumFunctionOnSet(v, B) \in Nat BY <1>2, <1>3, SumOnNat
<1> QED BY <1>1, <1>4, <1>5 DEF Volume

LEMMA ScaledUp ==
    ASSUME NEW w \in Nat, NEW a \in Nat, NEW b \in Nat, a <= b
    PROVE  w * a <= w * b /\ w * a \in Nat /\ w * b \in Nat
<1>1. PICK c \in Nat : b = a + c OBVIOUS
<1>2. w * b = w * a + w * c BY <1>1
<1>3. w * a \in Nat /\ w * c \in Nat OBVIOUS
<1> QED BY <1>2, <1>3

\* A slice that lies in the order at place m of the sorted book has its price.
LEMMA NthIs ==
    ASSUME NEW o, NEW isBuy \in BOOLEAN, NEW n, NEW perm, Sorts(perm, o, isBuy, n),
           NEW s, s = [m \in 1 .. n |-> o[perm[m]]],
           NEW m \in 1 .. n, NEW k \in Nat, Window * Cum(s, m - 1) < k, k <= Window * Cum(s, m)
    PROVE  Nth(o, isBuy, k) = s[m].price
<1>1. n \in Nat /\ o \in Seq(Order) /\ n = Len(o) /\ perm \in [1 .. n -> 1 .. n] BY DEF Sorts
<1>2. /\ DOMAIN o = 1 .. n /\ o \in [1 .. n -> Order]
      /\ \A i \in 1 .. n : o[i] \in Order /\ o[i].price \in Nat
  BY <1>1, OrdersAre
<1>3. s \in [1 .. n -> Order] /\ \A j \in 1 .. n : s[j] = o[perm[j]] /\ s[j].price \in Nat
  BY <1>1, <1>2
<1>4. \A x, y \in 1 .. n : x < y => ~Better(isBuy, s[y].price, s[x].price) BY <1>3 DEF Sorts
<1>5. Window \in Nat BY NumbersAssumption
<1>6. PICK p \in Nat : p = s[m].price BY <1>3
<1>7. p \in Prices(o) BY <1>1, <1>2, <1>3, <1>6 DEF Prices
<1>8. Window * Ahead(o, isBuy, p) < k
  <2>1. PICK I : I = {i \in 1 .. n : Better(isBuy, o[i].price, p)} OBVIOUS
  <2>2. PICK J : J = {j \in 1 .. n : Better(isBuy, s[j].price, p)} OBVIOUS
  <2>3. \A j \in 1 .. n : j \in J <=> perm[j] \in I BY <1>1, <1>3, <2>1, <2>2
  <2>4. Volume(o, I) = Volume(s, J)
    <3>1. I \in SUBSET (1 .. n) /\ J \in SUBSET (1 .. n) BY <2>1, <2>2
    <3> QED BY <2>3, <3>1, SortedVolume
  <2>5. J \in SUBSET (1 .. m - 1)
    <3>1. ASSUME NEW j \in J PROVE j \in 1 .. m - 1
      <4>1. j \in 1 .. n /\ Better(isBuy, s[j].price, s[m].price) BY <1>6, <2>2
      <4>2. ~(m < j) BY <1>4, <4>1
      <4>3. j # m BY <1>3, <4>1 DEF Better
      <4> QED BY <1>1, <4>1, <4>2, <4>3
    <3> QED BY <3>1
  <2>6. 1 .. m - 1 \in SUBSET (1 .. n) BY <1>1
  <2>7. Volume(s, J) <= Cum(s, m - 1) /\ Volume(s, J) \in Nat /\ Cum(s, m - 1) \in Nat
    BY <1>1, <1>3, <2>5, <2>6, VolumeGrows DEF Cum
  <2>8. Ahead(o, isBuy, p) = Volume(s, J) BY <1>2, <2>1, <2>4 DEF Ahead
  <2>9. Window * Volume(s, J) <= Window * Cum(s, m - 1) /\ Window * Volume(s, J) \in Nat
        /\ Window * Cum(s, m - 1) \in Nat
    BY <1>5, <2>7, ScaledUp
  <2> QED BY <2>8, <2>9
<1>9. k <= Window * UpTo(o, isBuy, p)
  <2>1. PICK I : I = {i \in 1 .. n : ~Better(isBuy, p, o[i].price)} OBVIOUS
  <2>2. PICK J : J = {j \in 1 .. n : ~Better(isBuy, p, s[j].price)} OBVIOUS
  <2>3. \A j \in 1 .. n : j \in J <=> perm[j] \in I BY <1>1, <1>3, <2>1, <2>2
  <2>4. Volume(o, I) = Volume(s, J)
    <3>1. I \in SUBSET (1 .. n) /\ J \in SUBSET (1 .. n) BY <2>1, <2>2
    <3> QED BY <2>3, <3>1, SortedVolume
  <2>5. 1 .. m \in SUBSET J
    <3>1. ASSUME NEW j \in 1 .. m PROVE j \in J
      <4>1. j \in 1 .. n /\ (j < m \/ j = m) BY <1>1, <3>1
      <4>2. ~Better(isBuy, s[m].price, s[j].price) BY <1>3, <1>4, <4>1 DEF Better
      <4> QED BY <1>6, <2>2, <4>1, <4>2
    <3> QED BY <3>1
  <2>6. J \in SUBSET (1 .. n) BY <2>2
  <2>7. Cum(s, m) <= Volume(s, J) /\ Volume(s, J) \in Nat /\ Cum(s, m) \in Nat
    BY <1>1, <1>3, <2>5, <2>6, VolumeGrows DEF Cum
  <2>8. UpTo(o, isBuy, p) = Volume(s, J) BY <1>2, <2>1, <2>4 DEF UpTo
  <2>9. Window * Cum(s, m) <= Window * Volume(s, J) /\ Window * Volume(s, J) \in Nat
        /\ Window * Cum(s, m) \in Nat
    BY <1>5, <2>7, ScaledUp
  <2> QED BY <2>8, <2>9
<1>10. ASSUME NEW q \in Prices(o), NEW r \in Prices(o),
              Window * Ahead(o, isBuy, r) < k, k <= Window * UpTo(o, isBuy, q)
       PROVE  ~Better(isBuy, q, r)
  <2> SUFFICES ASSUME Better(isBuy, q, r) PROVE FALSE OBVIOUS
  <2>1. PICK A : A = {i \in 1 .. n : Better(isBuy, o[i].price, r)} OBVIOUS
  <2>2. PICK B : B = {i \in 1 .. n : ~Better(isBuy, q, o[i].price)} OBVIOUS
  <2>3. q \in Nat /\ r \in Nat BY <1>2 DEF Prices
  <2>4. B \in SUBSET A BY <1>2, <2>1, <2>2, <2>3 DEF Better
  <2>5. A \in SUBSET (1 .. n) BY <2>1
  <2>6. Volume(o, B) <= Volume(o, A) /\ Volume(o, B) \in Nat /\ Volume(o, A) \in Nat
    BY <1>1, <1>2, <2>4, <2>5, VolumeGrows
  <2>7. /\ Window * Volume(o, B) <= Window * Volume(o, A)
        /\ Window * Volume(o, B) \in Nat /\ Window * Volume(o, A) \in Nat
    BY <1>5, <2>6, ScaledUp
  <2>8. Ahead(o, isBuy, r) = Volume(o, A) /\ UpTo(o, isBuy, q) = Volume(o, B)
    BY <1>2, <2>1, <2>2 DEF Ahead, UpTo
  <2> QED BY <1>10, <2>7, <2>8
<1>11. ASSUME NEW q \in Prices(o), Window * Ahead(o, isBuy, q) < k, k <= Window * UpTo(o, isBuy, q)
       PROVE  q = p
  <2>1. ~Better(isBuy, q, p) /\ ~Better(isBuy, p, q) BY <1>7, <1>8, <1>9, <1>10, <1>11
  <2>2. q \in Nat BY <1>2 DEF Prices
  <2> QED BY <2>1, <2>2 DEF Better
<1> QED BY <1>6, <1>7, <1>8, <1>9, <1>11 DEF Nth

\* How many slices of the first m orders lie among the best `total`.
Cut(s, total, m) == IF Window * Cum(s, m) <= total THEN Window * Cum(s, m) ELSE total

LEMMA MaxOfTwo ==
    ASSUME NEW a, a \in Int, NEW b, b \in Int, NEW T, T = {a, b}
    PROVE  /\ Max(T) = IF a <= b THEN b ELSE a
           /\ Min(T) = IF a <= b THEN a ELSE b
<1>1. \A x \in T : (\A y \in T : x >= y) => x = IF a <= b THEN b ELSE a OBVIOUS
<1>2. \E x \in T : \A y \in T : x >= y OBVIOUS
<1>3. \A x \in T : (\A y \in T : x <= y) => x = IF a <= b THEN a ELSE b OBVIOUS
<1>4. \E x \in T : \A y \in T : x <= y OBVIOUS
<1>5. Max(T) = IF a <= b THEN b ELSE a BY <1>1, <1>2 DEF Max
<1>6. Min(T) = IF a <= b THEN a ELSE b BY <1>3, <1>4 DEF Min
<1> QED BY <1>5, <1>6

LEMMA ScaledCum ==
    ASSUME NEW n \in Nat, NEW s \in [1 .. n -> Order]
    PROVE  /\ \A m \in 0 .. n : Cum(s, m) \in Nat /\ Window * Cum(s, m) \in Nat
           /\ \A m \in 1 .. n : /\ Window * s[m].volume \in Nat /\ s[m].volume \in Nat
                                /\ s[m].volume <= Window * s[m].volume
                                /\ Window * Cum(s, m) = Window * Cum(s, m - 1) + Window * s[m].volume
           /\ Cum(s, n) <= Window * Cum(s, n)
<1>1. PICK w \in Nat : w = Window /\ w # 0 BY NumbersAssumption
<1>2. \A m \in 0 .. n : Cum(s, m) \in Nat BY CumIs
<1>3. \A m \in 1 .. n : s[m].volume \in Nat /\ Cum(s, m) = Cum(s, m - 1) + s[m].volume BY CumIs DEF Order
<1>4. \A x \in Nat : w * x \in Nat /\ x <= w * x
  <2> TAKE x \in Nat
  <2>1. PICK u \in Nat : w = 1 + u BY <1>1
  <2>2. w * x = x + u * x /\ u * x \in Nat BY <2>1
  <2> QED BY <2>2
<1>5. ASSUME NEW m \in 1 .. n
      PROVE  Window * Cum(s, m) = Window * Cum(s, m - 1) + Window * s[m].volume
  <2>1. PICK a \in Nat : a = Cum(s, m - 1) BY <1>2
  <2>2. PICK b \in Nat : b = s[m].volume BY <1>3
  <2>3. w * (a + b) = w * a + w * b OBVIOUS
  <2> QED BY <1>1, <1>3, <2>1, <2>2, <2>3
<1>6. \A m \in 0 .. n : Cum(s, m) \in Nat /\ Window * Cum(s, m) \in Nat BY <1>1, <1>2, <1>4
<1>7. \A m \in 1 .. n : /\ Window * s[m].volume \in Nat /\ s[m].volume \in Nat
                         /\ s[m].volume <= Window * s[m].volume
  BY <1>1, <1>3, <1>4
<1>8. Cum(s, n) <= Window * Cum(s, n) BY <1>1, <1>2, <1>4
<1> QED BY <1>5, <1>6, <1>7, <1>8

LEMMA CutIs ==
    ASSUME NEW n \in Nat, NEW s \in [1 .. n -> Order], NEW total, total = Cum(s, n)
    PROVE  /\ total \in Nat /\ Cut(s, total, 0) = 0 /\ Cut(s, total, n) = total
           /\ \A m \in 0 .. n : Cut(s, total, m) \in Nat /\ Cut(s, total, m) <= total
           /\ \A m \in 1 .. n : Cut(s, total, m - 1) <= Cut(s, total, m)
<1>1. total \in Nat /\ total <= Window * Cum(s, n) BY CumIs, ScaledCum
<1>2. \A m \in 0 .. n : Cum(s, m) \in Nat /\ Window * Cum(s, m) \in Nat BY ScaledCum
<1>3. ASSUME NEW m \in 0 .. n PROVE Cut(s, total, m) \in Nat /\ Cut(s, total, m) <= total
  BY <1>1, <1>2 DEF Cut
<1>4. Cut(s, total, 0) = 0
  <2>1. Cum(s, 0) = 0 BY CumIs
  <2>2. Window * 0 = 0 BY NumbersAssumption
  <2> QED BY <1>1, <2>1, <2>2 DEF Cut
<1>5. Cut(s, total, n) = total BY <1>1, <1>2 DEF Cut
<1>6. ASSUME NEW m \in 1 .. n PROVE Cut(s, total, m - 1) <= Cut(s, total, m)
  <2>1. PICK l \in 0 .. n : l = m - 1 OBVIOUS
  <2>2. PICK v \in Nat : v = Window * s[m].volume /\ Window * Cum(s, m) = Window * Cum(s, l) + v
    BY <2>1, ScaledCum
  <2>3. Window * Cum(s, l) \in Nat /\ Window * Cum(s, m) \in Nat BY <1>2
  <2> QED BY <1>1, <2>1, <2>2, <2>3 DEF Cut
<1> QED BY <1>1, <1>3, <1>4, <1>5, <1>6

\* How many slices of the m-th order the loop takes.
Taken(s, total, m) ==
    Max({0, Min({Window * s[m].volume, total - Window * Volume(s, 1 .. (m - 1))})})

\* What the loop takes of an order is what of its slices lies among the best.
LEMMA TakeIs ==
    ASSUME NEW n \in Nat, NEW s \in [1 .. n -> Order], NEW total, total = Cum(s, n),
           NEW m \in 1 .. n, NEW take, take = Taken(s, total, m)
    PROVE  /\ take = Cut(s, total, m) - Cut(s, total, m - 1) /\ take \in Nat
           /\ Window * Cum(s, m) <= total => take >= s[m].volume
           /\ total <= Window * Cum(s, m - 1) => take = 0
<1>1. PICK a \in Nat : a = Window * Cum(s, m - 1) BY ScaledCum
<1>2. PICK b \in Nat : b = Window * s[m].volume /\ s[m].volume \in Nat /\ s[m].volume <= b BY ScaledCum
<1>3. Window * Cum(s, m) = a + b BY <1>1, <1>2, ScaledCum
<1>4. total \in Nat BY CutIs
<1>5. take = Max({0, Min({b, total - a})}) BY <1>1, <1>2 DEF Cum, Taken
<1>6. PICK y \in Int : y = total - a BY <1>4
<1>7. PICK x \in Int : x = IF b <= y THEN b ELSE y BY <1>2, <1>6
<1>8. x = Min({b, y})
  <2>1. PICK T : T = {b, y} OBVIOUS
  <2>2. Min(T) = IF b <= y THEN b ELSE y BY <1>2, <1>6, <2>1, MaxOfTwo
  <2> QED BY <1>7, <2>1, <2>2
<1>9. take = IF 0 <= x THEN x ELSE 0
  <2>1. PICK z \in Int : z = 0 OBVIOUS
  <2>2. PICK T : T = {z, x} OBVIOUS
  <2>3. Max(T) = IF z <= x THEN x ELSE z BY <1>7, <2>1, <2>2, MaxOfTwo
  <2>4. take = Max({0, Min({b, y})}) BY <1>5, <1>6
  <2> QED BY <1>8, <2>1, <2>2, <2>3, <2>4
<1>10. PICK c \in Int : c = Cut(s, total, m) /\ c = IF a + b <= total THEN a + b ELSE total
  BY <1>3, <1>4 DEF Cut
<1>11. PICK d \in Int : d = Cut(s, total, m - 1) /\ d = IF a <= total THEN a ELSE total
  BY <1>1, <1>4 DEF Cut
<1>12. PICK v \in Nat : v = s[m].volume /\ v <= b BY <1>2
<1>13. take \in Nat /\ take = c - d BY <1>4, <1>6, <1>7, <1>9, <1>10, <1>11
<1>14. /\ a + b <= total => take >= v
       /\ total <= a => take = 0
  BY <1>4, <1>6, <1>7, <1>9, <1>12
<1> QED BY <1>1, <1>3, <1>10, <1>11, <1>12, <1>13, <1>14

\* What is known of the orders o of one side, laid out as the book s.
LaidOut(o, isBuy, n, s, total) ==
    /\ isBuy \in BOOLEAN /\ n \in Nat /\ s \in [1 .. n -> Order]
    /\ \E perm : Sorts(perm, o, isBuy, n) /\ s = [m \in 1 .. n |-> o[perm[m]]]
    /\ total = Cum(s, n) /\ total > 0

LEMMA LaidOutIs ==
    ASSUME NEW o, NEW isBuy, NEW n, NEW s, NEW total, LaidOut(o, isBuy, n, s, total)
    PROVE  /\ n \in Nat /\ total \in Nat /\ isBuy \in BOOLEAN
           /\ \A m \in 1 .. n : s[m].price \in Nat /\ s[m].volume \in Nat
           /\ \A x, y \in 1 .. n : x < y => ~Better(isBuy, s[y].price, s[x].price)
<1>1. n \in Nat /\ s \in [1 .. n -> Order] /\ isBuy \in BOOLEAN /\ total = Cum(s, n) BY DEF LaidOut
<1>2. \A m \in 1 .. n : s[m].price \in Nat /\ s[m].volume \in Nat BY <1>1 DEF Order
<1>3. \A x, y \in 1 .. n : x < y => ~Better(isBuy, s[y].price, s[x].price) BY DEF LaidOut, Sorts
<1>4. total \in Nat BY <1>1, CumIs
<1> QED BY <1>1, <1>2, <1>3, <1>4

LEMMA SliceLies ==
    ASSUME NEW o, NEW isBuy, NEW n, NEW s, NEW total, LaidOut(o, isBuy, n, s, total),
           NEW m \in 1 .. n, NEW k \in Nat, Window * Cum(s, m - 1) < k, k <= Window * Cum(s, m)
    PROVE  Nth(o, isBuy, k) = s[m].price
<1>1. isBuy \in BOOLEAN /\ n \in Nat BY DEF LaidOut
<1>2. PICK perm : Sorts(perm, o, isBuy, n) /\ s = [j \in 1 .. n |-> o[perm[j]]] BY DEF LaidOut
<1> QED BY <1>1, <1>2, NthIs

\* What the loop adds up is what the best slices cost, as many as there are units.
LEMMA SlicesAddUp ==
    ASSUME NEW o, NEW isBuy, NEW n, NEW s, NEW total, LaidOut(o, isBuy, n, s, total),
           NEW take, \A m \in 1 .. n : take[m] = Cut(s, total, m) - Cut(s, total, m - 1),
           NEW worth, \A m \in 1 .. n : worth[m] = s[m].price * take[m],
           NEW f, \A k \in 1 .. total : f[k] = Nth(o, isBuy, k)
    PROVE  /\ SumFunctionOnSet(worth, 1 .. n) = SumFunctionOnSet(f, 1 .. total)
           /\ SumFunctionOnSet(take, 1 .. n) = total
<1>1. n \in Nat /\ s \in [1 .. n -> Order] /\ total = Cum(s, n) BY DEF LaidOut
<1>2. PICK cut : cut = [m \in 0 .. n |-> Cut(s, total, m)] OBVIOUS
<1>3. PICK c : c = [m \in 1 .. n |-> s[m].price] OBVIOUS
<1>4. total \in Nat /\ \A m \in 1 .. n : c[m] \in Nat BY <1>3, LaidOutIs
<1>5. /\ cut \in [0 .. n -> Nat] /\ cut[0] = 0 /\ cut[n] = total
      /\ \A m \in 1 .. n : cut[m - 1] <= cut[m]
      /\ \A m \in 1 .. n : cut[m - 1] = Cut(s, total, m - 1) /\ cut[m] = Cut(s, total, m)
      /\ \A m \in 1 .. n : cut[m - 1] \in Nat /\ cut[m] \in Nat /\ cut[m] <= total
  <2>1. /\ Cut(s, total, 0) = 0 /\ Cut(s, total, n) = total
        /\ \A m \in 0 .. n : Cut(s, total, m) \in Nat /\ Cut(s, total, m) <= total
        /\ \A m \in 1 .. n : Cut(s, total, m - 1) <= Cut(s, total, m)
    BY <1>1, CutIs
  <2>2. \A m \in 1 .. n : m - 1 \in 0 .. n /\ m \in 0 .. n BY <1>1
  <2>3. 0 \in 0 .. n /\ n \in 0 .. n BY <1>1
  <2> QED BY <1>2, <2>1, <2>2, <2>3
<1>6. ASSUME NEW m \in 1 .. n, NEW k \in (cut[m - 1] + 1) .. cut[m] PROVE f[k] = c[m]
  <2>1. PICK a \in Nat : a = Window * Cum(s, m - 1) BY <1>1, ScaledCum
  <2>2. PICK b \in Nat : b = Window * Cum(s, m) BY <1>1, ScaledCum
  <2>3. PICK lo \in Nat : lo = cut[m - 1] /\ lo = IF a <= total THEN a ELSE total
    BY <1>4, <1>5, <2>1 DEF Cut
  <2>4. PICK hi \in Nat : hi = cut[m] /\ hi = IF b <= total THEN b ELSE total
    BY <1>4, <1>5, <2>2 DEF Cut
  <2>5. k \in Nat /\ lo < k /\ k <= hi /\ hi <= total BY <1>4, <1>6, <2>3, <2>4
  <2>6. a < k /\ k <= b /\ k \in 1 .. total BY <1>4, <2>3, <2>4, <2>5
  <2>7. Nth(o, isBuy, k) = s[m].price BY <2>1, <2>2, <2>5, <2>6, SliceLies
  <2> QED BY <1>3, <2>6, <2>7
<1>7. \A m \in 1 .. n : worth[m] = c[m] * (cut[m] - cut[m - 1]) BY <1>3, <1>5
<1>8. SumFunctionOnSet(f, 1 .. cut[n]) = SumFunctionOnSet(worth, 1 .. n)
  <2>1. Stretches(f, worth, c, cut, n) BY <1>1, <1>4, <1>5, <1>6, <1>7 DEF Stretches
  <2> QED BY <2>1, SumOnRuns
<1>9. SumFunctionOnSet(take, 1 .. n) = total
  <2>1. PICK d : d = [m \in 1 .. n |-> 1] OBVIOUS
  <2>2. PICK e : e = [k \in 1 .. total |-> 1] OBVIOUS
  <2>3. \A m \in 1 .. n : d[m] \in Nat BY <2>1
  <2>4. ASSUME NEW m \in 1 .. n, NEW k \in (cut[m - 1] + 1) .. cut[m] PROVE e[k] = d[m]
    <3>1. cut[m - 1] \in Nat /\ cut[m] \in Nat /\ cut[m] <= total BY <1>5
    <3>2. k \in 1 .. total BY <1>4, <3>1
    <3> QED BY <2>1, <2>2, <3>2
  <2>5. ASSUME NEW m \in 1 .. n PROVE take[m] = d[m] * (cut[m] - cut[m - 1])
    <3>1. PICK x \in Int : x = cut[m] - cut[m - 1] BY <1>5
    <3>2. take[m] = x BY <1>5, <3>1
    <3> QED BY <2>1, <3>1, <3>2
  <2>6. SumFunctionOnSet(e, 1 .. cut[n]) = SumFunctionOnSet(take, 1 .. n)
    <3>1. Stretches(e, take, d, cut, n) BY <1>1, <1>5, <2>3, <2>4, <2>5 DEF Stretches
    <3> QED BY <3>1, SumOnRuns
  <2>7. IsFiniteSet(1 .. total) /\ Cardinality(1 .. total) = total
    <3>1. PICK z \in Int : z = total /\ z >= 0 BY <1>4
    <3>2. IsFiniteSet(1 .. z) /\ Cardinality(1 .. z) = IF 1 > z THEN 0 ELSE z - 1 + 1 BY FS_Interval
    <3> QED BY <3>1, <3>2
  <2>8. SumFunctionOnSet(e, 1 .. total) = Cardinality(1 .. total) BY <2>2, <2>7, SumOnOnes
  <2> QED BY <1>5, <2>6, <2>7, <2>8
<1> QED BY <1>5, <1>8, <1>9

\* The order at which the cumulative volume reaches half of it holds the middle slice.
LEMMA MarkIsMiddle ==
    ASSUME NEW o, NEW isBuy, NEW n, NEW s, NEW total, LaidOut(o, isBuy, n, s, total)
    PROVE  VolumeMark(s, total) = Nth(o, isBuy, (Window * total + 1) \div 2)
<1>1. n \in Nat /\ s \in [1 .. n -> Order] /\ total = Cum(s, n) /\ total > 0 BY DEF LaidOut
<1>2. total \in Nat BY LaidOutIs
<1>3. PICK w \in Nat : w = Window /\ w # 0 BY NumbersAssumption
<1>4. PICK H : H = {i \in 1 .. n : 2 * Cum(s, i) >= total} OBVIOUS
<1>5. VolumeMark(s, total) = s[Min(H)].price
  <2>1. DOMAIN s = 1 .. n BY <1>1
  <2> QED BY <1>4, <2>1 DEF VolumeMark, Cum
<1>6. \A i \in 0 .. n : Cum(s, i) \in Nat BY <1>1, CumIs
<1>7. Cum(s, 0) = 0 BY <1>1, CumIs
<1>8. n \in H
  <2>1. n # 0 BY <1>1, <1>7
  <2>2. n \in 1 .. n BY <1>1, <2>1
  <2> QED BY <1>1, <1>2, <1>4, <2>2
<1>9. PICK m \in H : \A i \in H : m <= i
  <2>1. H \in SUBSET Nat BY <1>4
  <2> QED BY <1>8, <2>1, LeastNumber
<1>10. Min(H) = m
  <2>1. \A i \in H : i \in Nat BY <1>4
  <2> QED BY <1>9, <2>1 DEF Min
<1>11. m \in 1 .. n /\ m - 1 \in 0 .. n BY <1>1, <1>4, <1>9
<1>12. PICK a \in Nat : a = Cum(s, m - 1) BY <1>6, <1>11
<1>13. PICK b \in Nat : b = Cum(s, m) BY <1>6, <1>11
<1>14. 2 * b >= total BY <1>4, <1>9, <1>13
<1>15. 2 * a < total
  <2> SUFFICES ASSUME 2 * a >= total PROVE FALSE BY <1>2
  <2>1. m - 1 # 0 BY <1>1, <1>2, <1>7, <1>12
  <2>2. m - 1 \in H BY <1>4, <1>11, <1>12, <2>1
  <2> QED BY <1>9, <1>11, <2>2
<1>16. PICK k \in Nat : k = (w * total + 1) \div 2 /\ w * a < k /\ k <= w * b
  <2>1. PICK x \in Nat : x = w * total BY <1>2
  <2>2. PICK y \in Nat : y = w * a OBVIOUS
  <2>3. PICK z \in Nat : z = w * b OBVIOUS
  <2>4. x <= 2 * z
    <3>1. w * total <= w * (2 * b) BY <1>2, <1>14, ScaledUp
    <3>2. w * (2 * b) = 2 * (w * b) OBVIOUS
    <3> QED BY <2>1, <2>3, <3>1, <3>2
  <2>5. 2 * y < x
    <3>1. w * (2 * a + 1) <= w * total BY <1>2, <1>15, ScaledUp
    <3>2. w * (2 * a + 1) = 2 * (w * a) + w OBVIOUS
    <3> QED BY <1>3, <2>1, <2>2, <3>1, <3>2
  <2>6. (x + 1) \div 2 \in Nat /\ y < (x + 1) \div 2 /\ (x + 1) \div 2 <= z BY <2>4, <2>5
  <2> QED BY <2>1, <2>2, <2>3, <2>6
<1>17. Nth(o, isBuy, k) = s[m].price BY <1>3, <1>11, <1>12, <1>13, <1>16, SliceLies
<1> QED BY <1>3, <1>5, <1>10, <1>16, <1>17

\* What it takes of each order.
Takes(s, total, n) == [m \in 1 .. n |-> Taken(s, total, m)]

LEMMA TakesAre ==
    ASSUME NEW o, NEW isBuy, NEW n, NEW s, NEW total, LaidOut(o, isBuy, n, s, total),
           NEW take, take = Takes(s, total, n)
    PROVE  \A m \in 1 .. n :
             /\ take[m] = Cut(s, total, m) - Cut(s, total, m - 1) /\ take[m] \in Nat
             /\ Window * Cum(s, m) <= total => take[m] >= s[m].volume
             /\ total <= Window * Cum(s, m - 1) => take[m] = 0
<1>1. n \in Nat /\ s \in [1 .. n -> Order] /\ total = Cum(s, n) BY DEF LaidOut
<1> SUFFICES ASSUME NEW m \in 1 .. n
             PROVE  /\ take[m] = Cut(s, total, m) - Cut(s, total, m - 1) /\ take[m] \in Nat
                    /\ Window * Cum(s, m) <= total => take[m] >= s[m].volume
                    /\ total <= Window * Cum(s, m - 1) => take[m] = 0
  OBVIOUS
<1>2. PICK t : t = Taken(s, total, m) OBVIOUS
<1>3. take[m] = t BY <1>2 DEF Takes
<1>4. /\ t = Cut(s, total, m) - Cut(s, total, m - 1) /\ t \in Nat
      /\ Window * Cum(s, m) <= total => t >= s[m].volume
      /\ total <= Window * Cum(s, m - 1) => t = 0
  BY <1>1, <1>2, TakeIs
<1> QED BY <1>3, <1>4

\* The last of the best slices lies in one order; orders ahead of it count for no less
\* than their volume, orders behind it for nothing.
LEMMA TakesLean ==
    ASSUME NEW o, NEW isBuy, NEW n, NEW s, NEW total, LaidOut(o, isBuy, n, s, total),
           NEW take, take = Takes(s, total, n)
    PROVE  \E q \in Nat : \A m \in 1 .. n :
             \/ ~Better(isBuy, q, s[m].price) /\ take[m] >= s[m].volume
             \/ ~Better(isBuy, s[m].price, q) /\ take[m] <= s[m].volume
<1>1. n \in Nat /\ s \in [1 .. n -> Order] /\ total = Cum(s, n) /\ total > 0 BY DEF LaidOut
<1>2. /\ total \in Nat
      /\ \A m \in 1 .. n : s[m].price \in Nat /\ s[m].volume \in Nat
      /\ \A x, y \in 1 .. n : x < y => ~Better(isBuy, s[y].price, s[x].price)
  BY LaidOutIs
<1>3. PICK W : W = [m \in 0 .. n |-> Window * Cum(s, m)] OBVIOUS
<1>4. (\A m \in 0 .. n : W[m] \in Nat) /\ total <= W[n]
  <2>1. n \in 0 .. n BY <1>1
  <2> QED BY <1>1, <1>3, <2>1, ScaledCum
<1>5. W[0] = 0
  <2>1. 0 \in 0 .. n /\ Window * 0 = 0 BY <1>1, NumbersAssumption
  <2> QED BY <1>1, <1>3, <2>1, CumIs
<1>6. \A x, y \in 0 .. n : x <= y => W[x] <= W[y]
  <2> SUFFICES ASSUME NEW x \in 0 .. n, NEW y \in 0 .. n, x <= y PROVE W[x] <= W[y] OBVIOUS
  <2>1. PICK a \in Nat : a = Cum(s, x) BY <1>1, CumIs
  <2>2. PICK b \in Nat : b = Cum(s, y) BY <1>1, CumIs
  <2>3. a <= b BY <1>1, <2>1, <2>2, CumIs
  <2>4. Window * a <= Window * b BY <2>3, ScaledUp, NumbersAssumption
  <2> QED BY <1>3, <2>1, <2>2, <2>4
<1>7. PICK H : H = {m \in 1 .. n : total <= W[m]} OBVIOUS
<1>8. n \in H
  <2>1. n # 0 BY <1>1, <1>2, <1>4, <1>5
  <2> QED BY <1>1, <1>4, <1>7, <2>1
<1>9. PICK e \in H : \A m \in H : e <= m
  <2>1. H \in SUBSET Nat BY <1>7
  <2> QED BY <1>8, <2>1, LeastNumber
<1>10. e \in 1 .. n /\ total <= W[e] BY <1>7, <1>9
<1>11. PICK q \in Nat : q = s[e].price BY <1>2, <1>10
<1>12. ASSUME NEW m \in 1 .. n
       PROVE  \/ ~Better(isBuy, q, s[m].price) /\ take[m] >= s[m].volume
              \/ ~Better(isBuy, s[m].price, q) /\ take[m] <= s[m].volume
  <2>1. m \in 0 .. n /\ m - 1 \in 0 .. n BY <1>1
  <2>2. /\ take[m] \in Nat /\ (W[m] <= total => take[m] >= s[m].volume)
        /\ (total <= W[m - 1] => take[m] = 0)
    BY <1>3, <2>1, TakesAre
  <2>3. CASE m < e
    <3>1. m \notin H BY <1>9, <1>10, <2>3
    <3>2. W[m] <= total BY <1>2, <1>4, <1>7, <2>1, <3>1
    <3> QED BY <1>2, <1>10, <1>11, <2>2, <2>3, <3>2
  <2>4. CASE m = e
    <3>1. ~Better(isBuy, q, s[m].price) /\ ~Better(isBuy, s[m].price, q)
      BY <1>11, <2>4 DEF Better
    <3>2. take[m] >= s[m].volume \/ take[m] <= s[m].volume BY <1>2, <2>2
    <3> QED BY <3>1, <3>2
  <2>5. CASE m > e
    <3>1. e \in 0 .. n /\ e <= m - 1 BY <1>1, <1>10, <2>5
    <3>2. W[e] <= W[m - 1] BY <1>6, <2>1, <3>1
    <3>3. total <= W[m - 1] BY <1>2, <1>4, <1>10, <2>1, <3>1, <3>2
    <3>4. take[m] <= s[m].volume BY <1>2, <2>2, <3>3
    <3> QED BY <1>2, <1>10, <1>11, <2>5, <3>4
  <2> QED BY <1>10, <2>3, <2>4, <2>5
<1> QED BY <1>12

\* So the percentile is no worse than the mean over the whole volume.
LEMMA TopBeatsMean ==
    ASSUME NEW o, NEW isBuy, NEW n, NEW s, NEW total, LaidOut(o, isBuy, n, s, total),
           NEW take, take = Takes(s, total, n),
           NEW worth, \A m \in 1 .. n : worth[m] = s[m].price * take[m],
           NEW flat, \A m \in 1 .. n : flat[m] = s[m].price * s[m].volume
    PROVE  IF isBuy THEN SumFunctionOnSet(flat, 1 .. n) <= SumFunctionOnSet(worth, 1 .. n)
                    ELSE SumFunctionOnSet(worth, 1 .. n) <= SumFunctionOnSet(flat, 1 .. n)
<1>1. n \in Nat /\ s \in [1 .. n -> Order] /\ total = Cum(s, n) BY DEF LaidOut
<1>2. PICK S : S = 1 .. n /\ IsFiniteSet(S) BY <1>1, FS_Interval
<1>3. PICK p : p = [m \in S |-> s[m].price] OBVIOUS
<1>4. PICK v : v = [m \in S |-> s[m].volume] OBVIOUS
<1>5. PICK q \in Nat : \A m \in S : \/ ~Better(isBuy, q, p[m]) /\ take[m] >= v[m]
                                    \/ ~Better(isBuy, p[m], q) /\ take[m] <= v[m]
  <2>1. PICK r \in Nat : \A m \in 1 .. n :
                            \/ ~Better(isBuy, r, s[m].price) /\ take[m] >= s[m].volume
                            \/ ~Better(isBuy, s[m].price, r) /\ take[m] <= s[m].volume
    BY TakesLean
  <2>2. ASSUME NEW m \in S
        PROVE  \/ ~Better(isBuy, r, p[m]) /\ take[m] >= v[m]
               \/ ~Better(isBuy, p[m], r) /\ take[m] <= v[m]
    <3>1. m \in 1 .. n /\ p[m] = s[m].price /\ v[m] = s[m].volume BY <1>2, <1>3, <1>4
    <3> QED BY <2>1, <3>1
  <2> WITNESS r \in Nat
  <2> QED BY <2>2
<1>6. \A m \in S : p[m] \in Nat /\ take[m] \in Nat /\ v[m] \in Nat
  <2>1. \A m \in S : take[m] \in Nat BY <1>2, TakesAre
  <2> QED BY <1>2, <1>3, <1>4, <2>1, LaidOutIs
<1>7. SumFunctionOnSet(take, S) = total
  <2>1. PICK f : f = [k \in 1 .. total |-> Nth(o, isBuy, k)] OBVIOUS
  <2>2. \A m \in 1 .. n : take[m] = Cut(s, total, m) - Cut(s, total, m - 1) BY TakesAre
  <2>3. \A k \in 1 .. total : f[k] = Nth(o, isBuy, k) BY <2>1
  <2>4. SumFunctionOnSet(take, 1 .. n) = total BY <2>2, <2>3, SlicesAddUp
  <2> QED BY <1>2, <2>4
<1>8. SumFunctionOnSet(v, S) = total
  <2>1. DOMAIN s = S BY <1>1, <1>2
  <2>2. Volume(s, S) = SumFunctionOnSet(v, S) BY <1>4, <2>1 DEF Volume
  <2> QED BY <1>1, <1>2, <2>2 DEF Cum
<1>9. \A m \in S : worth[m] = p[m] * take[m] /\ flat[m] = p[m] * v[m] BY <1>2, <1>3, <1>4
<1>10. CASE isBuy
  <2>1. \A m \in S : (p[m] >= q /\ take[m] >= v[m]) \/ (p[m] <= q /\ take[m] <= v[m])
    BY <1>5, <1>6, <1>10 DEF Better
  <2>2. SumFunctionOnSet(flat, S) <= SumFunctionOnSet(worth, S)
    <3>1. Leans(take, v, p, q, S) BY <1>2, <1>5, <1>6, <1>7, <1>8, <2>1 DEF Leans
    <3> QED BY <1>9, <3>1, SumOnLeaning
  <2> QED BY <1>2, <1>10, <2>2
<1>11. CASE ~isBuy
  <2>1. \A m \in S : (p[m] >= q /\ v[m] >= take[m]) \/ (p[m] <= q /\ v[m] <= take[m])
    BY <1>5, <1>6, <1>11 DEF Better
  <2>2. SumFunctionOnSet(worth, S) <= SumFunctionOnSet(flat, S)
    <3>1. Leans(v, take, p, q, S) BY <1>2, <1>5, <1>6, <1>7, <1>8, <2>1 DEF Leans
    <3> QED BY <1>9, <3>1, SumOnLeaning
  <2> QED BY <1>2, <1>11, <2>2
<1> QED BY <1>10, <1>11

\* And no better than the best price.
LEMMA BestBeatsTop ==
    ASSUME NEW o, NEW isBuy, NEW n, NEW s, NEW total, LaidOut(o, isBuy, n, s, total),
           NEW take, take = Takes(s, total, n),
           NEW worth, \A m \in 1 .. n : worth[m] = s[m].price * take[m],
           NEW bestPrice \in Nat, \A m \in 1 .. n : ~Better(isBuy, s[m].price, bestPrice)
    PROVE  IF isBuy THEN SumFunctionOnSet(worth, 1 .. n) <= bestPrice * total
                    ELSE bestPrice * total <= SumFunctionOnSet(worth, 1 .. n)
<1>1. n \in Nat BY DEF LaidOut
<1>2. PICK S : S = 1 .. n /\ IsFiniteSet(S) BY <1>1, FS_Interval
<1>3. PICK full : full = [m \in S |-> bestPrice * take[m]] OBVIOUS
<1>4. \A m \in S : s[m].price \in Nat /\ take[m] \in Nat
  <2>1. \A m \in S : take[m] \in Nat BY <1>2, TakesAre
  <2> QED BY <1>2, <2>1, LaidOutIs
<1>5. SumFunctionOnSet(take, S) = total
  <2>1. PICK f : f = [k \in 1 .. total |-> Nth(o, isBuy, k)] OBVIOUS
  <2>2. \A m \in 1 .. n : take[m] = Cut(s, total, m) - Cut(s, total, m - 1) BY TakesAre
  <2>3. \A k \in 1 .. total : f[k] = Nth(o, isBuy, k) BY <2>1
  <2>4. SumFunctionOnSet(take, 1 .. n) = total BY <2>2, <2>3, SlicesAddUp
  <2> QED BY <1>2, <2>4
<1>6. SumFunctionOnSet(full, S) = bestPrice * total
  <2>1. PICK c \in Int : c = bestPrice OBVIOUS
  <2>2. \A m \in S : take[m] \in Int /\ full[m] = c * take[m] BY <1>3, <1>4, <2>1
  <2>3. SumFunctionOnSet(full, S) = c * SumFunctionOnSet(take, S) BY <1>2, <2>2, SumOnTimes
  <2> QED BY <1>5, <2>1, <2>3
<1>7. ASSUME NEW m \in S
      PROVE  /\ worth[m] \in Int /\ full[m] \in Int
             /\ IF isBuy THEN worth[m] <= full[m] ELSE full[m] <= worth[m]
  <2>1. PICK p \in Nat : p = s[m].price BY <1>4
  <2>2. PICK t \in Nat : t = take[m] BY <1>4
  <2>3. worth[m] = t * p /\ full[m] = t * bestPrice BY <1>2, <1>3, <2>1, <2>2
  <2>4. CASE isBuy
    <3>1. p <= bestPrice BY <1>2, <2>1, <2>4 DEF Better
    <3>2. t * p <= t * bestPrice BY <3>1, ScaledUp
    <3> QED BY <2>3, <2>4, <3>2
  <2>5. CASE ~isBuy
    <3>1. bestPrice <= p BY <1>2, <2>1, <2>5 DEF Better
    <3>2. t * bestPrice <= t * p BY <3>1, ScaledUp
    <3> QED BY <2>3, <2>5, <3>2
  <2> QED BY <2>3, <2>4, <2>5
<1>8. CASE isBuy
  <2>1. SumFunctionOnSet(worth, S) <= SumFunctionOnSet(full, S) BY <1>2, <1>7, <1>8, SumOnAtMost
  <2> QED BY <1>2, <1>6, <1>8, <2>1
<1>9. CASE ~isBuy
  <2>1. SumFunctionOnSet(full, S) <= SumFunctionOnSet(worth, S) BY <1>2, <1>7, <1>9, SumOnAtMost
  <2> QED BY <1>2, <1>6, <1>9, <2>1
<1> QED BY <1>8, <1>9

\* The best price of a book.
LEMMA BestIs ==
    ASSUME NEW o, NEW isBuy, NEW n, NEW s, NEW total, LaidOut(o, isBuy, n, s, total), n > 0,
           NEW bestPrice, bestPrice = IF isBuy THEN Max(Prices(s)) ELSE Min(Prices(s))
    PROVE  bestPrice \in Nat /\ \A m \in 1 .. n : ~Better(isBuy, s[m].price, bestPrice)
<1>1. n \in Nat /\ s \in [1 .. n -> Order] /\ isBuy \in BOOLEAN BY DEF LaidOut
<1>2. /\ \A m \in 1 .. n : s[m].price \in Nat /\ s[m].volume \in Nat
      /\ \A x, y \in 1 .. n : x < y => ~Better(isBuy, s[y].price, s[x].price)
  BY LaidOutIs
<1>3. PICK P : P = Prices(s) OBVIOUS
<1>4. PICK first \in Nat : first = s[1].price BY <1>1, <1>2
<1>5. P = {s[m].price : m \in 1 .. n} BY <1>1, <1>3 DEF Prices
<1>6. first \in P /\ \A p \in P : p \in Nat BY <1>1, <1>2, <1>4, <1>5
<1>7. \A p \in P : ~Better(isBuy, p, first)
  <2> SUFFICES ASSUME NEW p \in P PROVE ~Better(isBuy, p, first) OBVIOUS
  <2>1. PICK m \in 1 .. n : p = s[m].price BY <1>5
  <2>2. CASE m = 1 BY <1>2, <1>4, <2>1, <2>2 DEF Better
  <2>3. CASE m # 1
    <3>1. 1 \in 1 .. n /\ 1 < m BY <1>1, <2>3
    <3> QED BY <1>2, <1>4, <2>1, <3>1
  <2> QED BY <2>2, <2>3
<1>8. bestPrice = first
  <2>1. CASE isBuy
    <3>1. \A p \in P : p <= first BY <1>6, <1>7, <2>1 DEF Better
    <3>2. \A p \in P : (\A y \in P : p >= y) => p = first BY <1>6, <3>1
    <3>3. \A y \in P : first >= y BY <1>6, <3>1
    <3>4. Max(P) = first BY <1>6, <3>2, <3>3 DEF Max
    <3> QED BY <1>3, <2>1, <3>4
  <2>2. CASE ~isBuy
    <3>1. \A p \in P : first <= p BY <1>6, <1>7, <2>2 DEF Better
    <3>2. \A p \in P : (\A y \in P : p <= y) => p = first BY <1>6, <3>1
    <3>3. Min(P) = first BY <1>6, <3>1, <3>2 DEF Min
    <3> QED BY <1>3, <2>2, <3>3
  <2> QED BY <2>1, <2>2
<1>9. \A m \in 1 .. n : s[m].price \in P BY <1>5
<1> QED BY <1>7, <1>8, <1>9

\* The figures of a side with volume, field by field.
LEMMA SideIs ==
    ASSUME NEW o \in Seq(Order), NEW isBuy \in BOOLEAN, Volume(o, DOMAIN o) > 0,
           NEW side, side = AggregateSide(o, isBuy)
    PROVE  \E n, s, total :
             /\ n > 0 /\ total = Volume(o, DOMAIN o) /\ LaidOut(o, isBuy, n, s, total)
             /\ side.percentile
                  = <<SumFunctionOnSet([m \in 1 .. n |-> s[m].price * Takes(s, total, n)[m]], 1 .. n), total>>
             /\ side.median = <<VolumeMark(s, total), 1>>
             /\ side.weighted_average
                  = <<SumFunctionOnSet([m \in 1 .. n |-> s[m].price * s[m].volume], 1 .. n), total>>
             /\ side.max = <<Max(Prices(s)), 1>> /\ side.min = <<Min(Prices(s)), 1>>
<1>1. PICK n \in Nat : n = Len(o) OBVIOUS
<1>2. DOMAIN o = 1 .. n /\ o \in [1 .. n -> Order] BY <1>1
<1>3. PICK perm : /\ Sorts(perm, o, isBuy, n)
                  /\ BestFirst(o, isBuy) = [m \in 1 .. n |-> o[perm[m]]]
  BY <1>1, BestFirstIs
<1>4. PICK s : s = [m \in 1 .. n |-> o[perm[m]]] OBVIOUS
<1>5. perm \in [1 .. n -> 1 .. n] BY <1>3 DEF Sorts
<1>6. s \in [1 .. n -> Order] /\ DOMAIN s = 1 .. n BY <1>2, <1>4, <1>5
<1>7. PICK total : total = Volume(o, DOMAIN o) OBVIOUS
<1>8. total = Cum(s, n) /\ Volume(s, DOMAIN s) = total
  <2>1. PICK I : I = 1 .. n OBVIOUS
  <2>2. \A m \in 1 .. n : m \in I <=> perm[m] \in I BY <1>5, <2>1
  <2>3. I \in SUBSET (1 .. n) BY <2>1
  <2>4. Volume(o, I) = Volume(s, I) BY <1>3, <1>4, <2>2, <2>3, SortedVolume
  <2> QED BY <1>2, <1>6, <1>7, <2>1, <2>4 DEF Cum
<1>9. n # 0
  <2>1. Cum(s, 0) = 0 BY <1>6, CumIs
  <2> QED BY <1>7, <1>8, <2>1
<1>10. LaidOut(o, isBuy, n, s, total) BY <1>1, <1>3, <1>4, <1>6, <1>7, <1>8 DEF LaidOut
<1>11. o # <<>> /\ total # 0 BY <1>1, <1>7, <1>9
<1>12. side = [order_count |-> Len(o), volume |-> total,
               max |-> <<Max(Prices(s)), 1>>, min |-> <<Min(Prices(s)), 1>>,
               weighted_average |-> <<SumFunction([i \in DOMAIN s |-> s[i].price * s[i].volume]), total>>,
               median |-> <<VolumeMark(s, total), 1>>,
               percentile |-> VolumeWeightedTop(s, total)]
  BY <1>3, <1>4, <1>8, <1>11 DEF AggregateSide
<1>13. VolumeWeightedTop(s, total)
         = <<SumFunctionOnSet([m \in 1 .. n |-> s[m].price * Takes(s, total, n)[m]], 1 .. n), total>>
  <2>1. VolumeWeightedTop(s, total)
          = <<SumFunction([m \in 1 .. n |-> s[m].price * Taken(s, total, m)]), total>>
    BY <1>6 DEF VolumeWeightedTop, Taken
  <2>2. [m \in 1 .. n |-> s[m].price * Taken(s, total, m)]
          = [m \in 1 .. n |-> s[m].price * Takes(s, total, n)[m]]
    BY DEF Takes
  <2>3. PICK f : f = [m \in 1 .. n |-> s[m].price * Takes(s, total, n)[m]] OBVIOUS
  <2>4. SumFunction(f) = SumFunctionOnSet(f, 1 .. n) BY <2>3 DEF SumFunction
  <2> QED BY <2>1, <2>2, <2>3, <2>4
<1>14. SumFunction([i \in DOMAIN s |-> s[i].price * s[i].volume])
         = SumFunctionOnSet([m \in 1 .. n |-> s[m].price * s[m].volume], 1 .. n)
  <2>1. PICK f : f = [m \in 1 .. n |-> s[m].price * s[m].volume] OBVIOUS
  <2>2. SumFunction(f) = SumFunctionOnSet(f, 1 .. n) BY <2>1 DEF SumFunction
  <2> QED BY <1>6, <2>1, <2>2
<1>15. /\ side.percentile = VolumeWeightedTop(s, total)
       /\ side.median = <<VolumeMark(s, total), 1>>
       /\ side.weighted_average = <<SumFunction([i \in DOMAIN s |-> s[i].price * s[i].volume]), total>>
       /\ side.max = <<Max(Prices(s)), 1>> /\ side.min = <<Min(Prices(s)), 1>>
  BY <1>12
<1>16. n > 0 BY <1>1, <1>9
<1> WITNESS n, s, total
<1> QED BY <1>7, <1>10, <1>13, <1>14, <1>15, <1>16

LEMMA SideIsTrue ==
    ASSUME NEW o \in Seq(Order), NEW isBuy \in BOOLEAN
    PROVE  FiguresTrue(o, AggregateSide(o, isBuy), isBuy)
<1>1. PICK side : side = AggregateSide(o, isBuy) OBVIOUS
<1>2. CASE ~(Volume(o, DOMAIN o) > 0) BY <1>2 DEF FiguresTrue
<1>3. CASE Volume(o, DOMAIN o) > 0
  <2>1. PICK n, s, total :
             /\ n > 0 /\ total = Volume(o, DOMAIN o) /\ LaidOut(o, isBuy, n, s, total)
             /\ side.percentile
                  = <<SumFunctionOnSet([m \in 1 .. n |-> s[m].price * Takes(s, total, n)[m]], 1 .. n), total>>
             /\ side.median = <<VolumeMark(s, total), 1>>
             /\ side.weighted_average
                  = <<SumFunctionOnSet([m \in 1 .. n |-> s[m].price * s[m].volume], 1 .. n), total>>
             /\ side.max = <<Max(Prices(s)), 1>> /\ side.min = <<Min(Prices(s)), 1>>
    BY <1>1, <1>3, SideIs
  <2>2. n \in Nat /\ total \in Nat BY <2>1, LaidOutIs
  <2>3. PICK take : take = Takes(s, total, n) OBVIOUS
  <2>4. PICK worth : worth = [m \in 1 .. n |-> s[m].price * take[m]] OBVIOUS
  <2>5. PICK flat : flat = [m \in 1 .. n |-> s[m].price * s[m].volume] OBVIOUS
  <2>6. PICK f : f = [k \in 1 .. total |-> Nth(o, isBuy, k)] OBVIOUS
  <2>7. /\ \A m \in 1 .. n : s[m].price \in Nat /\ s[m].volume \in Nat
        /\ \A m \in 1 .. n : take[m] \in Nat /\ take[m] = Cut(s, total, m) - Cut(s, total, m - 1)
    BY <2>1, <2>3, LaidOutIs, TakesAre
  <2>8. IsFiniteSet(1 .. n) BY <2>2, FS_Interval
  <2>9. PICK a \in Nat : a = SumFunctionOnSet(worth, 1 .. n)
    <3>1. \A m \in 1 .. n : worth[m] \in Nat BY <2>4, <2>7
    <3> QED BY <2>8, <3>1, SumOnNat
  <2>10. PICK b \in Nat : b = SumFunctionOnSet(flat, 1 .. n)
    <3>1. \A m \in 1 .. n : flat[m] \in Nat BY <2>5, <2>7
    <3> QED BY <2>8, <3>1, SumOnNat
  <2>11. a = SumFunction(f)
    <3>1. /\ \A m \in 1 .. n : worth[m] = s[m].price * take[m]
          /\ \A m \in 1 .. n : take[m] = Cut(s, total, m) - Cut(s, total, m - 1)
          /\ \A k \in 1 .. total : f[k] = Nth(o, isBuy, k)
      BY <2>4, <2>6, <2>7
    <3>2. LaidOut(o, isBuy, n, s, total) BY <2>1
    <3>3. SumFunctionOnSet(worth, 1 .. n) = SumFunctionOnSet(f, 1 .. total) BY <3>1, <3>2, SlicesAddUp
    <3>4. SumFunction(f) = SumFunctionOnSet(f, 1 .. total) BY <2>6 DEF SumFunction
    <3> QED BY <2>9, <3>3, <3>4
  <2>12. IF isBuy THEN b <= a ELSE a <= b
    <3>1. /\ \A m \in 1 .. n : worth[m] = s[m].price * take[m]
          /\ \A m \in 1 .. n : flat[m] = s[m].price * s[m].volume
      BY <2>4, <2>5
    <3> QED BY <2>1, <2>3, <2>9, <2>10, <3>1, TopBeatsMean
  <2>13. PICK bestPrice : bestPrice = IF isBuy THEN Max(Prices(s)) ELSE Min(Prices(s)) OBVIOUS
  <2>14. bestPrice \in Nat /\ \A m \in 1 .. n : ~Better(isBuy, s[m].price, bestPrice) BY <2>1, <2>13, BestIs
  <2>15. IF isBuy THEN a <= bestPrice * total ELSE bestPrice * total <= a
    <3>1. \A m \in 1 .. n : worth[m] = s[m].price * take[m] BY <2>4
    <3> QED BY <2>1, <2>3, <2>9, <2>14, <3>1, BestBeatsTop
  <2>16. /\ side.percentile = <<a, total>> /\ side.weighted_average = <<b, total>>
         /\ (IF isBuy THEN side.max ELSE side.min) = <<bestPrice, 1>>
    BY <2>1, <2>3, <2>4, <2>5, <2>9, <2>10, <2>13
  <2>17. side.median = <<Nth(o, isBuy, (Window * total + 1) \div 2), 1>> BY <2>1, MarkIsMiddle
  <2>18. side.percentile[1] * total = side.percentile[2] * SumFunction(f)
    BY <2>2, <2>11, <2>16
  <2>19. IF isBuy THEN b * total <= a * total ELSE a * total <= b * total
    <3>1. total * b = b * total /\ total * a = a * total BY <2>2
    <3>2. CASE isBuy
      <4>1. total * b <= total * a BY <2>2, <2>12, <3>2, ScaledUp
      <4> QED BY <3>1, <3>2, <4>1
    <3>3. CASE ~isBuy
      <4>1. total * a <= total * b BY <2>2, <2>12, <3>3, ScaledUp
      <4> QED BY <3>1, <3>3, <4>1
    <3> QED BY <3>2, <3>3
  <2>20. a * 1 = a OBVIOUS
  <2> QED BY <1>1, <2>1, <2>6, <2>15, <2>16, <2>17, <2>18, <2>19, <2>20 DEF FiguresTrue
<1> QED BY <1>2, <1>3

-----------------------------------------------------------------------------

\* The market stands still, and what it is quoted at is what its books come to.
Quoted ==
    /\ books \in Books
    /\ prices = [h \in Hubs |-> [t \in Types |-> AggregateOrders(books[h][t])]]

LEMMA QuotedFiguresTrue == Quoted => BookFiguresTrue
<1> SUFFICES ASSUME Quoted, NEW h \in Hubs, NEW t \in Types
             PROVE  /\ FiguresTrue(books[h][t].buy, prices[h][t].buy, TRUE)
                    /\ FiguresTrue(books[h][t].sell, prices[h][t].sell, FALSE)
  BY DEF BookFiguresTrue
<1>1. PICK book : book = books[h][t] OBVIOUS
<1>2. book.buy \in Seq(Order) /\ book.sell \in Seq(Order)
  <2>1. books \in [Hubs -> [Types -> [buy : Seq(Order), sell : Seq(Order)]]]
    BY BooksAssumption DEF Quoted
  <2> QED BY <1>1, <2>1
<1>3. prices[h][t] = AggregateOrders(book) BY <1>1 DEF Quoted
<1>4. /\ prices[h][t].buy = AggregateSide(book.buy, TRUE)
      /\ prices[h][t].sell = AggregateSide(book.sell, FALSE)
  BY <1>3 DEF AggregateOrders
<1> QED BY <1>1, <1>2, <1>4, SideIsTrue

LEMMA MarketStands == [AppraisalNext]_appraisalVars => UNCHANGED <<books, prices>>
<1> SUFFICES ASSUME [AppraisalNext]_appraisalVars PROVE UNCHANGED <<books, prices>> OBVIOUS
<1>1. ASSUME NEW m \in Managers, Manage(m) PROVE UNCHANGED <<books, prices>>
  <2>1. ASSUME NEW op, NEW k, NEW want, Begin(m, op, k, want) PROVE UNCHANGED <<books, prices>>
    BY <2>1 DEF Begin, market
  <2>2. CASE Finish(m) BY <2>2 DEF Finish, market
  <2> QED BY <1>1, <2>1, <2>2 DEF Manage, SetRule, DeleteRule, UpdateConfig, SetDivision
<1>2. CASE EditPlaces BY <1>2 DEF EditPlaces, market
<1>3. CASE TokenLost BY <1>3 DEF TokenLost
<1>4. ASSUME NEW u \in Members, Request(u) PROVE UNCHANGED <<books, prices>>
  BY <1>4 DEF Request, Ask, Reload, CreateConfig, ReadRules, Price, market
<1>5. CASE UNCHANGED appraisalVars BY <1>5 DEF appraisalVars, market
<1> QED BY <1>1, <1>2, <1>3, <1>4, <1>5 DEF AppraisalNext

\* What an order book is quoted at: the percentile is the mean price of the best slices
\* and the median that of the middle one, and the percentile lies between the
\* volume-weighted average and the best price.
THEOREM BookFiguresAreTrue == AppraisalSpec => []BookFiguresTrue
<1>1. AppraisalInit => Quoted BY DEF AppraisalInit, Quoted
<1>2. Quoted /\ [AppraisalNext]_appraisalVars => Quoted' BY MarketStands DEF Quoted
<1>3. Quoted => BookFiguresTrue BY QuotedFiguresTrue
<1> QED BY <1>1, <1>2, <1>3, PTL DEF AppraisalSpec
=============================================================================
