--------------------------- MODULE ContractLinks ---------------------------
(***************************************************************************)
(* The contract watcher of one corporation.  A pass lists the contracts    *)
(* page by page while EVE moves on, looks at those that cite an appraisal  *)
(* one at a time, keeping the best per appraisal, and commits the links,   *)
(* the lots of completed appraisals and the sales of finished outgoing     *)
(* contracts together.  A pass that fails leaves nothing behind.           *)
(*                                                                         *)
(* Titles, prices and items of a contract, and an appraisal's lines, never *)
(* change.  EVE's statuses are kept up to what the code tells apart:       *)
(* finished stands for its three variants, rejected for the three voids,   *)
(* deleted for reversed, overdue for outstanding past date_expired.        *)
(***************************************************************************)
EXTENDS Naturals, FiniteSets

CONSTANTS
    Appraisals,
    Contracts,     \* item-exchange contracts EVE will ever know
    Cites,         \* the appraisal whose id is in a contract's title, or Nil
    IssuedAt,      \* date_issued
    Terms,         \* price, start location and included items of a contract
    Facts,         \* accepted total, delivery location and lines of an appraisal
    Outgoing,      \* contracts the corporation issued on its own behalf
    PageSize,      \* contracts on a page of ESI
    Nil,
    MaxFailures    \* bound: passes that fail

ASSUME ContractsAssumption ==
    /\ IsFiniteSet(Contracts) /\ Nil \notin Contracts \cup Appraisals
    /\ Nil \notin [contract : Contracts, standing :
                     {"in_progress", "completed", "mismatch", "rejected", "expired"}]
ASSUME CitesAssumption == Cites \in [Contracts -> Appraisals \cup {Nil}]
ASSUME IssuedAssumption == IssuedAt \in [Contracts -> Nat]
ASSUME PagesAssumption == PageSize \in Nat \ {0} /\ MaxFailures \in Nat

Statuses == {"unissued", "outstanding", "overdue", "finished", "rejected",
             "deleted", "delisted"}

VARIABLES
    eve,        \* status of every contract at EVE
    entitled,   \* the corporation's accounting entitlement
    pc, page,   \* where the pass is
    shot,       \* contracts as listed, with the page they were on
    todo,       \* listed contracts still to be observed
    best,       \* resolve_best_links: best link so far, per appraisal
    seen,       \* history: what this pass has observed
    links,      \* appraisal_contracts
    bought,     \* per appraisal: the contract its lots came from, or Nil
    sold,       \* per contract: how often it was recorded as a sale
    failures

world == <<eve, entitled>>
pass == <<pc, page, shot, todo, best, seen>>
tables == <<links, bought, sold>>
vars == <<world, pass, tables, failures>>

NoLinks == [a \in Appraisals |-> Nil]

Init ==
    /\ eve = [c \in Contracts |-> "unissued"] /\ entitled \in BOOLEAN
    /\ pc = "idle" /\ page = 1 /\ shot = {} /\ todo = {} /\ best = NoLinks /\ seen = {}
    /\ links = NoLinks /\ bought = NoLinks /\ sold = [c \in Contracts |-> 0]
    /\ failures = 0

-----------------------------------------------------------------------------
(* The rules of domain/contracts.py *)

Lifecycle_Raw(status) ==                  \* mutant: EVE's own word for what it keeps
    CASE status = "finished" -> "completed"
      [] status = "outstanding" -> "in_progress"
      [] status \in {"deleted", "delisted", "unissued"} -> Nil
      [] OTHER -> status
Lifecycle(status) ==
    CASE status = "finished" -> "completed"
      [] status = "rejected" -> "rejected"
      [] status = "outstanding" -> "in_progress"
      [] status = "overdue" -> "expired"
      [] OTHER -> Nil

Validatable == {"in_progress", "completed"}

Matches(c) ==
    LET a == Cites[c] IN
    /\ Terms[c].price <= Facts[a].total + 1 /\ Facts[a].total <= Terms[c].price + 1
    /\ Terms[c].place # Nil /\ Facts[a].place # Nil /\ Terms[c].place = Facts[a].place
    /\ Terms[c].items = Facts[a].items

Judged_LiveOnly(o) ==                     \* mutant: an accepted contract is not compared
    [contract |-> o.contract,
     standing |-> IF Lifecycle(o.status) = "in_progress" /\ ~Matches(o.contract)
                    THEN "mismatch" ELSE Lifecycle(o.status)]
Judged(o) ==
    [contract |-> o.contract,
     standing |-> IF Lifecycle(o.status) \in Validatable /\ ~Matches(o.contract)
                    THEN "mismatch" ELSE Lifecycle(o.status)]

Priority(standing) == CASE standing = "in_progress" -> 0
                        [] standing = "completed"   -> 1
                        [] standing = "mismatch"    -> 2
                        [] OTHER                    -> 3

IsBetter_Newest(x, y) == IssuedAt[x.contract] > IssuedAt[y.contract]  \* mutant: by age alone
IsBetter_MismatchFirst(x, y) ==                  \* mutant: a mismatch outranks what is over
    LET p(s) == IF s = "completed" THEN 2 ELSE IF s = "mismatch" THEN 1 ELSE Priority(s)
    IN  \/ p(x.standing) < p(y.standing)
        \/ p(x.standing) = p(y.standing) /\ IssuedAt[x.contract] > IssuedAt[y.contract]
IsBetter(x, y) ==
    \/ Priority(x.standing) < Priority(y.standing)
    \/ Priority(x.standing) = Priority(y.standing) /\ IssuedAt[x.contract] > IssuedAt[y.contract]

IsOutgoingSale(o) ==
    o.contract \in Outgoing /\ o.status = "finished" /\ Terms[o.contract].price > 0

-----------------------------------------------------------------------------
(* EVE: contracts are issued in the order of their dates, newest listed first *)

Turn(c, from, to) == eve[c] \in from /\ eve' = [eve EXCEPT ![c] = to]

Issue(c) == /\ \A d \in Contracts : eve[d] # "unissued" => IssuedAt[d] <= IssuedAt[c]
            /\ Turn(c, {"unissued"}, "outstanding")
Accept(c) == Turn(c, {"outstanding"}, "finished")
Void(c) == Turn(c, {"outstanding", "overdue"}, "rejected")
RunOut(c) == Turn(c, {"outstanding"}, "overdue")
Remove(c) == Turn(c, {"outstanding", "overdue", "finished"}, "deleted")
Delist(c) == Turn(c, {"finished", "rejected", "deleted"}, "delisted")

Eve(c) ==
    /\ Issue(c) \/ Accept(c) \/ Void(c) \/ RunOut(c) \/ Remove(c) \/ Delist(c)
    /\ UNCHANGED <<entitled, pass, tables, failures>>

Entitle == ~entitled /\ entitled' = TRUE /\ UNCHANGED <<eve, pass, tables, failures>>

Listed == {c \in Contracts : eve[c] \notin {"unissued", "delisted"}}
Place(c) == Cardinality({d \in Listed : IssuedAt[d] > IssuedAt[c]})
OnPage(p) == {c \in Listed : Place(c) \div PageSize = p - 1}
LastPage(p) == p * PageSize >= Cardinality(Listed)

-----------------------------------------------------------------------------
(* The pass *)

Start ==
    /\ pc = "idle" /\ pc' = "list" /\ page' = 1 /\ shot' = {}
    /\ UNCHANGED <<world, todo, best, seen, tables, failures>>

Candidates(listed) ==
    {o \in listed : Cites[o.contract] # Nil /\ Lifecycle(o.status) # Nil}

\* After the last page only the candidates and the outgoing sales are looked at again.
ListPage ==
    /\ pc = "list"
    /\ LET listed == shot \cup {[contract |-> c, status |-> eve[c], page |-> page] : c \in OnPage(page)}
       IN  IF LastPage(page)
             THEN /\ pc' = "observe" /\ page' = 1
                  /\ todo' = Candidates(listed) /\ shot' = {o \in listed : IsOutgoingSale(o)}
             ELSE page' = page + 1 /\ shot' = listed /\ UNCHANGED <<pc, todo>>
    /\ UNCHANGED <<world, best, seen, tables, failures>>

\* One turn of resolve_best_links, after the contract's items were fetched.
Observe(o) ==
    /\ pc = "observe" /\ o \in todo /\ todo' = todo \ {o}
    /\ LET a == Cites[o.contract] link == Judged(o) IN
       /\ seen' = seen \cup {link}
       /\ best' = IF best[a] = Nil \/ IsBetter(link, best[a])
                    THEN [best EXCEPT ![a] = link] ELSE best
    /\ UNCHANGED <<world, pc, page, shot, tables, failures>>

Reconciled_NoDelete == [a \in Appraisals |-> IF best[a] = Nil THEN links[a] ELSE best[a]]  \* mutant: rows are kept
Reconciled == best

\* Lots for the completed, unless the appraisal has some already.
Materialized_Always == [a \in Appraisals |->       \* mutant: bought again
    IF best[a] # Nil /\ best[a].standing = "completed" THEN best[a].contract ELSE bought[a]]
Materialized == [a \in Appraisals |->
    IF best[a] # Nil /\ best[a].standing = "completed" /\ bought[a] = Nil
      THEN best[a].contract ELSE bought[a]]

Times(c) == Cardinality({o \in shot : o.contract = c})
Recorded_Linked == [c \in Contracts |->            \* mutant: only contracts that made a link
    IF entitled /\ sold[c] = 0 /\ \E a \in Appraisals : best[a] # Nil /\ best[a].contract = c
      THEN Times(c) ELSE sold[c]]
Recorded == [c \in Contracts |->
    IF entitled /\ sold[c] = 0 THEN Times(c) ELSE sold[c]]

Rest == pc' = "idle" /\ page' = 1 /\ shot' = {} /\ todo' = {} /\ best' = NoLinks /\ seen' = {}

Commit ==
    /\ pc = "observe" /\ todo = {}
    /\ links' = Reconciled /\ bought' = Materialized /\ sold' = Recorded
    /\ Rest
    /\ UNCHANGED <<world, failures>>

\* No usable token, no answer from EVE, a database error, a stop of the process.
Fail ==
    /\ pc # "idle" /\ failures < MaxFailures /\ failures' = failures + 1
    /\ Rest
    /\ UNCHANGED <<world, tables>>

Watch == Start \/ ListPage \/ (\E o \in todo : Observe(o)) \/ Commit

Next == Watch \/ Fail \/ Entitle \/ (\E c \in Contracts : Eve(c))

\* The scheduler fires the job for ever and a pass runs to its end; EVE, the members and
\* the administrators owe nothing.
Spec == Init /\ [][Next]_vars /\ WF_vars(Watch)

-----------------------------------------------------------------------------
(* Properties *)

Promise == INSTANCE BestLinks WITH answer <- seen,
                                   bought <- {a \in Appraisals : bought[a] # Nil}

\* The sets the variables range over.
TypeOK ==
    /\ eve \in [Contracts -> Statuses] /\ entitled \in BOOLEAN
    /\ pc \in {"idle", "list", "observe"} /\ page \in Nat \ {0}
    /\ shot \subseteq [contract : Contracts, status : Statuses, page : Nat] 
    /\ todo \subseteq [contract : Contracts, status : Statuses, page : Nat]
    /\ seen \subseteq Promise!Observations
    /\ best \in [Appraisals -> Promise!Links] /\ links \in [Appraisals -> Promise!Links]
    /\ bought \in [Appraisals -> Contracts \cup {Nil}]
    /\ sold \in [Contracts -> Nat] /\ failures \in 0 .. MaxFailures

\* The watcher implements its promise: however the pages are cut, in whatever order the
\* contracts are observed, and whichever passes fail.
FollowsBest == Promise!Spec

\* Lots only come from a contract that cites the appraisal, carries its very terms, and
\* was accepted (contract_matches before materialize_buyback_lots).
NoPhantomPurchase == \A a \in Appraisals : bought[a] # Nil =>
    /\ Cites[bought[a]] = a /\ Matches(bought[a])
    /\ eve[bought[a]] \in {"finished", "deleted", "delisted"}

\* Completed is terminal: an appraisal is bought once, whatever is accepted, reversed or
\* delisted later; and a contract that has its sale never gets another in a later pass.
BookedOnceEach == [][/\ \A a \in Appraisals : bought[a] # Nil => bought'[a] = bought[a]
                     /\ \A c \in Contracts : sold[c] # 0 => sold'[c] = sold[c]]_vars

Faithful == {c \in Contracts : Cites[c] # Nil /\ Matches(c)}
Shadowed(c) == \E d \in Faithful : Cites[d] = Cites[c] /\ eve[d] = "outstanding"

\* A contract has finitely many statuses, so EVE stands still in the end.  By then a
\* matching contract that stayed accepted has become lots, mismatching and void ones for
\* the same appraisal notwithstanding, unless an equal one is still open beside it.
PurchaseRecorded == <>[](\A c \in Faithful :
    eve[c] = "finished" /\ ~Shadowed(c) => bought[Cites[c]] # Nil)

\* An outgoing contract that finished with a price is booked, also when the corporation
\* gets its entitlement later.
SaleRecorded == <>[](\A c \in Outgoing :
    Terms[c].price > 0 /\ eve[c] = "finished" /\ entitled => sold[c] > 0)

\* Once EVE stands still, the table shows the best of what is there, and no row of what
\* is gone.
Standing == {Judged([contract |-> c, status |-> eve[c]]) :
               c \in {d \in Listed : Cites[d] # Nil /\ Lifecycle(eve[d]) # Nil}}
LinksSettle == <>[](\A a \in Appraisals : links[a] \in Promise!Bests(Standing, a))

\* What becomes stock was truly bought, and bought once.
PurchasesTrue == [](TypeOK /\ NoPhantomPurchase) /\ BookedOnceEach

\* Whatever the watcher missed on the way, it has in the end: lots, sales and links.
CatchesUp == PurchaseRecorded /\ SaleRecorded /\ LinksSettle


-----------------------------------------------------------------------------
(* A sentence of the code that does not hold *)

\* "idempotent on contract_id" (corp_contracts.py): a contract is one sale.  The list of
\* what was recorded is read once per pass, and a page boundary that moves while the
\* pages are read lists a contract twice.
OneSaleEach == \A c \in Contracts : sold[c] <= 1
=============================================================================
