---------------------------- MODULE MarketPrices ----------------------------
(***************************************************************************)
(* Market prices of the hubs that ESI serves: the read-through over a      *)
(* short-lived cache (L1), the table market_prices and the source, and the *)
(* scheduled job that renews what would lapse before its next run.         *)
(*                                                                         *)
(* A price is the time its request began (fetched_at); nothing here looks  *)
(* at the numbers.  A reader or the job yields between its reads, the      *)
(* source's answer, the commit and the promotion into L1.  An L1 entry may *)
(* be missed at any time: evicted, lost in a restart, or the backend down. *)
(***************************************************************************)
EXTENDS Naturals, FiniteSets

CONSTANTS
    Regions,      \* NPC stations outside Fuzzwork, priced type by type
    Structures,   \* player structures, priced by their whole book
    Goods,        \* per hub, the types that are traded there
    Readers,      \* requests that price a basket
    Job,          \* the session of the refresh cycle (max_instances = 1)
    Ttl,          \* market_cache_ttl_seconds
    L1Ttl,        \* market_l1_cache_ttl_seconds
    Interval,     \* market_refresh_interval_seconds
    Patience,     \* bound: how long a request or a cycle takes
    Nil,
    MaxClock,     \* bound: time that passes
    MaxRequests,  \* bound: baskets priced
    MaxFailures   \* bound: outages, partial answers, database errors

Hubs == Regions \cup Structures
Sessions == Readers \cup {Job}

ASSUME HubsAssumption == Regions \cap Structures = {} /\ Job \notin Readers
ASSUME TimesAssumption ==
    /\ {Ttl, L1Ttl, Interval, Patience, MaxClock, MaxRequests, MaxFailures} \subseteq Nat
    /\ L1Ttl <= Ttl /\ Interval > 0 /\ Nil \notin Nat

VARIABLES
    clock,
    rows,      \* market_prices: per hub, fetched_at of the types it has
    marker,    \* market_hub_refreshes: per structure, or Nil
    l1,        \* per hub and type: fetched_at and when the entry expires
    pc, unit,  \* per session: where it is, and its locals
    nextRun,   \* when the scheduler fires the job again
    todo,      \* hubs left in this cycle
    broken,    \* the cycle's session is in a failed transaction
    hit,       \* history: hubs whose own source or write failed
    starved,   \* history: hubs a cycle skipped for another hub's sake
    full,      \* history: when a structure's book was last fetched and committed
    requests, failures

tables == <<rows, marker>>
cycle == <<nextRun, todo, broken>>
history == <<hit, starved, full>>
vars == <<clock, tables, l1, pc, unit, cycle, history, requests, failures>>

None == [t \in {} |-> 0]
Over(f, g) == [t \in DOMAIN f \cup DOMAIN g |-> IF t \in DOMAIN g THEN g[t] ELSE f[t]]
At(S, time) == [t \in S |-> time]
Part(f, S) == [t \in S |-> f[t]]

Idle == [hub |-> Nil, want |-> {}, now |-> 0, hits |-> None, cached |-> None,
         miss |-> {}, got |-> {}]

Init ==
    /\ clock = 0
    /\ rows = [h \in Hubs |-> None] /\ marker = [h \in Structures |-> Nil]
    /\ l1 = [h \in Hubs |-> None]
    /\ pc = [s \in Sessions |-> "idle"] /\ unit = [s \in Sessions |-> Idle]
    /\ nextRun = 0 /\ todo = {} /\ broken = FALSE
    /\ hit = {} /\ starved = {} /\ full = [h \in Structures |-> Nil]
    /\ requests = 0 /\ failures = 0

-----------------------------------------------------------------------------
(* Ages *)

IsFresh_Later(at, now) == now < at + Ttl + 1    \* mutant: one instant too long
IsFresh_Always(at, now) == TRUE                 \* mutant: stale rows are promoted
IsFresh(at, now) == now < at + Ttl

\* Due before the next cycle: at < now - max(0, Ttl - Interval).
Lead == IF Ttl > Interval THEN Ttl - Interval ELSE 0
PastCutoff_AtExpiry(at, now) == at + Ttl < now   \* mutant: renewed when it has lapsed
PastCutoff(at, now) == at + Lead < now

Promoted_DbTtl(h, prices) ==        \* mutant: promoted for the lifetime of a row
    [l1 EXCEPT ![h] = Over(@, [t \in DOMAIN prices |->
                                 [at |-> prices[t], until |-> clock + Ttl]])]
Promoted(h, prices) ==
    [l1 EXCEPT ![h] = Over(@, [t \in DOMAIN prices |->
                                 [at |-> prices[t], until |-> clock + L1Ttl]])]

Trouble == failures < MaxFailures /\ failures' = failures + 1
Move(s, to) == pc' = [pc EXCEPT ![s] = to]

-----------------------------------------------------------------------------
(* A reader: get_market_prices *)

Ask(r, h, want) ==
    /\ pc[r] = "idle"
    /\ requests < MaxRequests /\ requests' = requests + 1
    /\ \E hits \in SUBSET (want \cap DOMAIN l1[h]) :
         /\ unit' = [unit EXCEPT ![r] =
                       [Idle EXCEPT !.hub = h, !.want = want, !.now = clock,
                                    !.hits = [t \in hits |-> l1[h][t].at]]]
         /\ Move(r, IF hits = want THEN "answer" ELSE "table")
    /\ UNCHANGED <<clock, tables, l1, cycle, history, failures>>

\* The rows of what L1 missed; the fresh ones go into L1, the others to the source.
ReadRows(r) ==
    /\ pc[r] = "table"
    /\ LET h == unit[r].hub
           cached == Part(rows[h], (unit[r].want \ DOMAIN unit[r].hits) \cap DOMAIN rows[h])
           fresh == {t \in DOMAIN cached : IsFresh(cached[t], unit[r].now)}
           miss == (unit[r].want \ DOMAIN unit[r].hits) \ fresh
       IN  /\ l1' = Promoted(h, Part(cached, fresh))
           /\ unit' = [unit EXCEPT ![r].cached = cached, ![r].miss = miss]
           /\ Move(r, IF miss = {} THEN "answer" ELSE "source")
    /\ UNCHANGED <<clock, tables, cycle, history, requests, failures>>

Answer_FreshOnly(r) ==                  \* mutant: an outage drops the stale prices
    LET u == unit[r]
    IN  Over(Over(Part(u.cached, DOMAIN u.cached \ u.miss), At(u.got, u.now)), u.hits)
\* Hits, then what was just fetched, then rows, stale ones too.
Answer(r) ==
    LET u == unit[r] IN Over(Over(u.cached, At(u.got, u.now)), u.hits)

Return(r) ==
    /\ pc[r] = "answer"
    /\ unit' = [unit EXCEPT ![r] = Idle] /\ Move(r, "idle")
    /\ UNCHANGED <<clock, tables, l1, cycle, history, requests, failures>>

-----------------------------------------------------------------------------
(* The cycle: refresh_due_prices *)

StartCycle ==
    /\ pc[Job] = "idle" /\ clock = nextRun
    /\ nextRun' = nextRun + Interval
    /\ todo' = Hubs /\ broken' = FALSE
    /\ unit' = [unit EXCEPT ![Job] = [Idle EXCEPT !.now = clock]]
    /\ Move(Job, "hub")
    /\ UNCHANGED <<clock, tables, l1, history, requests, failures>>

\* max_instances = 1: a run that falls due while the last one is busy is not made up for.
DropRun ==
    /\ pc[Job] # "idle" /\ clock = nextRun
    /\ nextRun' = nextRun + Interval
    /\ UNCHANGED <<clock, tables, l1, pc, unit, todo, broken, history, requests, failures>>

Due_RowsOnly(h, now) ==       \* mutant: an empty book leaves no trace
    IF h \in Regions THEN {t \in DOMAIN rows[h] : PastCutoff(rows[h][t], now)}
    ELSE IF \E t \in DOMAIN rows[h] : ~PastCutoff(rows[h][t], now) THEN {} ELSE Goods[h]
\* Region hubs: the rows that are due.  Structures: the whole book, when neither the
\* marker nor any row is recent.
Due(h, now) ==
    IF h \in Regions THEN {t \in DOMAIN rows[h] : PastCutoff(rows[h][t], now)}
    ELSE IF \/ marker[h] # Nil /\ ~PastCutoff(marker[h], now)
            \/ \E t \in DOMAIN rows[h] : ~PastCutoff(rows[h][t], now)
         THEN {} ELSE Goods[h]

\* A session in a failed transaction answers every later query with an error.
PickHub(h) ==
    /\ pc[Job] = "hub" /\ h \in todo
    /\ todo' = todo \ {h}
    /\ IF broken THEN /\ starved' = starved \cup {h} /\ UNCHANGED <<pc, unit>>
       ELSE /\ UNCHANGED starved
            /\ IF Due(h, unit[Job].now) = {} THEN UNCHANGED <<pc, unit>>
               ELSE /\ unit' = [unit EXCEPT ![Job].hub = h,
                                            ![Job].miss = Due(h, unit[Job].now),
                                            ![Job].got = {}]
                    /\ Move(Job, "source")
    /\ UNCHANGED <<clock, tables, l1, nextRun, broken, hit, full, requests, failures>>

EndCycle ==
    /\ pc[Job] = "hub" /\ todo = {}
    /\ unit' = [unit EXCEPT ![Job] = Idle] /\ Move(Job, "idle")
    /\ UNCHANGED <<clock, tables, l1, cycle, history, requests, failures>>

-----------------------------------------------------------------------------
(* What both do with the source's answer *)

Prewarms(s) == s = Job /\ unit[s].hub \in Structures
After(s) == IF s = Job THEN "hub" ELSE "answer"

\* Region: one request per type.  Structure: the whole book, of which a reader takes
\* its types (absent ones are empty aggregates) and the job what is on sale.
Fetch(s) ==
    /\ pc[s] = "source"
    /\ \E onSale \in SUBSET Goods[unit[s].hub] :
         unit' = [unit EXCEPT ![s].got = IF Prewarms(s) THEN onSale ELSE unit[s].miss]
    /\ Move(s, "write")
    /\ UNCHANGED <<clock, tables, l1, cycle, history, requests, failures>>

\* Single types of a region fail; or no token, no access, an outage: nothing comes.
FetchSome(s) ==
    /\ pc[s] = "source"
    /\ Trouble
    /\ hit' = hit \cup {unit[s].hub}
    /\ \E got \in SUBSET unit[s].miss \ {unit[s].miss} :
         /\ unit[s].hub \in Structures => got = {}
         /\ unit' = [unit EXCEPT ![s].got = got]
         /\ Move(s, IF got = {} THEN After(s) ELSE "write")
    /\ UNCHANGED <<clock, tables, l1, cycle, starved, full, requests>>

Stamped_NoMarker(h, now) == marker          \* mutant: an empty book leaves no trace
Stamped(h, now) == [marker EXCEPT ![h] = now]

\* One commit per hub: the prices, and the marker of a book that was fetched.
Persist(s) ==
    /\ pc[s] = "write"
    /\ LET h == unit[s].hub
       IN  /\ rows' = [rows EXCEPT ![h] = Over(@, At(unit[s].got, unit[s].now))]
           /\ marker' = IF Prewarms(s) THEN Stamped(h, unit[s].now) ELSE marker
           /\ full' = IF Prewarms(s) THEN [full EXCEPT ![h] = unit[s].now] ELSE full
    /\ Move(s, "promote")
    /\ UNCHANGED <<clock, l1, unit, cycle, hit, starved, requests, failures>>

Promote(s) ==
    /\ pc[s] = "promote"
    /\ l1' = Promoted(unit[s].hub, At(unit[s].got, unit[s].now))
    /\ Move(s, After(s))
    /\ UNCHANGED <<clock, tables, unit, cycle, history, requests, failures>>

\* A statement fails (a deadlock of two upserts, a lost connection).  A request ends in
\* an error; the cycle logs it and goes on with the same session.
DatabaseError(s) ==
    /\ pc[s] \in {"table", "write"}
    /\ Trouble
    /\ hit' = hit \cup {unit[s].hub}
    /\ Move(s, IF s = Job THEN "hub" ELSE "idle")
    /\ unit' = IF s = Job THEN unit ELSE [unit EXCEPT ![s] = Idle]
    /\ broken' = (broken \/ s = Job)
    /\ UNCHANGED <<clock, tables, l1, nextRun, todo, starved, full, requests>>

-----------------------------------------------------------------------------
(* The world *)

\* Nobody takes longer than Patience, and the scheduler wakes on time: a run starts when
\* it is due or never.
Tick ==
    /\ clock < MaxClock
    /\ \A s \in Sessions : pc[s] # "idle" => clock < unit[s].now + Patience
    /\ clock < nextRun
    /\ clock' = clock + 1
    /\ l1' = [h \in Hubs |-> Part(l1[h], {t \in DOMAIN l1[h] : clock' < l1[h][t].until})]
    /\ UNCHANGED <<tables, pc, unit, cycle, history, requests, failures>>

Next ==
    \/ \E r \in Readers :
          \/ \E h \in Hubs : \E want \in SUBSET Goods[h] \ {{}} : Ask(r, h, want)
          \/ ReadRows(r) \/ Return(r)
    \/ StartCycle \/ DropRun \/ EndCycle \/ \E h \in Hubs : PickHub(h)
    \/ \E s \in Sessions :
          Fetch(s) \/ FetchSome(s) \/ Persist(s) \/ Promote(s) \/ DatabaseError(s)
    \/ Tick

Spec == Init /\ [][Next]_vars

-----------------------------------------------------------------------------
(* Properties *)

Types == UNION {Goods[h] : h \in Hubs}

Prices(f) == DOMAIN f \subseteq Types /\ \A t \in DOMAIN f : f[t] \in 0..clock

TypeOK ==
    /\ clock \in 0..MaxClock /\ nextRun \in Nat /\ failures \in 0..MaxFailures /\ requests \in 0..MaxRequests
    /\ \A h \in Hubs :
         /\ Prices(rows[h]) /\ DOMAIN l1[h] \subseteq DOMAIN rows[h]
         /\ \A t \in DOMAIN l1[h] : l1[h][t].at \in 0..clock /\ l1[h][t].until <= clock + L1Ttl
    /\ \A h \in Structures : marker[h] \in Nat \cup {Nil}
    /\ \A s \in Sessions :
         /\ pc[s] \in {"idle", "table", "answer", "hub", "source", "write", "promote"}
         /\ unit[s].hub \in Hubs \cup {Nil} /\ unit[s].now <= clock
         /\ Prices(unit[s].cached) /\ Prices(unit[s].hits)
         /\ unit[s].miss \cup unit[s].got \cup unit[s].want \subseteq Types
    /\ todo \subseteq Hubs /\ broken \in BOOLEAN
    /\ hit \subseteq Hubs /\ starved \subseteq Hubs

\* "Only fresh data is promoted into L1, so a source outage still degrades to stale DB
\* rows without poisoning the cache": whoever fills it, with a row or from the source, and
\* however long that took, no price enters L1 that had lapsed by more than one request.
\* It stays there for L1Ttl whatever its age: HitsAreFresh is the sentence this refutes.
PromotedAt(entry) == entry.until - L1Ttl
CacheNotPoisoned ==
    \A h \in Hubs : \A t \in DOMAIN l1[h] : PromotedAt(l1[h][t]) < l1[h][t].at + Ttl + Patience

\* get_market_prices falls back on a lapsed row only where the source has just failed.
\* What it takes from L1 is not looked at again, and there, contrary to what the code's
\* comment says, the lifetimes add up; for that part this is all that can be said.
StaleOnlyInOutage ==
    [][\A r \in Readers : Return(r) =>
         \A t \in DOMAIN Answer(r) :
            \/ clock < Answer(r)[t] + Ttl + Patience
            \/ t \in unit[r].miss \ unit[r].got
            \/ /\ t \in DOMAIN unit[r].hits
               /\ clock < Answer(r)[t] + Ttl + L1Ttl + 2 * Patience]_vars

\* "Serves whatever (possibly stale) cache exists and simply omits items it has never
\* priced": what has a row when a request reaches the table is in its answer, and all
\* of the basket when the source answered.
NeverOmitsPriced ==
    [][\A r \in Readers : Return(r) =>
         \A t \in unit[r].want :
            t \in DOMAIN Answer(r) \/ (t \notin DOMAIN unit[r].cached /\ unit[r].hub \in hit)]_vars

\* The intervals for which one cycle can keep the scheduler from starting the next: none
\* when a cycle is shorter than the interval.
Overrun == (Patience \div Interval) * Interval

\* The hot set of a region hub stays warm: unless its source failed or the cycle's
\* session did, a price is renewed before it lapses, up to the time a cycle takes and to
\* the runs that were dropped for a cycle that took longer than the interval.
RegionsStayWarm ==
    \A h \in Regions \ (hit \cup starved) : \A t \in DOMAIN rows[h] :
        clock <= rows[h][t] + Ttl + Overrun + Patience

\* "An illiquid structure isn't re-fetched every cycle": after a book was fetched and
\* committed, empty or not, no cycle fetches it again until it is about to lapse.
BookFetchedOnce ==
    [][\A h \in Structures : PickHub(h) /\ pc'[Job] = "source" =>
         full[h] = Nil \/ full[h] + Lead < unit[Job].now]_vars

\* What enters the first tier is fresh, and the second is renewed before it lapses.
PricesFresh == TypeOK /\ CacheNotPoisoned /\ RegionsStayWarm

\* An answer is as complete and as fresh as the source and the table allow.
AnswersTrue == StaleOnlyInOutage /\ NeverOmitsPriced


\* What repositories/prices.py says of a structure's rows: "its freshest row dates the
\* last full refresh".
FreshestRowIsFullRefresh ==
    \A h \in Structures : \A t \in DOMAIN rows[h] : full[h] # Nil /\ rows[h][t] <= full[h]

\* What market_refresh.py says of the cycle: "one hub must never abort the whole cycle".
HubsIndependent ==
    \A h \in Regions \ hit : \A t \in DOMAIN rows[h] :
        clock <= rows[h][t] + Ttl + Overrun + Patience

\* What market.py says of L1: "hits are fresh by construction (the cache TTL enforces it)",
\* and ADR-0033 that "an L1 entry can't outlive the DB freshness window".
HitsAreFresh ==
    \A r \in Readers : \A t \in DOMAIN unit[r].hits : unit[r].now < unit[r].hits[t] + Ttl
=============================================================================
