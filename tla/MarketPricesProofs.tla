------------------------ MODULE MarketPricesProofs ------------------------
(***************************************************************************)
(* For any hubs, readers, lifetimes and number of failures: the cache is   *)
(* never poisoned, answers are as fresh and as complete as the table and   *)
(* the source allow, an empty book is not fetched every cycle, and the     *)
(* prices of a region stay warm.                                           *)
(*                                                                         *)
(* What is served and promoted was read a while ago, so the invariant says *)
(* of each session how old what it holds can be; and of the cycle, which   *)
(* prices it has still to look at or has in hand.  All others last until   *)
(* the next cycle, which runs dropped for a long one can put off.          *)
(***************************************************************************)
EXTENDS MarketPrices, TLAPS

(* Types *)

\* Functions from some of the types.
Partial(D, R) == UNION {[S -> R] : S \in SUBSET D}
Dates == Partial(Types, Nat)
Entries == Partial(Types, [at : Nat, until : Nat])
Locals == [hub : Hubs \cup {Nil}, want : SUBSET Types, now : Nat, hits : Dates,
           cached : Dates, miss : SUBSET Types, got : SUBSET Types]
\* Where a request can be, and where the job can.
Reading == {"idle", "table", "answer", "source", "write", "promote"}
Cycling == {"idle", "hub", "source", "write", "promote"}

Shapes ==
    /\ clock \in 0..MaxClock /\ nextRun \in Nat /\ todo \subseteq Hubs /\ broken \in BOOLEAN
    /\ failures \in 0..MaxFailures /\ requests \in 0..MaxRequests
    /\ hit \subseteq Hubs /\ starved \subseteq Hubs
    /\ rows \in [Hubs -> Dates] /\ l1 \in [Hubs -> Entries]
    /\ marker \in [Structures -> Nat \cup {Nil}] /\ full = marker
    /\ unit \in [Sessions -> Locals]
    /\ pc \in [Sessions -> Reading \cup Cycling]
    /\ \A r \in Readers : pc[r] \in Reading
    /\ pc[Job] \in Cycling
    /\ \A s \in Sessions : pc[s] \notin {"idle", "hub"} => unit[s].hub \in Hubs

-----------------------------------------------------------------------------
(* Partial functions: what None, At, Part and Over make *)

LEMMA NoneIsPartial ==
    ASSUME NEW D, NEW R
    PROVE  None \in Partial(D, R)
<1>1. None \in [{} -> R]
  BY DEF None
<1> QED
  BY <1>1 DEF Partial

LEMMA PartialValue ==
    ASSUME NEW D, NEW R, NEW f \in Partial(D, R)
    PROVE  DOMAIN f \in SUBSET D /\ \A t \in DOMAIN f : f[t] \in R
  BY DEF Partial

LEMMA AtIsPartial ==
    ASSUME NEW D, NEW R, NEW S \in SUBSET D, NEW time \in R
    PROVE  At(S, time) \in Partial(D, R) /\ DOMAIN At(S, time) = S
              /\ \A t \in S : At(S, time)[t] = time
<1>1. At(S, time) \in [S -> R]
  BY DEF At
<1> QED
  BY <1>1 DEF Partial, At

LEMMA PartIsPartial ==
    ASSUME NEW D, NEW R, NEW f \in Partial(D, R), NEW S, S \subseteq DOMAIN f
    PROVE  Part(f, S) \in Partial(D, R) /\ DOMAIN Part(f, S) = S
              /\ \A t \in S : Part(f, S)[t] = f[t]
<1>1. Part(f, S) \in [S -> R]
  BY PartialValue DEF Part
<1>2. S \in SUBSET D
  BY PartialValue
<1> QED
  BY <1>1, <1>2 DEF Partial, Part

LEMMA OverIsPartial ==
    ASSUME NEW D, NEW R, NEW f \in Partial(D, R), NEW g \in Partial(D, R)
    PROVE  Over(f, g) \in Partial(D, R) /\ DOMAIN Over(f, g) = DOMAIN f \cup DOMAIN g
              /\ \A t \in DOMAIN f \cup DOMAIN g :
                    Over(f, g)[t] = IF t \in DOMAIN g THEN g[t] ELSE f[t]
<1>1. /\ DOMAIN f \in SUBSET D /\ \A t \in DOMAIN f : f[t] \in R
      /\ DOMAIN g \in SUBSET D /\ \A t \in DOMAIN g : g[t] \in R
  BY PartialValue
<1>2. Over(f, g) \in [DOMAIN f \cup DOMAIN g -> R]
  BY <1>1 DEF Over
<1>3. DOMAIN f \cup DOMAIN g \in SUBSET D
  BY <1>1
<1> QED
  BY <1>2, <1>3 DEF Partial, Over

\* The same of the two kinds of partial functions the model has.
LEMMA EntryValues ==
    ASSUME NEW f \in Entries
    PROVE  DOMAIN f \in SUBSET Types /\ \A t \in DOMAIN f : f[t].at \in Nat /\ f[t].until \in Nat
<1>1. DOMAIN f \in SUBSET Types /\ \A t \in DOMAIN f : f[t] \in [at : Nat, until : Nat]
  BY DEF Entries, Partial
<1> QED
  BY <1>1

LEMMA DateValues ==
    ASSUME NEW f \in Dates
    PROVE  DOMAIN f \in SUBSET Types /\ \A t \in DOMAIN f : f[t] \in Nat
  BY PartialValue DEF Dates

LEMMA AtIsDates ==
    ASSUME NEW S \in SUBSET Types, NEW time \in Nat
    PROVE  At(S, time) \in Dates /\ DOMAIN At(S, time) = S
              /\ \A t \in S : At(S, time)[t] = time
<1>1. At(S, time) \in [S -> Nat]
  BY DEF At
<1> QED
  BY <1>1 DEF Dates, Partial, At

LEMMA OverIsDates ==
    ASSUME NEW f \in Dates, NEW g \in Dates
    PROVE  Over(f, g) \in Dates /\ DOMAIN Over(f, g) = DOMAIN f \cup DOMAIN g
              /\ \A t \in DOMAIN f \cup DOMAIN g :
                    Over(f, g)[t] = IF t \in DOMAIN g THEN g[t] ELSE f[t]
<1>1. f \in Partial(Types, Nat) /\ g \in Partial(Types, Nat)
  BY DEF Dates
<1>2. Over(f, g) \in Partial(Types, Nat)
  BY <1>1, OverIsPartial
<1> QED
  BY <1>2 DEF Dates, Over

\* A session at rest holds nothing.
LEMMA IdleIsLocals == Idle \in Locals /\ Idle.now = 0 /\ Idle.got = {} /\ Idle.miss = {}
                        /\ Idle.hub = Nil
                        /\ Idle.cached = None /\ Idle.hits = None /\ DOMAIN None = {}
<1>1. None \in Dates
  BY NoneIsPartial DEF Dates
<1>2. DOMAIN None = {}
  BY DEF None
<1> QED
  BY <1>1, <1>2 DEF Idle, Locals

\* Promotion dates the entries by the prices and gives them the lifetime of L1.
LEMMA PromotedValue ==
    ASSUME Shapes, NEW h \in Hubs, NEW f \in Dates
    PROVE  /\ Promoted(h, f) \in [Hubs -> Entries]
           /\ \A k \in Hubs \ {h} : Promoted(h, f)[k] = l1[k]
           /\ DOMAIN Promoted(h, f)[h] = DOMAIN l1[h] \cup DOMAIN f
           /\ \A t \in DOMAIN l1[h] \cup DOMAIN f :
                 Promoted(h, f)[h][t] = IF t \in DOMAIN f
                                        THEN [at |-> f[t], until |-> clock + L1Ttl]
                                        ELSE l1[h][t]
<1> DEFINE new == [t \in DOMAIN f |-> [at |-> f[t], until |-> clock + L1Ttl]]
<1>1. clock \in Nat /\ L1Ttl \in Nat
  BY TimesAssumption DEF Shapes
<1>2. DOMAIN f \in SUBSET Types /\ \A t \in DOMAIN f : f[t] \in Nat
  BY PartialValue DEF Dates
<1>3. new \in [DOMAIN f -> [at : Nat, until : Nat]]
  BY <1>1, <1>2
<1>4. new \in Entries
  BY <1>2, <1>3 DEF Entries, Partial
<1>5. l1[h] \in Entries /\ l1 \in [Hubs -> Entries]
  BY DEF Shapes
<1>6. Promoted(h, f) = [l1 EXCEPT ![h] = Over(l1[h], new)]
  BY DEF Promoted
<1>7. DOMAIN new = DOMAIN f /\ \A t \in DOMAIN f : new[t] = [at |-> f[t], until |-> clock + L1Ttl]
  OBVIOUS
<1> HIDE DEF new
<1>8. /\ Over(l1[h], new) \in Entries
      /\ DOMAIN Over(l1[h], new) = DOMAIN l1[h] \cup DOMAIN new
      /\ \A t \in DOMAIN l1[h] \cup DOMAIN new :
            Over(l1[h], new)[t] = IF t \in DOMAIN new THEN new[t] ELSE l1[h][t]
  BY <1>4, <1>5, OverIsPartial DEF Entries
<1>9. /\ Promoted(h, f) \in [Hubs -> Entries]
      /\ \A k \in Hubs \ {h} : Promoted(h, f)[k] = l1[k]
      /\ Promoted(h, f)[h] = Over(l1[h], new)
  BY <1>5, <1>6, <1>8
<1> QED
  BY <1>7, <1>8, <1>9
-----------------------------------------------------------------------------
(* Every step keeps the types *)

\* What is due is traded somewhere.
LEMMA DueIsTypes ==
    ASSUME Shapes, NEW h \in Hubs, NEW now
    PROVE  Due(h, now) \in SUBSET Types
<1>1. DOMAIN rows[h] \in SUBSET Types
  BY PartialValue DEF Shapes, Dates
<1>2. Goods[h] \in SUBSET Types
  BY DEF Types
<1> QED
  BY <1>1, <1>2 DEF Due

LEMMA GoodsAreTypes == \A h \in Hubs : Goods[h] \in SUBSET Types
  BY DEF Types

\* What a reader finds in the table, by what it takes from it.
Found(r) == Part(rows[unit[r].hub],
                 (unit[r].want \ DOMAIN unit[r].hits) \cap DOMAIN rows[unit[r].hub])
Young(r) == {t \in DOMAIN Found(r) : IsFresh(Found(r)[t], unit[r].now)}
Missing(r) == (unit[r].want \ DOMAIN unit[r].hits) \ Young(r)

\* What it takes from the table is dated as in the table.
LEMMA FoundIsDates ==
    ASSUME Shapes, NEW r \in Readers, unit[r].hub \in Hubs
    PROVE  /\ Found(r) \in Dates
           /\ DOMAIN Found(r) = (unit[r].want \ DOMAIN unit[r].hits) \cap DOMAIN rows[unit[r].hub]
           /\ \A t \in DOMAIN Found(r) : Found(r)[t] = rows[unit[r].hub][t]
           /\ Part(Found(r), Young(r)) \in Dates
           /\ DOMAIN Part(Found(r), Young(r)) = Young(r)
           /\ \A t \in Young(r) : Part(Found(r), Young(r))[t] = Found(r)[t]
           /\ Young(r) \subseteq DOMAIN Found(r)
           /\ Missing(r) \in SUBSET Types
<1>1. rows[unit[r].hub] \in Dates
  BY DEF Shapes
<1>2. /\ Found(r) \in Dates
      /\ DOMAIN Found(r) = (unit[r].want \ DOMAIN unit[r].hits) \cap DOMAIN rows[unit[r].hub]
      /\ \A t \in DOMAIN Found(r) : Found(r)[t] = rows[unit[r].hub][t]
  BY <1>1, PartIsPartial DEF Found, Dates
<1>3. Young(r) \subseteq DOMAIN Found(r)
  BY DEF Young
<1>4. unit[r] \in Locals
  BY DEF Shapes, Sessions
<1>5. Missing(r) \in SUBSET Types
  BY <1>4 DEF Missing, Locals
<1> QED
  BY <1>2, <1>3, <1>5, PartIsPartial DEF Dates

\* ReadRows in these words.
LEMMA ReadRowsSays ==
    ASSUME NEW r, ReadRows(r)
    PROVE  /\ pc[r] = "table"
           /\ l1' = Promoted(unit[r].hub, Part(Found(r), Young(r)))
           /\ unit' = [unit EXCEPT ![r].cached = Found(r), ![r].miss = Missing(r)]
           /\ Move(r, IF Missing(r) = {} THEN "answer" ELSE "source")
  BY Zenon DEF ReadRows, Found, Young, Missing

\* All variables keep their types, whoever moves.
LEMMA ShapesKept ==
    ASSUME Shapes, [Next]_vars
    PROVE  Shapes'
<1>n. /\ Readers \subseteq Sessions /\ Job \in Sessions /\ Job \notin Readers
      /\ Regions \subseteq Hubs /\ Structures \subseteq Hubs
  BY HubsAssumption DEF Sessions, Hubs
<1>f. \A s \in Sessions : unit[s] \in Locals
  BY DEF Shapes
<1>h. \A h \in Hubs : l1[h] \in Entries /\ rows[h] \in Dates
  BY DEF Shapes
<1>s. \A s \in Sessions : pc[s] \notin {"idle", "hub"} => unit[s].hub \in Hubs
  BY DEF Shapes
<1>c. clock \in Nat /\ nextRun \in Nat
  BY DEF Shapes
<1>p. unit \in [Sessions -> Locals] /\ pc \in [Sessions -> Reading \cup Cycling]
  BY DEF Shapes
<1>1. ASSUME NEW r \in Readers, NEW h \in Hubs, NEW want \in SUBSET Goods[h] \ {{}},
             Ask(r, h, want)
      PROVE  Shapes'
  <2>1. PICK hits \in SUBSET (want \cap DOMAIN l1[h]) :
          /\ unit' = [unit EXCEPT ![r] =
                       [Idle EXCEPT !.hub = h, !.want = want, !.now = clock,
                                    !.hits = [t \in hits |-> l1[h][t].at]]]
          /\ Move(r, IF hits = want THEN "answer" ELSE "table")
    BY <1>1 DEF Ask
  <2> DEFINE found == [t \in hits |-> l1[h][t].at]
  <2>2. DOMAIN l1[h] \in SUBSET Types /\ \A t \in DOMAIN l1[h] : l1[h][t].at \in Nat
    BY <1>h, EntryValues
  <2>3. found \in [hits -> Nat]
    BY <2>2
  <2>4. found \in Dates
    BY <2>2, <2>3 DEF Dates, Partial
  <2>5. want \in SUBSET Types
    BY GoodsAreTypes
  <2> HIDE DEF found
  <2>6. [Idle EXCEPT !.hub = h, !.want = want, !.now = clock, !.hits = found] \in Locals
    BY <1>c, <2>4, <2>5, IdleIsLocals DEF Locals
  <2>7. unit' \in [Sessions -> Locals]
    BY <1>p, <2>1, <2>6 DEF found
  <2>8. unit'[r].hub = h
    BY <1>p, <2>1, <1>n, IdleIsLocals DEF Locals
  <2>9. \A s \in Sessions \ {r} : unit'[s] = unit[s]
    BY <1>p, <2>1
  <2>10. requests' \in 0..MaxRequests
    BY <1>1, TimesAssumption DEF Ask, Shapes
  <2>11. /\ pc' \in [Sessions -> Reading \cup Cycling] /\ pc'[r] \in Reading
         /\ \A s \in Sessions \ {r} : pc'[s] = pc[s]
    BY <1>p, <2>1, <1>n DEF Move, Reading
  <2> QED
    BY <1>1, <1>n, <2>7, <2>8, <2>9, <2>10, <2>11 DEF Shapes, Ask, tables, cycle, history
<1>2. ASSUME NEW r \in Readers, ReadRows(r)
      PROVE  Shapes'
  <2>1. unit[r].hub \in Hubs
    BY <1>2, <1>n, <1>s DEF ReadRows
  <2>2. /\ Found(r) \in Dates /\ Part(Found(r), Young(r)) \in Dates /\ Missing(r) \in SUBSET Types
    BY <2>1, FoundIsDates
  <2>r. /\ l1' = Promoted(unit[r].hub, Part(Found(r), Young(r)))
        /\ unit' = [unit EXCEPT ![r].cached = Found(r), ![r].miss = Missing(r)]
        /\ Move(r, IF Missing(r) = {} THEN "answer" ELSE "source")
    BY <1>2, ReadRowsSays, Zenon
  <2>3. l1' \in [Hubs -> Entries]
    BY <2>r, <2>1, <2>2, PromotedValue
  <2>5. unit' \in [Sessions -> Locals] /\ \A s \in Sessions : unit'[s].hub = unit[s].hub
    BY SMTT(30), <1>n, <1>p, <2>2, <2>r DEF Locals
  <2>6. /\ pc' \in [Sessions -> Reading \cup Cycling] /\ pc'[r] \in Reading
        /\ \A s \in Sessions \ {r} : pc'[s] = pc[s]
    BY <2>r, <1>n, <1>p DEF Move, Reading
  <2> QED
    BY <1>2, <1>n, <2>1, <2>3, <2>5, <2>6 DEF Shapes, ReadRows, tables, cycle, history
<1>3. ASSUME NEW r \in Readers, Return(r)
      PROVE  Shapes'
  BY <1>3, <1>n, IdleIsLocals DEF Shapes, Return, Move, Reading, tables, cycle, history
<1>4. ASSUME StartCycle
      PROVE  Shapes'
  <2>1. nextRun + Interval \in Nat
    BY <1>c, TimesAssumption
  <2>2. [Idle EXCEPT !.now = clock] \in Locals
    BY <1>c, IdleIsLocals DEF Locals
  <2> QED
    BY <1>4, <1>n, <2>1, <2>2 DEF Shapes, StartCycle, Move, Cycling, tables, history
<1>5. ASSUME EndCycle
      PROVE  Shapes'
  BY <1>5, <1>n, IdleIsLocals DEF Shapes, EndCycle, Move, Cycling, tables, cycle, history
<1>6. ASSUME NEW h \in Hubs, PickHub(h)
      PROVE  Shapes'
  <2>1. Due(h, unit[Job].now) \in SUBSET Types
    BY DueIsTypes
  <2>2. CASE UNCHANGED <<pc, unit>>
    BY <1>6, <2>2 DEF Shapes, PickHub, tables
  <2>3. CASE /\ unit' = [unit EXCEPT ![Job].hub = h, ![Job].miss = Due(h, unit[Job].now),
                                     ![Job].got = {}]
             /\ Move(Job, "source")
    <3>0. unit' = [unit EXCEPT ![Job] = [unit[Job] EXCEPT !.hub = h, !.got = {},
                                               !.miss = Due(h, unit[Job].now)]]
      BY <1>n, <1>p, <2>3 DEF Locals
    <3>1. unit' \in [Sessions -> Locals] /\ unit'[Job].hub = h
      BY <1>n, <1>p, <1>f, <2>1, <3>0 DEF Locals
    <3>2. \A s \in Sessions \ {Job} : unit'[s] = unit[s] /\ pc'[s] = pc[s]
      BY <1>p, <2>3 DEF Move
    <3>3. pc' \in [Sessions -> Reading \cup Cycling] /\ pc'[Job] \in Cycling
      BY <1>p, <2>3, <1>n DEF Move, Cycling
    <3> QED
      BY <1>6, <1>n, <3>1, <3>2, <3>3 DEF Shapes, PickHub, tables
  <2> QED
    BY <1>6, <2>2, <2>3 DEF Shapes, PickHub
<1>7. ASSUME NEW s \in Sessions, Fetch(s)
      PROVE  Shapes'
  <2>1. unit[s].hub \in Hubs
    BY <1>7, <1>s DEF Fetch
  <2>2. PICK got \in SUBSET Types : unit' = [unit EXCEPT ![s].got = got]
    BY <1>7, <1>f, <2>1, GoodsAreTypes DEF Fetch, Locals
  <2>3. unit' \in [Sessions -> Locals] /\ \A z \in Sessions : unit'[z].hub = unit[z].hub
    BY <1>p, <2>2 DEF Locals
  <2> QED
    BY <1>7, <1>n, <2>1, <2>3 DEF Shapes, Fetch, Move, Reading, Cycling, tables, cycle, history
<1>8. ASSUME NEW s \in Sessions, FetchSome(s)
      PROVE  Shapes'
  <2>1. unit[s].hub \in Hubs
    BY <1>8, <1>s DEF FetchSome
  <2>2. PICK got \in SUBSET unit[s].miss \ {unit[s].miss} :
           /\ unit' = [unit EXCEPT ![s].got = got]
           /\ Move(s, IF got = {} THEN After(s) ELSE "write")
    BY <1>8 DEF FetchSome
  <2>3. unit' \in [Sessions -> Locals] /\ \A z \in Sessions : unit'[z].hub = unit[z].hub
    BY <1>f, <1>p, <2>2 DEF Locals
  <2>4. failures' \in 0..MaxFailures
    BY <1>8, TimesAssumption DEF FetchSome, Trouble, Shapes
  <2>5. /\ pc' \in [Sessions -> Reading \cup Cycling] /\ pc'[Job] \in Cycling
        /\ \A r \in Readers : pc'[r] \in Reading
        /\ \A z \in Sessions \ {s} : pc'[z] = pc[z]
    BY <1>n, <2>2 DEF Shapes, Move, After, Reading, Cycling
  <2> QED
    BY <1>8, <1>n, <2>1, <2>3, <2>4, <2>5 DEF Shapes, FetchSome, tables, cycle
<1>9. ASSUME NEW s \in Sessions, Persist(s)
      PROVE  Shapes'
  <2> DEFINE h == unit[s].hub
  <2>1. h \in Hubs /\ unit[s].now \in Nat /\ unit[s].got \in SUBSET Types /\ rows[h] \in Dates
    BY <1>9, <1>f, <1>h, <1>s DEF Persist, Locals
  <2>2. At(unit[s].got, unit[s].now) \in Dates
    BY <2>1, AtIsDates
  <2>w. Over(rows[h], At(unit[s].got, unit[s].now)) \in Dates
    BY <2>1, <2>2, OverIsDates
  <2>3. rows' \in [Hubs -> Dates]
    BY <1>9, <2>w DEF Persist, Shapes
  <2>4. /\ marker' = IF Prewarms(s) THEN [marker EXCEPT ![h] = unit[s].now] ELSE marker
        /\ full' = IF Prewarms(s) THEN [full EXCEPT ![h] = unit[s].now] ELSE full
    BY <1>9 DEF Persist, Stamped
  <2>5. marker' \in [Structures -> Nat \cup {Nil}] /\ full' = marker'
    BY <2>1, <2>4 DEF Shapes
  <2>6. /\ pc' \in [Sessions -> Reading \cup Cycling] /\ pc'[Job] \in Cycling
        /\ \A r \in Readers : pc'[r] \in Reading
        /\ \A z \in Sessions \ {s} : pc'[z] = pc[z]
    BY <1>n, <1>9 DEF Shapes, Persist, Move, Reading, Cycling
  <2> QED
    BY <1>9, <1>n, <2>1, <2>3, <2>5, <2>6 DEF Shapes, Persist, cycle
<1>10. ASSUME NEW s \in Sessions, Promote(s)
       PROVE  Shapes'
  <2> DEFINE h == unit[s].hub
  <2>1. h \in Hubs /\ unit[s].now \in Nat /\ unit[s].got \in SUBSET Types
    BY <1>10, <1>f, <1>s DEF Promote, Locals
  <2>2. At(unit[s].got, unit[s].now) \in Dates
    BY <2>1, AtIsDates
  <2>3. l1' \in [Hubs -> Entries]
    BY <1>10, <2>1, <2>2, PromotedValue DEF Promote
  <2>6. /\ pc' \in [Sessions -> Reading \cup Cycling] /\ pc'[Job] \in Cycling
        /\ \A r \in Readers : pc'[r] \in Reading
        /\ \A z \in Sessions \ {s} : pc'[z] = pc[z]
    BY <1>n, <1>10 DEF Shapes, Promote, Move, After, Reading, Cycling
  <2> QED
    BY <1>10, <1>n, <2>1, <2>3, <2>6 DEF Shapes, Promote, tables, cycle, history
<1>11. ASSUME NEW s \in Sessions, DatabaseError(s)
       PROVE  Shapes'
  <2>1. unit[s].hub \in Hubs
    BY <1>11, <1>s DEF DatabaseError
  <2>2. failures' \in 0..MaxFailures
    BY <1>11, TimesAssumption DEF DatabaseError, Trouble, Shapes
  <2>3. unit' \in [Sessions -> Locals]
    BY <1>11, <1>p, IdleIsLocals DEF DatabaseError
  <2>4. /\ pc' \in [Sessions -> Reading \cup Cycling] /\ pc'[Job] \in Cycling
        /\ \A r \in Readers : pc'[r] \in Reading
        /\ pc'[s] \in {"idle", "hub"}
        /\ \A z \in Sessions \ {s} : pc'[z] = pc[z] /\ unit'[z] = unit[z]
    BY <1>n, <1>11 DEF Shapes, DatabaseError, Move, Reading, Cycling
  <2> QED
    BY <1>11, <1>n, <2>1, <2>2, <2>3, <2>4 DEF Shapes, DatabaseError, tables
<1>12. ASSUME Tick
       PROVE  Shapes'
  <2>1. \A h \in Hubs : LET S == {t \in DOMAIN l1[h] : clock' < l1[h][t].until}
                        IN  Part(l1[h], S) \in Entries
    BY <1>h, PartIsPartial DEF Entries
  <2>2. l1' \in [Hubs -> Entries]
    BY <1>12, <2>1 DEF Tick
  <2>3. clock' \in 0..MaxClock
    BY <1>12, TimesAssumption DEF Tick, Shapes
  <2> QED
    BY <1>12, <1>n, <2>2, <2>3 DEF Shapes, Tick, tables, cycle, history
<1>13. CASE DropRun
  <2>1. nextRun' \in Nat
    BY <1>13, <1>c, TimesAssumption DEF DropRun
  <2> QED
    BY <1>13, <2>1 DEF Shapes, DropRun, tables, history
<1>14. CASE UNCHANGED vars
  BY <1>14 DEF Shapes, vars, tables, cycle, history
<1> QED
  BY <1>1, <1>2, <1>3, <1>4, <1>5, <1>6, <1>7, <1>8, <1>9, <1>10, <1>11, <1>12, <1>13, <1>14 DEF Next
-----------------------------------------------------------------------------
(* What a turn of one session says, field by field *)

Turn(s) ==
    \/ /\ s \in Readers
       /\ \/ \E h \in Hubs : \E want \in SUBSET Goods[h] \ {{}} : Ask(s, h, want)
          \/ ReadRows(s) \/ Return(s)
    \/ s = Job /\ (StartCycle \/ EndCycle \/ \E h \in Hubs : PickHub(h))
    \/ Fetch(s) \/ FetchSome(s) \/ Persist(s) \/ Promote(s) \/ DatabaseError(s)

\* A step is time passing, a run dropped or a turn of one session.
LEMMA Turns == Next => Tick \/ DropRun \/ \E s \in Sessions : Turn(s)
  BY DEF Next, Turn, Sessions

\* A run that is dropped moves the next one and nothing else.
LEMMA DropSays ==
    ASSUME DropRun
    PROVE  /\ pc[Job] # "idle" /\ clock = nextRun /\ nextRun' = nextRun + Interval
           /\ UNCHANGED <<clock, rows, l1, pc, unit, todo, hit, starved>>
  BY DEF DropRun, tables, history

LEMMA AskSays ==
    ASSUME Shapes, NEW r \in Readers, NEW h \in Hubs, NEW want \in SUBSET Goods[h] \ {{}},
           Ask(r, h, want)
    PROVE  /\ pc[r] = "idle" /\ pc'[r] \in {"table", "answer"}
           /\ pc'[r] = "answer" => DOMAIN unit'[r].hits = want
           /\ unit'[r].hub = h /\ unit'[r].want = want /\ unit'[r].now = clock
           /\ unit'[r].cached = None /\ unit'[r].miss = {} /\ unit'[r].got = {}
           /\ DOMAIN unit'[r].hits \subseteq want \cap DOMAIN l1[h]
           /\ \A t \in DOMAIN unit'[r].hits : unit'[r].hits[t] = l1[h][t].at
           /\ \A s \in Sessions \ {r} : pc'[s] = pc[s] /\ unit'[s] = unit[s]
           /\ UNCHANGED <<clock, tables, l1, cycle, history>>
<1>0. r \in Sessions /\ unit \in [Sessions -> Locals] /\ pc \in [Sessions -> Reading \cup Cycling]
  BY DEF Sessions, Shapes
<1>1. PICK hits \in SUBSET (want \cap DOMAIN l1[h]) :
        /\ unit' = [unit EXCEPT ![r] =
                     [Idle EXCEPT !.hub = h, !.want = want, !.now = clock,
                                  !.hits = [t \in hits |-> l1[h][t].at]]]
        /\ Move(r, IF hits = want THEN "answer" ELSE "table")
  BY DEF Ask
<1>2. unit'[r] = [Idle EXCEPT !.hub = h, !.want = want, !.now = clock,
                              !.hits = [t \in hits |-> l1[h][t].at]]
  BY <1>0, <1>1
<1>3. /\ unit'[r].hub = h /\ unit'[r].want = want /\ unit'[r].now = clock
      /\ unit'[r].cached = None /\ unit'[r].miss = {} /\ unit'[r].got = {}
      /\ unit'[r].hits = [t \in hits |-> l1[h][t].at]
  BY <1>2 DEF Idle
<1>4. \A s \in Sessions \ {r} : pc'[s] = pc[s] /\ unit'[s] = unit[s]
  BY <1>0, <1>1 DEF Move
<1>5. pc'[r] = IF hits = want THEN "answer" ELSE "table"
  BY <1>0, <1>1 DEF Move
<1>6. DOMAIN unit'[r].hits = hits /\ \A t \in hits : unit'[r].hits[t] = l1[h][t].at
  BY <1>3
<1>7. pc[r] = "idle" /\ UNCHANGED <<clock, tables, l1, cycle, history>>
  BY DEF Ask
<1> QED
  BY <1>1, <1>3, <1>4, <1>5, <1>6, <1>7

LEMMA RowsSay ==
    ASSUME Shapes, NEW r \in Readers, ReadRows(r)
    PROVE  /\ pc[r] = "table" /\ unit[r].hub \in Hubs
           /\ pc'[r] = IF Missing(r) = {} THEN "answer" ELSE "source"
           /\ unit'[r].cached = Found(r) /\ unit'[r].miss = Missing(r)
           /\ unit'[r].hub = unit[r].hub /\ unit'[r].want = unit[r].want
           /\ unit'[r].now = unit[r].now /\ unit'[r].hits = unit[r].hits
           /\ unit'[r].got = unit[r].got
           /\ l1' = Promoted(unit[r].hub, Part(Found(r), Young(r)))
           /\ \A s \in Sessions \ {r} : pc'[s] = pc[s] /\ unit'[s] = unit[s]
           /\ UNCHANGED <<clock, tables, cycle, history>>
<1>0. r \in Sessions /\ unit \in [Sessions -> Locals] /\ pc \in [Sessions -> Reading \cup Cycling]
  BY DEF Sessions, Shapes
<1>1. /\ pc[r] = "table"
      /\ l1' = Promoted(unit[r].hub, Part(Found(r), Young(r)))
      /\ unit' = [unit EXCEPT ![r].cached = Found(r), ![r].miss = Missing(r)]
      /\ Move(r, IF Missing(r) = {} THEN "answer" ELSE "source")
  BY ReadRowsSays, Zenon
<1>2. unit[r] \in Locals
  BY <1>0
<1>3. /\ unit'[r].cached = Found(r) /\ unit'[r].miss = Missing(r)
      /\ unit'[r].hub = unit[r].hub /\ unit'[r].want = unit[r].want
      /\ unit'[r].now = unit[r].now /\ unit'[r].hits = unit[r].hits
      /\ unit'[r].got = unit[r].got
  BY <1>0, <1>1, <1>2 DEF Locals
<1>4. /\ pc'[r] = IF Missing(r) = {} THEN "answer" ELSE "source"
      /\ \A s \in Sessions \ {r} : pc'[s] = pc[s] /\ unit'[s] = unit[s]
  BY <1>0, <1>1 DEF Move
<1>5. unit[r].hub \in Hubs
  BY <1>0, <1>1 DEF Shapes
<1>6. UNCHANGED <<clock, tables, cycle, history>>
  BY DEF ReadRows
<1> QED
  BY <1>1, <1>3, <1>4, <1>5, <1>6

LEMMA ReturnSays ==
    ASSUME Shapes, NEW r \in Readers, Return(r)
    PROVE  /\ pc[r] = "answer" /\ pc'[r] = "idle" /\ unit'[r] = Idle
           /\ \A s \in Sessions \ {r} : pc'[s] = pc[s] /\ unit'[s] = unit[s]
           /\ UNCHANGED <<clock, tables, l1, cycle, history>>
  BY DEF Return, Move, Shapes, Sessions

LEMMA StartSays ==
    ASSUME Shapes, StartCycle
    PROVE  /\ pc[Job] = "idle" /\ pc'[Job] = "hub" /\ clock = nextRun
           /\ nextRun' = nextRun + Interval /\ todo' = Hubs
           /\ unit'[Job].now = clock /\ unit'[Job].got = {} /\ unit'[Job].miss = {}
           /\ unit'[Job].cached = None /\ unit'[Job].hits = None
           /\ \A s \in Sessions \ {Job} : pc'[s] = pc[s] /\ unit'[s] = unit[s]
           /\ UNCHANGED <<clock, tables, l1, history>>
<1>1. Job \in Sessions /\ unit \in [Sessions -> Locals] /\ pc \in [Sessions -> Reading \cup Cycling]
  BY DEF Sessions, Shapes
<1>2. unit'[Job] = [Idle EXCEPT !.now = clock]
  BY <1>1 DEF StartCycle
<1>3. /\ unit'[Job].now = clock /\ unit'[Job].got = {} /\ unit'[Job].miss = {}
      /\ unit'[Job].cached = None /\ unit'[Job].hits = None
  BY <1>2 DEF Idle
<1> QED
  BY <1>1, <1>3 DEF StartCycle, Move

LEMMA EndSays ==
    ASSUME Shapes, EndCycle
    PROVE  /\ pc[Job] = "hub" /\ todo = {} /\ pc'[Job] = "idle" /\ unit'[Job] = Idle
           /\ \A s \in Sessions \ {Job} : pc'[s] = pc[s] /\ unit'[s] = unit[s]
           /\ UNCHANGED <<clock, tables, l1, cycle, history>>
  BY DEF EndCycle, Move, Shapes, Sessions

LEMMA PickSays ==
    ASSUME Shapes, NEW h \in Hubs, PickHub(h)
    PROVE  /\ pc[Job] = "hub" /\ todo' = todo \ {h}
           /\ \/ pc'[Job] = "hub" /\ starved' = starved \cup {h} /\ unit'[Job] = unit[Job]
              \/ pc'[Job] = "hub" /\ UNCHANGED starved /\ unit'[Job] = unit[Job]
                    /\ Due(h, unit[Job].now) = {}
              \/ /\ pc'[Job] = "source" /\ UNCHANGED starved
                 /\ Due(h, unit[Job].now) # {}
                 /\ unit'[Job].hub = h /\ unit'[Job].miss = Due(h, unit[Job].now)
                 /\ unit'[Job].got = {} /\ unit'[Job].now = unit[Job].now
                 /\ unit'[Job].cached = unit[Job].cached /\ unit'[Job].hits = unit[Job].hits
           /\ \A s \in Sessions \ {Job} : pc'[s] = pc[s] /\ unit'[s] = unit[s]
           /\ UNCHANGED <<clock, tables, l1, nextRun, hit, full>>
<1>0. /\ Job \in Sessions /\ unit \in [Sessions -> Locals] /\ pc \in [Sessions -> Reading \cup Cycling]
      /\ unit[Job] \in Locals
  BY DEF Sessions, Shapes
<1>1. /\ pc[Job] = "hub" /\ todo' = todo \ {h}
      /\ UNCHANGED <<clock, tables, l1, nextRun, hit, full>>
  BY DEF PickHub
<1>2. CASE broken
  BY <1>0, <1>1, <1>2 DEF PickHub
<1>3. CASE ~broken /\ Due(h, unit[Job].now) = {}
  BY <1>0, <1>1, <1>3 DEF PickHub
<1>4. CASE ~broken /\ Due(h, unit[Job].now) # {}
  <2>1. /\ unit' = [unit EXCEPT ![Job].hub = h, ![Job].miss = Due(h, unit[Job].now),
                                ![Job].got = {}]
        /\ Move(Job, "source") /\ UNCHANGED starved
    BY <1>4 DEF PickHub
  <2>2. unit'[Job] = [unit[Job] EXCEPT !.hub = h, !.miss = Due(h, unit[Job].now), !.got = {}]
    BY <1>0, <2>1 DEF Locals
  <2>3. /\ unit'[Job].hub = h /\ unit'[Job].miss = Due(h, unit[Job].now)
        /\ unit'[Job].got = {} /\ unit'[Job].now = unit[Job].now
        /\ unit'[Job].cached = unit[Job].cached /\ unit'[Job].hits = unit[Job].hits
    BY <1>0, <2>2 DEF Locals
  <2>4. pc'[Job] = "source" /\ \A s \in Sessions \ {Job} : pc'[s] = pc[s] /\ unit'[s] = unit[s]
    BY <1>0, <2>1 DEF Move
  <2> QED
    BY <1>1, <1>4, <2>1, <2>3, <2>4
<1> QED
  BY <1>2, <1>3, <1>4

LEMMA FetchSays ==
    ASSUME Shapes, NEW s \in Sessions, Fetch(s)
    PROVE  /\ pc[s] = "source" /\ pc'[s] = "write" /\ unit[s].hub \in Hubs
           /\ ~Prewarms(s) => unit'[s].got = unit[s].miss
           /\ unit'[s].hub = unit[s].hub /\ unit'[s].want = unit[s].want
           /\ unit'[s].now = unit[s].now /\ unit'[s].hits = unit[s].hits
           /\ unit'[s].cached = unit[s].cached /\ unit'[s].miss = unit[s].miss
           /\ \A z \in Sessions \ {s} : pc'[z] = pc[z] /\ unit'[z] = unit[z]
           /\ UNCHANGED <<clock, tables, l1, cycle, history>>
<1>0. /\ unit \in [Sessions -> Locals] /\ pc \in [Sessions -> Reading \cup Cycling]
      /\ unit[s] \in Locals
  BY DEF Shapes
<1>1. /\ pc[s] = "source" /\ Move(s, "write")
      /\ UNCHANGED <<clock, tables, l1, cycle, history>>
  BY DEF Fetch
<1>2. PICK got : /\ unit' = [unit EXCEPT ![s].got = got]
                 /\ ~Prewarms(s) => got = unit[s].miss
  BY DEF Fetch
<1>3. unit[s].hub \in Hubs
  BY <1>1 DEF Shapes
<1>4. /\ unit'[s].got = got
      /\ unit'[s].hub = unit[s].hub /\ unit'[s].want = unit[s].want
      /\ unit'[s].now = unit[s].now /\ unit'[s].hits = unit[s].hits
      /\ unit'[s].cached = unit[s].cached /\ unit'[s].miss = unit[s].miss
  BY <1>0, <1>2 DEF Locals
<1>5. pc'[s] = "write" /\ \A z \in Sessions \ {s} : pc'[z] = pc[z] /\ unit'[z] = unit[z]
  BY <1>0, <1>1, <1>2 DEF Move
<1> QED
  BY <1>1, <1>2, <1>3, <1>4, <1>5

LEMMA FetchSomeSays ==
    ASSUME Shapes, NEW s \in Sessions, FetchSome(s)
    PROVE  /\ pc[s] = "source" /\ unit[s].hub \in Hubs
           /\ pc'[s] = IF unit'[s].got = {} THEN After(s) ELSE "write"
           /\ hit' = hit \cup {unit[s].hub}
           /\ unit'[s].got \subseteq unit[s].miss
           /\ unit'[s].hub = unit[s].hub /\ unit'[s].want = unit[s].want
           /\ unit'[s].now = unit[s].now /\ unit'[s].hits = unit[s].hits
           /\ unit'[s].cached = unit[s].cached /\ unit'[s].miss = unit[s].miss
           /\ \A z \in Sessions \ {s} : pc'[z] = pc[z] /\ unit'[z] = unit[z]
           /\ UNCHANGED <<clock, tables, l1, cycle, starved, full>>
<1>0. /\ unit \in [Sessions -> Locals] /\ pc \in [Sessions -> Reading \cup Cycling]
      /\ unit[s] \in Locals
  BY DEF Shapes
<1>1. /\ pc[s] = "source" /\ hit' = hit \cup {unit[s].hub}
      /\ UNCHANGED <<clock, tables, l1, cycle, starved, full>>
  BY DEF FetchSome
<1>2. PICK got \in SUBSET unit[s].miss :
        /\ unit' = [unit EXCEPT ![s].got = got]
        /\ Move(s, IF got = {} THEN After(s) ELSE "write")
  BY DEF FetchSome
<1>3. unit[s].hub \in Hubs
  BY <1>1 DEF Shapes
<1>4. /\ unit'[s].got = got
      /\ unit'[s].hub = unit[s].hub /\ unit'[s].want = unit[s].want
      /\ unit'[s].now = unit[s].now /\ unit'[s].hits = unit[s].hits
      /\ unit'[s].cached = unit[s].cached /\ unit'[s].miss = unit[s].miss
  BY <1>0, <1>2 DEF Locals
<1>5. /\ pc'[s] = IF got = {} THEN After(s) ELSE "write"
      /\ \A z \in Sessions \ {s} : pc'[z] = pc[z] /\ unit'[z] = unit[z]
  BY <1>0, <1>2 DEF Move
<1> QED
  BY <1>1, <1>2, <1>3, <1>4, <1>5

LEMMA PersistSays ==
    ASSUME Shapes, NEW s \in Sessions, Persist(s)
    PROVE  /\ pc[s] = "write" /\ pc'[s] = "promote" /\ unit[s].hub \in Hubs
           /\ \A h \in Hubs \ {unit[s].hub} : rows'[h] = rows[h]
           /\ DOMAIN rows'[unit[s].hub] = DOMAIN rows[unit[s].hub] \cup unit[s].got
           /\ \A t \in DOMAIN rows'[unit[s].hub] :
                 rows'[unit[s].hub][t] = IF t \in unit[s].got THEN unit[s].now
                                         ELSE rows[unit[s].hub][t]
           /\ \A z \in Sessions \ {s} : pc'[z] = pc[z]
           /\ UNCHANGED <<clock, l1, unit, cycle, hit, starved>>
<1> DEFINE h == unit[s].hub
           new == At(unit[s].got, unit[s].now)
<1>0. /\ pc \in [Sessions -> Reading \cup Cycling] /\ unit[s] \in Locals
      /\ rows \in [Hubs -> Dates]
  BY DEF Shapes
<1>1. /\ pc[s] = "write" /\ rows' = [rows EXCEPT ![h] = Over(rows[h], new)]
      /\ Move(s, "promote")
      /\ UNCHANGED <<clock, l1, unit, cycle, hit, starved>>
  BY DEF Persist
<1>2. h \in Hubs /\ rows[h] \in Dates
  BY <1>0, <1>1 DEF Shapes
<1>3. unit[s].now \in Nat /\ unit[s].got \in SUBSET Types
  BY <1>0 DEF Locals
<1>4. new \in Dates /\ DOMAIN new = unit[s].got /\ \A t \in unit[s].got : new[t] = unit[s].now
  BY <1>3, AtIsDates
<1> HIDE DEF new
<1>5. /\ DOMAIN Over(rows[h], new) = DOMAIN rows[h] \cup DOMAIN new
      /\ \A t \in DOMAIN rows[h] \cup DOMAIN new :
            Over(rows[h], new)[t] = IF t \in DOMAIN new THEN new[t] ELSE rows[h][t]
  BY <1>2, <1>4, OverIsDates
<1>6. rows'[h] = Over(rows[h], new) /\ \A k \in Hubs \ {h} : rows'[k] = rows[k]
  BY <1>0, <1>1, <1>2
<1>7. pc'[s] = "promote" /\ \A z \in Sessions \ {s} : pc'[z] = pc[z]
  BY <1>0, <1>1 DEF Move
<1> HIDE DEF h
<1>8. /\ DOMAIN rows'[h] = DOMAIN rows[h] \cup unit[s].got
      /\ \A t \in DOMAIN rows'[h] : rows'[h][t] = IF t \in unit[s].got THEN unit[s].now
                                                 ELSE rows[h][t]
  BY <1>4, <1>5, <1>6
<1> QED
  BY <1>1, <1>2, <1>6, <1>7, <1>8 DEF h

LEMMA PromoteSays ==
    ASSUME Shapes, NEW s \in Sessions, Promote(s)
    PROVE  /\ pc[s] = "promote" /\ pc'[s] = After(s) /\ unit[s].hub \in Hubs
           /\ \A h \in Hubs \ {unit[s].hub} : l1'[h] = l1[h]
           /\ DOMAIN l1'[unit[s].hub] = DOMAIN l1[unit[s].hub] \cup unit[s].got
           /\ \A t \in DOMAIN l1'[unit[s].hub] :
                 l1'[unit[s].hub][t] = IF t \in unit[s].got
                                       THEN [at |-> unit[s].now, until |-> clock + L1Ttl]
                                       ELSE l1[unit[s].hub][t]
           /\ \A z \in Sessions \ {s} : pc'[z] = pc[z]
           /\ UNCHANGED <<clock, tables, unit, cycle, history>>
<1> DEFINE h == unit[s].hub
           new == At(unit[s].got, unit[s].now)
<1>0. pc \in [Sessions -> Reading \cup Cycling] /\ unit[s] \in Locals
  BY DEF Shapes
<1>1. /\ pc[s] = "promote" /\ l1' = Promoted(h, new) /\ Move(s, After(s))
      /\ UNCHANGED <<clock, tables, unit, cycle, history>>
  BY DEF Promote
<1>2. h \in Hubs
  BY <1>1 DEF Shapes
<1>3. unit[s].now \in Nat /\ unit[s].got \in SUBSET Types
  BY <1>0 DEF Locals
<1>4. new \in Dates /\ DOMAIN new = unit[s].got /\ \A t \in unit[s].got : new[t] = unit[s].now
  BY <1>3, AtIsDates
<1> HIDE DEF new
<1>5. /\ \A k \in Hubs \ {h} : l1'[k] = l1[k]
      /\ DOMAIN l1'[h] = DOMAIN l1[h] \cup DOMAIN new
      /\ \A t \in DOMAIN l1[h] \cup DOMAIN new :
           l1'[h][t] = IF t \in DOMAIN new THEN [at |-> new[t], until |-> clock + L1Ttl]
                       ELSE l1[h][t]
  BY <1>1, <1>2, <1>4, PromotedValue
<1>6. pc'[s] = After(s) /\ \A z \in Sessions \ {s} : pc'[z] = pc[z]
  BY <1>0, <1>1 DEF Move
<1> HIDE DEF h
<1>7. \A t \in DOMAIN l1'[h] : l1'[h][t] = IF t \in unit[s].got
                                          THEN [at |-> unit[s].now, until |-> clock + L1Ttl]
                                          ELSE l1[h][t]
  BY <1>4, <1>5
<1>8. DOMAIN l1'[h] = DOMAIN l1[h] \cup unit[s].got
  BY <1>4, <1>5
<1> QED
  BY <1>1, <1>2, <1>5, <1>6, <1>7, <1>8 DEF h

LEMMA ErrorSays ==
    ASSUME Shapes, NEW s \in Sessions, DatabaseError(s)
    PROVE  /\ pc[s] \in {"table", "write"} /\ unit[s].hub \in Hubs
           /\ hit' = hit \cup {unit[s].hub}
           /\ s = Job => pc'[s] = "hub" /\ unit'[s] = unit[s]
           /\ s # Job => pc'[s] = "idle" /\ unit'[s] = Idle
           /\ \A z \in Sessions \ {s} : pc'[z] = pc[z] /\ unit'[z] = unit[z]
           /\ UNCHANGED <<clock, tables, l1, nextRun, todo, starved, full>>
<1>0. /\ unit \in [Sessions -> Locals] /\ pc \in [Sessions -> Reading \cup Cycling]
      /\ pc[s] \in {"table", "write"}
  BY DEF Shapes, DatabaseError
<1>1. unit[s].hub \in Hubs
  BY <1>0 DEF Shapes
<1> QED
  BY <1>0, <1>1 DEF DatabaseError, Move
\* A turn leaves the other sessions where they are; rows and failures are never forgotten.
LEMMA Alone ==
    ASSUME Shapes, NEW s \in Sessions, Turn(s)
    PROVE  /\ clock' = clock /\ hit \subseteq hit' /\ starved \subseteq starved'
           /\ \A z \in Sessions \ {s} : pc'[z] = pc[z] /\ unit'[z] = unit[z]
           /\ \A h \in Hubs : DOMAIN rows[h] \subseteq DOMAIN rows'[h]
<1>1. CASE s \in Readers /\ \E h \in Hubs : \E want \in SUBSET Goods[h] \ {{}} : Ask(s, h, want)
  BY <1>1, AskSays DEF history, tables
<1>2. CASE s \in Readers /\ ReadRows(s)
  BY <1>2, RowsSay DEF history, tables
<1>3. CASE s \in Readers /\ Return(s)
  BY <1>3, ReturnSays DEF history, tables
<1>4. CASE s = Job /\ StartCycle
  BY <1>4, StartSays DEF history, tables
<1>5. CASE s = Job /\ EndCycle
  BY <1>5, EndSays DEF history, tables
<1>6. CASE s = Job /\ \E h \in Hubs : PickHub(h)
  <2>1. PICK h \in Hubs : PickHub(h)
    BY <1>6
  <2> QED
    BY <1>6, <2>1, PickSays DEF tables
<1>7. CASE Fetch(s)
  BY <1>7, FetchSays DEF history, tables
<1>8. CASE FetchSome(s)
  BY <1>8, FetchSomeSays DEF tables
<1>9. CASE Persist(s)
  BY <1>9, PersistSays
<1>10. CASE Promote(s)
  BY <1>10, PromoteSays DEF history, tables
<1>11. CASE DatabaseError(s)
  BY <1>11, ErrorSays DEF tables
<1> QED
  BY <1>1, <1>2, <1>3, <1>4, <1>5, <1>6, <1>7, <1>8, <1>9, <1>10, <1>11 DEF Turn

-----------------------------------------------------------------------------
(* The inductive invariant *)

\* No row is dated ahead of the clock.
RowsOK == \A h \in Hubs : \A t \in DOMAIN rows[h] : rows[h][t] <= clock

\* An entry has its row, is not past its time, and is as young as what put it there.
CacheOK ==
    \A h \in Hubs : \A t \in DOMAIN l1[h] :
        /\ t \in DOMAIN rows[h] /\ l1[h][t].at <= clock
        /\ clock <= l1[h][t].until /\ l1[h][t].until <= clock + L1Ttl
        /\ 0 < Ttl => l1[h][t].until < l1[h][t].at + Ttl + L1Ttl + Patience

\* A session is as old as its patience allows, and has committed what it promotes.
SessionOK(s) ==
    /\ pc[s] = "idle" => unit[s] = Idle
    /\ pc[s] # "idle" => clock <= unit[s].now + Patience
    /\ unit[s].now <= clock
    /\ pc[s] = "promote" => unit[s].got \subseteq DOMAIN rows[unit[s].hub]
    /\ \A t \in DOMAIN unit[s].cached : unit[s].cached[t] <= clock
    /\ \A t \in DOMAIN unit[s].hits : unit[s].hits[t] <= clock

Basics == Shapes /\ RowsOK /\ CacheOK /\ \A s \in Sessions : SessionOK(s)

LEMMA TimesAreNat == Ttl \in Nat /\ L1Ttl \in Nat /\ Interval \in Nat /\ Patience \in Nat
                       /\ Interval > 0
  BY TimesAssumption

\* Only a commit writes rows, dated by the start of its session.
LEMMA RowsKept ==
    ASSUME Basics, [Next]_vars
    PROVE  RowsOK'
<1>0. Shapes /\ RowsOK /\ clock \in Nat /\ \A s \in Sessions : SessionOK(s)
  BY DEF Basics, Shapes
<1>1. ASSUME NEW s \in Sessions, Turn(s), UNCHANGED rows
      PROVE  RowsOK'
  BY <1>0, <1>1, Alone DEF RowsOK
<1>2. ASSUME NEW s \in Sessions, Persist(s)
      PROVE  RowsOK'
  <2>1. unit[s].now <= clock
    BY <1>0 DEF SessionOK
  <2>2. ASSUME NEW h \in Hubs, NEW t \in DOMAIN rows'[h]
        PROVE  rows'[h][t] <= clock'
    <3>1. CASE h # unit[s].hub
      BY <1>0, <1>2, <2>2, <3>1, PersistSays DEF RowsOK
    <3>2. CASE h = unit[s].hub /\ t \in unit[s].got
      BY <1>0, <1>2, <2>1, <2>2, <3>2, PersistSays
    <3>3. CASE h = unit[s].hub /\ t \notin unit[s].got
      <4>1. t \in DOMAIN rows[h] /\ rows'[h][t] = rows[h][t]
        BY <1>0, <1>2, <2>2, <3>3, PersistSays
      <4> QED
        BY <1>0, <1>2, <4>1, PersistSays DEF RowsOK
    <3> QED
      BY <3>1, <3>2, <3>3
  <2> QED
    BY <2>2 DEF RowsOK
<1>3. ASSUME NEW s \in Sessions, Turn(s), ~Persist(s)
      PROVE  UNCHANGED rows
  BY <1>3 DEF Turn, Ask, ReadRows, Return, StartCycle, EndCycle, PickHub, Fetch, FetchSome,
     Promote, DatabaseError, tables
<1>4. CASE Tick
  <2>1. rows' = rows /\ clock' = clock + 1
    BY <1>4 DEF Tick, tables
  <2>2. ASSUME NEW h \in Hubs, NEW t \in DOMAIN rows[h]
        PROVE  rows[h][t] \in Nat
    BY <1>0, <2>2, DateValues DEF Shapes
  <2> QED
    BY <1>0, <2>1, <2>2 DEF RowsOK
<1>5. CASE DropRun \/ UNCHANGED vars
  BY <1>0, <1>5, DropSays DEF vars, tables, RowsOK
<1> QED
  BY <1>1, <1>2, <1>3, <1>4, <1>5, Turns
\* Sessions grow older by ticks only, and a tick spares those at the end of their patience.
LEMMA SessionsKept ==
    ASSUME Basics, [Next]_vars, NEW z \in Sessions
    PROVE  SessionOK(z)'
<1>0. /\ Shapes /\ RowsOK /\ CacheOK /\ clock \in Nat /\ unit[z] \in Locals
      /\ \A s \in Sessions : SessionOK(s)
      /\ Readers \subseteq Sessions
  BY DEF Basics, Shapes, Sessions
<1>i. /\ Idle.now = 0 /\ DOMAIN Idle.cached = {} /\ DOMAIN Idle.hits = {}
      /\ Patience \in Nat
  BY IdleIsLocals, TimesAreNat
<1>1. ASSUME NEW s \in Sessions, Turn(s), s # z
      PROVE  SessionOK(z)'
  <2>1. /\ clock' = clock /\ pc'[z] = pc[z] /\ unit'[z] = unit[z]
        /\ \A h \in Hubs : DOMAIN rows[h] \subseteq DOMAIN rows'[h]
    BY <1>0, <1>1, Alone
  <2>2. pc[z] = "promote" => unit[z].hub \in Hubs
    BY <1>0 DEF Shapes
  <2> QED
    BY <1>0, <2>1, <2>2 DEF SessionOK
<1>2. ASSUME z \in Readers, NEW h \in Hubs, NEW want \in SUBSET Goods[h] \ {{}}, Ask(z, h, want)
      PROVE  SessionOK(z)'
  <2>1. /\ clock' = clock /\ pc'[z] \in {"table", "answer"} /\ unit'[z].now = clock
        /\ unit'[z].cached = None
        /\ DOMAIN unit'[z].hits \subseteq DOMAIN l1[h]
        /\ \A t \in DOMAIN unit'[z].hits : unit'[z].hits[t] = l1[h][t].at
    BY <1>0, <1>2, AskSays
  <2>2. \A t \in DOMAIN unit'[z].hits : unit'[z].hits[t] <= clock
    BY <1>0, <2>1 DEF CacheOK
  <2>3. DOMAIN unit'[z].cached = {}
    BY <2>1, IdleIsLocals
  <2> QED
    BY <1>0, <1>i, <2>1, <2>2, <2>3 DEF SessionOK
<1>3. ASSUME z \in Readers, ReadRows(z)
      PROVE  SessionOK(z)'
  <2>1. /\ pc[z] = "table" /\ clock' = clock /\ pc'[z] \in {"answer", "source"}
        /\ unit'[z].cached = Found(z) /\ unit'[z].now = unit[z].now
        /\ unit'[z].hits = unit[z].hits /\ unit[z].hub \in Hubs
    BY <1>0, <1>3, RowsSay
  <2>2. \A t \in DOMAIN Found(z) : t \in DOMAIN rows[unit[z].hub] /\ Found(z)[t] = rows[unit[z].hub][t]
    BY <1>0, <1>3, <2>1, FoundIsDates
  <2>3. \A t \in DOMAIN unit'[z].cached : unit'[z].cached[t] <= clock
    BY <1>0, <2>1, <2>2 DEF RowsOK
  <2> QED
    BY <1>0, <2>1, <2>3 DEF SessionOK
<1>4. ASSUME z \in Readers, Return(z)
      PROVE  SessionOK(z)'
  <2>1. clock' = clock /\ pc'[z] = "idle" /\ unit'[z] = Idle
    BY <1>0, <1>4, ReturnSays
  <2> QED
    BY <1>0, <1>i, <2>1 DEF SessionOK
<1>5. ASSUME z = Job, StartCycle
      PROVE  SessionOK(z)'
  <2>1. clock' = clock /\ pc'[z] = "hub" /\ unit'[z].now = clock
        /\ unit'[z].cached = None /\ unit'[z].hits = None
    BY <1>0, <1>5, StartSays
  <2> QED
    BY <1>0, <1>i, <2>1, IdleIsLocals DEF SessionOK
<1>6. ASSUME z = Job, EndCycle
      PROVE  SessionOK(z)'
  <2>1. clock' = clock /\ pc'[z] = "idle" /\ unit'[z] = Idle
    BY <1>0, <1>6, EndSays
  <2> QED
    BY <1>0, <1>i, <2>1 DEF SessionOK
<1>7. ASSUME z = Job, NEW h \in Hubs, PickHub(h)
      PROVE  SessionOK(z)'
  <2>1. /\ clock' = clock /\ pc[z] = "hub" /\ pc'[z] \in {"hub", "source"}
        /\ unit'[z].now = unit[z].now /\ unit'[z].cached = unit[z].cached
        /\ unit'[z].hits = unit[z].hits
    BY <1>0, <1>7, PickSays
  <2> QED
    BY <1>0, <2>1 DEF SessionOK
<1>8. ASSUME Fetch(z) \/ FetchSome(z)
      PROVE  SessionOK(z)'
  <2>1. /\ clock' = clock /\ pc[z] = "source" /\ pc'[z] \in {"hub", "answer", "write"}
        /\ unit'[z].now = unit[z].now /\ unit'[z].cached = unit[z].cached
        /\ unit'[z].hits = unit[z].hits
    BY <1>0, <1>8, FetchSays, FetchSomeSays DEF After
  <2> QED
    BY <1>0, <2>1 DEF SessionOK
<1>9. ASSUME Persist(z)
      PROVE  SessionOK(z)'
  <2>1. /\ clock' = clock /\ pc[z] = "write" /\ pc'[z] = "promote" /\ unit' = unit
        /\ DOMAIN rows'[unit[z].hub] = DOMAIN rows[unit[z].hub] \cup unit[z].got
    BY <1>0, <1>9, PersistSays
  <2> QED
    BY <1>0, <2>1 DEF SessionOK
<1>10. ASSUME Promote(z)
       PROVE  SessionOK(z)'
  <2>1. /\ clock' = clock /\ pc[z] = "promote" /\ pc'[z] \in {"hub", "answer"} /\ unit' = unit
    BY <1>0, <1>10, PromoteSays DEF After
  <2> QED
    BY <1>0, <2>1 DEF SessionOK
<1>11. ASSUME DatabaseError(z)
       PROVE  SessionOK(z)'
  <2>1. /\ clock' = clock /\ pc[z] \in {"table", "write"}
        /\ \/ pc'[z] = "hub" /\ unit'[z] = unit[z]
           \/ pc'[z] = "idle" /\ unit'[z] = Idle
    BY <1>0, <1>11, ErrorSays
  <2> QED
    BY <1>0, <1>i, <2>1 DEF SessionOK
<1>12. CASE Tick
  <2>1. /\ clock' = clock + 1 /\ pc' = pc /\ unit' = unit /\ rows' = rows
        /\ pc[z] # "idle" => clock < unit[z].now + Patience
    BY <1>12 DEF Tick, tables
  <2>2. /\ unit[z].now \in Nat /\ \A t \in DOMAIN unit[z].cached : unit[z].cached[t] \in Nat
        /\ \A t \in DOMAIN unit[z].hits : unit[z].hits[t] \in Nat
    BY <1>0, DateValues DEF Locals
  <2> QED
    BY <1>0, <1>i, <2>1, <2>2 DEF SessionOK
<1>13. CASE DropRun \/ UNCHANGED vars
  BY <1>0, <1>13, DropSays DEF SessionOK, vars, tables
<1>14. ASSUME Turn(z)
       PROVE  SessionOK(z)'
  BY <1>14, <1>2, <1>3, <1>4, <1>5, <1>6, <1>7, <1>8, <1>9, <1>10, <1>11 DEF Turn
<1> QED
  BY <1>1, <1>12, <1>13, <1>14, Turns

\* Entries come from fresh rows and from what was just committed; a tick drops the lapsed.
LEMMA CacheKept ==
    ASSUME Basics, [Next]_vars
    PROVE  CacheOK'
<1>0. /\ Shapes /\ RowsOK /\ CacheOK /\ clock \in Nat
      /\ \A s \in Sessions : SessionOK(s) /\ unit[s] \in Locals
      /\ Readers \subseteq Sessions
  BY DEF Basics, Shapes, Sessions
<1>i. Ttl \in Nat /\ L1Ttl \in Nat /\ Patience \in Nat
  BY TimesAreNat
<1>1. ASSUME NEW s \in Sessions, Turn(s), UNCHANGED l1
      PROVE  CacheOK'
  BY <1>0, <1>1, Alone DEF CacheOK
<1>2. ASSUME NEW r \in Readers, ReadRows(r)
      PROVE  CacheOK'
  <2> DEFINE h == unit[r].hub
             young == Part(Found(r), Young(r))
  <2>1. /\ pc[r] = "table" /\ h \in Hubs /\ clock' = clock /\ rows' = rows
        /\ l1' = Promoted(h, young)
    BY <1>0, <1>2, RowsSay DEF tables
  <2>2. /\ young \in Dates /\ DOMAIN young = Young(r)
        /\ \A t \in Young(r) : /\ t \in DOMAIN rows[h] /\ young[t] = rows[h][t]
                               /\ t \in DOMAIN Found(r) /\ Found(r)[t] = rows[h][t]
    BY ZenonT(40), <1>0, <1>2, <2>1, FoundIsDates
  <2>3. /\ unit[r].now \in Nat /\ clock <= unit[r].now + Patience
    BY <1>0, <1>2, <2>1 DEF SessionOK, Locals
  <2>4. \A t \in Young(r) : unit[r].now < young[t] + Ttl
    BY <2>2 DEF Young, IsFresh
  <2>5. \A t \in Young(r) : young[t] <= clock /\ young[t] \in Nat
    BY <1>0, <2>1, <2>2, DateValues DEF RowsOK
  <2> HIDE DEF young, h
  <2>6. /\ \A k \in Hubs \ {h} : l1'[k] = l1[k]
        /\ DOMAIN l1'[h] = DOMAIN l1[h] \cup DOMAIN young
        /\ \A t \in DOMAIN l1[h] \cup DOMAIN young :
             l1'[h][t] = IF t \in DOMAIN young THEN [at |-> young[t], until |-> clock + L1Ttl]
                         ELSE l1[h][t]
    BY <1>0, <2>1, <2>2, PromotedValue
  <2>7. ASSUME NEW t \in Young(r)
        PROVE  /\ l1'[h][t].at = young[t] /\ l1'[h][t].until = clock + L1Ttl
               /\ clock + L1Ttl < young[t] + Ttl + L1Ttl + Patience
    <3>1. l1'[h][t].at = young[t] /\ l1'[h][t].until = clock + L1Ttl
      <4>1. t \in DOMAIN young
        BY <2>2, <2>7
      <4>2. l1'[h][t] = [at |-> young[t], until |-> clock + L1Ttl]
        BY <2>6, <4>1
      <4> QED
        BY <4>2
    <3>2. young[t] \in Nat /\ unit[r].now < young[t] + Ttl
      BY <2>4, <2>5, <2>7
    <3> QED
      BY <1>0, <1>i, <2>3, <3>1, <3>2
  <2>8. ASSUME NEW t \in DOMAIN l1'[h], t \notin Young(r)
        PROVE  t \in DOMAIN l1[h] /\ l1'[h][t] = l1[h][t]
    BY <2>2, <2>6, <2>8
  <2>9. ASSUME NEW k \in Hubs, NEW t \in DOMAIN l1'[k]
        PROVE  /\ t \in DOMAIN rows[k] /\ l1'[k][t].at <= clock
               /\ clock <= l1'[k][t].until /\ l1'[k][t].until <= clock + L1Ttl
               /\ 0 < Ttl => l1'[k][t].until < l1'[k][t].at + Ttl + L1Ttl + Patience
    <3>1. CASE k # h
      BY <1>0, <2>6, <2>9, <3>1 DEF CacheOK
    <3>2. CASE k = h /\ t \in Young(r)
      BY <1>0, <1>i, <2>2, <2>5, <2>7, <3>2
    <3>3. CASE k = h /\ t \notin Young(r)
      BY <1>0, <2>8, <2>9, <3>3 DEF CacheOK
    <3> QED
      BY <3>1, <3>2, <3>3
  <2> QED
    BY <2>1, <2>9 DEF CacheOK
<1>3. ASSUME NEW s \in Sessions, Promote(s)
      PROVE  CacheOK'
  <2> DEFINE h == unit[s].hub
  <2>1. /\ pc[s] = "promote" /\ h \in Hubs /\ clock' = clock /\ rows' = rows
        /\ \A k \in Hubs \ {h} : l1'[k] = l1[k]
        /\ DOMAIN l1'[h] = DOMAIN l1[h] \cup unit[s].got
        /\ \A t \in DOMAIN l1'[h] :
             l1'[h][t] = IF t \in unit[s].got THEN [at |-> unit[s].now, until |-> clock + L1Ttl]
                         ELSE l1[h][t]
    BY <1>0, <1>3, PromoteSays DEF tables
  <2>2. /\ unit[s].now \in Nat /\ clock <= unit[s].now + Patience /\ unit[s].now <= clock
        /\ unit[s].got \subseteq DOMAIN rows[h]
    BY <1>0, <1>3, <2>1 DEF SessionOK, Locals
  <2> HIDE DEF h
  <2>3. ASSUME NEW k \in Hubs, NEW t \in DOMAIN l1'[k]
        PROVE  /\ t \in DOMAIN rows[k] /\ l1'[k][t].at <= clock
               /\ clock <= l1'[k][t].until /\ l1'[k][t].until <= clock + L1Ttl
               /\ 0 < Ttl => l1'[k][t].until < l1'[k][t].at + Ttl + L1Ttl + Patience
    <3>1. CASE k # h
      BY <1>0, <2>1, <2>3, <3>1 DEF CacheOK
    <3>2. CASE k = h /\ t \in unit[s].got
      <4>1. l1'[k][t].at = unit[s].now /\ l1'[k][t].until = clock + L1Ttl
        BY <2>1, <2>3, <3>2
      <4> QED
        BY <1>0, <1>i, <2>2, <3>2, <4>1
    <3>3. CASE k = h /\ t \notin unit[s].got
      BY <1>0, <2>1, <2>3, <3>3 DEF CacheOK
    <3> QED
      BY <3>1, <3>2, <3>3
  <2> QED
    BY <2>1, <2>3 DEF CacheOK
<1>4. ASSUME NEW s \in Sessions, Turn(s), ~Promote(s), ~(s \in Readers /\ ReadRows(s))
      PROVE  UNCHANGED l1
  BY <1>4 DEF Turn, Ask, Return, StartCycle, EndCycle, PickHub, Fetch, FetchSome,
     Persist, DatabaseError
<1>5. CASE Tick
  <2>1. /\ rows' = rows /\ clock' = clock + 1
        /\ l1' = [h \in Hubs |-> Part(l1[h], {t \in DOMAIN l1[h] : clock' < l1[h][t].until})]
    BY <1>5 DEF Tick, tables
  <2>2. ASSUME NEW h \in Hubs, NEW t \in DOMAIN l1'[h]
        PROVE  /\ t \in DOMAIN l1[h] /\ l1'[h][t] = l1[h][t] /\ clock' < l1[h][t].until
               /\ l1[h][t].at \in Nat /\ l1[h][t].until \in Nat
    <3>1. l1'[h] = Part(l1[h], {u \in DOMAIN l1[h] : clock' < l1[h][u].until})
      BY <2>1
    <3>2. t \in DOMAIN l1[h] /\ l1'[h][t] = l1[h][t] /\ clock' < l1[h][t].until
      BY <2>2, <3>1 DEF Part
    <3>3. l1[h] \in Entries
      BY <1>0 DEF Shapes
    <3> QED
      BY <3>2, <3>3, EntryValues
  <2>3. ASSUME NEW h \in Hubs, NEW t \in DOMAIN l1'[h]
        PROVE  /\ t \in DOMAIN rows[h] /\ l1'[h][t].at <= clock'
               /\ clock' <= l1'[h][t].until /\ l1'[h][t].until <= clock' + L1Ttl
               /\ 0 < Ttl => l1'[h][t].until < l1'[h][t].at + Ttl + L1Ttl + Patience
    <3>1. /\ t \in DOMAIN rows[h] /\ l1[h][t].at <= clock /\ l1[h][t].until <= clock + L1Ttl
          /\ 0 < Ttl => l1[h][t].until < l1[h][t].at + Ttl + L1Ttl + Patience
      BY <1>0, <2>2, <2>3 DEF CacheOK
    <3>2. /\ l1'[h][t].at = l1[h][t].at /\ l1'[h][t].until = l1[h][t].until
          /\ clock' < l1[h][t].until /\ l1[h][t].at \in Nat /\ l1[h][t].until \in Nat
      BY <2>2, <2>3
    <3>3. clock' = clock + 1 /\ rows' = rows
      BY <2>1
    <3> QED
      BY <1>0, <1>i, <3>1, <3>2, <3>3
  <2> QED
    BY <2>1, <2>3 DEF CacheOK
<1>6. CASE DropRun \/ UNCHANGED vars
  BY <1>0, <1>6, DropSays DEF CacheOK, vars, tables
<1> QED
  BY <1>1, <1>2, <1>3, <1>4, <1>5, <1>6, Turns

\* All of it together.
LEMMA BasicsKept == Basics /\ [Next]_vars => Basics'
  BY ShapesKept, RowsKept, SessionsKept, CacheKept DEF Basics
-----------------------------------------------------------------------------
(* What a reader knows of its basket *)

\* Each type wanted is a hit, a fresh row, or asked of the source; what the source still
\* owes when it has answered, it owes because of a failure.
ReaderOK(r) ==
    /\ DOMAIN unit[r].cached \subseteq unit[r].want \ DOMAIN unit[r].hits
    /\ unit[r].miss \subseteq unit[r].want
    /\ \A t \in DOMAIN unit[r].hits :
          0 < Ttl => unit[r].now < unit[r].hits[t] + Ttl + L1Ttl + Patience
    /\ pc[r] = "table" => unit[r].miss = {} /\ unit[r].got = {}
    /\ pc[r] \notin {"idle", "table"} =>
          \A t \in unit[r].want :
             \/ t \in DOMAIN unit[r].hits \cup unit[r].miss
             \/ t \in DOMAIN unit[r].cached /\ unit[r].now < unit[r].cached[t] + Ttl
    /\ pc[r] \in {"write", "promote", "answer"} =>
          unit[r].miss \subseteq unit[r].got \/ unit[r].hub \in hit

LEMMA IdleReader ==
    ASSUME NEW r \in Readers, unit[r] = Idle, pc[r] = "idle"
    PROVE  ReaderOK(r)
  BY IdleIsLocals DEF ReaderOK

\* A turn of another session changes nothing a reader relies on; its own keep it.
LEMMA ReadersKept ==
    ASSUME Basics, \A r \in Readers : ReaderOK(r), [Next]_vars, NEW r \in Readers
    PROVE  ReaderOK(r)'
<1>0. /\ Shapes /\ CacheOK /\ clock \in Nat /\ unit[r] \in Locals
      /\ r \in Sessions /\ r # Job /\ ReaderOK(r) /\ pc[r] \in Reading
  BY HubsAssumption DEF Basics, Shapes, Sessions
<1>i. /\ DOMAIN Idle.hits = {} /\ DOMAIN Idle.cached = {} /\ Idle.miss = {} /\ Idle.got = {}
      /\ DOMAIN None = {} /\ Ttl \in Nat /\ L1Ttl \in Nat /\ Patience \in Nat
  BY IdleIsLocals, TimesAreNat
<1>1. ASSUME NEW s \in Sessions, Turn(s), s # r
      PROVE  ReaderOK(r)'
  <2>1. clock' = clock /\ pc'[r] = pc[r] /\ unit'[r] = unit[r] /\ hit \subseteq hit'
    BY <1>0, <1>1, Alone
  <2> QED
    BY <1>0, <2>1 DEF ReaderOK
<1>2. ASSUME NEW h \in Hubs, NEW want \in SUBSET Goods[h] \ {{}}, Ask(r, h, want)
      PROVE  ReaderOK(r)'
  <2>1. /\ pc'[r] \in {"table", "answer"}
        /\ pc'[r] = "answer" => DOMAIN unit'[r].hits = want
        /\ unit'[r].hub = h /\ unit'[r].want = want /\ unit'[r].now = clock
        /\ unit'[r].cached = None /\ unit'[r].miss = {} /\ unit'[r].got = {}
        /\ DOMAIN unit'[r].hits \subseteq DOMAIN l1[h]
        /\ \A t \in DOMAIN unit'[r].hits : unit'[r].hits[t] = l1[h][t].at
    BY <1>0, <1>2, AskSays
  <2>2. ASSUME NEW t \in DOMAIN unit'[r].hits, 0 < Ttl
        PROVE  clock < unit'[r].hits[t] + Ttl + L1Ttl + Patience
    <3>1. /\ clock <= l1[h][t].until
          /\ l1[h][t].until < l1[h][t].at + Ttl + L1Ttl + Patience
      BY <1>0, <2>1, <2>2 DEF CacheOK
    <3>2. l1[h][t].at \in Nat /\ l1[h][t].until \in Nat
      BY <1>0, <2>1, <2>2, EntryValues DEF Shapes
    <3> QED
      BY SMTT(30), <1>0, <1>i, <2>1, <2>2, <3>1, <3>2
  <2> QED
    BY <1>i, <2>1, <2>2 DEF ReaderOK
<1>3. ASSUME ReadRows(r)
      PROVE  ReaderOK(r)'
  <2>1. /\ pc[r] = "table" /\ unit[r].hub \in Hubs
        /\ pc'[r] = IF Missing(r) = {} THEN "answer" ELSE "source"
        /\ unit'[r].cached = Found(r) /\ unit'[r].miss = Missing(r)
        /\ unit'[r].hub = unit[r].hub /\ unit'[r].want = unit[r].want
        /\ unit'[r].now = unit[r].now /\ unit'[r].hits = unit[r].hits
        /\ unit'[r].got = unit[r].got
    BY <1>0, <1>3, RowsSay
  <2>2. /\ DOMAIN Found(r) \subseteq unit[r].want \ DOMAIN unit[r].hits
        /\ Young(r) \subseteq DOMAIN Found(r)
    BY <1>0, <2>1, FoundIsDates
  <2>3. /\ Missing(r) = (unit[r].want \ DOMAIN unit[r].hits) \ Young(r)
        /\ \A t \in Young(r) : t \in DOMAIN Found(r) /\ unit[r].now < Found(r)[t] + Ttl
    BY DEF Missing, Young, IsFresh
  <2> QED
    BY <1>0, <2>1, <2>2, <2>3 DEF ReaderOK
<1>4. ASSUME Return(r) \/ DatabaseError(r)
      PROVE  ReaderOK(r)'
  <2>1. pc'[r] = "idle" /\ unit'[r] = Idle
    BY <1>0, <1>4, ReturnSays, ErrorSays
  <2> QED
    BY <1>i, <2>1 DEF ReaderOK
<1>5. ASSUME Fetch(r)
      PROVE  ReaderOK(r)'
  <2>1. ~Prewarms(r)
    BY <1>0 DEF Prewarms
  <2>2. /\ pc[r] = "source" /\ pc'[r] = "write" /\ unit'[r].got = unit[r].miss
        /\ unit'[r].hub = unit[r].hub /\ unit'[r].want = unit[r].want
        /\ unit'[r].now = unit[r].now /\ unit'[r].hits = unit[r].hits
        /\ unit'[r].cached = unit[r].cached /\ unit'[r].miss = unit[r].miss
    BY <1>0, <1>5, <2>1, FetchSays
  <2> QED
    BY <1>0, <2>2 DEF ReaderOK
<1>6. ASSUME FetchSome(r)
      PROVE  ReaderOK(r)'
  <2>1. /\ pc[r] = "source" /\ pc'[r] \in {"answer", "write"}
        /\ hit' = hit \cup {unit[r].hub}
        /\ unit'[r].hub = unit[r].hub /\ unit'[r].want = unit[r].want
        /\ unit'[r].now = unit[r].now /\ unit'[r].hits = unit[r].hits
        /\ unit'[r].cached = unit[r].cached /\ unit'[r].miss = unit[r].miss
    BY <1>0, <1>6, FetchSomeSays DEF After
  <2> QED
    BY <1>0, <2>1 DEF ReaderOK
<1>7. ASSUME Persist(r) \/ Promote(r)
      PROVE  ReaderOK(r)'
  <2>1. /\ pc[r] \in {"write", "promote"} /\ pc'[r] \in {"promote", "answer"}
        /\ unit' = unit /\ hit' = hit
    BY <1>0, <1>7, PersistSays, PromoteSays DEF After, history
  <2> QED
    BY <1>0, <2>1 DEF ReaderOK
<1>8. CASE Tick \/ DropRun \/ UNCHANGED vars
  <2>1. UNCHANGED <<pc, unit, hit>>
    BY <1>8, DropSays DEF Tick, vars, history
  <2> QED
    BY <1>0, <2>1 DEF ReaderOK
<1>9. ASSUME Turn(r)
      PROVE  ReaderOK(r)'
  BY <1>0, <1>9, <1>2, <1>3, <1>4, <1>5, <1>6, <1>7 DEF Turn
<1> QED
  BY <1>0, <1>1, <1>8, <1>9, Turns

-----------------------------------------------------------------------------
(* What a cycle knows of the regions *)

\* Prices the cycle has still to look at, or has in hand.
Waiting(h, t) ==
    /\ pc[Job] # "idle"
    /\ \/ h \in todo
       \/ pc[Job] \in {"source", "write"} /\ unit[Job].hub = h /\ t \in unit[Job].miss

\* Runs fall due one interval apart, and never in the past.  While a cycle is busy the next
\* one is a number of intervals after its start, which its patience bounds.
OnTime ==
    /\ clock <= nextRun /\ nextRun <= clock + Interval
    /\ pc[Job] # "idle" => /\ \E k \in Nat : nextRun = unit[Job].now + k * Interval
                           /\ nextRun <= unit[Job].now + Interval + Overrun

\* When the next cycle starts at the latest, whatever runs are dropped before.
Latest == IF pc[Job] = "idle" THEN nextRun ELSE unit[Job].now + Interval + Overrun

\* What the cycle has in hand for a region it renews, or a source failed.
Renewing ==
    pc[Job] = "write" => \/ unit[Job].miss \subseteq unit[Job].got
                         \/ unit[Job].hub \in hit \cup Structures

\* A price waits only while it lasts beyond the start of the cycle; all others last until
\* the next one.
Warm(h, t) == IF Waiting(h, t) THEN unit[Job].now <= rows[h][t] + Ttl + Overrun
              ELSE Latest <= rows[h][t] + Ttl + Overrun

CycleOK ==
    /\ OnTime /\ Renewing
    /\ \A h \in Regions \ (hit \cup starved) : \A t \in DOMAIN rows[h] : Warm(h, t)

\* An interval and a request fit into the lifetime of a row.  The settings' defaults leave 50
\* minutes; the code does not check it, and without it a price can lapse.
Prompt == Interval + Patience <= Ttl

\* Whole intervals that fit into a cycle are no more than it can overrun, and none fits into
\* one that is shorter.
LEMMA OverrunBounds ==
    /\ Overrun \in Nat /\ Overrun <= Patience /\ (Patience < Interval => Overrun = 0)
    /\ \A k \in Nat : k * Interval <= Patience => k * Interval <= Overrun
<1> DEFINE q == Patience \div Interval
<1>1. Interval \in Nat /\ Interval > 0 /\ Patience \in Nat
  BY TimesAreNat
<1>2. q \in Nat /\ q * Interval <= Patience /\ Patience < (q + 1) * Interval
  BY <1>1
<1>3. Overrun = q * Interval
  BY DEF Overrun
<1> HIDE DEF q
<1>4. q * Interval \in Nat
  BY <1>1, <1>2
<1>5. ASSUME NEW k \in Nat, k * Interval <= Patience
      PROVE  k * Interval <= q * Interval
  <2>1. CASE k <= q
    BY <1>1, <1>2, <2>1
  <2>2. CASE k >= q + 1
    <3>1. k * Interval >= (q + 1) * Interval
      BY <1>1, <1>2, <2>2
    <3>2. k * Interval \in Nat /\ (q + 1) * Interval \in Nat
      BY <1>1, <1>2
    <3> QED
      BY <1>1, <1>2, <1>5, <3>1, <3>2
  <2> QED
    BY <1>2, <2>1, <2>2
<1>6. ASSUME Patience < Interval PROVE q * Interval = 0
  <2>1. q * Interval < 1 * Interval
    BY <1>1, <1>2, <1>4, <1>6
  <2>2. q = 0
    <3> SUFFICES ASSUME q >= 1 PROVE FALSE
      BY <1>2
    <3>1. q * Interval >= 1 * Interval
      BY <1>1, <1>2
    <3> QED
      BY <1>1, <1>4, <2>1, <3>1
  <2> QED
    BY <1>1, <2>2
<1> QED
  BY <1>2, <1>3, <1>4, <1>5, <1>6

\* The runs that a busy cycle swallows fall due before its patience ends.
LEMMA OnTimeKept ==
    ASSUME Basics, OnTime, [Next]_vars
    PROVE  OnTime'
<1>0. /\ Shapes /\ clock \in Nat /\ nextRun \in Nat /\ Job \in Sessions /\ unit[Job].now \in Nat
      /\ SessionOK(Job)
      /\ Interval \in Nat /\ Interval > 0 /\ Patience \in Nat /\ Overrun \in Nat
      /\ Overrun' = Overrun
  BY TimesAreNat, OverrunBounds DEF Basics, Shapes, Sessions, Locals, Overrun
<1>1. ASSUME NEW s \in Sessions, Turn(s), s # Job
      PROVE  OnTime'
  <2>1. UNCHANGED nextRun
    BY <1>1 DEF Turn, Ask, ReadRows, Return, Fetch, FetchSome, Persist, Promote, DatabaseError, cycle
  <2>2. clock' = clock /\ pc'[Job] = pc[Job] /\ unit'[Job] = unit[Job]
    BY <1>0, <1>1, Alone
  <2> QED
    BY <1>0, <2>1, <2>2 DEF OnTime
<1>2. CASE StartCycle
  <2>1. /\ pc'[Job] = "hub" /\ clock = nextRun /\ nextRun' = nextRun + Interval
        /\ unit'[Job].now = clock /\ clock' = clock
    BY <1>0, <1>2, StartSays
  <2>2. nextRun' = unit'[Job].now + 1 * Interval
    BY <1>0, <2>1
  <2>3. \E k \in Nat : nextRun' = unit'[Job].now + k * Interval
    BY <2>2
  <2>4. clock' <= nextRun' /\ nextRun' <= unit'[Job].now + Interval + Overrun
    BY <1>0, <2>1
  <2> QED
    BY <1>0, <2>1, <2>3, <2>4 DEF OnTime
<1>3. CASE DropRun
  <2>1. /\ pc[Job] # "idle" /\ clock = nextRun /\ nextRun' = nextRun + Interval
        /\ UNCHANGED <<clock, pc, unit>>
    BY <1>3, DropSays
  <2>2. PICK k \in Nat : nextRun = unit[Job].now + k * Interval
    BY <2>1 DEF OnTime
  <2>3. k * Interval \in Nat /\ (k + 1) * Interval = k * Interval + Interval
    BY <1>0
  <2>4. k * Interval <= Patience
    BY <1>0, <2>1, <2>2, <2>3 DEF SessionOK
  <2>5. k * Interval <= Overrun
    BY <2>4, OverrunBounds
  <2>6. nextRun' = unit[Job].now + (k + 1) * Interval /\ k + 1 \in Nat
    BY <1>0, <2>1, <2>2, <2>3
  <2>7. /\ clock' <= nextRun' /\ nextRun' <= clock' + Interval
        /\ nextRun' <= unit'[Job].now + Interval + Overrun'
    BY <1>0, <2>1, <2>2, <2>3, <2>5
  <2>8. \E n \in Nat : nextRun' = unit'[Job].now + n * Interval
    BY <2>1, <2>6
  <2> QED
    BY Zenon, <2>7, <2>8 DEF OnTime
<1>4. CASE EndCycle
  <2>1. pc[Job] = "hub" /\ pc'[Job] = "idle" /\ clock' = clock /\ nextRun' = nextRun
    BY <1>0, <1>4, EndSays DEF cycle
  <2>2. nextRun <= clock + Interval
    BY DEF OnTime
  <2> QED
    BY <1>0, <2>1, <2>2 DEF OnTime
<1>5. ASSUME \/ \E h \in Hubs : PickHub(h)
             \/ Fetch(Job) \/ FetchSome(Job) \/ Persist(Job) \/ Promote(Job)
             \/ DatabaseError(Job)
      PROVE  OnTime'
  <2>1. /\ pc[Job] # "idle" /\ pc'[Job] # "idle" /\ nextRun' = nextRun /\ clock' = clock
        /\ unit'[Job].now = unit[Job].now
    BY <1>0, <1>5, PickSays, FetchSays, FetchSomeSays, PersistSays, PromoteSays, ErrorSays
       DEF After, cycle, Shapes, Cycling
  <2> QED
    BY <1>0, <2>1 DEF OnTime
<1>6. CASE Tick
  <2>1. clock' = clock + 1 /\ UNCHANGED <<pc, unit, nextRun>> /\ clock < nextRun
    BY <1>6 DEF Tick, cycle
  <2> QED
    BY <1>0, <2>1 DEF OnTime
<1>7. CASE UNCHANGED vars
  BY <1>0, <1>7 DEF vars, cycle, OnTime
<1> QED
  BY <1>0, <1>1, <1>2, <1>3, <1>4, <1>5, <1>6, <1>7, Turns, HubsAssumption DEF Turn

\* The source of a region answers for each type asked, or it failed.
LEMMA RenewingKept ==
    ASSUME Basics, Renewing, [Next]_vars
    PROVE  Renewing'
<1>0. Shapes /\ Job \in Sessions
  BY DEF Basics, Sessions
<1>1. ASSUME NEW s \in Sessions, Turn(s), s # Job
      PROVE  Renewing'
  BY <1>0, <1>1, Alone DEF Renewing
<1>2. ASSUME Turn(Job), ~Fetch(Job), ~FetchSome(Job)
      PROVE  pc'[Job] # "write"
  BY <1>0, <1>2, StartSays, EndSays, PickSays, PersistSays, PromoteSays, ErrorSays, HubsAssumption
     DEF Turn, After
<1>3. CASE Fetch(Job)
  BY <1>0, <1>3, FetchSays DEF Renewing, Prewarms
<1>4. CASE FetchSome(Job)
  BY <1>0, <1>4, FetchSomeSays DEF Renewing
<1>5. CASE Tick \/ DropRun \/ UNCHANGED vars
  BY <1>5, DropSays DEF Tick, vars, history, Renewing
<1> QED
  BY <1>1, <1>2, <1>3, <1>4, <1>5, Turns DEF Renewing

\* What a session writes is young enough to last until the next cycle.
LEMMA NewRowIsWarm ==
    ASSUME Basics, Prompt, OnTime, NEW at \in Nat, clock <= at + Patience
    PROVE  /\ Latest <= at + Ttl + Overrun
           /\ pc[Job] # "idle" => unit[Job].now <= at + Ttl + Overrun
<1>1. /\ clock \in Nat /\ nextRun \in Nat /\ unit[Job].now \in Nat /\ SessionOK(Job)
      /\ Interval \in Nat /\ Patience \in Nat /\ Ttl \in Nat /\ Overrun \in Nat
  BY TimesAreNat, OverrunBounds DEF Basics, Shapes, Sessions, Locals
<1> QED
  BY <1>1 DEF OnTime, Prompt, SessionOK, Latest

\* Every price is passed on from waiting to lasting, or its hub is marked as failed.
LEMMA WarmKept ==
    ASSUME Basics, Prompt, CycleOK, [Next]_vars,
           NEW h \in Regions, h \notin hit' \cup starved', NEW t \in DOMAIN rows'[h]
    PROVE  Warm(h, t)'
<1>0. /\ Shapes /\ OnTime /\ Renewing /\ clock \in Nat /\ nextRun \in Nat /\ unit[Job].now \in Nat
      /\ Job \in Sessions /\ h \in Hubs /\ h \notin Structures
      /\ Interval \in Nat /\ Ttl \in Nat /\ Interval <= Ttl /\ Overrun \in Nat
      /\ Overrun' = Overrun /\ rows[h] \in Dates
  BY HubsAssumption, TimesAreNat, OverrunBounds DEF Overrun, Basics, CycleOK, Prompt, Shapes, Sessions, Locals, Hubs
<1>1. ASSUME h \notin hit \cup starved, NEW u \in DOMAIN rows[h]
      PROVE  Warm(h, u) /\ rows[h][u] \in Nat
  BY <1>0, <1>1, DateValues DEF CycleOK
<1>2. ASSUME NEW s \in Sessions, Persist(s)
      PROVE  Warm(h, t)'
  <2>1. /\ pc[s] = "write" /\ pc'[s] = "promote" /\ unit[s].hub \in Hubs
        /\ \A k \in Hubs \ {unit[s].hub} : rows'[k] = rows[k]
        /\ DOMAIN rows'[unit[s].hub] = DOMAIN rows[unit[s].hub] \cup unit[s].got
        /\ \A u \in DOMAIN rows'[unit[s].hub] :
              rows'[unit[s].hub][u] = IF u \in unit[s].got THEN unit[s].now
                                      ELSE rows[unit[s].hub][u]
        /\ \A z \in Sessions \ {s} : pc'[z] = pc[z]
        /\ UNCHANGED <<unit, nextRun, todo, hit, starved>>
    BY <1>0, <1>2, PersistSays DEF cycle
  <2>2. CASE h = unit[s].hub /\ t \in unit[s].got
    <3>1. rows'[h][t] = unit[s].now
      BY <2>1, <2>2
    <3>2. unit[s].now \in Nat /\ clock <= unit[s].now + Patience
      BY <2>1 DEF Basics, Shapes, SessionOK, Locals
    <3>3. /\ Latest <= unit[s].now + Ttl + Overrun
          /\ pc[Job] # "idle" => unit[Job].now <= unit[s].now + Ttl + Overrun
      BY <1>0, <3>2, NewRowIsWarm DEF CycleOK
    <3>4. pc'[Job] # "idle" <=> pc[Job] # "idle"
      <4>1. CASE s = Job
        BY <2>1, <4>1
      <4>2. CASE s # Job
        BY <1>0, <2>1, <4>2
      <4> QED
        BY <4>1, <4>2
    <3> QED
      BY <1>0, <2>1, <3>1, <3>3, <3>4 DEF Warm, Waiting, Latest
  <2>3. CASE ~(h = unit[s].hub /\ t \in unit[s].got)
    <3>1. t \in DOMAIN rows[h] /\ rows'[h][t] = rows[h][t]
      BY <1>0, <2>1, <2>3
    <3>2. Warm(h, t)
      BY <1>1, <2>1, <3>1
    <3>3. CASE s # Job
      BY <1>0, <2>1, <3>1, <3>2, <3>3 DEF Warm, Waiting, Latest
    <3>4. CASE s = Job
      <4>1. Waiting(h, t) => h \in todo
        BY <1>0, <2>1, <2>3, <3>4 DEF Waiting, Renewing
      <4> QED
        BY <1>0, <2>1, <3>1, <3>2, <3>4, <4>1 DEF Warm, Waiting, Latest
    <3> QED
      BY <3>3, <3>4
  <2> QED
    BY <2>2, <2>3
<1>3. ASSUME UNCHANGED rows, hit \subseteq hit', starved \subseteq starved'
      PROVE  t \in DOMAIN rows[h] /\ rows'[h][t] = rows[h][t] /\ Warm(h, t) /\ rows[h][t] \in Nat
  BY <1>1, <1>3
<1>4. ASSUME NEW s \in Sessions, Turn(s), s # Job, ~Persist(s)
      PROVE  Warm(h, t)'
  <2>1. UNCHANGED <<rows, nextRun, todo>>
    BY <1>4 DEF Turn, Ask, ReadRows, Return, Fetch, FetchSome, Promote, DatabaseError, cycle, tables
  <2>2. /\ pc'[Job] = pc[Job] /\ unit'[Job] = unit[Job]
        /\ hit \subseteq hit' /\ starved \subseteq starved'
    BY <1>0, <1>4, Alone
  <2> QED
    BY <1>0, <1>3, <2>1, <2>2 DEF Warm, Waiting, Latest
<1>5. CASE StartCycle
  <2>1. /\ pc[Job] = "idle" /\ pc'[Job] = "hub" /\ clock = nextRun /\ todo' = Hubs
        /\ unit'[Job].now = clock /\ UNCHANGED <<rows, hit, starved>>
    BY <1>0, <1>5, StartSays DEF tables, history
  <2>2. Waiting(h, t)' /\ ~Waiting(h, t)
    BY <1>0, <2>1 DEF Waiting
  <2> QED
    BY <1>0, <1>3, <2>1, <2>2 DEF Warm, Latest
<1>6. CASE EndCycle
  <2>1. /\ pc[Job] = "hub" /\ pc'[Job] = "idle" /\ todo = {}
        /\ UNCHANGED <<rows, hit, starved, nextRun>>
    BY <1>0, <1>6, EndSays DEF tables, history, cycle
  <2>2. ~Waiting(h, t)' /\ ~Waiting(h, t)
    BY <2>1 DEF Waiting
  <2>3. nextRun <= Latest
    BY <2>1, <1>0 DEF OnTime, Latest
  <2>4. Latest' = nextRun /\ Latest \in Nat
    BY <1>0, <2>1 DEF Latest
  <2>5. Latest <= rows[h][t] + Ttl + Overrun /\ rows'[h][t] = rows[h][t] /\ rows[h][t] \in Nat
    BY <1>3, <2>1, <2>2 DEF Warm
  <2>6. Latest' <= rows'[h][t] + Ttl + Overrun
    BY <1>0, <2>3, <2>4, <2>5
  <2> QED
    BY <1>0, <2>2, <2>6 DEF Warm
<1>7. ASSUME NEW k \in Hubs, PickHub(k)
      PROVE  Warm(h, t)'
  <2>1. /\ pc[Job] = "hub" /\ pc'[Job] \in {"hub", "source"} /\ todo' = todo \ {k} /\ k \in todo
        /\ unit'[Job].now = unit[Job].now
        /\ UNCHANGED <<rows, hit, nextRun>> /\ starved \subseteq starved'
        /\ pc'[Job] = "source" => /\ unit'[Job].hub = k
                                  /\ unit'[Job].miss = Due(k, unit[Job].now)
        /\ pc'[Job] = "hub" => k \in starved' \/ Due(k, unit[Job].now) = {}
    BY <1>0, <1>7, PickSays DEF tables, PickHub
  <2>2. t \in DOMAIN rows[h] /\ rows'[h][t] = rows[h][t] /\ Warm(h, t) /\ rows[h][t] \in Nat
    BY <1>3, <2>1
  <2>3. CASE k # h
    BY <1>0, <2>1, <2>2, <2>3 DEF Warm, Waiting, Latest
  <2>4. CASE k = h
    <3>1. unit[Job].now <= rows[h][t] + Ttl + Overrun
      BY <2>1, <2>2, <2>4 DEF Warm, Waiting
    <3>2. CASE t \in Due(h, unit[Job].now)
      <4>1. Waiting(h, t)'
        BY <2>1, <2>4, <3>2 DEF Waiting
      <4> QED
        BY <1>0, <2>1, <2>2, <3>1, <4>1 DEF Warm
    <3>3. CASE t \notin Due(h, unit[Job].now)
      <4>1. ~PastCutoff(rows[h][t], unit[Job].now)
        BY <2>2, <3>3 DEF Due
      <4>2. unit[Job].now <= rows[h][t] + Lead /\ Lead = Ttl - Interval
        BY <1>0, <2>2, <4>1 DEF PastCutoff, Lead
      <4>3. Latest' = unit[Job].now + Interval + Overrun
        BY <1>0, <2>1 DEF Latest
      <4>4. Latest' <= rows[h][t] + Ttl + Overrun
        BY <1>0, <2>2, <4>2, <4>3
      <4>5. ~Waiting(h, t)'
        BY <2>1, <2>4, <3>3 DEF Waiting
      <4> QED
        BY <1>0, <2>1, <2>2, <4>4, <4>5 DEF Warm
    <3> QED
      BY <3>2, <3>3
  <2> QED
    BY <2>3, <2>4
<1>8. CASE Fetch(Job) \/ Promote(Job)
  <2>1. /\ UNCHANGED <<rows, todo, nextRun, hit, starved>>
        /\ unit'[Job].now = unit[Job].now /\ unit'[Job].hub = unit[Job].hub
        /\ unit'[Job].miss = unit[Job].miss
        /\ \/ pc[Job] = "source" /\ pc'[Job] = "write"
           \/ pc[Job] = "promote" /\ pc'[Job] = "hub"
    BY <1>0, <1>8, FetchSays, PromoteSays DEF tables, history, cycle, After
  <2> QED
    BY <1>0, <1>3, <2>1 DEF Warm, Waiting, Latest
<1>9. CASE FetchSome(Job) \/ DatabaseError(Job)
  <2>1. /\ UNCHANGED <<rows, todo, nextRun, starved>> /\ hit' = hit \cup {unit[Job].hub}
        /\ unit'[Job].now = unit[Job].now /\ unit'[Job].hub = unit[Job].hub
        /\ pc[Job] # "idle" /\ pc'[Job] # "idle"
    BY <1>0, <1>9, FetchSomeSays, ErrorSays DEF tables, history, cycle, After
  <2> QED
    BY <1>0, <1>3, <2>1 DEF Warm, Waiting, Latest
<1>10. CASE Tick \/ DropRun \/ UNCHANGED vars
  <2>1. /\ UNCHANGED <<rows, pc, unit, todo, hit, starved>>
        /\ pc[Job] = "idle" => nextRun' = nextRun
    BY <1>10, DropSays DEF Tick, vars, tables, cycle, history
  <2> QED
    BY <1>0, <1>3, <2>1 DEF Warm, Waiting, Latest
<1> QED
  BY <1>0, <1>2, <1>4, <1>5, <1>6, <1>7, <1>8, <1>9, <1>10, Turns, HubsAssumption DEF Turn
-----------------------------------------------------------------------------
(* The results *)

IInv == Basics /\ (\A r \in Readers : ReaderOK(r)) /\ (Prompt => CycleOK)

LEMMA Starts == Init => IInv
<1> SUFFICES ASSUME Init PROVE IInv
  OBVIOUS
<1>1. /\ clock = 0 /\ rows = [h \in Hubs |-> None] /\ marker = [h \in Structures |-> Nil]
      /\ l1 = [h \in Hubs |-> None]
      /\ pc = [s \in Sessions |-> "idle"] /\ unit = [s \in Sessions |-> Idle]
      /\ nextRun = 0 /\ todo = {} /\ broken = FALSE
      /\ hit = {} /\ starved = {} /\ full = [h \in Structures |-> Nil]
      /\ requests = 0 /\ failures = 0
  BY DEF Init
<1>2. None \in Dates /\ None \in Entries /\ DOMAIN None = {} /\ Idle \in Locals
  BY NoneIsPartial, IdleIsLocals DEF Dates, Entries
<1>3. Readers \subseteq Sessions /\ Job \in Sessions
  BY DEF Sessions
<1>4. {MaxClock, MaxRequests, MaxFailures} \subseteq Nat
  BY TimesAssumption
<1>5. Shapes
  <2>1. /\ clock \in 0..MaxClock /\ failures \in 0..MaxFailures /\ requests \in 0..MaxRequests
    BY <1>1, <1>4
  <2>2. rows \in [Hubs -> Dates] /\ l1 \in [Hubs -> Entries] /\ unit \in [Sessions -> Locals]
    BY <1>1, <1>2
  <2>3. /\ pc \in [Sessions -> Reading \cup Cycling] /\ \A s \in Sessions : pc[s] = "idle"
        /\ \A r \in Readers : pc[r] \in Reading
    BY <1>1, <1>3 DEF Reading, Cycling
  <2>4. pc[Job] \in Cycling
    BY <1>1, <1>3 DEF Cycling
  <2>5. marker \in [Structures -> Nat \cup {Nil}] /\ full = marker
    BY <1>1
  <2> QED
    BY <1>1, <2>1, <2>2, <2>3, <2>4, <2>5 DEF Shapes
<1>6. RowsOK /\ CacheOK
  BY <1>1, <1>2 DEF RowsOK, CacheOK
<1>7. \A s \in Sessions : SessionOK(s)
  BY <1>1, <1>2, IdleIsLocals DEF SessionOK
<1>8. \A r \in Readers : ReaderOK(r)
  BY <1>1, <1>3, IdleReader
<1>9. Interval \in Nat
  BY TimesAreNat
<1>10. CycleOK
  BY <1>1, <1>2, <1>3, <1>9 DEF CycleOK, OnTime, Renewing, Hubs
<1> QED
  BY <1>5, <1>6, <1>7, <1>8, <1>10 DEF IInv, Basics

LEMMA Steps == IInv /\ [Next]_vars => IInv'
<1> SUFFICES ASSUME IInv, [Next]_vars PROVE IInv'
  OBVIOUS
<1>1. Basics'
  BY BasicsKept DEF IInv
<1>2. \A r \in Readers : ReaderOK(r)'
  BY ReadersKept DEF IInv
<1>3. ASSUME Prompt PROVE CycleOK'
  <2>1. OnTime'
    BY <1>3, OnTimeKept DEF IInv, CycleOK
  <2>2. Renewing'
    BY <1>3, RenewingKept DEF IInv, CycleOK
  <2>3. \A h \in Regions : h \notin hit' \cup starved' => \A t \in DOMAIN rows'[h] : Warm(h, t)'
    BY <1>3, WarmKept DEF IInv
  <2> QED
    BY <2>1, <2>2, <2>3 DEF CycleOK
<1>4. Prompt' <=> Prompt
  BY DEF Prompt
<1> QED
  BY <1>1, <1>2, <1>3, <1>4 DEF IInv

LEMMA Inductive == Spec => []IInv
  BY Starts, Steps, PTL DEF Spec

LEMMA TypesHold == IInv => TypeOK
<1> SUFFICES ASSUME IInv PROVE TypeOK
  OBVIOUS
<1>0. Shapes /\ RowsOK /\ CacheOK /\ clock \in Nat /\ \A s \in Sessions : SessionOK(s)
  BY DEF IInv, Basics, Shapes
<1>1. /\ clock \in 0..MaxClock /\ nextRun \in Nat /\ failures \in 0..MaxFailures
      /\ requests \in 0..MaxRequests /\ todo \subseteq Hubs /\ broken \in BOOLEAN
      /\ hit \subseteq Hubs /\ starved \subseteq Hubs
  BY <1>0 DEF Shapes
<1>2. ASSUME NEW h \in Hubs
      PROVE  /\ Prices(rows[h]) /\ DOMAIN l1[h] \subseteq DOMAIN rows[h]
             /\ \A t \in DOMAIN l1[h] : l1[h][t].at \in 0..clock /\ l1[h][t].until <= clock + L1Ttl
  <2>1. rows[h] \in Dates /\ l1[h] \in Entries
    BY <1>0 DEF Shapes
  <2>2. Prices(rows[h])
    BY <1>0, <2>1, DateValues DEF Prices, RowsOK
  <2>3. \A t \in DOMAIN l1[h] : l1[h][t].at \in Nat
    BY <2>1, EntryValues
  <2> QED
    BY <1>0, <2>2, <2>3 DEF CacheOK
<1>3. \A h \in Structures : marker[h] \in Nat \cup {Nil}
  BY <1>0 DEF Shapes
<1>4. ASSUME NEW s \in Sessions
      PROVE  /\ pc[s] \in {"idle", "table", "answer", "hub", "source", "write", "promote"}
             /\ unit[s].hub \in Hubs \cup {Nil} /\ unit[s].now <= clock
             /\ Prices(unit[s].cached) /\ Prices(unit[s].hits)
             /\ unit[s].miss \cup unit[s].got \cup unit[s].want \subseteq Types
  <2>1. unit[s] \in Locals /\ pc[s] \in Reading \cup Cycling
    BY <1>0 DEF Shapes
  <2>2. /\ unit[s].hub \in Hubs \cup {Nil} /\ unit[s].cached \in Dates /\ unit[s].hits \in Dates
        /\ unit[s].miss \cup unit[s].got \cup unit[s].want \subseteq Types
    BY <2>1 DEF Locals
  <2>3. Prices(unit[s].cached) /\ Prices(unit[s].hits)
    BY <1>0, <2>2, DateValues DEF Prices, SessionOK
  <2>4. pc[s] \in {"idle", "table", "answer", "hub", "source", "write", "promote"}
    BY <2>1 DEF Reading, Cycling
  <2> QED
    BY <1>0, <2>2, <2>3, <2>4 DEF SessionOK
<1> QED
  BY <1>1, <1>2, <1>3, <1>4 DEF TypeOK

\* The entries' ages, as the property states them.
LEMMA StaysClean == ASSUME IInv, 0 < Ttl PROVE CacheNotPoisoned
<1>1. ASSUME NEW h \in Hubs, NEW t \in DOMAIN l1[h]
      PROVE  PromotedAt(l1[h][t]) < l1[h][t].at + Ttl + Patience
  <2>1. l1[h][t].until < l1[h][t].at + Ttl + L1Ttl + Patience
    BY DEF IInv, Basics, CacheOK
  <2>2. l1[h][t].at \in Nat /\ l1[h][t].until \in Nat
    BY EntryValues DEF IInv, Basics, Shapes
  <2> QED
    BY <2>1, <2>2, TimesAreNat DEF PromotedAt
<1> QED
  BY <1>1 DEF CacheNotPoisoned

\* Waiting prices last to the start of the cycle and a cycle is prompt.
LEMMA StaysWarm == ASSUME IInv, Prompt PROVE RegionsStayWarm
<1>0. /\ Shapes /\ CycleOK /\ SessionOK(Job) /\ clock \in Nat /\ nextRun \in Nat
      /\ unit[Job].now \in Nat
      /\ Ttl \in Nat /\ Interval \in Nat /\ Patience \in Nat /\ Overrun \in Nat
  BY TimesAreNat, OverrunBounds DEF IInv, Basics, Shapes, Sessions, Locals
<1>1. ASSUME NEW h \in Regions \ (hit \cup starved), NEW t \in DOMAIN rows[h]
      PROVE  clock <= rows[h][t] + Ttl + Overrun + Patience
  <2>1. rows[h][t] \in Nat
    BY <1>0, DateValues DEF Shapes, Hubs
  <2>2. Warm(h, t) /\ OnTime
    BY <1>0 DEF CycleOK
  <2>3. pc[Job] # "idle" => clock <= unit[Job].now + Patience
    BY <1>0 DEF SessionOK
  <2>4. Waiting(h, t) => pc[Job] # "idle"
    BY DEF Waiting
  <2> QED
    BY <1>0, <2>1, <2>2, <2>3, <2>4 DEF Warm, OnTime, Latest
<1> QED
  BY <1>1 DEF RegionsStayWarm

\* The invariant holds whatever the settings; what it says of lifetimes depends on them.
\* Nothing enters L1 that had lapsed by more than one request, and the prices of a region
\* are renewed before they lapse, up to the time a cycle takes and the runs dropped for one
\* that takes longer than the interval (get_market_prices, refresh_due_prices,
\* max_instances), when an interval and a request fit into the lifetime of a row.
THEOREM PricesStayFresh == ASSUME Prompt PROVE Spec => []PricesFresh
<1>1. 0 < Ttl
  BY TimesAreNat DEF Prompt
<1>2. IInv => PricesFresh
  BY <1>1, TypesHold, StaysClean, StaysWarm DEF PricesFresh
<1> QED
  BY <1>2, Inductive, PTL

\* What a request returns from the table or the source is younger than the lifetime of a row
\* and one request, except where its source has just failed; what it returns from L1 is
\* younger than both lifetimes and two requests; and it has every type that a row or the
\* source had (get_market_prices).  Lifetimes must not be zero.
THEOREM AnswersStayTrue == ASSUME 0 < Ttl PROVE Spec => AnswersTrue
<1>1. ASSUME IInv, NEW r \in Readers, pc[r] = "answer"
      PROVE  /\ \A t \in DOMAIN Answer(r) :
                  \/ clock < Answer(r)[t] + Ttl + Patience
                  \/ t \in unit[r].miss \ unit[r].got
                  \/ /\ t \in DOMAIN unit[r].hits
                     /\ clock < Answer(r)[t] + Ttl + L1Ttl + 2 * Patience
             /\ \A t \in unit[r].want :
                  t \in DOMAIN Answer(r) \/ (t \notin DOMAIN unit[r].cached /\ unit[r].hub \in hit)
  <2>0. /\ ReaderOK(r) /\ SessionOK(r) /\ clock \in Nat /\ unit[r] \in Locals
        /\ Ttl \in Nat /\ L1Ttl \in Nat /\ Patience \in Nat
    BY <1>1, TimesAreNat DEF IInv, Basics, Shapes, Sessions
  <2>1. /\ unit[r].now \in Nat /\ unit[r].got \in SUBSET Types
        /\ unit[r].cached \in Dates /\ unit[r].hits \in Dates
    BY <2>0 DEF Locals
  <2> DEFINE c == unit[r].cached
             g == At(unit[r].got, unit[r].now)
             k == unit[r].hits
  <2>2. g \in Dates /\ DOMAIN g = unit[r].got /\ \A t \in unit[r].got : g[t] = unit[r].now
    BY <2>1, AtIsDates
  <2>3. Answer(r) = Over(Over(c, g), k)
    BY DEF Answer
  <2> HIDE DEF g
  <2>4. /\ Over(c, g) \in Dates /\ DOMAIN Over(c, g) = DOMAIN c \cup DOMAIN g
        /\ \A t \in DOMAIN c \cup DOMAIN g : Over(c, g)[t] = IF t \in DOMAIN g THEN g[t] ELSE c[t]
    BY <2>1, <2>2, OverIsDates
  <2>5. /\ DOMAIN Over(Over(c, g), k) = DOMAIN Over(c, g) \cup DOMAIN k
        /\ \A t \in DOMAIN Over(c, g) \cup DOMAIN k :
              Over(Over(c, g), k)[t] = IF t \in DOMAIN k THEN k[t] ELSE Over(c, g)[t]
    BY ZenonT(40), <2>1, <2>4, OverIsDates
  <2>6. DOMAIN Answer(r) = DOMAIN c \cup unit[r].got \cup DOMAIN k
    BY <2>2, <2>3, <2>4, <2>5
  <2>7. clock <= unit[r].now + Patience
    BY <1>1, <2>0 DEF SessionOK
  <2>8. ASSUME NEW t \in DOMAIN Answer(r), t \notin unit[r].miss \ unit[r].got
        PROVE  \/ clock < Answer(r)[t] + Ttl + Patience
               \/ t \in DOMAIN k /\ clock < Answer(r)[t] + Ttl + L1Ttl + 2 * Patience
    <3>1. CASE t \in DOMAIN k
      <4>1. Answer(r)[t] = k[t]
        BY <2>3, <2>5, <3>1
      <4>2. unit[r].now < k[t] + Ttl + L1Ttl + Patience
        BY <2>0, <3>1 DEF ReaderOK
      <4>3. k[t] \in Nat
        BY <2>1, <3>1, DateValues
      <4> HIDE DEF k
      <4> QED
        BY <2>0, <2>1, <2>7, <3>1, <4>1, <4>2, <4>3
    <3>2. CASE t \notin DOMAIN k /\ t \in unit[r].got
      <4>1. Answer(r)[t] = unit[r].now
        BY <2>2, <2>3, <2>4, <2>5, <3>2
      <4> QED
        BY <2>0, <2>1, <2>7, <4>1
    <3>3. CASE t \notin DOMAIN k /\ t \notin unit[r].got
      <4>1. t \in DOMAIN c /\ t \notin unit[r].miss
        BY <2>6, <2>8, <3>3
      <4>2. Answer(r)[t] = c[t]
        BY <2>2, <2>3, <2>4, <2>5, <3>3, <4>1
      <4>3. unit[r].now < c[t] + Ttl
        BY <1>1, <2>0, <3>3, <4>1 DEF ReaderOK
      <4>4. c[t] \in Nat
        BY <2>1, <4>1, DateValues
      <4> HIDE DEF c
      <4> QED
        BY <2>0, <2>1, <2>7, <4>2, <4>3, <4>4
    <3> QED
      BY <3>1, <3>2, <3>3
  <2>9. ASSUME NEW t \in unit[r].want, t \notin DOMAIN Answer(r)
        PROVE  t \notin DOMAIN unit[r].cached /\ unit[r].hub \in hit
    BY <1>1, <2>0, <2>6, <2>9 DEF ReaderOK
  <2> QED
    BY <2>8, <2>9
<1>2. IInv /\ [Next]_vars =>
        [\A r \in Readers : Return(r) =>
           \A t \in DOMAIN Answer(r) :
              \/ clock < Answer(r)[t] + Ttl + Patience
              \/ t \in unit[r].miss \ unit[r].got
              \/ /\ t \in DOMAIN unit[r].hits
                 /\ clock < Answer(r)[t] + Ttl + L1Ttl + 2 * Patience]_vars
  BY <1>1 DEF Return
<1>3. IInv /\ [Next]_vars =>
        [\A r \in Readers : Return(r) =>
           \A t \in unit[r].want :
              t \in DOMAIN Answer(r) \/ (t \notin DOMAIN unit[r].cached /\ unit[r].hub \in hit)]_vars
  BY <1>1 DEF Return
<1> QED
  BY <1>2, <1>3, Inductive, PTL DEF Spec, AnswersTrue, StaleOnlyInOutage, NeverOmitsPriced

\* After the whole book of a structure was fetched and committed, empty or not, no cycle
\* fetches it again before it is about to lapse (refresh_due_prices), whatever readers
\* write in between.
THEOREM BooksAreFetchedOnce == Spec => BookFetchedOnce
<1>1. ASSUME Shapes, NEW h \in Structures, PickHub(h), pc'[Job] = "source"
      PROVE  full[h] = Nil \/ full[h] + Lead < unit[Job].now
  <2>1. h \in Hubs /\ h \notin Regions /\ full = marker
    BY <1>1, HubsAssumption DEF Hubs, Shapes
  <2>2. Due(h, unit[Job].now) # {}
    BY <1>1, <2>1, PickSays
  <2> QED
    BY <2>1, <2>2 DEF Due, PastCutoff
<1>2. IInv /\ [Next]_vars =>
        [\A h \in Structures : PickHub(h) /\ pc'[Job] = "source" =>
           full[h] = Nil \/ full[h] + Lead < unit[Job].now]_vars
  BY <1>1 DEF IInv, Basics
<1> QED
  BY <1>2, Inductive, PTL DEF Spec, BookFetchedOnce
===========================================================================
