---------------------------- MODULE UnitsOfWork ----------------------------
(***************************************************************************)
(* Units of work that share the lot table.  The process runs one event     *)
(* loop; every background job and every request holds a session of its     *)
(* own, and another one may run at each await.  The engine is created      *)
(* without an isolation level, so the database's default, READ COMMITTED,  *)
(* applies: a SELECT sees the session's own writes and the last commit,    *)
(* and an UPDATE waits for the row lock of whoever wrote the row, then     *)
(* writes the value the session computed from its earlier SELECT.          *)
(*                                                                         *)
(* A unit guards on a status (a suggestion, a shipment), plans FIFO over   *)
(* the lots of each slot it draws on, consumes lot by lot, and commits     *)
(* once.  A job also calls ESI before the commit, its locks held, and is   *)
(* scheduled again when it fails.                                          *)
(***************************************************************************)
EXTENDS Naturals, Sequences, FiniteSets, Functions

CONSTANTS
    Slots,        \* a type at a location
    Stock,        \* the lots, oldest first: [slot, qty]
    Units,        \* the units of work
    Asks,         \* [Units -> [demands, key, job]]
    NoKey,        \* key of a unit that guards on no status
    MaxFailures   \* bound: ESI errors, HTTP disconnects and restarts in a behaviour

Lots == DOMAIN Stock
Demands(u) == Asks[u].demands

ASSUME StockAssumption == Stock \in Seq([slot : Slots, qty : Nat \ {0}])
ASSUME AsksAssumption ==
    /\ IsFiniteSet(Units)
    /\ \A u \in Units :
         /\ Asks[u].job \in BOOLEAN
         /\ Demands(u) \in Seq([slot : Slots, qty : Nat \ {0}])
         /\ Demands(u) # <<>>
ASSUME FailuresAssumption == MaxFailures \in Nat

VARIABLES
    row,       \* committed qty_remaining per lot
    claimed,   \* keys whose committed status is no longer pending
    sold,      \* committed sale rows: units per lot
    unmet,     \* committed units their slot lacked: deemed by a sale, left
               \* unconverted by a move
    pc,        \* where each unit is
    turn,      \* which demand of the unit comes next
    plan,      \* units the current FIFO plan still has to consume, per lot
    read,      \* what the SELECT of consume saw
    draft,     \* uncommitted UPDATEs per unit; their rows are locked
    booked,    \* uncommitted sale rows per unit
    lacked,    \* the same, uncommitted
    failures   \* MaxFailures counts these down

table == <<row, claimed, sold, unmet>>
session == <<pc, turn, plan, read, draft, booked, lacked>>
vars == <<table, session, failures>>

Nothing == [l \in Lots |-> 0]
NoDraft == [l \in {} |-> 0]

Init ==
    /\ row = [l \in Lots |-> Stock[l].qty]
    /\ claimed = {} /\ sold = Nothing /\ unmet = 0
    /\ pc = [u \in Units |-> "begin"]
    /\ turn = [u \in Units |-> 1]
    /\ plan = [u \in Units |-> Nothing]
    /\ read = [u \in Units |-> 0]
    /\ draft = [u \in Units |-> NoDraft]
    /\ booked = [u \in Units |-> Nothing]
    /\ lacked = [u \in Units |-> 0]
    /\ failures = 0

Active == {u \in Units : pc[u] \in {"plan", "select", "update", "esi", "commit"}}
Locked(l, u) == l \in DOMAIN draft[u]
Visible(u, l) == IF Locked(l, u) THEN draft[u][l] ELSE row[l]

-----------------------------------------------------------------------------
(* The guard, and the plan of the next demand *)

\* The scheduler runs the job again.  Its interval is minutes, a unit takes
\* seconds: what was running when the job failed is over by then.
Reschedule(u) ==
    /\ pc[u] = "waiting"
    /\ Active = {}
    /\ pc' = [pc EXCEPT ![u] = "begin"]
    /\ UNCHANGED <<table, turn, plan, read, draft, booked, lacked, failures>>

\* The status check: a unit whose suggestion or shipment is already closed has
\* nothing to do.
Begin(u) ==
    /\ pc[u] = "begin"
    /\ pc' = [pc EXCEPT ![u] = IF Asks[u].key \in claimed THEN "refused" ELSE "plan"]
    /\ UNCHANGED <<table, turn, plan, read, draft, booked, lacked, failures>>

\* plan_fifo over what open_lots returns for the slot: a lot gives only when the
\* older ones gave all they have, and only a drained slot leaves a shortfall.
InSlot(ask) == {l \in Lots : Stock[l].slot = ask.slot}
IsFifo(u, ask, take, short) ==
    /\ \A l \in Lots : take[l] <= IF l \in InSlot(ask) THEN Visible(u, l) ELSE 0
    /\ \A k, l \in InSlot(ask) : k < l /\ take[l] > 0 => take[k] = Visible(u, k)
    /\ short > 0 => \A l \in InSlot(ask) : take[l] = Visible(u, l)
    /\ SumFunction(take) + short = ask.qty

Done(p) == \A l \in Lots : p[l] = 0
AfterPlan(u, p, n) ==
    IF ~Done(p) THEN "select"
    ELSE IF n <= Len(Demands(u)) THEN "plan"
    ELSE IF Asks[u].job THEN "esi" ELSE "commit"

Plan(u) ==
    /\ pc[u] = "plan"
    /\ LET ask == Demands(u)[turn[u]]
       IN  \E take \in [Lots -> 0..ask.qty], short \in 0..ask.qty :
             /\ IsFifo(u, ask, take, short)
             /\ plan' = [plan EXCEPT ![u] = take]
             /\ lacked' = [lacked EXCEPT ![u] = @ + short]
             /\ pc' = [pc EXCEPT ![u] = AfterPlan(u, take, turn[u] + 1)]
    /\ turn' = [turn EXCEPT ![u] = @ + 1]
    /\ UNCHANGED <<table, read, draft, booked, failures>>

-----------------------------------------------------------------------------
(* consume, lot by lot in the order of the plan *)

IsHead(u, l) == plan[u][l] > 0 /\ \A k \in Lots : k < l => plan[u][k] = 0

\* Where a unit stands after an exception: a job waits for its next interval, a
\* request is not repeated.
Rewound_GivesUp(u) ==                   \* mutant: the job is unscheduled
    /\ pc' = [pc EXCEPT ![u] = "failed"]
    /\ turn' = [turn EXCEPT ![u] = 1]
    /\ plan' = [plan EXCEPT ![u] = Nothing]
    /\ read' = [read EXCEPT ![u] = 0]
Rewound(u) ==
    /\ pc' = [pc EXCEPT ![u] = IF Asks[u].job THEN "waiting" ELSE "failed"]
    /\ turn' = [turn EXCEPT ![u] = 1]
    /\ plan' = [plan EXCEPT ![u] = Nothing]
    /\ read' = [read EXCEPT ![u] = 0]

\* Leaving the session's block: everything it wrote is gone, its locks with it.
Rollback_KeepsLocks(u) ==               \* mutant: the session is never closed
    /\ Rewound(u)
    /\ booked' = [booked EXCEPT ![u] = Nothing]
    /\ lacked' = [lacked EXCEPT ![u] = 0]
    /\ UNCHANGED <<table, draft>>
Rollback_KeepsSales(u) ==               \* mutant: sale rows of the failed try stay
    /\ Rewound(u)
    /\ draft' = [draft EXCEPT ![u] = NoDraft]
    /\ UNCHANGED <<table, booked, lacked>>
Rollback(u) ==
    /\ Rewound(u)
    /\ draft' = [draft EXCEPT ![u] = NoDraft]
    /\ booked' = [booked EXCEPT ![u] = Nothing]
    /\ lacked' = [lacked EXCEPT ![u] = 0]
    /\ UNCHANGED table

\* SELECT, and the check that raises when the plan asks for more than is left.
Enough_Assumed(u, l) == TRUE            \* mutant: the plan is trusted
Enough(u, l) == plan[u][l] <= Visible(u, l)

Select(u) ==
    /\ pc[u] = "select"
    /\ \E l \in Lots :
         /\ IsHead(u, l)
         /\ \/ /\ Enough(u, l)
               /\ read' = [read EXCEPT ![u] = Visible(u, l)]
               /\ pc' = [pc EXCEPT ![u] = "update"]
               /\ UNCHANGED <<table, turn, plan, draft, booked, lacked>>
            \/ /\ ~Enough(u, l)
               /\ Rollback(u)
    /\ UNCHANGED failures

\* The UPDATE of the flush gets the row lock and writes an absolute value; then
\* the sale row.
Written_WholeDemand(u, l) ==            \* mutant: every lot pays the whole demand
    LET qty == Demands(u)[turn[u] - 1].qty
    IN  IF qty < read[u] THEN read[u] - qty ELSE 0
Written(u, l) == read[u] - plan[u][l]

Update(u) ==
    /\ pc[u] = "update"
    /\ \E l \in Lots :
         /\ IsHead(u, l)
         /\ \A v \in Units \ {u} : ~Locked(l, v)
         /\ draft' = [draft EXCEPT ![u] =
                        [k \in DOMAIN @ \cup {l} |->
                            IF k = l THEN Written(u, l) ELSE @[k]]]
         /\ booked' = [booked EXCEPT ![u][l] = @ + plan[u][l]]
         /\ plan' = [plan EXCEPT ![u][l] = 0]
         /\ pc' = [pc EXCEPT ![u] = AfterPlan(u, plan'[u], turn[u])]
    /\ UNCHANGED <<table, turn, read, lacked, failures>>

-----------------------------------------------------------------------------
(* The rest of the unit *)

\* The journal answers, with every lock of the fills held.
EsiAnswers(u) ==
    /\ pc[u] = "esi"
    /\ pc' = [pc EXCEPT ![u] = "commit"]
    /\ UNCHANGED <<table, turn, plan, read, draft, booked, lacked, failures>>

\* The status of a guarded unit is written last, with the commit.
Commit(u) ==
    /\ pc[u] = "commit"
    /\ pc' = [pc EXCEPT ![u] = "committed"]
    /\ row' = [l \in Lots |-> Visible(u, l)]
    /\ sold' = [l \in Lots |-> sold[l] + booked[u][l]]
    /\ unmet' = unmet + lacked[u]
    /\ claimed' = claimed \cup ({Asks[u].key} \ {NoKey})
    /\ draft' = [draft EXCEPT ![u] = NoDraft]
    /\ booked' = [booked EXCEPT ![u] = Nothing]
    /\ lacked' = [lacked EXCEPT ![u] = 0]
    /\ UNCHANGED <<turn, plan, read, failures>>

\* An ESI error, a request cut off: the exception leaves the session's block.
Fail(u) ==
    /\ failures < MaxFailures
    /\ u \in Active
    /\ Rollback(u)
    /\ failures' = failures + 1

\* Postgres finds units that wait for each other and refuses the statement of one.
Waits(u, v) ==
    /\ u # v /\ pc[u] = "update"
    /\ \E l \in Lots : IsHead(u, l) /\ Locked(l, v)
Deadlocked(u) ==
    \E S \in SUBSET Units : u \in S /\ \A v \in S : \E w \in S : Waits(v, w)

BreakDeadlock(u) == Deadlocked(u) /\ Rollback(u) /\ UNCHANGED failures

-----------------------------------------------------------------------------

Step(u) ==
    Reschedule(u) \/ Begin(u) \/ Plan(u) \/ Select(u) \/ Update(u) \/ EsiAnswers(u) \/ Commit(u)

Next == \E u \in Units : Step(u) \/ Fail(u) \/ BreakDeadlock(u)

\* The event loop runs every ready session; the scheduler and the deadlock
\* detector are timers.  Failures are finite: ESI comes back.
Fairness == \A u \in Units : WF_vars(Step(u)) /\ WF_vars(BreakDeadlock(u))

Spec == Init /\ [][Next]_vars /\ Fairness
-----------------------------------------------------------------------------
(* Properties *)

Ended == {"committed", "refused", "failed"}

TypeOK ==
    /\ row \in [Lots -> Nat] /\ sold \in [Lots -> Nat] /\ unmet \in Nat
    /\ claimed \subseteq {Asks[u].key : u \in Units}
    /\ pc \in [Units -> Ended \cup {"waiting", "begin", "plan", "select", "update", "esi", "commit"}]
    /\ turn \in [Units -> Nat \ {0}] /\ read \in [Units -> Nat] /\ lacked \in [Units -> Nat]
    /\ plan \in [Units -> [Lots -> Nat]] /\ booked \in [Units -> [Lots -> Nat]]
    /\ draft = [u \in Units |-> draft[u]]
    /\ \A u \in Units : DOMAIN draft[u] \subseteq Lots /\ draft[u] \in [DOMAIN draft[u] -> Nat]
    /\ failures \in 0..MaxFailures

\* However units interleave, the books never lose stock: what a lot still holds and
\* what its sale rows took cover all it was booked with.  A race can leave phantom
\* units on the books; it cannot destroy real ones.
NothingVanishes == \A l \in Lots : row[l] + sold[l] >= Stock[l].qty

\* A unit that failed at any await, after any number of consumed lots, left nothing;
\* a committed one booked exactly what it was asked for, unmet stock included.
AllOrNothing ==
    LET asked(u) == SumFunction([i \in DOMAIN Demands(u) |-> Demands(u)[i].qty])
        committed == {u \in Units : pc[u] = "committed"}
    IN  SumFunction(sold) + unmet = SumFunction([u \in committed |-> asked(u)])

\* Nobody waits for ever: locks taken in different orders and sessions that die with
\* their locks held still let every unit finish.
EveryUnitEnds == \A u \in Units : <>[](pc[u] \in Ended)

\* A failed job is made up for: what the poll found is booked in the end.
JobsCatchUp == \A u \in Units : Asks[u].job => <>(pc[u] = "committed")

\* Rows stay well formed and units accounted for, whoever overlaps whom.
StockKept == TypeOK /\ NothingVanishes

\* Every unit of work comes to its end, and the jobs among them to a commit.
UnitsEnd == EveryUnitEnds /\ JobsCatchUp

-----------------------------------------------------------------------------
(* Two sentences of the code that do not hold *)


\* consume: "Never goes below zero ... raises rather than corrupting the ledger".
NeverOversold == \A l \in Lots : sold[l] <= Stock[l].qty

\* confirm_move: "A double confirm is a no-op (idempotent)".
ConfirmedOnce ==
    \A u, v \in Units :
        /\ pc[u] = "committed" /\ pc[v] = "committed"
        /\ Asks[u].key = Asks[v].key /\ Asks[u].key # NoKey
        => u = v
=============================================================================
