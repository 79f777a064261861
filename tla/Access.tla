------------------------------- MODULE Access -------------------------------
(***************************************************************************)
(* Paid access of corporations to the accounting feature.  One row per     *)
(* corporation holds until when; the scheduled pass over the operator's    *)
(* wallet journal extends it for payments that carry a reference, admins   *)
(* apply the other payments by hand, grant and revoke.                     *)
(*                                                                         *)
(* The pass and each admin request are sessions of their own, one step per *)
(* await that touches a shared row, under READ COMMITTED: a unit reads a   *)
(* row, computes, and writes an absolute date once the row is unlocked.    *)
(* The SELECT of an upsert and its flush are one step; the conflicts that  *)
(* can fall between the two end the unit with an error, which is Fail.     *)
(***************************************************************************)
EXTENDS Naturals, FiniteSets

CONSTANTS
    Corps,        \* registered corporations
    NoCorp,       \* no reference in the reason, or one of nobody registered
    Entries,      \* incoming transfers of the operator's journal
    Amount,       \* [Entries -> ISK]
    NoEntry,
    Reference,    \* [Entries -> the corporation its reason names]
    Prices,       \* what an admin may set the price of a period to
    Period,       \* accounting_period_days
    Terms,        \* how far ahead an admin's dated grant may end
    Never,        \* expires_at NULL: a perpetual grant
    NoAccess,     \* no entitlement row
    Job,          \* the session of the scheduled pass (max_instances = 1)
    Admins,       \* sessions of admin requests
    MaxClock,     \* bound: days that pass
    MaxRequests,  \* bound: admin requests
    MaxFailures   \* bound: errors and restarts

Sessions == Admins \cup {Job}
Dates == Nat \cup {Never, NoAccess}

ASSUME MarksAssumption ==
    /\ NoCorp \notin Corps /\ NoEntry \notin Entries /\ Job \notin Admins
    /\ Never \notin Nat /\ NoAccess \notin Nat /\ Never # NoAccess
ASSUME JournalAssumption ==
    /\ Amount \in [Entries -> Nat \ {0}]
    /\ Reference \in [Entries -> Corps \cup {NoCorp}]
ASSUME SettingsAssumption ==
    /\ Prices \subseteq Nat \ {0} /\ Prices # {}
    /\ Period \in Nat \ {0} /\ Terms \subseteq Nat \ {0}
    /\ MaxClock \in Nat /\ MaxRequests \in Nat /\ MaxFailures \in Nat

VARIABLES
    clock,      \* today
    price,      \* the committed price setting
    arrived,    \* journal entries EVE reports
    access,     \* committed expires_at per corporation
    payment,    \* committed wallet_payments rows
    pc,         \* where each session is
    unit,       \* what it is doing
    draft,      \* uncommitted dates per session; their rows are locked
    marks,      \* uncommitted payment rows per session; locked too
    seen,       \* history: the committed date a session computes from
    granted,    \* history: periods it has added to its drafts
    applied,    \* history: committed units that applied an entry
    owed,       \* history: the latest date that grants and payments committed so
                \* far add up to, nothing lost and nothing revoked
    requests,   \* admin requests so far
    failures    \* errors so far

tables == <<price, access, payment>>
session == <<unit, draft, marks, seen, granted>>
history == <<applied, owed>>
bounds == <<requests, failures>>
vars == <<clock, arrived, tables, pc, session, history, bounds>>

NotRecorded == [corp |-> NoCorp, periods |-> 0, by |-> "nobody"]
Row(corp, periods, by) == [corp |-> corp, periods |-> periods, by |-> by]
Rows == [corp : Corps \cup {NoCorp}, periods : Nat, by : {"nobody", "journal", "job", "admin"}]
Steps == {"idle", "pick", "read", "write", "mark", "commit"}
Tasks == [kind : {"none", "pass", "match", "grant", "revoke"}, now : Nat, quote : Nat,
          todo : SUBSET Entries, entry : Entries \cup {NoEntry}, corp : Corps \cup {NoCorp},
          periods : Nat, until : Dates]
Recorded(e) == payment[e].by # "nobody"

Nothing == [x \in {} |-> 0]
Put(f, x, v) == [y \in DOMAIN f \cup {x} |-> IF y = x THEN v ELSE f[y]]
Over(f, g) == [x \in DOMAIN f |-> IF x \in DOMAIN g THEN g[x] ELSE f[x]]
Larger(a, b) == IF a < b THEN b ELSE a

Idle == [kind |-> "none", now |-> 0, quote |-> 0, todo |-> {}, entry |-> NoEntry,
         corp |-> NoCorp, periods |-> 0, until |-> NoAccess]

Init ==
    /\ clock = 0 /\ price \in Prices /\ arrived = {}
    /\ access = [c \in Corps |-> NoAccess]
    /\ payment = [e \in Entries |-> NotRecorded]
    /\ pc = [s \in Sessions |-> "idle"]
    /\ unit = [s \in Sessions |-> Idle]
    /\ draft = [s \in Sessions |-> Nothing]
    /\ marks = [s \in Sessions |-> Nothing]
    /\ seen = [s \in Sessions |-> Nothing]
    /\ granted = [s \in Sessions |-> [c \in Corps |-> 0]]
    /\ applied = [e \in Entries |-> 0]
    /\ owed = [c \in Corps |-> 0]
    /\ requests = 0 /\ failures = 0

-----------------------------------------------------------------------------
(* The rules *)

PeriodsFor(amount, quote) == amount \div quote

\* Stacked onto what is left, restarted from now when lapsed.
ExtendExpiry_ExtraPeriod(date, now, periods) ==    \* mutant: the started period is free
    (IF date \in Nat /\ date > now THEN date ELSE now) + (periods + 1) * Period
ExtendExpiry_AlwaysStacks(date, now, periods) ==   \* mutant: a lapsed grant is stacked on
    (IF date \in Nat THEN date ELSE now) + periods * Period
ExtendExpiry(date, now, periods) ==
    (IF date \in Nat /\ date > now THEN date ELSE now) + periods * Period

\* What a session's SELECT returns.
Visible(s, c) == IF c \in DOMAIN draft[s] THEN draft[s][c] ELSE access[c]

Unlocked(s, c) == \A t \in Sessions \ {s} : c \notin DOMAIN draft[t]
Unclaimed(s, e) == \A t \in Sessions \ {s} : e \notin DOMAIN marks[t]

-----------------------------------------------------------------------------
(* Units begin *)

\* The pass fetches the journal and leaves out what is recorded already.
Fresh == {e \in arrived : ~Recorded(e)}

BeginPass ==
    /\ pc[Job] = "idle"
    /\ Fresh # {}
    /\ unit' = [unit EXCEPT ![Job] = [Idle EXCEPT !.kind = "pass", !.now = clock,
                                                 !.quote = price, !.todo = Fresh]]
    /\ pc' = [pc EXCEPT ![Job] = "pick"]
    /\ UNCHANGED <<clock, arrived, tables, draft, marks, seen, granted, history, bounds>>

Matched_AnyAmount(e, periods) == Reference[e] # NoCorp   \* mutant: underpaid is matched
Matched(e, periods) == Reference[e] # NoCorp /\ periods > 0

\* The next entry: a reference to a registered corporation and a period's worth of
\* ISK make it a match, anything else is recorded for an admin to look at.
PickEntry ==
    /\ pc[Job] = "pick"
    /\ \E e \in unit[Job].todo :
         LET n == PeriodsFor(Amount[e], unit[Job].quote)
             task == [unit[Job] EXCEPT !.todo = @ \ {e}, !.entry = e]
         IN  \/ /\ Matched(e, n)
                /\ unit' = [unit EXCEPT ![Job] =
                              [task EXCEPT !.corp = Reference[e], !.periods = n]]
                /\ pc' = [pc EXCEPT ![Job] = "read"]
             \/ /\ ~Matched(e, n)
                /\ unit' = [unit EXCEPT ![Job] =
                              [task EXCEPT !.corp = NoCorp, !.periods = 0]]
                /\ pc' = [pc EXCEPT ![Job] = "mark"]
    /\ UNCHANGED <<clock, arrived, tables, draft, marks, seen, granted, history, bounds>>

Request(a) == pc[a] = "idle" /\ requests < MaxRequests /\ requests' = requests + 1

\* An admin applies a recorded payment that nobody has applied, if it is worth a period.
Matchable(e) == Recorded(e) /\ payment[e].corp = NoCorp

BeginMatch(a, e, c) ==
    /\ Request(a)
    /\ Matchable(e)
    /\ PeriodsFor(Amount[e], price) >= 1
    /\ unit' = [unit EXCEPT ![a] = [Idle EXCEPT !.kind = "match", !.now = clock,
                                               !.entry = e, !.corp = c,
                                               !.periods = PeriodsFor(Amount[e], price)]]
    /\ pc' = [pc EXCEPT ![a] = "read"]
    /\ UNCHANGED <<clock, arrived, tables, draft, marks, seen, granted, history, failures>>

BeginGrant(a, c, until) ==
    /\ Request(a)
    /\ until # Never => until > clock
    /\ unit' = [unit EXCEPT ![a] = [Idle EXCEPT !.kind = "grant", !.now = clock,
                                               !.corp = c, !.until = until]]
    /\ pc' = [pc EXCEPT ![a] = "write"]
    /\ UNCHANGED <<clock, arrived, tables, draft, marks, seen, granted, history, failures>>

BeginRevoke(a, c) ==
    /\ Request(a)
    /\ unit' = [unit EXCEPT ![a] = [Idle EXCEPT !.kind = "revoke", !.now = clock, !.corp = c]]
    /\ pc' = [pc EXCEPT ![a] = "write"]
    /\ UNCHANGED <<clock, arrived, tables, draft, marks, seen, granted, history, failures>>

SetPrice(p) ==
    /\ price' = p
    /\ UNCHANGED <<clock, arrived, access, payment, pc, session, history, bounds>>

-----------------------------------------------------------------------------
(* Units go on *)

\* _extend_access reads the row and leaves a perpetual grant alone.
IsPerpetual(date) == date = Never

ReadAccess(s) ==
    /\ pc[s] = "read"
    /\ LET c == unit[s].corp
           date == Visible(s, c)
       IN  /\ seen' = IF c \in DOMAIN draft[s] THEN seen
                      ELSE [seen EXCEPT ![s] = Put(@, c, date)]
           /\ unit' = [unit EXCEPT ![s].until = ExtendExpiry(date, unit[s].now, unit[s].periods)]
           /\ pc' = [pc EXCEPT ![s] = IF IsPerpetual(date) THEN "mark" ELSE "write"]
    /\ UNCHANGED <<clock, arrived, tables, draft, marks, granted, history, bounds>>

\* upsert: the UPDATE or INSERT waits for the row and writes the date computed before.
Upsert(s) ==
    /\ pc[s] = "write" /\ unit[s].kind # "revoke"
    /\ LET c == unit[s].corp
       IN  /\ Unlocked(s, c)
           /\ draft' = [draft EXCEPT ![s] = Put(@, c, unit[s].until)]
           /\ granted' = [granted EXCEPT ![s][c] = @ + unit[s].periods]
    /\ pc' = [pc EXCEPT ![s] = IF unit[s].kind = "grant" THEN "commit" ELSE "mark"]
    /\ UNCHANGED <<clock, arrived, tables, unit, marks, seen, history, bounds>>

\* delete: nothing to do when there is no row.
Delete(s) ==
    /\ pc[s] = "write" /\ unit[s].kind = "revoke"
    /\ LET c == unit[s].corp
       IN  \/ /\ access[c] = NoAccess
              /\ UNCHANGED draft
           \/ /\ access[c] # NoAccess
              /\ Unlocked(s, c)
              /\ draft' = [draft EXCEPT ![s] = Put(@, c, NoAccess)]
    /\ pc' = [pc EXCEPT ![s] = "commit"]
    /\ UNCHANGED <<clock, arrived, tables, unit, marks, seen, granted, history, bounds>>

\* The payment row: added by the pass, matched by an admin.
By(s) == IF unit[s].corp = NoCorp THEN "journal" ELSE IF s = Job THEN "job" ELSE "admin"

Mark(s) ==
    /\ pc[s] = "mark"
    /\ Unclaimed(s, unit[s].entry)
    /\ marks' = [marks EXCEPT ![s] =
                    Put(@, unit[s].entry, Row(unit[s].corp, unit[s].periods, By(s)))]
    /\ pc' = [pc EXCEPT ![s] = IF unit[s].todo = {} THEN "commit" ELSE "pick"]
    /\ UNCHANGED <<clock, arrived, tables, unit, draft, seen, granted, history, bounds>>

Closed_KeepsLocks(s) ==                 \* mutant: the transaction stays open
    /\ pc' = [pc EXCEPT ![s] = "idle"]
    /\ unit' = [unit EXCEPT ![s] = Idle]
    /\ UNCHANGED <<draft, marks, seen, granted>>
Closed_Unscheduled(s) ==                \* mutant: the pass runs once
    /\ pc' = [pc EXCEPT ![s] = IF s = Job THEN "commit" ELSE "idle"]
    /\ unit' = [unit EXCEPT ![s] = Idle]
    /\ draft' = [draft EXCEPT ![s] = Nothing]
    /\ marks' = [marks EXCEPT ![s] = Nothing]
    /\ seen' = [seen EXCEPT ![s] = Nothing]
    /\ granted' = [granted EXCEPT ![s] = [c \in Corps |-> 0]]
\* What a unit leaves behind when its session ends.
Closed(s) ==
    /\ pc' = [pc EXCEPT ![s] = "idle"]
    /\ unit' = [unit EXCEPT ![s] = Idle]
    /\ draft' = [draft EXCEPT ![s] = Nothing]
    /\ marks' = [marks EXCEPT ![s] = Nothing]
    /\ seen' = [seen EXCEPT ![s] = Nothing]
    /\ granted' = [granted EXCEPT ![s] = [c \in Corps |-> 0]]

\* The date grants and payments add up to: an admin's date as it stands, paid
\* periods on top of it or of today.
Owed(s, c) ==
    IF c \notin DOMAIN draft[s] \/ draft[s][c] \notin Nat THEN owed[c]
    ELSE IF unit[s].kind = "grant" THEN Larger(owed[c], draft[s][c])
    ELSE Larger(owed[c], clock) + granted[s][c] * Period

Commit(s) ==
    /\ pc[s] = "commit"
    /\ access' = Over(access, draft[s])
    /\ payment' = Over(payment, marks[s])
    /\ applied' = [e \in Entries |->
                     IF e \in DOMAIN marks[s] /\ marks[s][e].corp # NoCorp
                     THEN applied[e] + 1 ELSE applied[e]]
    /\ owed' = [c \in Corps |-> Owed(s, c)]
    /\ Closed(s)
    /\ UNCHANGED <<clock, arrived, price, bounds>>

\* An ESI error, a conflicting insert or delete, a request cut off, a restart: the
\* session is rolled back and the pass tried again at its next interval.
Rollback_KeepsPayments(s) ==            \* mutant: payments are recorded one by one
    payment' = Over(payment, marks[s]) /\ UNCHANGED access
Rollback(s) == UNCHANGED <<access, payment>>

Fail(s) ==
    /\ pc[s] # "idle"
    /\ failures < MaxFailures
    /\ failures' = failures + 1
    /\ Rollback(s)
    /\ Closed(s)
    /\ UNCHANGED <<clock, arrived, price, history, requests>>

-----------------------------------------------------------------------------
(* The world *)

Tick ==
    /\ clock < MaxClock
    /\ clock' = clock + 1
    /\ UNCHANGED <<arrived, tables, pc, session, history, bounds>>

Transfer(e) ==
    /\ e \notin arrived
    /\ arrived' = arrived \cup {e}
    /\ UNCHANGED <<clock, tables, pc, session, history, bounds>>

Pass == BeginPass \/ PickEntry
Write(s) == Upsert(s) \/ Delete(s) \/ Mark(s)
Go(s) == ReadAccess(s) \/ Commit(s)

Next ==
    \/ Pass
    \/ \E s \in Sessions : Write(s) \/ Go(s) \/ Fail(s)
    \/ \E a \in Admins, c \in Corps :
          \/ \E e \in Entries : BeginMatch(a, e, c)
          \/ \E until \in {clock + t : t \in Terms} \cup {Never} : BeginGrant(a, c, until)
          \/ BeginRevoke(a, c)
    \/ \E p \in Prices : SetPrice(p)
    \/ Tick
    \/ \E e \in Entries : Transfer(e)

\* The event loop runs every ready session and the scheduler the pass; whoever waits
\* for a row stands in the database's queue for it, so it cannot be overtaken for ever.
Fairness == WF_vars(Pass) /\ \A s \in Sessions : WF_vars(Go(s)) /\ SF_vars(Write(s))

Spec == Init /\ [][Next]_vars /\ Fairness

-----------------------------------------------------------------------------
(* Properties *)

TypeOK ==
    /\ clock \in 0..MaxClock /\ price \in Prices /\ arrived \subseteq Entries
    /\ access \in [Corps -> Dates] /\ payment \in [Entries -> Rows]
    /\ pc \in [Sessions -> Steps] /\ unit \in [Sessions -> Tasks]
    /\ draft = [s \in Sessions |-> draft[s]] /\ marks = [s \in Sessions |-> marks[s]]
    /\ seen = [s \in Sessions |-> seen[s]] /\ granted \in [Sessions -> [Corps -> Nat]]
    /\ \A s \in Sessions :
         /\ unit[s].now <= clock
         /\ DOMAIN draft[s] \subseteq Corps /\ draft[s] \in [DOMAIN draft[s] -> Dates]
         /\ DOMAIN marks[s] \subseteq Entries /\ marks[s] \in [DOMAIN marks[s] -> Rows]
         /\ DOMAIN seen[s] \subseteq Corps /\ seen[s] \in [DOMAIN seen[s] -> Dates]
    /\ applied \in [Entries -> Nat] /\ owed \in [Corps -> Nat]
    /\ requests \in 0..MaxRequests /\ failures \in 0..MaxFailures
    /\ \A e \in Entries : payment[e].corp # NoCorp <=> payment[e].periods > 0

\* _extend_access: "stacked onto remaining time, restarted when lapsed", a perpetual grant
\* "left untouched".  A unit whose corporation nobody changed since it read the row
\* adds exactly the periods of its payments, however many of one pass are for it.
Due(date, now, periods) ==
    IF date = Never THEN Never
    ELSE Larger(IF date = NoAccess THEN now ELSE date, now) + periods * Period
StacksExactly ==
    [][\A s \in Sessions : Commit(s) =>
         \A c \in DOMAIN seen[s] :
            seen[s][c] = access[c] =>
                access'[c] = Due(access[c], unit[s].now, granted[s][c])]_vars

\* Whatever interleaves, fails or is applied twice, no corporation has access for
\* longer than the dates admins granted and the periods committed payments bought:
\* a race can lose paid time, it cannot give any away.
NeverOvergranted == \A c \in Corps : access[c] \in Nat => access[c] <= owed[c]

\* A payment the pass matched has extended access in the same commit, and no later
\* poll, retry or admin applies it again; an unmatched one has extended nothing.
AutomaticOnce ==
    \A e \in Entries :
        /\ payment[e].corp = NoCorp => applied[e] = 0
        /\ payment[e].by = "job" => applied[e] = 1
        /\ payment[e].by = "admin" => applied[e] >= 1

\* Rows locked by a pass over several corporations, by matches and by grants never
\* leave two units waiting for each other: every unit ends without the database's
\* deadlock detector.
EveryUnitEnds == \A s \in Sessions : pc[s] # "idle" ~> pc[s] = "idle"

\* Every transfer is recorded in the end, also when passes fail on the way.
PaymentsRecorded == \A e \in Entries : e \in arrived ~> Recorded(e)

\* Access is granted for what was paid or given and for nothing else: rows are well
\* formed, no race gives time away, and a payment the pass matched counts once.
GrantsSound == TypeOK /\ NeverOvergranted /\ AutomaticOnce

\* Every request and pass ends, and no transfer stays unrecorded.
PassesEnd == EveryUnitEnds /\ PaymentsRecorded
=============================================================================
