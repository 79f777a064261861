---------------------------- MODULE AccessProofs ----------------------------
(***************************************************************************)
(* For any corporations, journal, prices and number of admins, failures    *)
(* and days: the rows stay well formed, no access lasts longer than what   *)
(* was granted and paid for, what the pass matched is applied once, and a  *)
(* unit nobody overtook adds exactly what it should.                       *)
(*                                                                         *)
(* The inductive invariant says what a unit in progress knows: its drafts  *)
(* are what its payments make of the dates it read (Stacks), those dates   *)
(* were honest when it read them (Honest), an entry of the pass is still   *)
(* unrecorded and one of an admin was never matched by the pass (Targets). *)
(***************************************************************************)
EXTENDS Access, TLAPS

Pays(s) == unit[s].kind \in {"pass", "match"}

\* A session that does nothing holds nothing.
Quiet(s) ==
    pc[s] = "idle" => /\ DOMAIN draft[s] = {} /\ DOMAIN marks[s] = {} /\ DOMAIN seen[s] = {}
                      /\ unit[s] = Idle

\* What a session is doing fits where it is.
Doing(s) ==
    /\ pc[s] # "idle" => unit[s].kind # "none" /\ (unit[s].kind = "pass" <=> s = Job)
    /\ pc[s] = "pick" => s = Job
    /\ pc[s] \in {"read", "mark"} => Pays(s) /\ unit[s].entry \in Entries
    /\ pc[s] = "write" /\ Pays(s) => unit[s].entry \in Entries
    /\ pc[s] \in {"read", "write"} => unit[s].corp \in Corps
    /\ unit[s].kind = "match" => unit[s].corp \in Corps /\ unit[s].todo = {}
    /\ unit[s].kind = "pass" => unit[s].quote > 0
    /\ unit[s].corp # NoCorp /\ Pays(s) <=> unit[s].periods > 0

\* The periods of a unit stack on the dates it read, and on nothing else.
Stacks(s) ==
    /\ ~Pays(s) => DOMAIN seen[s] = {}
    /\ unit[s].kind = "revoke" => \A c \in DOMAIN draft[s] : draft[s][c] = NoAccess
    /\ \A c \in Corps \ DOMAIN draft[s] : granted[s][c] = 0
    /\ Pays(s) =>
         /\ \A c \in DOMAIN draft[s] :
              /\ c \in DOMAIN seen[s] /\ seen[s][c] # Never
              /\ draft[s][c] = Due(seen[s][c], unit[s].now, granted[s][c])
         /\ \A c \in DOMAIN seen[s] \ DOMAIN draft[s] :
              seen[s][c] = Never \/ (pc[s] = "write" /\ unit[s].corp = c)
         /\ pc[s] = "write" =>
              LET c == unit[s].corp
              IN  /\ c \in DOMAIN seen[s] /\ seen[s][c] # Never
                  /\ unit[s].until =
                       Due(seen[s][c], unit[s].now, granted[s][c] + unit[s].periods)

\* The dates it read were no later than what was owed.
Honest(s) == \A c \in DOMAIN seen[s] : seen[s][c] \in Nat => seen[s][c] <= owed[c]

\* Entries a session is at work on, and its payment rows.
ByAdmin(e) == payment[e].by \in {"journal", "admin"}
Targets(s) ==
    /\ s = Job => \A e \in unit[s].todo \cup DOMAIN marks[s] : ~Recorded(e)
    /\ s = Job /\ unit[s].entry \in Entries => ~Recorded(unit[s].entry)
    /\ s # Job => \A e \in DOMAIN marks[s] : ByAdmin(e)
    /\ s # Job /\ unit[s].entry \in Entries => ByAdmin(unit[s].entry)
    /\ \A e \in DOMAIN marks[s] :
         /\ marks[s][e].corp # NoCorp <=> marks[s][e].periods > 0
         /\ marks[s][e].by = IF marks[s][e].corp = NoCorp THEN "journal"
                             ELSE IF s = Job THEN "job" ELSE "admin"
         /\ s # Job => marks[s][e].corp # NoCorp

SessionOK(s) == Quiet(s) /\ Doing(s) /\ Stacks(s) /\ Honest(s) /\ Targets(s)

\* A payment row names a corporation unless nobody has applied it.
RowsAgree ==
    \A e \in Entries : payment[e].corp = NoCorp <=> payment[e].by \in {"nobody", "journal"}

IInv ==
    /\ TypeOK /\ NeverOvergranted /\ AutomaticOnce /\ RowsAgree
    /\ \A s \in Sessions : SessionOK(s)

-----------------------------------------------------------------------------
(* The arithmetic of dates *)

LEMMA Times ==
    ASSUME NEW g \in Nat, NEW p \in Nat
    PROVE  /\ g * Period \in Nat /\ p * Period \in Nat
           /\ (g + p) * Period = g * Period + p * Period
BY SettingsAssumption

LEMMA DueTyped ==
    ASSUME NEW d \in Dates, d # Never, NEW now \in Nat, NEW g \in Nat
    PROVE  Due(d, now, g) \in Nat /\ Due(d, now, g) >= now
<1> DEFINE G == g * Period
<1>1. G \in Nat
  BY Times
<1> HIDE DEF G
<1>2. Due(d, now, g) = Larger(IF d = NoAccess THEN now ELSE d, now) + G
  BY DEF Due, G
<1> QED
  BY <1>1, <1>2 DEF Dates, Larger

\* Extending a date is paying from it.
LEMMA ExtendFresh ==
    ASSUME NEW d \in Dates, d # Never, NEW now \in Nat, NEW p \in Nat
    PROVE  ExtendExpiry(d, now, p) = Due(d, now, p)
<1> DEFINE P == p * Period
<1>1. P \in Nat
  BY Times
<1> HIDE DEF P
<1>2. Due(d, now, p) = Larger(IF d = NoAccess THEN now ELSE d, now) + P
  BY DEF Due, P
<1>3. ExtendExpiry(d, now, p) = (IF d \in Nat /\ d > now THEN d ELSE now) + P
  BY DEF ExtendExpiry, P
<1> QED
  BY <1>1, <1>2, <1>3, MarksAssumption DEF Dates, Larger

\* Extending what was paid already is paying once for both.
LEMMA ExtendDue ==
    ASSUME NEW d \in Dates, d # Never, NEW now \in Nat, NEW g \in Nat, NEW p \in Nat
    PROVE  ExtendExpiry(Due(d, now, g), now, p) = Due(d, now, g + p)
<1> DEFINE G == g * Period
           P == p * Period
<1>1. G \in Nat /\ P \in Nat /\ (g + p) * Period = G + P
  BY Times
<1>2. Due(d, now, g + p) = Larger(IF d = NoAccess THEN now ELSE d, now) + (G + P)
  BY <1>1 DEF Due
<1> HIDE DEF G, P
<1>3. Due(d, now, g) = Larger(IF d = NoAccess THEN now ELSE d, now) + G
  BY DEF Due, G
<1>4. Due(d, now, g) \in Nat /\ Due(d, now, g) >= now
  BY DueTyped
<1>5. ExtendExpiry(Due(d, now, g), now, p) = Due(d, now, g) + P
  BY <1>1, <1>4 DEF ExtendExpiry, P
<1> QED
  BY <1>1, <1>2, <1>3, <1>5 DEF Dates, Larger

LEMMA DueBounded ==
    ASSUME NEW d \in Dates, d # Never, NEW now \in Nat, NEW g \in Nat,
           NEW o \in Nat, NEW today \in Nat, now <= today, d \in Nat => d <= o
    PROVE  Due(d, now, g) <= Larger(o, today) + g * Period
<1> DEFINE G == g * Period
<1>1. G \in Nat
  BY Times
<1> HIDE DEF G
<1>2. Due(d, now, g) = Larger(IF d = NoAccess THEN now ELSE d, now) + G
  BY DEF Due, G
<1>3. Due(d, now, g) <= Larger(o, today) + G
  BY <1>1, <1>2 DEF Dates, Larger
<1> QED
  BY <1>3 DEF G
-----------------------------------------------------------------------------
(* A step of one session that commits nothing *)

\* What others read and rely on does not move under a session at rest.
LEMMA Frame ==
    ASSUME NEW t \in Sessions, SessionOK(t), DOMAIN seen[t] \subseteq Corps,
           DOMAIN marks[t] \subseteq Entries, unit[t] \in Tasks,
           pc'[t] = pc[t], unit'[t] = unit[t], draft'[t] = draft[t],
           marks'[t] = marks[t], seen'[t] = seen[t], granted'[t] = granted[t],
           \A c \in Corps : owed[c] \in Nat /\ owed'[c] \in Nat /\ owed[c] <= owed'[c],
           t = Job => \A e \in Entries : ~Recorded(e) => ~Recorded(e)',
           t # Job => \A e \in Entries : ByAdmin(e) => ByAdmin(e)'
    PROVE  SessionOK(t)'
<1>1. Quiet(t)' /\ Doing(t)' /\ Stacks(t)'
  BY DEF SessionOK, Quiet, Doing, Stacks, Pays
<1>2. Honest(t)'
  BY DEF SessionOK, Honest
<1>3. Targets(t)'
  BY DEF SessionOK, Targets, Tasks
<1> QED
  BY <1>1, <1>2, <1>3 DEF SessionOK

Moves(s, w, task, d, m, n, g) ==
    /\ w \in Steps /\ task \in Tasks /\ task.now <= clock
    /\ DOMAIN d \subseteq Corps /\ d \in [DOMAIN d -> Dates]
    /\ DOMAIN m \subseteq Entries /\ m \in [DOMAIN m -> Rows]
    /\ DOMAIN n \subseteq Corps /\ n \in [DOMAIN n -> Dates]
    /\ g \in [Corps -> Nat]
    /\ pc' = [pc EXCEPT ![s] = w] /\ unit' = [unit EXCEPT ![s] = task]
    /\ draft' = [draft EXCEPT ![s] = d] /\ marks' = [marks EXCEPT ![s] = m]
    /\ seen' = [seen EXCEPT ![s] = n] /\ granted' = [granted EXCEPT ![s] = g]
    /\ UNCHANGED <<clock, arrived, tables, history, failures>>
    /\ requests' \in 0..MaxRequests

LEMMA Step ==
    ASSUME IInv, NEW s \in Sessions, NEW w, NEW task, NEW d, NEW m, NEW n, NEW g,
           Moves(s, w, task, d, m, n, g)
    PROVE  /\ TypeOK'
           /\ pc'[s] = w /\ unit'[s] = task /\ draft'[s] = d /\ marks'[s] = m
           /\ seen'[s] = n /\ granted'[s] = g
           /\ SessionOK(s)' => IInv'
<1> USE DEF IInv, Moves
<1>1. /\ pc'[s] = w /\ unit'[s] = task /\ draft'[s] = d /\ marks'[s] = m
      /\ seen'[s] = n /\ granted'[s] = g
  BY DEF TypeOK
<1>2. \A t \in Sessions \ {s} :
          /\ pc'[t] = pc[t] /\ unit'[t] = unit[t] /\ draft'[t] = draft[t]
          /\ marks'[t] = marks[t] /\ seen'[t] = seen[t] /\ granted'[t] = granted[t]
  BY DEF TypeOK
<1>3. /\ pc' \in [Sessions -> Steps] /\ unit' \in [Sessions -> Tasks]
      /\ draft' = [t \in Sessions |-> draft'[t]] /\ marks' = [t \in Sessions |-> marks'[t]]
      /\ seen' = [t \in Sessions |-> seen'[t]] /\ granted' \in [Sessions -> [Corps -> Nat]]
  BY DEF TypeOK
<1>4. \A t \in Sessions :
         /\ unit'[t].now <= clock'
         /\ DOMAIN draft'[t] \subseteq Corps /\ draft'[t] \in [DOMAIN draft'[t] -> Dates]
         /\ DOMAIN marks'[t] \subseteq Entries /\ marks'[t] \in [DOMAIN marks'[t] -> Rows]
         /\ DOMAIN seen'[t] \subseteq Corps /\ seen'[t] \in [DOMAIN seen'[t] -> Dates]
  <2> SUFFICES ASSUME NEW t \in Sessions
               PROVE  /\ unit'[t].now <= clock'
                      /\ DOMAIN draft'[t] \subseteq Corps
                      /\ draft'[t] \in [DOMAIN draft'[t] -> Dates]
                      /\ DOMAIN marks'[t] \subseteq Entries
                      /\ marks'[t] \in [DOMAIN marks'[t] -> Rows]
                      /\ DOMAIN seen'[t] \subseteq Corps
                      /\ seen'[t] \in [DOMAIN seen'[t] -> Dates]
    OBVIOUS
  <2>1. CASE t = s
    BY <2>1, <1>1
  <2>2. CASE t # s
    BY <2>2, <1>2 DEF TypeOK
  <2> QED
    BY <2>1, <2>2
<1>5. TypeOK'
  BY <1>3, <1>4 DEF TypeOK, tables, history
<1>6. ASSUME SessionOK(s)' PROVE IInv'
  <2>1. NeverOvergranted' /\ AutomaticOnce' /\ RowsAgree'
    BY DEF NeverOvergranted, AutomaticOnce, RowsAgree, tables, history
  <2>2. ASSUME NEW t \in Sessions, t # s PROVE SessionOK(t)'
    <3>1. /\ SessionOK(t) /\ DOMAIN seen[t] \subseteq Corps
          /\ DOMAIN marks[t] \subseteq Entries /\ unit[t] \in Tasks
      BY DEF TypeOK
    <3>2. \A c \in Corps : owed[c] \in Nat /\ owed'[c] \in Nat /\ owed[c] <= owed'[c]
      BY DEF TypeOK, history
    <3>3. /\ \A e \in Entries : ~Recorded(e) => ~Recorded(e)'
          /\ \A e \in Entries : ByAdmin(e) => ByAdmin(e)'
      BY DEF Recorded, ByAdmin, tables
    <3> QED
      BY <1>2, <2>2, <3>1, <3>2, <3>3, Frame
  <2> QED
    BY <1>5, <1>6, <2>1, <2>2
<1> QED
  BY <1>1, <1>5, <1>6

\* Where a variable stays, Step applies with the value it has.
LEMMA Same ==
    ASSUME TypeOK, NEW s \in Sessions
    PROVE  /\ unit = [unit EXCEPT ![s] = unit[s]]
           /\ draft = [draft EXCEPT ![s] = draft[s]]
           /\ marks = [marks EXCEPT ![s] = marks[s]]
           /\ seen = [seen EXCEPT ![s] = seen[s]]
           /\ granted = [granted EXCEPT ![s] = granted[s]]
           /\ unit[s] \in Tasks /\ unit[s].now <= clock
           /\ DOMAIN draft[s] \subseteq Corps /\ draft[s] \in [DOMAIN draft[s] -> Dates]
           /\ DOMAIN marks[s] \subseteq Entries /\ marks[s] \in [DOMAIN marks[s] -> Rows]
           /\ DOMAIN seen[s] \subseteq Corps /\ seen[s] \in [DOMAIN seen[s] -> Dates]
           /\ granted[s] \in [Corps -> Nat]
BY DEF TypeOK

-----------------------------------------------------------------------------
(* Each action *)

\* A session that was idle takes up a task.
LEMMA Begins ==
    ASSUME IInv, NEW s \in Sessions, NEW w \in {"pick", "read", "write"}, NEW task \in Tasks,
           pc[s] = "idle", task.now <= clock,
           pc' = [pc EXCEPT ![s] = w], unit' = [unit EXCEPT ![s] = task],
           UNCHANGED <<clock, arrived, tables, draft, marks, seen, granted, history, failures>>,
           requests' \in 0..MaxRequests,
           task.kind # "none", task.kind = "pass" <=> s = Job,
           w = "pick" => s = Job,
           w = "read" => task.kind = "match" /\ task.entry \in Entries,
           w = "write" => task.kind \in {"grant", "revoke"},
           w # "pick" => task.corp \in Corps,
           task.kind = "match" => task.corp \in Corps /\ task.todo = {},
           task.kind = "pass" => task.quote > 0,
           (task.corp # NoCorp /\ task.kind \in {"pass", "match"}) <=> task.periods > 0,
           s = Job => (\A e \in task.todo : ~Recorded(e)) /\ task.entry \notin Entries,
           s # Job => (task.entry \in Entries => ByAdmin(task.entry))
    PROVE  IInv'
<1>1. TypeOK /\ SessionOK(s)
  BY DEF IInv
<1>2. DOMAIN draft[s] = {} /\ DOMAIN marks[s] = {} /\ DOMAIN seen[s] = {}
  BY <1>1 DEF SessionOK, Quiet
<1>3. \A c \in Corps : granted[s][c] = 0
  BY <1>1, <1>2 DEF SessionOK, Stacks
<1>4. /\ pc'[s] = w /\ unit'[s] = task /\ draft'[s] = draft[s] /\ marks'[s] = marks[s]
      /\ seen'[s] = seen[s] /\ granted'[s] = granted[s]
      /\ SessionOK(s)' => IInv'
  <2>1. w \in Steps
    BY DEF Steps
  <2>2. /\ draft' = [draft EXCEPT ![s] = draft[s]] /\ marks' = [marks EXCEPT ![s] = marks[s]]
        /\ seen' = [seen EXCEPT ![s] = seen[s]]
        /\ granted' = [granted EXCEPT ![s] = granted[s]]
    BY <1>1, Same
  <2>3. /\ DOMAIN draft[s] \subseteq Corps /\ draft[s] \in [DOMAIN draft[s] -> Dates]
        /\ DOMAIN marks[s] \subseteq Entries /\ marks[s] \in [DOMAIN marks[s] -> Rows]
        /\ DOMAIN seen[s] \subseteq Corps /\ seen[s] \in [DOMAIN seen[s] -> Dates]
        /\ granted[s] \in [Corps -> Nat]
    BY <1>1, Same
  <2>4. Moves(s, w, task, draft[s], marks[s], seen[s], granted[s])
    BY <2>1, <2>2, <2>3 DEF Moves
  <2> QED
    BY <2>4, Step
<1>5. Quiet(s)' /\ Doing(s)'
  BY <1>4 DEF Quiet, Doing, Pays
<1>6. Stacks(s)' /\ Honest(s)'
  BY <1>2, <1>3, <1>4 DEF Stacks, Honest, Pays
<1>7. Targets(s)'
  BY <1>2, <1>4 DEF Targets, tables, Recorded, ByAdmin
<1> QED
  BY <1>4, <1>5, <1>6, <1>7 DEF SessionOK

LEMMA PeriodsTyped ==
    ASSUME NEW e \in Entries, NEW quote \in Nat, quote # 0
    PROVE  PeriodsFor(Amount[e], quote) \in Nat
BY JournalAssumption DEF PeriodsFor

LEMMA BeginPassKeeps == IInv /\ BeginPass => IInv'
<1> SUFFICES ASSUME IInv, BeginPass PROVE IInv'
  OBVIOUS
<1> DEFINE task == [Idle EXCEPT !.kind = "pass", !.now = clock, !.quote = price, !.todo = Fresh]
<1>1. clock \in Nat /\ price \in Nat /\ price > 0 /\ requests \in 0..MaxRequests /\ Fresh \subseteq Entries
  BY SettingsAssumption DEF IInv, TypeOK, Fresh
<1>2. /\ task \in Tasks /\ task.now = clock /\ task.kind = "pass" /\ task.corp = NoCorp
      /\ task.periods = 0 /\ task.todo = Fresh /\ task.entry = NoEntry /\ task.quote = price
  BY <1>1 DEF Tasks, Idle, Dates
<1>3. /\ pc[Job] = "idle" /\ pc' = [pc EXCEPT ![Job] = "pick"]
      /\ unit' = [unit EXCEPT ![Job] = task]
      /\ UNCHANGED <<clock, arrived, tables, draft, marks, seen, granted, history, failures>>
      /\ requests' = requests
  BY DEF BeginPass, bounds
<1> HIDE DEF task
<1>4. Job \in Sessions /\ \A e \in task.todo : ~Recorded(e)
  BY <1>2 DEF Sessions, Fresh
<1>5. task.now <= clock /\ requests' \in 0..MaxRequests /\ task.entry \notin Entries
  BY <1>1, <1>2, <1>3, MarksAssumption
<1>6. task.corp # NoCorp /\ task.kind \in {"pass", "match"} <=> task.periods > 0
  BY <1>2
<1> QED
  BY <1>1, <1>2, <1>3, <1>4, <1>5, <1>6, Begins

LEMMA RequestKeeps ==
    ASSUME IInv, NEW a, Request(a)
    PROVE  pc[a] = "idle" /\ requests' \in 0..MaxRequests
BY SettingsAssumption DEF IInv, TypeOK, Request

LEMMA BeginMatchKeeps ==
    ASSUME IInv, NEW a \in Admins, NEW e \in Entries, NEW c \in Corps, BeginMatch(a, e, c)
    PROVE  IInv'
<1> DEFINE n == PeriodsFor(Amount[e], price)
           task == [Idle EXCEPT !.kind = "match", !.now = clock, !.entry = e,
                                !.corp = c, !.periods = n]
<1>1. clock \in Nat /\ n \in Nat /\ n > 0
  BY SettingsAssumption, PeriodsTyped DEF IInv, TypeOK, BeginMatch
<1>2. /\ task \in Tasks /\ task.now = clock /\ task.kind = "match" /\ task.corp = c
      /\ task.periods = n /\ task.entry = e /\ task.todo = {}
  BY <1>1 DEF Tasks, Idle, Dates
<1>3. /\ Request(a) /\ pc' = [pc EXCEPT ![a] = "read"]
      /\ unit' = [unit EXCEPT ![a] = task]
      /\ UNCHANGED <<clock, arrived, tables, draft, marks, seen, granted, history, failures>>
  BY DEF BeginMatch
<1> HIDE DEF task
<1>4. a \in Sessions /\ a # Job /\ c # NoCorp
  BY MarksAssumption DEF Sessions
<1>5. ByAdmin(e)
  <2>1. payment[e].by # "nobody" /\ payment[e].corp = NoCorp
    BY DEF BeginMatch, Matchable, Recorded
  <2>2. payment[e].by # "job"
    BY <2>1 DEF IInv, AutomaticOnce
  <2> QED
    BY <2>1, <2>2 DEF IInv, TypeOK, Rows, ByAdmin
<1>6. pc[a] = "idle" /\ requests' \in 0..MaxRequests /\ task.now <= clock
  BY <1>1, <1>2, <1>3, RequestKeeps
<1>7. task.corp # NoCorp /\ task.kind \in {"pass", "match"} <=> task.periods > 0
  BY <1>1, <1>2, <1>4
<1> QED
  BY <1>2, <1>3, <1>4, <1>5, <1>6, <1>7, Begins

LEMMA BeginGrantKeeps ==
    ASSUME IInv, NEW a \in Admins, NEW c \in Corps,
           NEW until \in {clock + t : t \in Terms} \cup {Never}, BeginGrant(a, c, until)
    PROVE  IInv'
<1> DEFINE task == [Idle EXCEPT !.kind = "grant", !.now = clock, !.corp = c, !.until = until]
<1>1. clock \in Nat /\ until \in Dates
  BY SettingsAssumption DEF IInv, TypeOK, Dates
<1>2. /\ task \in Tasks /\ task.now = clock /\ task.kind = "grant" /\ task.corp = c
      /\ task.periods = 0 /\ task.entry = NoEntry
  BY <1>1 DEF Tasks, Idle
<1>3. /\ Request(a) /\ pc' = [pc EXCEPT ![a] = "write"]
      /\ unit' = [unit EXCEPT ![a] = task]
      /\ UNCHANGED <<clock, arrived, tables, draft, marks, seen, granted, history, failures>>
  BY DEF BeginGrant
<1> HIDE DEF task
<1>4. a \in Sessions /\ a # Job /\ task.entry \notin Entries
  BY <1>2, MarksAssumption DEF Sessions
<1>5. pc[a] = "idle" /\ requests' \in 0..MaxRequests /\ task.now <= clock
  BY <1>1, <1>2, <1>3, RequestKeeps
<1>6. task.corp # NoCorp /\ task.kind \in {"pass", "match"} <=> task.periods > 0
  BY <1>2
<1> QED
  BY <1>2, <1>3, <1>4, <1>5, <1>6, Begins

LEMMA BeginRevokeKeeps ==
    ASSUME IInv, NEW a \in Admins, NEW c \in Corps, BeginRevoke(a, c)
    PROVE  IInv'
<1> DEFINE task == [Idle EXCEPT !.kind = "revoke", !.now = clock, !.corp = c]
<1>1. clock \in Nat
  BY SettingsAssumption DEF IInv, TypeOK
<1>2. /\ task \in Tasks /\ task.now = clock /\ task.kind = "revoke" /\ task.corp = c
      /\ task.periods = 0 /\ task.entry = NoEntry
  BY <1>1 DEF Tasks, Idle, Dates
<1>3. /\ Request(a) /\ pc' = [pc EXCEPT ![a] = "write"]
      /\ unit' = [unit EXCEPT ![a] = task]
      /\ UNCHANGED <<clock, arrived, tables, draft, marks, seen, granted, history, failures>>
  BY DEF BeginRevoke
<1> HIDE DEF task
<1>4. a \in Sessions /\ a # Job /\ task.entry \notin Entries
  BY <1>2, MarksAssumption DEF Sessions
<1>5. pc[a] = "idle" /\ requests' \in 0..MaxRequests /\ task.now <= clock
  BY <1>1, <1>2, <1>3, RequestKeeps
<1>6. task.corp # NoCorp /\ task.kind \in {"pass", "match"} <=> task.periods > 0
  BY <1>2
<1> QED
  BY <1>2, <1>3, <1>4, <1>5, <1>6, Begins

LEMMA PickEntryKeeps == IInv /\ PickEntry => IInv'
<1> SUFFICES ASSUME IInv, PickEntry PROVE IInv'
  OBVIOUS
<1>1. TypeOK /\ SessionOK(Job) /\ Job \in Sessions
  BY DEF IInv, Sessions
<1>2. unit[Job] \in Tasks /\ unit[Job].now <= clock /\ pc[Job] = "pick"
  BY <1>1, Same DEF PickEntry
<1>3. unit[Job].kind = "pass" /\ unit[Job].quote > 0
  BY <1>1, <1>2 DEF SessionOK, Doing
<1>4. ASSUME NEW e \in unit[Job].todo, NEW corp \in Corps \cup {NoCorp}, NEW n \in Nat,
             NEW w \in {"read", "mark"}, corp # NoCorp <=> n > 0, w = "read" => corp \in Corps,
             pc' = [pc EXCEPT ![Job] = w],
             unit' = [unit EXCEPT ![Job] = [unit[Job] EXCEPT !.todo = @ \ {e}, !.entry = e,
                                                             !.corp = corp, !.periods = n]],
             UNCHANGED <<clock, arrived, tables, draft, marks, seen, granted, history, bounds>>
      PROVE  IInv'
  <2> DEFINE task == [unit[Job] EXCEPT !.todo = @ \ {e}, !.entry = e,
                                       !.corp = corp, !.periods = n]
  <2>1. /\ task \in Tasks /\ task.now = unit[Job].now /\ task.kind = "pass" /\ task.corp = corp
        /\ task.periods = n /\ task.entry = e /\ task.todo = unit[Job].todo \ {e}
        /\ task.quote = unit[Job].quote
    BY <1>2, <1>3 DEF Tasks
  <2>2. unit' = [unit EXCEPT ![Job] = task]
    BY <1>4
  <2> HIDE DEF task
  <2>3. Moves(Job, w, task, draft[Job], marks[Job], seen[Job], granted[Job])
    <3>1. requests' \in 0..MaxRequests
      BY <1>1, <1>4 DEF TypeOK, bounds
    <3>2. UNCHANGED <<clock, arrived, tables, history, failures>>
      BY <1>4 DEF bounds
    <3> QED
      BY <1>1, <1>2, <1>4, <2>1, <2>2, <3>1, <3>2, Same DEF Moves, Steps
  <2>4. /\ pc'[Job] = w /\ unit'[Job] = task /\ draft'[Job] = draft[Job]
        /\ marks'[Job] = marks[Job] /\ seen'[Job] = seen[Job] /\ granted'[Job] = granted[Job]
        /\ SessionOK(Job)' => IInv'
    BY <1>1, <2>3, Step
  <2>5. e \in Entries
    BY <1>2 DEF Tasks
  <2>6. Quiet(Job)' /\ Doing(Job)'
    BY <1>3, <1>4, <2>1, <2>4, <2>5 DEF Quiet, Doing, Pays
  <2>7. Stacks(Job)'
    BY <1>1, <1>2, <1>3, <1>4, <2>1, <2>4 DEF SessionOK, Stacks, Pays
  <2>8. Honest(Job)' /\ Targets(Job)'
    BY <1>1, <1>4, <2>1, <2>4 DEF SessionOK, Honest, Targets, tables, history, Recorded
  <2> QED
    BY <2>4, <2>6, <2>7, <2>8 DEF SessionOK
<1>5. PICK e \in unit[Job].todo :
         LET n == PeriodsFor(Amount[e], unit[Job].quote)
             task == [unit[Job] EXCEPT !.todo = @ \ {e}, !.entry = e]
         IN  \/ /\ Matched(e, n)
                /\ unit' = [unit EXCEPT ![Job] =
                              [task EXCEPT !.corp = Reference[e], !.periods = n]]
                /\ pc' = [pc EXCEPT ![Job] = "read"]
             \/ /\ ~Matched(e, n)
                /\ unit' = [unit EXCEPT ![Job] =
                              [task EXCEPT !.corp = NoCorp, !.periods = 0]]
                /\ pc' = [pc EXCEPT ![Job] = "mark"]
  BY DEF PickEntry
<1>6. UNCHANGED <<clock, arrived, tables, draft, marks, seen, granted, history, bounds>>
  BY DEF PickEntry
<1> DEFINE n == PeriodsFor(Amount[e], unit[Job].quote)
<1>7. e \in Entries
  BY <1>2, <1>5 DEF Tasks
<1>8. CASE Matched(e, n)
  <2>1. Reference[e] \in Corps /\ Reference[e] # NoCorp /\ n \in Nat /\ n > 0
    <3>1. unit[Job].quote \in Nat /\ unit[Job].quote # 0
      BY <1>2, <1>3 DEF Tasks
    <3>2. n \in Nat
      BY <1>7, <3>1, PeriodsTyped
    <3> QED
      BY <1>7, <1>8, <3>2, JournalAssumption DEF Matched
  <2>2. /\ pc' = [pc EXCEPT ![Job] = "read"]
        /\ unit' = [unit EXCEPT ![Job] = [unit[Job] EXCEPT !.todo = @ \ {e}, !.entry = e,
                                            !.corp = Reference[e], !.periods = n]]
    BY <1>5, <1>8
  <2> HIDE DEF n
  <2> QED
    BY <1>4, <1>6, <2>1, <2>2
<1>9. CASE ~Matched(e, n)
  <2>1. /\ pc' = [pc EXCEPT ![Job] = "mark"]
        /\ unit' = [unit EXCEPT ![Job] = [unit[Job] EXCEPT !.todo = @ \ {e}, !.entry = e,
                                            !.corp = NoCorp, !.periods = 0]]
    BY <1>5, <1>9
  <2>2. NoCorp \in Corps \cup {NoCorp} /\ 0 \in Nat /\ "mark" \in {"read", "mark"}
        /\ (NoCorp # NoCorp <=> 0 > 0)
    OBVIOUS
  <2>3. "mark" = "read" => NoCorp \in Corps
    OBVIOUS
  <2> HIDE DEF n
  <2> QED
    BY <1>4, <1>6, <2>1, <2>2, <2>3
<1> QED
  BY <1>8, <1>9

\* The world moves, and the price: no session and no row a session relies on does.
LEMMA WorldKeeps ==
    ASSUME IInv, UNCHANGED <<access, payment, pc, session, history, bounds>>,
           clock' \in 0..MaxClock, clock <= clock', price' \in Prices, arrived' \subseteq Entries
    PROVE  IInv'
<1>1. TypeOK'
  <2>1. \A s \in Sessions : unit[s].now \in Nat /\ unit[s].now <= clock'
    BY SettingsAssumption DEF IInv, TypeOK, Tasks
  <2> QED
    BY <2>1 DEF IInv, TypeOK, session, history, bounds
<1>2. NeverOvergranted' /\ AutomaticOnce' /\ RowsAgree'
  BY DEF IInv, NeverOvergranted, AutomaticOnce, RowsAgree, history
<1>3. \A s \in Sessions : SessionOK(s)'
  BY DEF IInv, SessionOK, Quiet, Doing, Stacks, Honest, Targets, Pays, Recorded, ByAdmin,
         session, history
<1> QED
  BY <1>1, <1>2, <1>3 DEF IInv

LEMMA SetPriceKeeps == ASSUME IInv, NEW p \in Prices, SetPrice(p) PROVE IInv'
<1>1. clock' \in 0..MaxClock /\ clock <= clock' /\ price' \in Prices /\ arrived' \subseteq Entries
  BY SettingsAssumption DEF IInv, TypeOK, SetPrice
<1> QED
  BY <1>1, WorldKeeps DEF SetPrice

LEMMA TickKeeps == ASSUME IInv, Tick PROVE IInv'
<1>1. clock' \in 0..MaxClock /\ clock <= clock' /\ price' \in Prices /\ arrived' \subseteq Entries
  BY SettingsAssumption DEF IInv, TypeOK, Tick, tables
<1> QED
  BY <1>1, WorldKeeps DEF Tick, tables

LEMMA TransferKeeps == ASSUME IInv, NEW e \in Entries, Transfer(e) PROVE IInv'
<1>1. clock' \in 0..MaxClock /\ clock <= clock' /\ price' \in Prices /\ arrived' \subseteq Entries
  BY SettingsAssumption DEF IInv, TypeOK, Transfer, tables
<1> QED
  BY <1>1, WorldKeeps DEF Transfer, tables

LEMMA ReadAccessKeeps == ASSUME IInv, NEW s \in Sessions, ReadAccess(s) PROVE IInv'
<1> DEFINE c == unit[s].corp
           date == Visible(s, c)
           until == ExtendExpiry(date, unit[s].now, unit[s].periods)
           task == [unit[s] EXCEPT !.until = until]
           w == IF IsPerpetual(date) THEN "mark" ELSE "write"
           n == IF c \in DOMAIN draft[s] THEN seen[s] ELSE Put(seen[s], c, date)
<1>1. TypeOK /\ SessionOK(s) /\ NeverOvergranted
  BY DEF IInv
<1>2. /\ unit[s] \in Tasks /\ unit[s].now <= clock /\ pc[s] = "read"
      /\ DOMAIN draft[s] \subseteq Corps /\ draft[s] \in [DOMAIN draft[s] -> Dates]
      /\ DOMAIN seen[s] \subseteq Corps /\ seen[s] \in [DOMAIN seen[s] -> Dates]
      /\ granted[s] \in [Corps -> Nat] /\ access \in [Corps -> Dates]
  BY <1>1, Same DEF ReadAccess, TypeOK
<1>3. Pays(s) /\ c \in Corps /\ unit[s].entry \in Entries
  BY <1>1, <1>2 DEF SessionOK, Doing
<1>4. date \in Dates /\ unit[s].now \in Nat /\ unit[s].periods \in Nat
  BY <1>2, <1>3 DEF Visible, Tasks
\* Whether the row is the session's own draft or the committed one, the new date pays
\* for all its periods from the date it read first.
<1>5. /\ DOMAIN n \subseteq Corps /\ n \in [DOMAIN n -> Dates] /\ c \in DOMAIN n
      /\ c \in DOMAIN draft[s] => n = seen[s]
      /\ c \notin DOMAIN draft[s] => /\ n[c] = access[c] /\ DOMAIN n = DOMAIN seen[s] \cup {c}
                                    /\ \A x \in DOMAIN seen[s] : x # c => n[x] = seen[s][x]
  <2>1. CASE c \in DOMAIN draft[s]
    BY <1>1, <1>2, <1>3, <2>1 DEF SessionOK, Stacks
  <2>2. CASE c \notin DOMAIN draft[s]
    <3>1. n = Put(seen[s], c, date) /\ date = access[c]
      BY <2>2 DEF Visible
    <3> HIDE DEF n, date, c
    <3>2. /\ DOMAIN Put(seen[s], c, date) = DOMAIN seen[s] \cup {c}
          /\ DOMAIN Put(seen[s], c, date) \subseteq Corps
          /\ Put(seen[s], c, date) \in [DOMAIN Put(seen[s], c, date) -> Dates]
          /\ Put(seen[s], c, date)[c] = date
          /\ \A y \in DOMAIN seen[s] : y # c => Put(seen[s], c, date)[y] = seen[s][y]
      BY <1>2, <1>3, <1>4 DEF Put
    <3> QED
      BY <2>2, <3>1, <3>2
  <2> QED
    BY <2>1, <2>2
<1>6. ASSUME date # Never
      PROVE  n[c] # Never /\ until = Due(n[c], unit[s].now, granted[s][c] + unit[s].periods)
  <2>1. CASE c \in DOMAIN draft[s]
    <3>1. /\ n[c] \in Dates /\ n[c] # Never /\ granted[s][c] \in Nat
          /\ date = Due(n[c], unit[s].now, granted[s][c])
      BY <1>1, <1>2, <1>3, <1>5, <2>1 DEF SessionOK, Stacks, Visible
    <3> HIDE DEF n, date
    <3> QED
      BY <1>4, <3>1, ExtendDue
  <2>2. CASE c \notin DOMAIN draft[s]
    <3>1. date = access[c] /\ n[c] = date /\ granted[s][c] = 0
      BY <1>1, <1>3, <1>5, <2>2 DEF SessionOK, Stacks, Visible
    <3> HIDE DEF n, date
    <3> QED
      BY <1>4, <1>6, <3>1, ExtendFresh
  <2> QED
    BY <2>1, <2>2
<1>7. until \in Dates
  <2>1. unit[s].periods * Period \in Nat
    BY <1>4, Times
  <2> DEFINE P == unit[s].periods * Period
  <2> HIDE DEF P, date
  <2>2. until = (IF date \in Nat /\ date > unit[s].now THEN date ELSE unit[s].now) + P
    BY DEF ExtendExpiry, P
  <2>3. P \in Nat
    BY <2>1 DEF P
  <2> QED
    BY <1>4, <2>2, <2>3 DEF Dates
<1>8. /\ task \in Tasks /\ task.now = unit[s].now /\ task.kind = unit[s].kind
      /\ task.corp = c /\ task.periods = unit[s].periods /\ task.entry = unit[s].entry
      /\ task.todo = unit[s].todo /\ task.quote = unit[s].quote /\ task.until = until
  <2> HIDE DEF until
  <2> QED
    BY <1>2, <1>7 DEF Tasks
<1>9. Moves(s, w, task, draft[s], marks[s], n, granted[s])
  <2>1. seen' = [seen EXCEPT ![s] = n]
    BY <1>1, Same DEF ReadAccess
  <2>2. pc' = [pc EXCEPT ![s] = w] /\ unit' = [unit EXCEPT ![s] = task] /\ w \in Steps
    BY DEF ReadAccess, Steps
  <2>3. /\ UNCHANGED <<draft, marks, granted>> /\ requests' \in 0..MaxRequests
        /\ UNCHANGED <<clock, arrived, tables, history, failures>>
    BY <1>1 DEF ReadAccess, bounds, TypeOK
  <2> HIDE DEF n, task, w
  <2> QED
    BY <1>1, <1>2, <1>5, <1>8, <2>1, <2>2, <2>3, Same DEF Moves
<1>10. /\ pc'[s] = w /\ unit'[s] = task /\ draft'[s] = draft[s] /\ marks'[s] = marks[s]
       /\ seen'[s] = n /\ granted'[s] = granted[s]
       /\ SessionOK(s)' => IInv'
  <2> HIDE DEF n, task, w
  <2> QED
    BY <1>9, Step
<1>11. w = (IF date = Never THEN "mark" ELSE "write")
  BY DEF IsPerpetual
<1> HIDE DEF w, task, until, n
<1>12. Quiet(s)' /\ Doing(s)'
  BY <1>1, <1>2, <1>3, <1>8, <1>10, <1>11 DEF SessionOK, Doing, Quiet, Pays
<1>13. Stacks(s)'
  <2>1. Pays(s)' /\ \A x \in Corps \ DOMAIN draft'[s] : granted'[s][x] = 0
    BY <1>1, <1>3, <1>8, <1>10 DEF SessionOK, Stacks, Pays
  <2>2. ASSUME NEW x \in DOMAIN draft'[s]
        PROVE  /\ x \in DOMAIN seen'[s] /\ seen'[s][x] # Never
               /\ draft'[s][x] = Due(seen'[s][x], unit'[s].now, granted'[s][x])
    BY <1>1, <1>3, <1>5, <1>8, <1>10, <2>2 DEF SessionOK, Stacks
  <2>3. ASSUME NEW x \in DOMAIN seen'[s] \ DOMAIN draft'[s]
        PROVE  seen'[s][x] = Never \/ (pc'[s] = "write" /\ unit'[s].corp = x)
    <3>1. CASE x = c
      BY <1>5, <1>8, <1>10, <1>11, <2>3, <3>1 DEF Visible
    <3>2. CASE x # c
      BY <1>1, <1>2, <1>3, <1>5, <1>10, <2>3, <3>2 DEF SessionOK, Stacks
    <3> QED
      BY <3>1, <3>2
  <2>4. pc'[s] = "write" => /\ c \in DOMAIN n /\ n[c] # Never
                            /\ until = Due(n[c], unit[s].now, granted[s][c] + unit[s].periods)
    BY <1>5, <1>6, <1>10, <1>11
  <2> QED
    BY <1>8, <1>10, <2>1, <2>2, <2>3, <2>4 DEF Stacks, Pays
<1>14. Honest(s)'
  BY <1>1, <1>3, <1>5, <1>10, <1>9 DEF SessionOK, Honest, NeverOvergranted, Moves, history
<1>15. Targets(s)'
  BY <1>1, <1>8, <1>9, <1>10 DEF SessionOK, Targets, Moves, tables, Recorded, ByAdmin
<1> QED
  BY <1>10, <1>12, <1>13, <1>14, <1>15 DEF SessionOK

LEMMA UpsertKeeps == ASSUME IInv, NEW s \in Sessions, Upsert(s) PROVE IInv'
<1> DEFINE c == unit[s].corp
           d == Put(draft[s], c, unit[s].until)
           g == [granted[s] EXCEPT ![c] = @ + unit[s].periods]
           w == IF unit[s].kind = "grant" THEN "commit" ELSE "mark"
<1>1. TypeOK /\ SessionOK(s)
  BY DEF IInv
<1>2. /\ unit[s] \in Tasks /\ unit[s].now <= clock /\ pc[s] = "write" /\ unit[s].kind # "revoke"
      /\ DOMAIN draft[s] \subseteq Corps /\ draft[s] \in [DOMAIN draft[s] -> Dates]
      /\ granted[s] \in [Corps -> Nat]
  BY <1>1, Same DEF Upsert
<1>3. /\ c \in Corps /\ c # NoCorp /\ unit[s].kind # "none"
      /\ Pays(s) => unit[s].entry \in Entries /\ unit[s].periods > 0
      /\ ~Pays(s) => unit[s].kind = "grant" /\ unit[s].periods = 0
      /\ unit[s].until \in Dates /\ unit[s].periods \in Nat
  BY <1>1, <1>2, MarksAssumption DEF SessionOK, Doing, Pays, Tasks
<1>4. /\ DOMAIN d = DOMAIN draft[s] \cup {c} /\ DOMAIN d \subseteq Corps
      /\ d \in [DOMAIN d -> Dates] /\ d[c] = unit[s].until
      /\ \A x \in DOMAIN draft[s] : x # c => d[x] = draft[s][x]
  BY <1>2, <1>3 DEF Put
<1>5. /\ g \in [Corps -> Nat] /\ g[c] = granted[s][c] + unit[s].periods
      /\ \A x \in Corps : x # c => g[x] = granted[s][x]
  BY <1>2, <1>3
<1>6. Moves(s, w, unit[s], d, marks[s], seen[s], g)
  <2>1. granted' = [granted EXCEPT ![s] = g]
    BY <1>1, <1>2 DEF Upsert, TypeOK
  <2>2. /\ pc' = [pc EXCEPT ![s] = w] /\ draft' = [draft EXCEPT ![s] = d] /\ w \in Steps
        /\ UNCHANGED <<unit, marks, seen>> /\ requests' \in 0..MaxRequests
        /\ UNCHANGED <<clock, arrived, tables, history, failures>>
    BY <1>1 DEF Upsert, Steps, bounds, TypeOK
  <2> HIDE DEF d, g, w
  <2> QED
    BY <1>1, <1>4, <1>5, <2>1, <2>2, Same DEF Moves
<1> HIDE DEF d, g
<1>7. /\ pc'[s] = w /\ unit'[s] = unit[s] /\ draft'[s] = d /\ marks'[s] = marks[s]
      /\ seen'[s] = seen[s] /\ granted'[s] = g
      /\ SessionOK(s)' => IInv'
  <2> HIDE DEF w
  <2> QED
    BY <1>6, Step
<1>8. Quiet(s)' /\ Doing(s)'
  BY <1>1, <1>2, <1>3, <1>7 DEF SessionOK, Doing, Quiet, Pays
<1>9. Stacks(s)'
  <2>1. CASE ~Pays(s)
    BY <1>1, <1>3, <1>4, <1>5, <1>7, <2>1 DEF SessionOK, Stacks, Pays
  <2>2. CASE Pays(s)
    <3>1. Pays(s)' /\ w = "mark"
      BY <1>7, <2>2 DEF Pays
    <3>2. /\ c \in DOMAIN seen[s] /\ seen[s][c] # Never
          /\ unit[s].until = Due(seen[s][c], unit[s].now, granted[s][c] + unit[s].periods)
      BY <1>1, <1>2, <2>2 DEF SessionOK, Stacks
    <3>3. ASSUME NEW x \in DOMAIN d
          PROVE  /\ x \in DOMAIN seen[s] /\ seen[s][x] # Never
                 /\ d[x] = Due(seen[s][x], unit[s].now, g[x])
      <4>1. CASE x = c
        BY <1>4, <1>5, <3>2, <4>1
      <4>2. CASE x # c
        BY <1>1, <1>2, <1>4, <1>5, <2>2, <3>3, <4>2 DEF SessionOK, Stacks
      <4> QED
        BY <4>1, <4>2
    <3>4. \A x \in DOMAIN seen[s] \ DOMAIN d : seen[s][x] = Never
      BY <1>1, <1>4, <2>2 DEF SessionOK, Stacks
    <3>5. \A x \in Corps \ DOMAIN d : g[x] = 0
      BY <1>1, <1>4, <1>5 DEF SessionOK, Stacks
    <3> QED
      BY <1>7, <3>1, <3>3, <3>4, <3>5 DEF Stacks, Pays
  <2> QED
    BY <2>1, <2>2
<1>10. Honest(s)' /\ Targets(s)'
  BY <1>1, <1>6, <1>7 DEF SessionOK, Honest, Targets, Moves, tables, history, Recorded, ByAdmin
<1> QED
  BY <1>7, <1>8, <1>9, <1>10 DEF SessionOK

LEMMA DeleteKeeps == ASSUME IInv, NEW s \in Sessions, Delete(s) PROVE IInv'
<1> DEFINE c == unit[s].corp
           d == IF draft' = draft THEN draft[s] ELSE Put(draft[s], c, NoAccess)
<1>1. TypeOK /\ SessionOK(s)
  BY DEF IInv
<1>2. /\ unit[s] \in Tasks /\ unit[s].now <= clock /\ pc[s] = "write" /\ unit[s].kind = "revoke"
      /\ DOMAIN draft[s] \subseteq Corps /\ draft[s] \in [DOMAIN draft[s] -> Dates]
  BY <1>1, Same DEF Delete
<1>3. c \in Corps /\ ~Pays(s)
  BY <1>1, <1>2 DEF SessionOK, Doing, Pays
<1>4. /\ DOMAIN draft[s] \subseteq DOMAIN d /\ DOMAIN d \subseteq Corps
      /\ d \in [DOMAIN d -> Dates] /\ \A x \in DOMAIN d : d[x] = NoAccess
  <2>1. NoAccess \in Dates
    BY DEF Dates
  <2>2. \A x \in DOMAIN draft[s] : draft[s][x] = NoAccess
    BY <1>1, <1>2 DEF SessionOK, Stacks
  <2> QED
    BY <1>2, <1>3, <2>1, <2>2 DEF Put
<1>5. Moves(s, "commit", unit[s], d, marks[s], seen[s], granted[s])
  <2>1. draft' = [draft EXCEPT ![s] = d]
    BY <1>1, Same DEF Delete
  <2>2. /\ pc' = [pc EXCEPT ![s] = "commit"]
        /\ UNCHANGED <<unit, marks, seen, granted>> /\ requests' \in 0..MaxRequests
        /\ UNCHANGED <<clock, arrived, tables, history, failures>>
    BY <1>1 DEF Delete, bounds, TypeOK
  <2> HIDE DEF d
  <2> QED
    BY <1>1, <1>4, <2>1, <2>2, Same DEF Moves, Steps
<1> HIDE DEF d
<1>6. /\ pc'[s] = "commit" /\ unit'[s] = unit[s] /\ draft'[s] = d /\ marks'[s] = marks[s]
      /\ seen'[s] = seen[s] /\ granted'[s] = granted[s]
      /\ SessionOK(s)' => IInv'
  BY <1>5, Step
<1>7. Quiet(s)' /\ Doing(s)' /\ Stacks(s)'
  BY <1>1, <1>2, <1>3, <1>4, <1>6 DEF SessionOK, Doing, Quiet, Stacks, Pays
<1>8. Honest(s)' /\ Targets(s)'
  BY <1>1, <1>5, <1>6 DEF SessionOK, Honest, Targets, Moves, tables, history, Recorded, ByAdmin
<1> QED
  BY <1>6, <1>7, <1>8 DEF SessionOK

LEMMA MarkKeeps == ASSUME IInv, NEW s \in Sessions, Mark(s) PROVE IInv'
<1> DEFINE e == unit[s].entry
           row == Row(unit[s].corp, unit[s].periods, By(s))
           m == Put(marks[s], e, row)
           w == IF unit[s].todo = {} THEN "commit" ELSE "pick"
<1>1. TypeOK /\ SessionOK(s)
  BY DEF IInv
<1>2. /\ unit[s] \in Tasks /\ unit[s].now <= clock /\ pc[s] = "mark"
      /\ DOMAIN marks[s] \subseteq Entries /\ marks[s] \in [DOMAIN marks[s] -> Rows]
  BY <1>1, Same DEF Mark
<1>3. Pays(s) /\ e \in Entries
  BY <1>1, <1>2 DEF SessionOK, Doing
<1>4. /\ row \in Rows /\ row.corp = unit[s].corp /\ row.by = By(s)
      /\ row.corp # NoCorp <=> row.periods > 0
  BY <1>1, <1>2, <1>3 DEF SessionOK, Doing, Row, Rows, Tasks, By
<1> HIDE DEF row
<1>5. /\ DOMAIN m = DOMAIN marks[s] \cup {e} /\ DOMAIN m \subseteq Entries
      /\ m \in [DOMAIN m -> Rows] /\ m[e] = row
      /\ \A x \in DOMAIN marks[s] : x # e => m[x] = marks[s][x]
  BY <1>2, <1>3, <1>4 DEF Put
<1>6. Moves(s, w, unit[s], draft[s], m, seen[s], granted[s])
  <2>1. /\ pc' = [pc EXCEPT ![s] = w] /\ marks' = [marks EXCEPT ![s] = m] /\ w \in Steps
        /\ UNCHANGED <<unit, draft, seen, granted>> /\ requests' \in 0..MaxRequests
        /\ UNCHANGED <<clock, arrived, tables, history, failures>>
    BY <1>1 DEF Mark, Steps, bounds, TypeOK, row
  <2> HIDE DEF m, w
  <2> QED
    BY <1>1, <1>5, <2>1, Same DEF Moves
<1> HIDE DEF m
<1>7. /\ pc'[s] = w /\ unit'[s] = unit[s] /\ draft'[s] = draft[s] /\ marks'[s] = m
      /\ seen'[s] = seen[s] /\ granted'[s] = granted[s]
      /\ SessionOK(s)' => IInv'
  <2> HIDE DEF w
  <2> QED
    BY <1>6, Step
<1>8. unit[s].kind = "match" => unit[s].todo = {}
  BY <1>1 DEF SessionOK, Doing
<1>9. Quiet(s)' /\ Doing(s)' /\ Stacks(s)' /\ Honest(s)'
  BY <1>1, <1>2, <1>3, <1>6, <1>7, <1>8
     DEF SessionOK, Doing, Quiet, Stacks, Pays, Honest, Moves, history
<1>10. Targets(s)'
  <2>1. UNCHANGED payment
    BY <1>6 DEF Moves, tables
  <2>2. s # Job => unit[s].corp # NoCorp
    BY <1>1, <1>2, <1>3, MarksAssumption DEF SessionOK, Doing, Pays
  <2> QED
    BY <1>1, <1>3, <1>4, <1>5, <1>7, <2>1, <2>2 DEF SessionOK, Targets, Recorded, ByAdmin, By
<1> QED
  BY <1>7, <1>9, <1>10 DEF SessionOK
-----------------------------------------------------------------------------
(* A session ends *)

LEMMA ClosedOK ==
    ASSUME IInv, NEW s \in Sessions, Closed(s)
    PROVE  /\ SessionOK(s)'
           /\ \A t \in Sessions \ {s} :
                 /\ pc'[t] = pc[t] /\ unit'[t] = unit[t] /\ draft'[t] = draft[t]
                 /\ marks'[t] = marks[t] /\ seen'[t] = seen[t] /\ granted'[t] = granted[t]
           /\ pc'[s] = "idle" /\ unit'[s] = Idle /\ draft'[s] = Nothing
           /\ marks'[s] = Nothing /\ seen'[s] = Nothing
           /\ granted'[s] = [c \in Corps |-> 0]
<1>1. /\ pc'[s] = "idle" /\ unit'[s] = Idle /\ draft'[s] = Nothing
      /\ marks'[s] = Nothing /\ seen'[s] = Nothing /\ granted'[s] = [c \in Corps |-> 0]
  BY DEF IInv, TypeOK, Closed
<1>2. \A t \in Sessions \ {s} :
          /\ pc'[t] = pc[t] /\ unit'[t] = unit[t] /\ draft'[t] = draft[t]
          /\ marks'[t] = marks[t] /\ seen'[t] = seen[t] /\ granted'[t] = granted[t]
  BY DEF IInv, TypeOK, Closed
<1>3. /\ Idle.kind = "none" /\ Idle.corp = NoCorp /\ Idle.periods = 0 /\ Idle.todo = {}
      /\ Idle.entry = NoEntry /\ DOMAIN Nothing = {}
  BY DEF Idle, Nothing
<1>4. SessionOK(s)'
  BY <1>1, <1>3, MarksAssumption DEF SessionOK, Quiet, Doing, Stacks, Honest, Targets, Pays
<1> QED
  BY <1>1, <1>2, <1>4

LEMMA CloseKeeps ==
    ASSUME IInv, NEW s \in Sessions, Closed(s), UNCHANGED <<clock, price, arrived, requests>>,
           failures' \in 0..MaxFailures,
           access' \in [Corps -> Dates], payment' \in [Entries -> Rows],
           applied' \in [Entries -> Nat], owed' \in [Corps -> Nat],
           \A e \in Entries : payment'[e].corp # NoCorp <=> payment'[e].periods > 0,
           \A c \in Corps : owed[c] <= owed'[c],
           s # Job => \A e \in Entries : ~Recorded(e) => ~Recorded(e)',
           \A e \in Entries : ByAdmin(e) => ByAdmin(e)',
           NeverOvergranted', AutomaticOnce', RowsAgree'
    PROVE  IInv'
<1>1. TypeOK
  BY DEF IInv
<1>2. /\ SessionOK(s)'
      /\ \A t \in Sessions \ {s} :
            /\ pc'[t] = pc[t] /\ unit'[t] = unit[t] /\ draft'[t] = draft[t]
            /\ marks'[t] = marks[t] /\ seen'[t] = seen[t] /\ granted'[t] = granted[t]
      /\ pc'[s] = "idle" /\ unit'[s] = Idle /\ draft'[s] = Nothing
      /\ marks'[s] = Nothing /\ seen'[s] = Nothing /\ granted'[s] = [c \in Corps |-> 0]
  BY ClosedOK
<1>3. TypeOK'
  <2>1. Idle \in Tasks /\ Idle.now = 0 /\ clock \in Nat
    BY <1>1, SettingsAssumption DEF Idle, Tasks, Dates, TypeOK
  <2>2. /\ pc' \in [Sessions -> Steps] /\ unit' \in [Sessions -> Tasks]
        /\ draft' = [t \in Sessions |-> draft'[t]] /\ marks' = [t \in Sessions |-> marks'[t]]
        /\ seen' = [t \in Sessions |-> seen'[t]] /\ granted' \in [Sessions -> [Corps -> Nat]]
    BY <1>1, <2>1 DEF TypeOK, Closed, Steps
  <2>3. ASSUME NEW t \in Sessions
        PROVE  /\ unit'[t].now <= clock'
               /\ DOMAIN draft'[t] \subseteq Corps /\ draft'[t] \in [DOMAIN draft'[t] -> Dates]
               /\ DOMAIN marks'[t] \subseteq Entries /\ marks'[t] \in [DOMAIN marks'[t] -> Rows]
               /\ DOMAIN seen'[t] \subseteq Corps /\ seen'[t] \in [DOMAIN seen'[t] -> Dates]
    <3>1. CASE t = s
      <4>1. /\ DOMAIN Nothing = {}
            /\ Nothing \in [DOMAIN Nothing -> Dates] /\ Nothing \in [DOMAIN Nothing -> Rows]
        BY DEF Nothing
      <4>2. unit'[t].now <= clock'
        BY <1>2, <2>1, <3>1
      <4> QED
        BY <1>2, <3>1, <4>1, <4>2
    <3>2. CASE t # s
      BY <1>1, <1>2, <3>2 DEF TypeOK
    <3> QED
      BY <3>1, <3>2
  <2> QED
    BY <1>1, <2>2, <2>3 DEF TypeOK
<1>4. ASSUME NEW t \in Sessions, t # s PROVE SessionOK(t)'
  <2>1. /\ SessionOK(t) /\ DOMAIN seen[t] \subseteq Corps
        /\ DOMAIN marks[t] \subseteq Entries /\ unit[t] \in Tasks
    BY <1>1 DEF IInv, TypeOK
  <2>2. \A c \in Corps : owed[c] \in Nat /\ owed'[c] \in Nat /\ owed[c] <= owed'[c]
    BY <1>1 DEF TypeOK
  <2> QED
    BY <1>2, <1>4, <2>1, <2>2, Frame
<1> QED
  BY <1>2, <1>3, <1>4 DEF IInv

LEMMA FailKeeps == ASSUME IInv, NEW s \in Sessions, Fail(s) PROVE IInv'
<1>1. /\ Closed(s) /\ UNCHANGED <<clock, price, arrived, requests, access, payment, applied, owed>>
      /\ failures' \in 0..MaxFailures
  BY SettingsAssumption DEF IInv, TypeOK, Fail, Rollback, history
<1>2. NeverOvergranted' /\ AutomaticOnce' /\ RowsAgree'
  BY <1>1 DEF IInv, NeverOvergranted, AutomaticOnce, RowsAgree
<1>3. /\ access' \in [Corps -> Dates] /\ payment' \in [Entries -> Rows]
      /\ applied' \in [Entries -> Nat] /\ owed' \in [Corps -> Nat]
      /\ \A e \in Entries : payment'[e].corp # NoCorp <=> payment'[e].periods > 0
      /\ \A c \in Corps : owed[c] <= owed'[c]
      /\ \A e \in Entries : (~Recorded(e) => ~Recorded(e)') /\ (ByAdmin(e) => ByAdmin(e)')
  BY <1>1 DEF IInv, TypeOK, Recorded, ByAdmin
<1> QED
  BY <1>1, <1>2, <1>3, CloseKeeps

\* What a commit makes of a corporation's date is covered by what it adds to what is owed.
LEMMA Covered ==
    ASSUME IInv, NEW s \in Sessions, pc[s] = "commit", NEW c \in Corps
    PROVE  /\ Owed(s, c) \in Nat /\ owed[c] <= Owed(s, c)
           /\ Over(access, draft[s])[c] \in Nat => Over(access, draft[s])[c] <= Owed(s, c)
<1>1. TypeOK /\ SessionOK(s) /\ NeverOvergranted
  BY DEF IInv
<1>2. /\ unit[s] \in Tasks /\ unit[s].now \in Nat /\ unit[s].now <= clock /\ clock \in Nat
      /\ DOMAIN draft[s] \subseteq Corps /\ draft[s] \in [DOMAIN draft[s] -> Dates]
      /\ DOMAIN seen[s] \subseteq Corps /\ seen[s] \in [DOMAIN seen[s] -> Dates]
      /\ granted[s] \in [Corps -> Nat]
  BY <1>1, Same, SettingsAssumption DEF TypeOK, Tasks
<1>3. owed[c] \in Nat /\ access[c] \in Dates /\ (access[c] \in Nat => access[c] <= owed[c])
  BY <1>1 DEF TypeOK, NeverOvergranted
<1>4. Over(access, draft[s])[c] = IF c \in DOMAIN draft[s] THEN draft[s][c] ELSE access[c]
  BY <1>1 DEF Over, TypeOK
<1>5. CASE c \notin DOMAIN draft[s] \/ draft[s][c] \notin Nat
  BY <1>3, <1>4, <1>5 DEF Owed
<1>6. CASE c \in DOMAIN draft[s] /\ draft[s][c] \in Nat /\ unit[s].kind = "grant"
  BY <1>3, <1>4, <1>6 DEF Owed, Larger
<1>7. CASE c \in DOMAIN draft[s] /\ draft[s][c] \in Nat /\ unit[s].kind # "grant"
  <2> DEFINE G == granted[s][c] * Period
  <2>1. G \in Nat
    BY <1>2, Times
  <2>2. Owed(s, c) = Larger(owed[c], clock) + G
    BY <1>7 DEF Owed
  <2>3. Pays(s)
    BY <1>1, <1>2, <1>7, MarksAssumption DEF SessionOK, Doing, Stacks, Pays, Tasks
  <2>4. /\ c \in DOMAIN seen[s] /\ seen[s][c] \in Dates /\ seen[s][c] # Never
        /\ draft[s][c] = Due(seen[s][c], unit[s].now, granted[s][c])
        /\ seen[s][c] \in Nat => seen[s][c] <= owed[c]
    BY <1>1, <1>2, <1>7, <2>3 DEF SessionOK, Stacks, Honest
  <2>5. draft[s][c] <= Larger(owed[c], clock) + G
    BY <1>2, <1>3, <2>4, DueBounded
  <2> HIDE DEF G
  <2> QED
    BY <1>2, <1>3, <1>4, <1>7, <2>1, <2>2, <2>5 DEF Larger
<1> QED
  BY <1>5, <1>6, <1>7

\* What a commit makes of a payment row.
LEMMA Settled ==
    ASSUME IInv, NEW s \in Sessions, pc[s] = "commit", NEW e \in Entries
    PROVE  LET row == Over(payment, marks[s])[e]
           IN  /\ row \in Rows
               /\ row.corp # NoCorp <=> row.periods > 0
               /\ row.corp = NoCorp <=> row.by \in {"nobody", "journal"}
               /\ e \notin DOMAIN marks[s] => row = payment[e]
               /\ e \in DOMAIN marks[s] =>
                    /\ row = marks[s][e]
                    /\ s = Job => ~Recorded(e) /\ row.by \in {"journal", "job"}
                    /\ s # Job => ByAdmin(e) /\ row.by = "admin"
<1>1. TypeOK /\ SessionOK(s) /\ RowsAgree
  BY DEF IInv
<1>2. /\ DOMAIN marks[s] \subseteq Entries /\ marks[s] \in [DOMAIN marks[s] -> Rows]
      /\ payment[e] \in Rows
      /\ payment[e].corp # NoCorp <=> payment[e].periods > 0
      /\ payment[e].corp = NoCorp <=> payment[e].by \in {"nobody", "journal"}
  BY <1>1 DEF TypeOK, RowsAgree
<1>3. Over(payment, marks[s])[e] = IF e \in DOMAIN marks[s] THEN marks[s][e] ELSE payment[e]
  BY <1>1 DEF Over, TypeOK
<1>4. CASE e \notin DOMAIN marks[s]
  BY <1>2, <1>3, <1>4
<1>5. CASE e \in DOMAIN marks[s]
  <2>1. /\ marks[s][e] \in Rows
        /\ marks[s][e].corp # NoCorp <=> marks[s][e].periods > 0
        /\ marks[s][e].by = IF marks[s][e].corp = NoCorp THEN "journal"
                            ELSE IF s = Job THEN "job" ELSE "admin"
        /\ s # Job => marks[s][e].corp # NoCorp /\ ByAdmin(e)
        /\ s = Job => ~Recorded(e)
    BY <1>1, <1>2, <1>5 DEF SessionOK, Targets
  <2> QED
    BY <1>3, <1>5, <2>1
<1> QED
  BY <1>4, <1>5

LEMMA CommitKeeps == ASSUME IInv, NEW s \in Sessions, Commit(s) PROVE IInv'
<1>1. TypeOK /\ NeverOvergranted /\ AutomaticOnce /\ RowsAgree
  BY DEF IInv
<1>2. /\ pc[s] = "commit" /\ Closed(s) /\ UNCHANGED <<clock, price, arrived, requests, failures>>
      /\ access' = Over(access, draft[s]) /\ payment' = Over(payment, marks[s])
      /\ applied' = [e \in Entries |->
                       IF e \in DOMAIN marks[s] /\ marks[s][e].corp # NoCorp
                       THEN applied[e] + 1 ELSE applied[e]]
      /\ owed' = [c \in Corps |-> Owed(s, c)]
  BY DEF Commit, bounds
<1>3. access' \in [Corps -> Dates]
  <2>1. draft[s] \in [DOMAIN draft[s] -> Dates] /\ access \in [Corps -> Dates]
    BY <1>1, Same DEF TypeOK
  <2> QED
    BY <1>2, <2>1 DEF Over
<1>4. /\ owed' \in [Corps -> Nat] /\ \A c \in Corps : owed[c] <= owed'[c]
      /\ NeverOvergranted'
  BY <1>2, Covered DEF NeverOvergranted
<1>5. payment' \in [Entries -> Rows]
  <2>1. \A e \in Entries : payment'[e] \in Rows
    BY <1>2, Settled
  <2>2. payment' = [e \in Entries |-> payment'[e]]
    BY <1>1, <1>2 DEF TypeOK, Over
  <2> QED
    BY <2>1, <2>2
<1>6. \A e \in Entries :
         /\ payment'[e].corp # NoCorp <=> payment'[e].periods > 0
         /\ payment'[e].corp = NoCorp <=> payment'[e].by \in {"nobody", "journal"}
  BY <1>2, Settled
<1>7. /\ s # Job => \A e \in Entries : ~Recorded(e) => ~Recorded(e)'
      /\ \A e \in Entries : ByAdmin(e) => ByAdmin(e)'
  BY <1>2, Settled DEF Recorded, ByAdmin
<1>8. applied' \in [Entries -> Nat]
  BY <1>1, <1>2 DEF TypeOK
<1>9. AutomaticOnce'
  <2> SUFFICES ASSUME NEW e \in Entries
               PROVE  /\ payment'[e].corp = NoCorp => applied'[e] = 0
                      /\ payment'[e].by = "job" => applied'[e] = 1
                      /\ payment'[e].by = "admin" => applied'[e] >= 1
    BY DEF AutomaticOnce
  <2>1. /\ applied[e] \in Nat
        /\ payment[e].corp = NoCorp => applied[e] = 0
        /\ payment[e].by = "job" => applied[e] = 1
        /\ payment[e].by = "admin" => applied[e] >= 1
        /\ payment[e].corp = NoCorp <=> payment[e].by \in {"nobody", "journal"}
    BY <1>1 DEF TypeOK, AutomaticOnce, RowsAgree
  <2>2. CASE e \notin DOMAIN marks[s]
    BY <1>2, <2>1, <2>2, Settled
  <2>3. CASE e \in DOMAIN marks[s] /\ s = Job
    <3>1. /\ payment'[e] = marks[s][e] /\ payment[e].by = "nobody"
          /\ payment'[e].by \in {"journal", "job"}
      BY <1>2, <2>3, Settled DEF Recorded
    <3> QED
      BY <1>2, <1>6, <2>1, <2>3, <3>1
  <2>4. CASE e \in DOMAIN marks[s] /\ s # Job
    <3>1. payment'[e] = marks[s][e] /\ payment'[e].by = "admin"
      BY <1>2, <2>4, Settled
    <3> QED
      BY <1>2, <1>6, <2>1, <2>4, <3>1
  <2> QED
    BY <2>2, <2>3, <2>4
<1>10. failures' \in 0..MaxFailures /\ RowsAgree'
  BY <1>1, <1>2, <1>6 DEF TypeOK, RowsAgree
<1> QED
  BY <1>2, <1>3, <1>4, <1>5, <1>6, <1>7, <1>8, <1>9, <1>10, CloseKeeps
-----------------------------------------------------------------------------
(* The theorems *)

LEMMA InitOK == Init => IInv
<1> SUFFICES ASSUME Init PROVE IInv
  OBVIOUS
<1>1. /\ Idle \in Tasks /\ Idle.now = 0 /\ Idle.kind = "none" /\ Idle.corp = NoCorp
      /\ Idle.periods = 0 /\ Idle.todo = {} /\ Idle.entry = NoEntry
      /\ DOMAIN Nothing = {}
      /\ Nothing \in [DOMAIN Nothing -> Dates] /\ Nothing \in [DOMAIN Nothing -> Rows]
      /\ NotRecorded \in Rows /\ NotRecorded.by = "nobody" /\ NotRecorded.corp = NoCorp
      /\ NotRecorded.periods = 0
  BY DEF Idle, Tasks, Dates, Nothing, NotRecorded, Rows
<1>2. TypeOK
  <2>1. \A s \in Sessions :
          /\ unit[s].now <= clock
          /\ DOMAIN draft[s] \subseteq Corps /\ draft[s] \in [DOMAIN draft[s] -> Dates]
          /\ DOMAIN marks[s] \subseteq Entries /\ marks[s] \in [DOMAIN marks[s] -> Rows]
          /\ DOMAIN seen[s] \subseteq Corps /\ seen[s] \in [DOMAIN seen[s] -> Dates]
    BY <1>1 DEF Init
  <2>2. /\ clock \in 0..MaxClock /\ price \in Prices /\ arrived \subseteq Entries
        /\ requests \in 0..MaxRequests /\ failures \in 0..MaxFailures
    BY SettingsAssumption DEF Init
  <2>3. /\ access \in [Corps -> Dates] /\ payment \in [Entries -> Rows]
        /\ pc \in [Sessions -> Steps] /\ unit \in [Sessions -> Tasks]
        /\ applied \in [Entries -> Nat] /\ owed \in [Corps -> Nat]
        /\ granted \in [Sessions -> [Corps -> Nat]]
    BY <1>1 DEF Init, Steps, Dates
  <2>4. /\ draft = [s \in Sessions |-> draft[s]] /\ marks = [s \in Sessions |-> marks[s]]
        /\ seen = [s \in Sessions |-> seen[s]]
    BY DEF Init
  <2>5. \A e \in Entries : payment[e].corp # NoCorp <=> payment[e].periods > 0
    BY <1>1 DEF Init
  <2> QED
    BY <2>1, <2>2, <2>3, <2>4, <2>5 DEF TypeOK
<1>3. NeverOvergranted /\ AutomaticOnce /\ RowsAgree
  BY <1>1, MarksAssumption DEF Init, NeverOvergranted, AutomaticOnce, RowsAgree
<1>4. \A s \in Sessions : SessionOK(s)
  BY <1>1, MarksAssumption
     DEF Init, SessionOK, Quiet, Doing, Stacks, Honest, Targets, Pays
<1> QED
  BY <1>2, <1>3, <1>4 DEF IInv

LEMMA StepOK == IInv /\ [Next]_vars => IInv'
<1> SUFFICES ASSUME IInv, [Next]_vars PROVE IInv'
  OBVIOUS
<1>1. CASE Pass
  BY <1>1, BeginPassKeeps, PickEntryKeeps DEF Pass
<1>2. ASSUME NEW s \in Sessions, Write(s) \/ Go(s) \/ Fail(s) PROVE IInv'
  BY <1>2, UpsertKeeps, DeleteKeeps, MarkKeeps, ReadAccessKeeps, CommitKeeps, FailKeeps
     DEF Write, Go
<1>3. ASSUME NEW a \in Admins, NEW c \in Corps,
             \/ \E e \in Entries : BeginMatch(a, e, c)
             \/ \E until \in {clock + t : t \in Terms} \cup {Never} : BeginGrant(a, c, until)
             \/ BeginRevoke(a, c)
      PROVE  IInv'
  BY <1>3, BeginMatchKeeps, BeginGrantKeeps, BeginRevokeKeeps
<1>4. CASE \E p \in Prices : SetPrice(p)
  BY <1>4, SetPriceKeeps
<1>5. CASE Tick
  BY <1>5, TickKeeps
<1>6. CASE \E e \in Entries : Transfer(e)
  BY <1>6, TransferKeeps
<1>7. CASE UNCHANGED vars
  <2>1. /\ UNCHANGED <<access, payment, pc, session, history, bounds>>
        /\ clock' = clock /\ price' = price /\ arrived' = arrived
    BY <1>7 DEF vars, tables
  <2>2. clock' \in 0..MaxClock /\ clock <= clock' /\ price' \in Prices /\ arrived' \subseteq Entries
    BY <2>1, SettingsAssumption DEF IInv, TypeOK
  <2> QED
    BY <2>1, <2>2, WorldKeeps
<1> QED
  BY <1>1, <1>2, <1>3, <1>4, <1>5, <1>6, <1>7 DEF Next

\* What a unit in progress knows stays true until it commits or fails, whatever the
\* other sessions commit meanwhile.
THEOREM Inductive == Spec => []IInv
<1>1. Init => IInv
  BY InitOK
<1>2. IInv /\ [Next]_vars => IInv'
  BY StepOK
<1> QED
  BY <1>1, <1>2, PTL DEF Spec

\* Rows, drafts and counters keep their shapes; a payment row names a corporation
\* exactly when it bought periods.
THEOREM TypeCorrect == Spec => []TypeOK
<1>1. IInv => TypeOK
  BY DEF IInv
<1> QED
  BY <1>1, Inductive, PTL

\* No interleaving of the pass, admins, errors and price changes gives a corporation a
\* later date than its grants and committed payments add up to.
THEOREM NoTimeGivenAway == Spec => []NeverOvergranted
<1>1. IInv => NeverOvergranted
  BY DEF IInv
<1> QED
  BY <1>1, Inductive, PTL

\* A payment matched by the pass extends access once, in the commit that records it.
THEOREM MatchedOnce == Spec => []AutomaticOnce
<1>1. IInv => AutomaticOnce
  BY DEF IInv
<1> QED
  BY <1>1, Inductive, PTL

LEMMA CommitStacks ==
    ASSUME IInv, NEW s \in Sessions, Commit(s), NEW c \in DOMAIN seen[s],
           seen[s][c] = access[c]
    PROVE  access'[c] = Due(access[c], unit[s].now, granted[s][c])
<1>1. TypeOK /\ SessionOK(s) /\ pc[s] = "commit" /\ access' = Over(access, draft[s])
  BY DEF IInv, Commit
<1>2. c \in Corps /\ Pays(s) /\ access \in [Corps -> Dates]
  BY <1>1, Same DEF SessionOK, Stacks, TypeOK
<1>3. access'[c] = IF c \in DOMAIN draft[s] THEN draft[s][c] ELSE access[c]
  BY <1>1, <1>2 DEF Over
<1>4. CASE c \in DOMAIN draft[s]
  BY <1>1, <1>2, <1>3, <1>4 DEF SessionOK, Stacks
<1>5. CASE c \notin DOMAIN draft[s]
  <2>1. seen[s][c] = Never
    BY <1>1, <1>2, <1>5 DEF SessionOK, Stacks
  <2> QED
    BY <1>3, <1>5, <2>1 DEF Due
<1> QED
  BY <1>4, <1>5

\* A pass or a match that nobody overtook leaves each corporation with exactly the date
\* its payments buy, also when one pass has several for it; a perpetual grant stays.
THEOREM StackedExactly == Spec => StacksExactly
<1>1. IInv /\ [Next]_vars =>
        [\A s \in Sessions : Commit(s) =>
           \A c \in DOMAIN seen[s] :
              seen[s][c] = access[c] =>
                  access'[c] = Due(access[c], unit[s].now, granted[s][c])]_vars
  BY CommitStacks
<1> QED
  BY <1>1, Inductive, PTL DEF Spec, StacksExactly

\* Access follows from grants and payments for any number of corporations, transfers,
\* admins, requests, prices and failures.
THEOREM GrantsAreSound == Spec => []GrantsSound
<1>1. TypeOK /\ NeverOvergranted /\ AutomaticOnce => GrantsSound
  BY DEF GrantsSound
<1> QED
  BY <1>1, TypeCorrect, NoTimeGivenAway, MatchedOnce, PTL
=============================================================================
