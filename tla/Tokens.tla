------------------------------- MODULE Tokens -------------------------------
(***************************************************************************)
(* The refresh tokens the service holds: one per corporation, and one for  *)
(* the operator's wallet.  Sessions of requests and jobs connect, refresh  *)
(* and disconnect them; each reads a row, calls EVE, and writes the row in *)
(* a commit of its own, so whatever EVE did in between stays done when the *)
(* commit does not happen or another session's happened first.             *)
(*                                                                         *)
(* A token is a grant and the number of times EVE rotated it.              *)
(***************************************************************************)
EXTENDS Naturals, Sequences, SequencesExt, FiniteSets

CONSTANTS
    Corps,          \* corporations, each with at most one row (a unique key)
    Wallets,        \* {the operator's wallet}, or {}: a table without such a key
    Managed,        \* owners that requests are about; the job is about all
    Users,          \* requests and the other jobs, one session each
    Job,            \* the session of the market refresh (max_instances = 1)
    Nil,
    MaxGrants, MaxRotations,    \* bounds: authorizations, rotations of one grant
    MaxFailures     \* bound: outages, failed statements, restarts, changed rights

Owners == Corps \cup Wallets
Sessions == Users \cup {Job}
ASSUME OwnersAssumption == Managed \subseteq Owners /\ Corps \cap Wallets = {} /\ Job \notin Users /\ IsFiniteSet(Corps)
ASSUME BoundsAssumption == {MaxGrants, MaxRotations, MaxFailures} \subseteq Nat /\ Cardinality(Corps) <= MaxGrants
ASSUME NilAssumption == Nil \notin [grant : Nat, turn : Nat]

VARIABLES
    rows,       \* per owner, its committed rows
    grants,     \* EVE's side, by number: the owner, whether it lives, its rotation
    access,     \* corporations whose character may read the structure's market
    sess,       \* per session: step and locals
    candidates, \* the job: corporations still to be tried for this structure
    latest,     \* the corporation whose token fetched last, or Nil
    connected,  \* history: owners connected and not disconnected since
    leaked,     \* history: grants left to EVE by a failure or by a race
    broken,     \* history: owners whose stored token a failure or a race broke
    failures

history == <<connected, leaked, broken>>
vars == <<rows, grants, access, sess, candidates, latest, history, failures>>

Idle == [step |-> "idle", owner |-> Nil, read |-> Nil, token |-> Nil, seen |-> {},
         there |-> {}]   \* history: the grants in its rows when it looked

\* used: place in the order of last_used_at, 0 for never.
Row(token) == [token |-> token, failed |-> FALSE, used |-> 0]
Token(g) == [grant |-> g, turn |-> 0]
Works(t) == grants[t.grant].alive /\ grants[t.grant].turn = t.turn
Stored == {r.token : r \in UNION {rows[o] : o \in Owners}}

\* Every corporation is connected, the wallet is not.
Init ==
    /\ \E order \in SetToSeqs(Corps) :
         /\ grants = [g \in 1..Len(order) |-> [owner |-> order[g], alive |-> TRUE, turn |-> 0]]
         /\ rows = [o \in Owners |-> {Row(Token(g)) : g \in {g \in DOMAIN order : order[g] = o}}]
    /\ access = Corps
    /\ sess = [s \in Sessions |-> Idle]
    /\ candidates = <<>> /\ latest = Nil
    /\ connected = Corps /\ leaked = {} /\ broken = {}
    /\ failures = 0

Goto(s, step) == sess' = [sess EXCEPT ![s].step = step]
End(s) == sess' = [sess EXCEPT ![s] = [Idle EXCEPT !.step = IF s = Job THEN "idle" ELSE "done"]]
Trouble == failures < MaxFailures /\ failures' = failures + 1
Grants(R) == {r.token.grant : r \in R}
TheRow(o) == CHOOSE r \in rows[o] : TRUE

-----------------------------------------------------------------------------
(* Refresh: get_corp_esi_access_token, get_wallet_access_token *)

\* More than one row is an error before anything is done.
BeginRefresh(s, o) ==
    /\ sess[s].step = "idle" /\ s \in Users
    /\ Cardinality(rows[o]) = 1
    /\ sess' = [sess EXCEPT ![s] = [Idle EXCEPT !.step = "refresh", !.owner = o,
                                                !.token = TheRow(o).token]]
    /\ UNCHANGED <<rows, grants, access, candidates, latest, history, failures>>

\* EVE: refuses a dead or rotated token, may rotate the one it accepts.
EveRefreshes(s) ==
    /\ sess[s].step = "refresh"
    /\ LET t == sess[s].token
       IN  IF ~Works(t) THEN Goto(s, "flag") /\ UNCHANGED grants
           ELSE \/ /\ UNCHANGED grants
                   /\ IF s = Job THEN Goto(s, "fetch") ELSE End(s)
                \/ /\ t.turn < MaxRotations
                   /\ grants' = [grants EXCEPT ![t.grant].turn = @ + 1]
                   /\ sess' = [sess EXCEPT ![s].step = "save", ![s].token.turn = @ + 1]
    /\ UNCHANGED <<rows, access, candidates, latest, history, failures>>

Updated_Inserts(o, t) == {Row(t)}                           \* mutant: brings a row back
Updated_Nothing(o, t) == rows[o]                            \* mutant: not persisted
\* UPDATE of whatever row the owner has now; only the wallet's clears the flag.
Updated(o, t) == {[r EXCEPT !.token = t, !.failed = @ /\ o \notin Wallets] : r \in rows[o]}

\* Writing over another grant's row is what two sessions can do to each other.
Save(s) ==
    /\ sess[s].step = "save"
    /\ LET o == sess[s].owner
           t == sess[s].token
           clobbered == {r \in rows[o] : r.token.grant # t.grant}
       IN  /\ rows' = [rows EXCEPT ![o] = Updated(o, t)]
           /\ leaked' = leaked \cup Grants(clobbered)
                               \cup {g \in {t.grant} : rows[o] = {}}
           /\ broken' = IF clobbered = {} THEN broken ELSE broken \cup {o}
    /\ IF s = Job THEN Goto(s, "fetch") ELSE End(s)
    /\ UNCHANGED <<grants, access, candidates, latest, connected, failures>>

Flagged(o) == {[r EXCEPT !.failed = TRUE] : r \in rows[o]}

\* mark_failed, after a refusal and after a 403 of the structure.
Flag(s) ==
    /\ sess[s].step = "flag"
    /\ rows' = [rows EXCEPT ![sess[s].owner] = Flagged(sess[s].owner)]
    /\ IF s = Job THEN Goto(s, "next") ELSE End(s)
    /\ UNCHANGED <<grants, access, candidates, latest, history, failures>>

-----------------------------------------------------------------------------
(* Connect: complete_corp_esi_authorize, complete_wallet_authorize *)

\* The code is exchanged for a new grant, in hand until the commit.
Exchange(s, o) ==
    /\ s \in Users /\ sess[s].step = "idle"
    /\ Len(grants) < MaxGrants
    /\ grants' = Append(grants, [owner |-> o, alive |-> TRUE, turn |-> 0])
    /\ sess' = [sess EXCEPT ![s] = [Idle EXCEPT !.step = "existing", !.owner = o,
                                                !.token = Token(Len(grants'))]]
    /\ UNCHANGED <<rows, access, candidates, latest, history, failures>>

ReadExisting_Ignored(s) == {}                \* mutant: the old grant is forgotten
ReadExisting(s) == rows[sess[s].owner]

\* Two rows in the wallet's table: reading them is an error.
Existing(s) ==
    /\ sess[s].step = "existing"
    /\ IF Cardinality(ReadExisting(s)) > 1
       THEN leaked' = leaked \cup {sess[s].token.grant} /\ End(s)
       ELSE /\ UNCHANGED leaked
            /\ LET now == [sess[s] EXCEPT !.there = Grants(rows[sess[s].owner])]
               IN  sess' = [sess EXCEPT ![s] =
                     IF ReadExisting(s) = {} THEN [now EXCEPT !.step = "store"]
                     ELSE [now EXCEPT !.step = "signout", !.read = TheRow(now.owner).token]]
    /\ UNCHANGED <<rows, grants, access, candidates, latest, connected, broken, failures>>

\* The old grant is revoked at EVE; an outage is swallowed.
SignOut(s) ==
    /\ sess[s].step = "signout"
    /\ LET old == sess[s].read.grant
       IN  \/ /\ grants' = [grants EXCEPT ![old].alive = FALSE]
              /\ UNCHANGED <<leaked, failures>>
           \/ Trouble /\ leaked' = leaked \cup {old} /\ UNCHANGED grants
    /\ Goto(s, IF sess[s].token = Nil THEN "delete" ELSE "store")
    /\ UNCHANGED <<rows, access, candidates, latest, connected, broken>>

\* Grants in the rows a session replaces or deletes that were not there when it looked.
Unread(s, replaced) == Grants(replaced) \ sess[s].there

\* Corporation: one SELECT and one INSERT or UPDATE of the row it finds.
Upsert(s) ==
    /\ sess[s].step = "store" /\ sess[s].owner \in Corps
    /\ LET o == sess[s].owner
           row == IF rows[o] = {} THEN Row(sess[s].token)
                  ELSE [TheRow(o) EXCEPT !.token = sess[s].token, !.failed = FALSE]
       IN  /\ rows' = [rows EXCEPT ![o] = {row}]
           /\ connected' = connected \cup {o}
           /\ leaked' = leaked \cup Unread(s, rows[o])
    /\ End(s)
    /\ UNCHANGED <<grants, access, candidates, latest, broken, failures>>

\* Wallet: a DELETE of the rows its statement sees, then an INSERT and the commit.
Clear(s) ==
    /\ sess[s].step = "store" /\ sess[s].owner \in Wallets
    /\ sess' = [sess EXCEPT ![s].step = "insert", ![s].seen = rows[sess[s].owner]]
    /\ UNCHANGED <<rows, grants, access, candidates, latest, history, failures>>

\* Rows are the same row while they hold the same grant.
Kept(o, seen) == {r \in rows[o] : \A d \in seen : d.token.grant # r.token.grant}

Insert(s) ==
    /\ sess[s].step = "insert"
    /\ LET o == sess[s].owner
       IN  /\ rows' = [rows EXCEPT ![o] = Kept(o, sess[s].seen) \cup {Row(sess[s].token)}]
           /\ connected' = connected \cup {o}
           /\ leaked' = leaked \cup Unread(s, sess[s].seen)
    /\ End(s)
    /\ UNCHANGED <<grants, access, candidates, latest, broken, failures>>

-----------------------------------------------------------------------------
(* Disconnect: revoke *)

BeginRevoke(s, o) ==
    /\ s \in Users /\ sess[s].step = "idle"
    /\ Cardinality(rows[o]) = 1
    /\ sess' = [sess EXCEPT ![s] = [Idle EXCEPT !.step = "signout", !.owner = o,
                                                !.read = TheRow(o).token,
                                                !.there = Grants(rows[o])]]
    /\ UNCHANGED <<rows, grants, access, candidates, latest, history, failures>>

Delete(s) ==
    /\ sess[s].step = "delete"
    /\ LET o == sess[s].owner
       IN  /\ rows' = [rows EXCEPT ![o] = {}]
           /\ connected' = connected \ {o}
           /\ leaked' = leaked \cup Unread(s, rows[o])
    /\ End(s)
    /\ UNCHANGED <<grants, access, candidates, latest, broken, failures>>

-----------------------------------------------------------------------------
(* The job: _fetch_structure_book *)

\* Unflagged first, then least recently used; never used comes first.
Healthier(c, d) ==
    LET a == TheRow(c)  b == TheRow(d)
    IN  IF a.failed # b.failed THEN b.failed ELSE a.used <= b.used

ByHealth(order) ==
    \A i, j \in DOMAIN order : i < j => Healthier(order[i], order[j])

ListCorps ==
    /\ sess[Job].step = "idle"
    /\ \E order \in SetToSeqs({c \in Corps : rows[c] # {}}) :
         ByHealth(order) /\ candidates' = order
    /\ Goto(Job, "next")
    /\ UNCHANGED <<rows, grants, access, latest, history, failures>>

\* Corporations whose row is gone meanwhile are passed over.
TryNext ==
    /\ sess[Job].step = "next"
    /\ IF candidates = <<>> THEN End(Job) /\ UNCHANGED candidates
       ELSE LET c == Head(candidates)
            IN  /\ candidates' = Tail(candidates)
                /\ IF rows[c] = {} THEN UNCHANGED sess
                   ELSE sess' = [sess EXCEPT ![Job] = [Idle EXCEPT !.step = "refresh",
                                    !.owner = c, !.token = TheRow(c).token]]
    /\ UNCHANGED <<rows, grants, access, latest, history, failures>>

\* The structure answers with its book, or with 403.
Fetch ==
    /\ sess[Job].step = "fetch"
    /\ Goto(Job, IF sess[Job].owner \in access THEN "stamp" ELSE "flag")
    /\ UNCHANGED <<rows, grants, access, candidates, latest, history, failures>>

\* The new order of use, as places 1, 2, ...
Place_Stamp(c, d) ==                       \* mutant: every stamp is beyond all others
    1 + Cardinality({e \in Corps : \E q \in rows[e] : 0 < q.used}) + (IF d = c THEN 1 ELSE 0)
Place(c, d) ==
    IF d = c THEN Cardinality(Corps)
    ELSE Cardinality({e \in Corps \ {c} : \E q \in rows[e], r \in rows[d] :
                         0 < q.used /\ q.used <= r.used})
Used_KeepsFlag(c) ==                       \* mutant: a fetch leaves the flag
    [o \in Owners |-> {[r EXCEPT !.used = IF o \in Corps THEN Place(c, o) ELSE @] : r \in rows[o]}]
Used_NoStamp(c) ==                         \* mutant: the order of use stays
    [rows EXCEPT ![c] = {[r EXCEPT !.failed = FALSE] : r \in @}]
\* mark_used: last in the order, and healthy again.
Used(c) ==
    [o \in Owners |-> {[r EXCEPT !.used = IF o \in Corps THEN Place(c, o) ELSE @,
                                 !.failed = @ /\ o # c] : r \in rows[o]}]

Stamp ==
    /\ sess[Job].step = "stamp"
    /\ rows' = Used(sess[Job].owner)
    /\ latest' = sess[Job].owner
    /\ candidates' = <<>>
    /\ End(Job)
    /\ UNCHANGED <<grants, access, history, failures>>

-----------------------------------------------------------------------------
(* What goes wrong *)

\* An outage of EVE or of the database, or a restart, ends a session where it is.
Fail(s) ==
    /\ sess[s].step \notin {"idle", "done"}
    /\ Trouble
    /\ leaked' = leaked \cup (IF sess[s].step \in {"existing", "signout", "store", "insert"}
                                 /\ sess[s].token # Nil
                              THEN {sess[s].token.grant} ELSE {})
    /\ broken' = IF sess[s].step \in {"save", "store", "insert", "delete"}
                 THEN broken \cup {sess[s].owner} ELSE broken
    /\ candidates' = IF s = Job THEN <<>> ELSE candidates
    /\ End(s)
    /\ UNCHANGED <<rows, grants, access, latest, connected>>

\* The character withdraws the application at EVE, or docking rights change.
Withdraw(o) ==
    /\ Trouble
    /\ \E r \in rows[o] : grants' = [grants EXCEPT ![r.token.grant].alive = FALSE]
    /\ broken' = broken \cup {o}
    /\ UNCHANGED <<rows, access, sess, candidates, latest, connected, leaked>>

DockingRights(c) ==
    /\ Trouble
    /\ access' = IF c \in access THEN access \ {c} ELSE access \cup {c}
    /\ UNCHANGED <<rows, grants, sess, candidates, latest, history>>

Step(s) ==
    \/ EveRefreshes(s) \/ Save(s) \/ Flag(s)
    \/ Existing(s) \/ SignOut(s) \/ Upsert(s) \/ Clear(s) \/ Insert(s) \/ Delete(s)
JobStep == ListCorps \/ TryNext \/ Fetch \/ Stamp

Next ==
    \/ \E s \in Sessions : Step(s) \/ Fail(s)
    \/ \E s \in Users, o \in Managed : BeginRefresh(s, o) \/ Exchange(s, o) \/ BeginRevoke(s, o)
    \/ JobStep
    \/ \E o \in Owners : Withdraw(o)
    \/ \E c \in Corps : DockingRights(c)

Spec == Init /\ [][Next]_vars /\ \A s \in Sessions : WF_vars(Step(s)) /\ WF_vars(JobStep)

-----------------------------------------------------------------------------
(* Properties *)

TokenOK(t) == t.grant \in 1..Len(grants) /\ t.turn \in 0..grants[t.grant].turn
TypeOK ==
    /\ Len(grants) <= MaxGrants /\ failures \in 0..MaxFailures
    /\ \A g \in 1..Len(grants) : grants[g].owner \in Owners /\ grants[g].turn \in 0..MaxRotations
    /\ \A o \in Owners : \A r \in rows[o] :
         /\ TokenOK(r.token) /\ grants[r.token.grant].owner = o
         /\ r.failed \in BOOLEAN /\ r.used \in 0..Cardinality(Corps)
    /\ \A c \in Corps : Cardinality(rows[c]) <= 1
    /\ \A s \in Sessions : \A t \in {sess[s].token, sess[s].read} : t = Nil \/ TokenOK(t)
    /\ access \subseteq Corps /\ latest \in Corps \cup {Nil}
    /\ connected \subseteq Owners /\ broken \subseteq Owners /\ leaked \subseteq 1..Len(grants)

\* "Persists a rotated refresh token": while nobody is working on an owner, its stored
\* token is the one EVE will accept, unless a failure fell between EVE and the commit,
\* the grant was withdrawn, or a refresh wrote over a newer connection.
StoredTokenWorks ==
    \A o \in Owners \ broken :
        (\A s \in Sessions : sess[s].owner = o => sess[s].step \in {"fetch", "stamp", "flag"})
            => \A r \in rows[o] : Works(r.token)

\* "The old grant is signed out at EVE": a living grant is stored or in somebody's hand,
\* unless a failure or a concurrent write of the same row left it behind.
SignedOut ==
    \A g \in 1..Len(grants) : grants[g].alive =>
        \/ g \in leaked
        \/ \E t \in Stored : t.grant = g
        \/ \E s \in Sessions : sess[s].token # Nil /\ sess[s].token.grant = g

\* A disconnected credential stays disconnected, whatever was in flight: a refresh or a
\* flag that comes late finds no row and makes none.
DisconnectedStays == \A o \in Owners : rows[o] # {} => o \in connected

\* Rows a structure fetch could use: not flagged, accepted by EVE, allowed to dock.
Fit(c) == c \in access /\ \E r \in rows[c] : Works(r.token) /\ ~r.failed
Usable(c) == c \in access /\ \E r \in rows[c] : Works(r.token)

\* "The fetching token rotates across corps": a token that stays fit is used again and again.
EveryTokenUsed == \A c \in Corps : <>[]Fit(c) => []<>(latest = c)

\* "Self-heals without a re-auth": true where no other token is fit to be tried first.
FlagClears ==
    \A c \in Corps : <>[](Usable(c) /\ \A d \in Corps \ {c} : ~Usable(d))
                        => []<>(\A r \in rows[c] : ~r.failed)

\* The table and EVE agree on a credential: rows are well formed, and what a row holds
\* is what EVE accepts.
TokensSound == TypeOK /\ StoredTokenWorks

\* A credential that was given up is given up on both sides.
GivenUpForGood == SignedOut /\ DisconnectedStays

\* The job keeps every credential in use, the flagged ones included.
TokensRotate == EveryTokenUsed /\ FlagClears


\* What models/operator_wallet_token.py says of the wallet: "at most one row per instance;
\* a re-authorization replaces it".
OneWallet == \A w \in Wallets : Cardinality(rows[w]) <= 1

\* What repositories/corp_esi_token.py says of a flag, of any corporation: it "self-heals
\* without a re-auth" once access is back.
FlagsHeal == \A c \in Corps : <>[]Usable(c) => []<>(\A r \in rows[c] : ~r.failed)
=============================================================================
