---------------------------- MODULE TokensProofs ----------------------------
(***************************************************************************)
(* For any corporations, sessions and bounds: a stored token is the one    *)
(* EVE accepts, a grant is never lost sight of, and a disconnected         *)
(* credential stays disconnected.                                          *)
(*                                                                         *)
(* None of it is inductive alone.  A row may be behind EVE while a session *)
(* carries the rotated token to it, and may hold a dead grant while a      *)
(* session is about to replace it; Mended says that such a session exists, *)
(* Newest that no second one carries an older token of the same grant, and *)
(* Fresh that a grant just exchanged is in its connector's hand alone.     *)
(***************************************************************************)
EXTENDS Tokens, FiniteSetTheorems, TLAPS

(* Types *)

Grant == [owner : Owners, alive : BOOLEAN, turn : 0..MaxRotations]
TokenSet == [grant : Nat, turn : Nat]
RowSet == [token : TokenSet, failed : BOOLEAN, used : 0..Cardinality(Corps)]
UserSteps == {"idle", "done", "refresh", "save", "flag",
              "existing", "signout", "store", "insert", "delete"}
JobSteps == {"idle", "next", "refresh", "save", "flag", "fetch", "stamp"}
Locals == [step : UserSteps \cup JobSteps, owner : Owners \cup {Nil}, read : TokenSet \cup {Nil},
           token : TokenSet \cup {Nil}, seen : SUBSET RowSet, there : SUBSET Nat]

-----------------------------------------------------------------------------
(* The invariant *)

\* EVE gave this token, or a later turn of it, for this owner.
Issued(t, o) ==
    /\ t.grant \in DOMAIN grants /\ t.turn <= grants[t.grant].turn
    /\ grants[t.grant].owner = o

\* The tokens an owner's rows hold.
Held(o) == {r.token : r \in rows[o]}

\* One row of a corporation, finitely many of the wallet.
Small(o) == IsFiniteSet(rows[o]) /\ (o \in Corps => \A r, q \in rows[o] : r = q)

Shapes ==
    /\ grants \in Seq(Grant) /\ Len(grants) <= MaxGrants /\ failures \in 0..MaxFailures
    /\ rows \in [Owners -> SUBSET RowSet] /\ \A o \in Owners : Small(o)
    /\ sess \in [Sessions -> Locals]
    /\ access \subseteq Corps /\ latest \in Corps \cup {Nil} /\ candidates \in Seq(Corps)
    /\ connected \subseteq Owners /\ broken \subseteq Owners /\ leaked \subseteq DOMAIN grants

RowsOK(o) == \A t \in Held(o) : Issued(t, o)

\* What a session carries belongs to its owner; once it has signed out, every grant that
\* was there when it looked is dead, or known to be left behind.
SessionOK(s) ==
    LET x == sess[s]
    IN  /\ x.step \in IF s = Job THEN JobSteps ELSE UserSteps
        /\ x.step \notin {"idle", "done", "next"} => x.owner \in IF s = Job THEN Corps ELSE Owners
        /\ x.token # Nil => Issued(x.token, x.owner)
        /\ x.read # Nil => Issued(x.read, x.owner)
        /\ x.step \in {"refresh", "save", "existing", "store", "insert"} => x.token # Nil
        /\ x.step = "signout" => x.read # Nil /\ x.there = {x.read.grant}
        /\ x.step = "delete" => x.token = Nil
        /\ x.step = "insert" => x.owner \in Wallets
        /\ \A d \in x.seen : d.token.grant \in DOMAIN grants
        /\ x.there \subseteq DOMAIN grants
        /\ x.step \in {"store", "insert", "delete"} =>
              \A g \in x.there : ~grants[g].alive \/ g \in leaked

Basics == Shapes /\ (\A o \in Owners : RowsOK(o)) /\ (\A s \in Sessions : SessionOK(s))

\* A session that connects carries the grant it exchanged the code for.
InHand(s, g) ==
    /\ sess[s].step \in {"existing", "signout", "store", "insert"}
    /\ sess[s].token # Nil /\ sess[s].token.grant = g

\* SignedOut, and who has the grant in hand.
Accounted ==
    \A g \in DOMAIN grants : grants[g].alive =>
        \/ g \in leaked
        \/ \E o \in Owners : \E t \in Held(o) : t.grant = g
        \/ \E s \in Sessions : InHand(s, g)

\* A grant just exchanged works, and is nobody else's.
Fresh(s) ==
    \A g \in DOMAIN grants : InHand(s, g) =>
        /\ grants[g].alive /\ sess[s].token.turn = grants[g].turn
        /\ \A o \in Owners : \A t \in Held(o) : t.grant # g
        /\ \A z \in Sessions \ {s} : sess[z].token # Nil => sess[z].token.grant # g
        /\ \A z \in Sessions : sess[z].read # Nil => sess[z].read.grant # g

\* What is about to be saved is EVE's latest, and nobody has as late a one.
Newest(s) ==
    sess[s].step = "save" =>
        LET g == sess[s].token.grant
        IN  /\ sess[s].token.turn = grants[g].turn
            /\ \A o \in Owners : \A t \in Held(o) :
                  t.grant = g => t.turn < grants[g].turn
            /\ \A z \in Sessions \ {s} :
                  sess[z].step \in {"refresh", "save"} /\ sess[z].token.grant = g
                      => sess[z].token.turn < grants[g].turn

\* Sessions about to put a row right: by the rotated token, or by removing it.
Saving(s, g) == sess[s].step = "save" /\ sess[s].token.grant = g
Removing(s, g) ==
    /\ sess[s].step \in {"store", "insert", "delete"}
    /\ sess[s].read # Nil /\ sess[s].read.grant = g
    /\ sess[s].step = "insert" => \E d \in sess[s].seen : d.token.grant = g

\* StoredTokenWorks at every moment: what a row lacks, a session is about to mend.
Mended ==
    \A o \in Owners \ broken : \A t \in Held(o) :
        /\ \/ grants[t.grant].turn = t.turn
           \/ \E s \in Sessions : sess[s].owner = o /\ Saving(s, t.grant)
        /\ \/ grants[t.grant].alive
           \/ \E s \in Sessions : sess[s].owner = o /\ Removing(s, t.grant)

IInv ==
    /\ Basics /\ Accounted /\ DisconnectedStays
    /\ \A s \in Sessions : Fresh(s) /\ Newest(s)
    /\ Mended

-----------------------------------------------------------------------------
(* Sessions *)

\* A step of one session leaves the others alone.
Only(s) == \A z \in Sessions \ {s} : sess'[z] = sess[z]
SameTokens == \A o \in Owners : Held(o)' = Held(o)
Emptied(x) == x.token = Nil /\ x.read = Nil /\ x.seen = {} /\ x.there = {} /\ x.owner = Nil
Same(s) ==
    /\ sess'[s].token = sess[s].token /\ sess'[s].read = sess[s].read
    /\ sess'[s].seen = sess[s].seen /\ sess'[s].there = sess[s].there
    /\ sess'[s].owner = sess[s].owner

\* Nil is told apart from every token.
LEMMA NilIsNoToken == Nil \notin TokenSet
  BY NilAssumption DEF TokenSet

LEMMA IdleIsLocals ==
    ASSUME NEW step \in UserSteps \cup JobSteps, NEW o \in Owners \cup {Nil},
           NEW t \in TokenSet \cup {Nil}, NEW r \in TokenSet \cup {Nil},
           NEW there \in SUBSET Nat
    PROVE  [step |-> step, owner |-> o, read |-> r, token |-> t, seen |-> {}, there |-> there]
              \in Locals
  BY DEF Locals

LEMMA GotoSays ==
    ASSUME Shapes, NEW s \in Sessions, NEW step \in UserSteps \cup JobSteps, Goto(s, step)
    PROVE  sess' \in [Sessions -> Locals] /\ sess'[s].step = step /\ Same(s) /\ Only(s)
<1>1. sess \in [Sessions -> Locals] /\ sess' = [sess EXCEPT ![s].step = step]
  BY DEF Shapes, Goto
<1>2. sess[s] \in Locals
  BY <1>1
<1>3. sess'[s] = [sess[s] EXCEPT !.step = step]
  BY <1>1
<1>4. sess'[s] \in Locals /\ sess'[s].step = step /\ Same(s)
  BY <1>2, <1>3 DEF Locals, Same
<1> QED
  BY <1>1, <1>4 DEF Only

LEMMA EndSays ==
    ASSUME Shapes, NEW s \in Sessions, End(s)
    PROVE  /\ sess' \in [Sessions -> Locals] /\ sess'[s].step = IF s = Job THEN "idle" ELSE "done"
           /\ Emptied(sess'[s]) /\ Only(s)
<1>1. /\ sess \in [Sessions -> Locals]
      /\ sess' = [sess EXCEPT ![s] = [Idle EXCEPT !.step = IF s = Job THEN "idle" ELSE "done"]]
  BY DEF Shapes, End
<1> DEFINE x == [Idle EXCEPT !.step = IF s = Job THEN "idle" ELSE "done"]
<1>2. x \in Locals /\ x.step = (IF s = Job THEN "idle" ELSE "done") /\ Emptied(x)
  BY DEF Locals, Idle, Emptied, UserSteps, JobSteps
<1> HIDE DEF x
<1> QED
  BY <1>1, <1>2 DEF Only, x
-----------------------------------------------------------------------------
(* Rows *)

\* Rows changed one by one stay rows, and stay as few.
LEMMA MappedRows ==
    ASSUME Shapes, NEW o \in Owners, Small(o), NEW f \in [rows[o] -> RowSet],
           NEW T, \A x : x \in T <=> \E r \in rows[o] : x = f[r]
    PROVE  T \in SUBSET RowSet /\ IsFiniteSet(T) /\ (o \in Corps => \A r, q \in T : r = q)
<1>1. T \in SUBSET RowSet
  OBVIOUS
<1>2. f \in Surjection(rows[o], T)
  BY DEF Surjection
<1>3. IsFiniteSet(T)
  BY <1>2, FS_Surjection DEF Small
<1>4. o \in Corps => \A r, q \in T : r = q
  BY DEF Small
<1> QED
  BY <1>1, <1>3, <1>4

LEMMA TheRowIsRow ==
    ASSUME Shapes, NEW o \in Owners, rows[o] # {}
    PROVE  /\ TheRow(o) \in rows[o] /\ TheRow(o).token \in Held(o)
           /\ TheRow(o).token \in TokenSet /\ TheRow(o) \in RowSet
<1>1. TheRow(o) \in rows[o]
  BY DEF TheRow
<1>2. rows[o] \subseteq RowSet
  BY DEF Shapes
<1> QED
  BY <1>1, <1>2 DEF Held, RowSet

LEMMA OneRow ==
    ASSUME Shapes, NEW o \in Owners, Small(o), rows[o] # {}, ~(Cardinality(rows[o]) > 1)
    PROVE  Grants(rows[o]) = {TheRow(o).token.grant} /\ Grants(rows[o]) \subseteq Nat
<1>1. TheRow(o) \in rows[o] /\ TheRow(o).token \in TokenSet
  BY TheRowIsRow
<1>2. Cardinality(rows[o]) \in Nat /\ Cardinality(rows[o]) # 0
  BY FS_CardinalityType, FS_EmptySet DEF Small
<1>3. Cardinality(rows[o]) = 1
  BY <1>2
<1>4. \E r : rows[o] = {r}
  BY <1>3, FS_Singleton DEF Small
<1>5. rows[o] = {TheRow(o)}
  BY <1>1, <1>4
<1>6. Grants(rows[o]) = {TheRow(o).token.grant}
  BY <1>5 DEF Grants
<1> QED
  BY <1>1, <1>6 DEF TokenSet

LEMMA FlaggedRows ==
    ASSUME Shapes, NEW o \in Owners, Small(o)
    PROVE  /\ Flagged(o) \in SUBSET RowSet /\ IsFiniteSet(Flagged(o))
           /\ o \in Corps => \A r, q \in Flagged(o) : r = q
           /\ {r.token : r \in Flagged(o)} = Held(o)
<1> DEFINE f == [r \in rows[o] |-> [r EXCEPT !.failed = TRUE]]
<1>1. rows[o] \subseteq RowSet
  BY DEF Shapes
<1>2. f \in [rows[o] -> RowSet] /\ \A r \in rows[o] : f[r].token = r.token
  BY <1>1 DEF RowSet
<1>3. Flagged(o) = {f[r] : r \in rows[o]}
  BY DEF Flagged
<1> HIDE DEF f
<1>4. {r.token : r \in Flagged(o)} = Held(o)
  BY <1>2, <1>3 DEF Held
<1>5. /\ Flagged(o) \in SUBSET RowSet /\ IsFiniteSet(Flagged(o))
      /\ o \in Corps => \A r, q \in Flagged(o) : r = q
  <2> DEFINE T == Flagged(o)
  <2>1. \A x : x \in T <=> \E r \in rows[o] : x = f[r]
    BY <1>3
  <2> HIDE DEF T
  <2>2. T \in SUBSET RowSet /\ IsFiniteSet(T) /\ (o \in Corps => \A r, q \in T : r = q)
    BY <1>2, <2>1, MappedRows
  <2> QED
    BY <2>2 DEF T
<1> QED
  BY <1>4, <1>5

LEMMA UpdatedRows ==
    ASSUME Shapes, NEW o \in Owners, Small(o), NEW t \in TokenSet
    PROVE  /\ Updated(o, t) \in SUBSET RowSet /\ IsFiniteSet(Updated(o, t))
           /\ o \in Corps => \A r, q \in Updated(o, t) : r = q
           /\ {r.token : r \in Updated(o, t)} = IF rows[o] = {} THEN {} ELSE {t}
<1> DEFINE f == [r \in rows[o] |-> [r EXCEPT !.token = t, !.failed = @ /\ o \notin Wallets]]
<1>1. rows[o] \subseteq RowSet
  BY DEF Shapes
<1>2. ASSUME NEW r \in rows[o]
      PROVE  [r EXCEPT !.token = t, !.failed = @ /\ o \notin Wallets] \in RowSet
             /\ [r EXCEPT !.token = t, !.failed = @ /\ o \notin Wallets].token = t
  <2>1. r \in RowSet
    BY <1>1
  <2>2. (r.failed /\ o \notin Wallets) \in BOOLEAN
    OBVIOUS
  <2> QED
    BY <2>1, <2>2 DEF RowSet
<1>3. f \in [rows[o] -> RowSet] /\ \A r \in rows[o] : f[r].token = t
  BY <1>2
<1>4. Updated(o, t) = {f[r] : r \in rows[o]}
  BY DEF Updated
<1> HIDE DEF f
<1>5. {r.token : r \in Updated(o, t)} = IF rows[o] = {} THEN {} ELSE {t}
  BY <1>3, <1>4
<1>6. /\ Updated(o, t) \in SUBSET RowSet /\ IsFiniteSet(Updated(o, t))
      /\ o \in Corps => \A r, q \in Updated(o, t) : r = q
  <2> DEFINE T == Updated(o, t)
  <2>1. \A x : x \in T <=> \E r \in rows[o] : x = f[r]
    BY <1>4
  <2> HIDE DEF T
  <2>2. T \in SUBSET RowSet /\ IsFiniteSet(T) /\ (o \in Corps => \A r, q \in T : r = q)
    BY <1>3, <2>1, MappedRows
  <2> QED
    BY <2>2 DEF T
<1> QED
  BY <1>5, <1>6

LEMMA PlaceIsNat ==
    ASSUME NEW c, NEW o
    PROVE  Place(c, o) \in 0..Cardinality(Corps)
<1> DEFINE S == {e \in Corps \ {c} : \E q \in rows[e], r \in rows[o] : 0 < q.used /\ q.used <= r.used}
<1>1. IsFiniteSet(Corps) /\ S \in SUBSET Corps
  BY OwnersAssumption
<1> HIDE DEF S
<1>2. Cardinality(Corps) \in Nat /\ IsFiniteSet(S) /\ Cardinality(S) <= Cardinality(Corps)
  BY <1>1, FS_Subset, FS_CardinalityType
<1>3. Cardinality(S) \in Nat
  BY <1>2, FS_CardinalityType
<1>4. Cardinality(S) \in 0..Cardinality(Corps) /\ Cardinality(Corps) \in 0..Cardinality(Corps)
  BY <1>2, <1>3
<1> QED
  BY <1>4 DEF Place, S

LEMMA UsedRows ==
    ASSUME Shapes, NEW c \in Corps, NEW o \in Owners, Small(o)
    PROVE  /\ Used(c)[o] \in SUBSET RowSet /\ IsFiniteSet(Used(c)[o])
           /\ o \in Corps => \A r, q \in Used(c)[o] : r = q
           /\ {r.token : r \in Used(c)[o]} = Held(o)
<1> DEFINE f == [r \in rows[o] |-> [r EXCEPT !.used = IF o \in Corps THEN Place(c, o) ELSE @,
                                             !.failed = @ /\ o # c]]
<1>1. rows[o] \subseteq RowSet
  BY DEF Shapes
<1>2. ASSUME NEW r \in rows[o]
      PROVE  f[r] \in RowSet /\ f[r].token = r.token
  <2>1. r \in RowSet
    BY <1>1
  <2>2. (r.failed /\ o # c) \in BOOLEAN
    OBVIOUS
  <2>3. (IF o \in Corps THEN Place(c, o) ELSE r.used) \in 0..Cardinality(Corps)
    BY <2>1, PlaceIsNat DEF RowSet
  <2>4. f[r] = [r EXCEPT !.used = IF o \in Corps THEN Place(c, o) ELSE r.used,
                         !.failed = r.failed /\ o # c]
    BY <2>1 DEF RowSet
  <2> HIDE DEF f
  <2> QED
    BY <2>1, <2>2, <2>3, <2>4 DEF RowSet
<1>3. f \in [rows[o] -> RowSet]
  <2>1. \A r \in rows[o] : f[r] \in RowSet
    BY <1>2
  <2> QED
    BY <2>1
<1>4. Used(c)[o] = {f[r] : r \in rows[o]}
  BY DEF Used
<1> HIDE DEF f
<1>5. {r.token : r \in Used(c)[o]} = Held(o)
  BY <1>2, <1>4 DEF Held
<1>6. /\ Used(c)[o] \in SUBSET RowSet /\ IsFiniteSet(Used(c)[o])
      /\ o \in Corps => \A r, q \in Used(c)[o] : r = q
  BY <1>3, <1>4, MappedRows
<1> QED
  BY <1>5, <1>6
-----------------------------------------------------------------------------
(* What each action does, in terms of tokens *)

\* The session moves on, or ends, between no token and another.
Calm(s) ==
    /\ sess' \in [Sessions -> Locals] /\ Only(s) /\ SameTokens
    /\ UNCHANGED <<grants, history>>
    /\ sess[s].step \notin {"save", "existing", "signout", "store", "insert", "delete"}
    /\ \/ Emptied(sess'[s]) /\ sess'[s].step = (IF s = Job THEN "idle" ELSE "done")
       \/ /\ Same(s)
          /\ \/ s = Job /\ sess'[s].step = "next"
             \/ sess'[s].step = "flag" /\ sess[s].step \in {"refresh", "fetch"}
             \/ s = Job /\ sess'[s].step \in {"fetch", "stamp"} /\ sess[s].step \in {"refresh", "fetch"}

\* The session takes a stored token to refresh it.
Took(s, o) ==
    /\ sess' \in [Sessions -> Locals] /\ Only(s) /\ UNCHANGED <<grants, rows, history>>
    /\ sess[s].step \in {"idle", "next"}
    /\ sess'[s].step = "refresh" /\ sess'[s].owner = o /\ sess'[s].token \in Held(o)
    /\ sess'[s].read = Nil /\ sess'[s].seen = {} /\ sess'[s].there = {}

LEMMA SessionTypes ==
    ASSUME Basics, NEW s \in Sessions
    PROVE  /\ sess \in [Sessions -> Locals] /\ sess[s] \in Locals /\ SessionOK(s)
           /\ sess[s].token # Nil => sess[s].token \in TokenSet
           /\ sess[s].read # Nil => sess[s].read \in TokenSet
           /\ sess[s].seen \subseteq RowSet /\ sess[s].there \subseteq Nat
           /\ sess[s].owner \in Owners \cup {Nil}
<1>1. sess \in [Sessions -> Locals] /\ sess[s] \in Locals /\ SessionOK(s)
  BY DEF Basics, Shapes
<1> QED
  BY <1>1 DEF Locals

LEMMA SetTo ==
    ASSUME Basics, NEW s \in Sessions, NEW x \in Locals, sess' = [sess EXCEPT ![s] = x]
    PROVE  sess' \in [Sessions -> Locals] /\ Only(s) /\ sess'[s] = x
  BY DEF Basics, Shapes, Only

LEMMA TokenIsHeld ==
    ASSUME Basics, NEW o \in Owners, NEW t \in Held(o)
    PROVE  t \in TokenSet /\ Issued(t, o)
  BY DEF Basics, RowsOK, Held, Shapes, RowSet

LEMMA TakeSays ==
    ASSUME Basics, NEW s \in Sessions, NEW o \in Owners, NEW t \in Held(o),
           sess[s].step \in {"idle", "next"},
           sess' = [sess EXCEPT ![s] = [Idle EXCEPT !.step = "refresh", !.owner = o, !.token = t]],
           UNCHANGED <<grants, rows, history>>
    PROVE  Took(s, o)
<1> DEFINE x == [Idle EXCEPT !.step = "refresh", !.owner = o, !.token = t]
<1>1. t \in TokenSet
  BY TokenIsHeld
<1>2. /\ x.step = "refresh" /\ x.owner = o /\ x.token = t
      /\ x.read = Nil /\ x.seen = {} /\ x.there = {}
  BY DEF Idle
<1>3. x \in Locals
  BY <1>1 DEF Idle, Locals, UserSteps
<1> HIDE DEF x
<1>4. sess' \in [Sessions -> Locals] /\ Only(s) /\ sess'[s] = x
  BY <1>3, SetTo DEF x
<1>5. /\ sess'[s].step = "refresh" /\ sess'[s].owner = o /\ sess'[s].token = t
      /\ sess'[s].read = Nil /\ sess'[s].seen = {} /\ sess'[s].there = {}
  BY <1>2, <1>4
<1> QED
  BY <1>4, <1>5 DEF Took

LEMMA BeginRefreshSays ==
    ASSUME Basics, NEW s \in Users, NEW o \in Managed, BeginRefresh(s, o)
    PROVE  o \in Owners /\ Took(s, o)
<1>1. o \in Owners /\ s \in Sessions
  BY OwnersAssumption DEF Sessions
<1>2. rows[o] # {}
  BY FS_EmptySet DEF BeginRefresh
<1>3. TheRow(o).token \in Held(o)
  BY <1>1, <1>2, TheRowIsRow DEF Basics
<1> QED
  BY <1>1, <1>3, TakeSays DEF BeginRefresh

\* EVE rotates the token it accepted.
Rotated(s, o, g) ==
    /\ sess[s].step = "refresh" /\ sess[s].owner = o /\ g = sess[s].token.grant
    /\ Works(sess[s].token) /\ sess[s].token # Nil /\ sess[s].token.turn < MaxRotations
    /\ grants' = [grants EXCEPT ![g].turn = @ + 1]
    /\ sess' \in [Sessions -> Locals] /\ Only(s)
    /\ sess'[s].step = "save" /\ sess'[s].owner = o
    /\ sess'[s].token # Nil /\ sess'[s].token.grant = g
    /\ sess'[s].token.turn = sess[s].token.turn + 1
    /\ sess'[s].read = sess[s].read /\ sess'[s].seen = sess[s].seen
    /\ sess'[s].there = sess[s].there
    /\ UNCHANGED <<rows, history>>

LEMMA EveSays ==
    ASSUME Basics, NEW s \in Sessions, EveRefreshes(s)
    PROVE  \/ Calm(s) /\ rows' = rows
           \/ \E o \in Owners, g \in Nat : Rotated(s, o, g)
<1>1. /\ sess[s].step = "refresh" /\ sess \in [Sessions -> Locals] /\ sess[s] \in Locals
      /\ sess[s].token \in TokenSet /\ sess[s].token # Nil
      /\ UNCHANGED <<rows, history>>
  BY SessionTypes DEF EveRefreshes, SessionOK
<1>2. rows' = rows => SameTokens
  BY DEF SameTokens, Held
<1>3. CASE Goto(s, "flag") /\ UNCHANGED grants
  <2>1. "flag" \in UserSteps \cup JobSteps
    BY DEF UserSteps
  <2>2. sess' \in [Sessions -> Locals] /\ sess'[s].step = "flag" /\ Same(s) /\ Only(s)
    BY <1>3, <2>1, GotoSays DEF Basics
  <2> QED
    BY <1>1, <1>2, <1>3, <2>2 DEF Calm
<1>4. CASE UNCHANGED grants /\ s = Job /\ Goto(s, "fetch")
  <2>1. "fetch" \in UserSteps \cup JobSteps
    BY DEF JobSteps
  <2>2. sess' \in [Sessions -> Locals] /\ sess'[s].step = "fetch" /\ Same(s) /\ Only(s)
    BY <1>4, <2>1, GotoSays DEF Basics
  <2> QED
    BY <1>1, <1>2, <1>4, <2>2 DEF Calm
<1>5. CASE UNCHANGED grants /\ End(s)
  <2>1. /\ sess' \in [Sessions -> Locals] /\ sess'[s].step = (IF s = Job THEN "idle" ELSE "done")
        /\ Emptied(sess'[s]) /\ Only(s)
    BY <1>5, EndSays DEF Basics
  <2> QED
    BY <1>1, <1>2, <1>5, <2>1 DEF Calm
<1>6. CASE /\ Works(sess[s].token) /\ sess[s].token.turn < MaxRotations
           /\ grants' = [grants EXCEPT ![sess[s].token.grant].turn = @ + 1]
           /\ sess' = [sess EXCEPT ![s].step = "save", ![s].token.turn = @ + 1]
  <2> DEFINE t == [grant |-> sess[s].token.grant, turn |-> sess[s].token.turn + 1]
             x == [sess[s] EXCEPT !.step = "save", !.token = t]
  <2>1. sess[s].token.turn \in Nat /\ sess[s].token.grant \in Nat
    BY <1>1 DEF TokenSet
  <2>2. t \in TokenSet /\ t # Nil
    BY <2>1, NilIsNoToken DEF TokenSet
  <2>3. [sess[s].token EXCEPT !.turn = @ + 1] = t
    BY <1>1 DEF TokenSet
  <2>4. sess' = [sess EXCEPT ![s] = x]
    BY <1>1, <1>6, <2>3 DEF Locals
  <2> HIDE DEF t
  <2>5. x \in Locals
    BY <1>1, <2>2 DEF Locals, UserSteps
  <2>6. sess' \in [Sessions -> Locals] /\ Only(s) /\ sess'[s] = x
    BY <2>4, <2>5, SetTo
  <2>7. /\ sess'[s].step = "save" /\ sess'[s].token = t
        /\ sess'[s].owner = sess[s].owner /\ sess'[s].read = sess[s].read
        /\ sess'[s].seen = sess[s].seen /\ sess'[s].there = sess[s].there
    BY <1>1, <2>6 DEF Locals
  <2>8. sess'[s].token.grant = sess[s].token.grant /\ sess'[s].token.turn = sess[s].token.turn + 1
    BY <2>7 DEF t
  <2> HIDE DEF x
  <2>9. Rotated(s, sess[s].owner, sess[s].token.grant)
    BY <1>1, <1>6, <2>2, <2>6, <2>7, <2>8 DEF Rotated
  <2>10. sess[s].owner \in Owners /\ sess[s].token.grant \in Nat
    BY <1>1, <2>1, SessionTypes DEF SessionOK, Owners
  <2> QED
    BY <2>9, <2>10
<1> QED
  BY <1>3, <1>4, <1>5, <1>6 DEF EveRefreshes

Shaped == rows \in [Owners -> SUBSET RowSet] /\ \A o \in Owners : Small(o)

LEMMA SameRows == ASSUME Basics, rows' = rows PROVE Shaped' /\ SameTokens
  BY DEF Basics, Shapes, Shaped, Small, SameTokens, Held

LEMMA PutRows ==
    ASSUME Basics, NEW o \in Owners, NEW R \in SUBSET RowSet, IsFiniteSet(R),
           o \in Corps => \A r, q \in R : r = q, rows' = [rows EXCEPT ![o] = R]
    PROVE  /\ Shaped' /\ Held(o)' = {r.token : r \in R}
           /\ \A k \in Owners \ {o} : Held(k)' = Held(k)
<1>1. rows \in [Owners -> SUBSET RowSet] /\ \A k \in Owners : Small(k)
  BY DEF Basics, Shapes
<1>2. rows'[o] = R /\ \A k \in Owners \ {o} : rows'[k] = rows[k]
  BY <1>1
<1>3. rows' \in [Owners -> SUBSET RowSet]
  BY <1>1
<1>4. \A k \in Owners : Small(k)'
  <2>1. Small(o)'
    BY <1>2 DEF Small
  <2>2. ASSUME NEW k \in Owners \ {o} PROVE Small(k)'
    BY <1>1, <1>2, <2>2 DEF Small
  <2> QED
    BY <2>1, <2>2
<1>5. Held(o)' = {r.token : r \in R} /\ \A k \in Owners \ {o} : Held(k)' = Held(k)
  BY <1>2 DEF Held
<1> QED
  BY <1>3, <1>4, <1>5 DEF Shaped

\* The rotated token is written over what the owner has now.
Saved(s, o, t) ==
    /\ sess[s].step = "save" /\ sess[s].owner = o /\ sess[s].token = t /\ t # Nil
    /\ sess' \in [Sessions -> Locals] /\ Only(s) /\ Shaped'
    /\ Held(o)' = (IF Held(o) = {} THEN {} ELSE {t})
    /\ \A k \in Owners \ {o} : Held(k)' = Held(k)
    /\ leaked' = leaked \cup {h.grant : h \in {h \in Held(o) : h.grant # t.grant}}
                        \cup {g \in {t.grant} : Held(o) = {}}
    /\ broken' \subseteq broken \cup {o} /\ broken \subseteq broken'
    /\ o \in broken' \/ \A h \in Held(o) : h.grant = t.grant
    /\ \/ Same(s) /\ s = Job /\ sess'[s].step = "fetch"
       \/ Emptied(sess'[s]) /\ s # Job /\ sess'[s].step = "done"
    /\ UNCHANGED <<grants, connected>>

LEMMA SaveSays ==
    ASSUME Basics, NEW s \in Sessions, Save(s)
    PROVE  \E o \in Owners, t \in TokenSet : Saved(s, o, t)
<1>1. /\ sess[s].step = "save" /\ sess[s].owner \in Owners
      /\ sess[s].token \in TokenSet /\ sess[s].token # Nil
  BY SessionTypes DEF Save, SessionOK, Owners
<1>2. PICK o \in Owners, t \in TokenSet : o = sess[s].owner /\ t = sess[s].token
  BY <1>1
<1> DEFINE clobbered == {r \in rows[o] : r.token.grant # t.grant}
<1>3. /\ rows' = [rows EXCEPT ![o] = Updated(o, t)]
      /\ leaked' = leaked \cup Grants(clobbered) \cup {g \in {t.grant} : rows[o] = {}}
      /\ broken' = IF clobbered = {} THEN broken ELSE broken \cup {o}
      /\ UNCHANGED <<grants, connected>>
  BY <1>2 DEF Save
<1>4. /\ Updated(o, t) \in SUBSET RowSet /\ IsFiniteSet(Updated(o, t))
      /\ o \in Corps => \A r, q \in Updated(o, t) : r = q
      /\ {r.token : r \in Updated(o, t)} = IF rows[o] = {} THEN {} ELSE {t}
  BY UpdatedRows DEF Basics, Shapes
<1>5. (rows[o] = {}) <=> (Held(o) = {})
  BY DEF Held
<1>6. Shaped' /\ Held(o)' = {r.token : r \in Updated(o, t)}
      /\ \A k \in Owners \ {o} : Held(k)' = Held(k)
  BY <1>3, <1>4, PutRows
<1>7. Grants(clobbered) = {h.grant : h \in {h \in Held(o) : h.grant # t.grant}}
  BY DEF Grants, Held
<1>8. clobbered = {} => \A h \in Held(o) : h.grant = t.grant
  BY DEF Held
<1>9. /\ sess' \in [Sessions -> Locals] /\ Only(s)
      /\ \/ Same(s) /\ s = Job /\ sess'[s].step = "fetch"
         \/ Emptied(sess'[s]) /\ s # Job /\ sess'[s].step = "done"
  <2>1. CASE s = Job
    <3>1. "fetch" \in UserSteps \cup JobSteps /\ Goto(s, "fetch")
      BY <2>1 DEF JobSteps, Save
    <3> QED
      BY <2>1, <3>1, GotoSays DEF Basics
  <2>2. CASE s # Job
    BY <2>2, EndSays DEF Basics, Save
  <2> QED
    BY <2>1, <2>2
<1>10. /\ broken' \subseteq broken \cup {o} /\ broken \subseteq broken'
       /\ o \in broken' \/ \A h \in Held(o) : h.grant = t.grant
  BY <1>3, <1>8
<1>11. Held(o)' = (IF Held(o) = {} THEN {} ELSE {t})
  BY <1>4, <1>5, <1>6
<1>12. leaked' = leaked \cup {h.grant : h \in {h \in Held(o) : h.grant # t.grant}}
                       \cup {g \in {t.grant} : Held(o) = {}}
  BY <1>3, <1>5, <1>7
<1> HIDE DEF clobbered
<1>13. Saved(s, o, t)
  BY <1>1, <1>2, <1>3, <1>6, <1>9, <1>10, <1>11, <1>12 DEF Saved
<1> QED
  BY <1>13

LEMMA FlagSays ==
    ASSUME Basics, NEW s \in Sessions, Flag(s)
    PROVE  Calm(s) /\ Shaped'
<1>1. sess[s].step = "flag" /\ sess[s].owner \in Owners
  BY SessionTypes DEF Flag, SessionOK, Owners
<1>2. PICK o \in Owners : o = sess[s].owner
  BY <1>1
<1>3. rows' = [rows EXCEPT ![o] = Flagged(o)] /\ UNCHANGED <<grants, history>>
  BY <1>2 DEF Flag
<1>4. /\ Flagged(o) \in SUBSET RowSet /\ IsFiniteSet(Flagged(o))
      /\ o \in Corps => \A r, q \in Flagged(o) : r = q
      /\ {r.token : r \in Flagged(o)} = Held(o)
  BY FlaggedRows DEF Basics, Shapes
<1>5. Shaped' /\ Held(o)' = Held(o) /\ \A k \in Owners \ {o} : Held(k)' = Held(k)
  BY <1>3, <1>4, PutRows
<1>6. SameTokens
  BY <1>5 DEF SameTokens
<1>7. CASE s = Job /\ Goto(s, "next")
  <2>1. "next" \in UserSteps \cup JobSteps
    BY DEF JobSteps
  <2>2. sess' \in [Sessions -> Locals] /\ sess'[s].step = "next" /\ Same(s) /\ Only(s)
    BY <1>7, <2>1, GotoSays DEF Basics
  <2> QED
    BY <1>1, <1>3, <1>5, <1>6, <1>7, <2>2 DEF Calm
<1>8. CASE End(s)
  <2>1. /\ sess' \in [Sessions -> Locals] /\ sess'[s].step = (IF s = Job THEN "idle" ELSE "done")
        /\ Emptied(sess'[s]) /\ Only(s)
    BY <1>8, EndSays DEF Basics
  <2> QED
    BY <1>1, <1>3, <1>5, <1>6, <2>1 DEF Calm
<1> QED
  BY <1>7, <1>8 DEF Flag

\* A code is exchanged for a new grant.
Exchanged(s, o, g) ==
    /\ s # Job /\ sess[s].step = "idle" /\ g = Len(grants) + 1 /\ g \notin DOMAIN grants
    /\ grants' \in Seq(Grant) /\ Len(grants') <= MaxGrants
    /\ DOMAIN grants' = DOMAIN grants \cup {g}
    /\ \A h \in DOMAIN grants : grants'[h] = grants[h]
    /\ grants'[g].owner = o /\ grants'[g].alive /\ grants'[g].turn = 0
    /\ sess' \in [Sessions -> Locals] /\ Only(s)
    /\ sess'[s].step = "existing" /\ sess'[s].owner = o /\ sess'[s].token # Nil
    /\ sess'[s].token.grant = g /\ sess'[s].token.turn = 0
    /\ sess'[s].read = Nil /\ sess'[s].seen = {} /\ sess'[s].there = {}
    /\ UNCHANGED <<rows, history>>

LEMMA ExchangeSays ==
    ASSUME Basics, NEW s \in Users, NEW o \in Managed, Exchange(s, o)
    PROVE  s \in Sessions /\ o \in Owners /\ \E g \in Nat : Exchanged(s, o, g)
<1> DEFINE g == Len(grants) + 1
           new == [owner |-> o, alive |-> TRUE, turn |-> 0]
           x == [Idle EXCEPT !.step = "existing", !.owner = o, !.token = Token(Len(grants'))]
<1>1. s \in Sessions /\ s # Job /\ o \in Owners
  BY OwnersAssumption DEF Sessions
<1>2. /\ grants \in Seq(Grant) /\ Len(grants) \in Nat /\ Len(grants) < MaxGrants
      /\ MaxGrants \in Nat /\ MaxRotations \in Nat
  BY BoundsAssumption DEF Basics, Shapes, Exchange
<1>3. new \in Grant
  BY <1>1, <1>2 DEF Grant
<1>4. grants' = Append(grants, new)
  BY DEF Exchange
<1> HIDE DEF new
<1>5. /\ grants' \in Seq(Grant) /\ Len(grants') = g /\ g <= MaxGrants
      /\ DOMAIN grants' = DOMAIN grants \cup {g} /\ g \notin DOMAIN grants
      /\ \A h \in DOMAIN grants : grants'[h] = grants[h]
      /\ grants'[g] = new
  BY <1>2, <1>3, <1>4
<1>6. grants'[g].owner = o /\ grants'[g].alive /\ grants'[g].turn = 0
  BY <1>5 DEF new
<1>7. Token(g) \in TokenSet /\ Token(g).grant = g /\ Token(g).turn = 0
  BY <1>2 DEF Token, TokenSet
<1>8. sess[s].step = "idle" /\ sess' = [sess EXCEPT ![s] = x] /\ UNCHANGED <<rows, history>>
  BY DEF Exchange
<1>9. /\ x \in Locals /\ x.step = "existing" /\ x.owner = o /\ x.token = Token(g)
      /\ x.read = Nil /\ x.seen = {} /\ x.there = {}
  BY <1>1, <1>5, <1>7 DEF Idle, Locals, UserSteps
<1> HIDE DEF x
<1>10. sess' \in [Sessions -> Locals] /\ Only(s) /\ sess'[s] = x
  BY <1>1, <1>8, <1>9, SetTo
<1>11. x.token # Nil
  BY <1>7, <1>9, NilIsNoToken
<1>12. g \in Nat
  BY <1>2
<1> HIDE DEF g
<1>13. Exchanged(s, o, g)
  BY <1>1, <1>5, <1>6, <1>7, <1>8, <1>9, <1>10, <1>11 DEF Exchanged, g
<1> QED
  BY <1>1, <1>12, <1>13

\* A session ends with what it carried.
Dropped(s) ==
    /\ sess' \in [Sessions -> Locals] /\ Only(s) /\ Emptied(sess'[s])
    /\ sess'[s].step = IF s = Job THEN "idle" ELSE "done"
    /\ leaked \subseteq leaked' /\ leaked' \subseteq DOMAIN grants
    /\ \A g \in DOMAIN grants : InHand(s, g) => g \in leaked'
    /\ broken \subseteq broken' /\ broken' \subseteq Owners
    /\ sess[s].step \in {"save", "store", "insert", "delete"} => sess[s].owner \in broken'
    /\ UNCHANGED <<rows, grants, connected>>

LEMMA FailSays ==
    ASSUME Basics, NEW s \in Sessions, Fail(s)
    PROVE  Dropped(s)
<1>1. /\ sess' \in [Sessions -> Locals] /\ Only(s) /\ Emptied(sess'[s])
      /\ sess'[s].step = IF s = Job THEN "idle" ELSE "done"
  BY EndSays DEF Basics, Fail
<1> DEFINE L == IF sess[s].step \in {"existing", "signout", "store", "insert"} /\ sess[s].token # Nil
                THEN {sess[s].token.grant} ELSE {}
<1>2. leaked' = leaked \cup L
  BY DEF Fail
<1>3. L \subseteq DOMAIN grants /\ leaked \subseteq DOMAIN grants
  BY DEF Basics, Shapes, SessionOK, Issued
<1>4. \A g \in DOMAIN grants : InHand(s, g) => g \in L
  BY DEF InHand
<1> HIDE DEF L
<1>5. sess[s].step \in {"save", "store", "insert", "delete"} => sess[s].owner \in Owners
  BY SessionTypes DEF SessionOK, Owners
<1>6. /\ broken' = IF sess[s].step \in {"save", "store", "insert", "delete"}
                    THEN broken \cup {sess[s].owner} ELSE broken
      /\ UNCHANGED <<rows, grants, connected>>
  BY DEF Fail
<1>7. broken \subseteq Owners
  BY DEF Basics, Shapes
<1> QED
  BY <1>1, <1>2, <1>3, <1>4, <1>5, <1>6, <1>7 DEF Dropped

\* The connector looks at the row to replace.
Found(s, o) ==
    /\ sess[s].step = "existing" /\ sess[s].owner = o
    /\ sess' \in [Sessions -> Locals] /\ Only(s)
    /\ sess'[s].owner = o /\ sess'[s].token = sess[s].token /\ sess'[s].seen = sess[s].seen
    /\ \/ sess'[s].step = "store" /\ sess'[s].read = sess[s].read /\ sess'[s].there = {}
       \/ /\ sess'[s].step = "signout" /\ sess'[s].read \in Held(o)
          /\ sess'[s].there = {sess'[s].read.grant}
    /\ UNCHANGED <<rows, grants, history>>

LEMMA ExistingSays ==
    ASSUME Basics, NEW s \in Sessions, Existing(s)
    PROVE  Dropped(s) \/ \E o \in Owners : Found(s, o)
<1>1. /\ sess[s].step = "existing" /\ sess[s].owner \in Owners /\ sess[s] \in Locals
      /\ sess[s].token \in TokenSet /\ sess[s].token # Nil
      /\ Issued(sess[s].token, sess[s].owner)
      /\ UNCHANGED <<rows, grants, connected, broken>>
  BY SessionTypes DEF Existing, SessionOK, Owners
<1>2. PICK o \in Owners : o = sess[s].owner
  BY <1>1
<1>3. ReadExisting(s) = rows[o]
  BY <1>2 DEF ReadExisting
<1>4. CASE Cardinality(rows[o]) > 1
  <2>1. leaked' = leaked \cup {sess[s].token.grant} /\ End(s)
    BY <1>3, <1>4 DEF Existing
  <2>2. /\ sess' \in [Sessions -> Locals] /\ Only(s) /\ Emptied(sess'[s])
        /\ sess'[s].step = IF s = Job THEN "idle" ELSE "done"
    BY <2>1, EndSays DEF Basics
  <2>3. leaked' \subseteq DOMAIN grants
    BY <1>1, <2>1 DEF Basics, Shapes, Issued
  <2>4. broken' \subseteq Owners
    BY <1>1 DEF Basics, Shapes
  <2>5. \A g \in DOMAIN grants : InHand(s, g) => g \in leaked'
    BY <2>1 DEF InHand
  <2> QED
    BY <1>1, <2>1, <2>2, <2>3, <2>4, <2>5 DEF Dropped
<1>5. CASE ~(Cardinality(rows[o]) > 1)
  <2> DEFINE now == [sess[s] EXCEPT !.there = Grants(rows[o])]
             x == IF rows[o] = {} THEN [now EXCEPT !.step = "store"]
                  ELSE [now EXCEPT !.step = "signout", !.read = TheRow(o).token]
  <2>1. leaked' = leaked /\ sess' = [sess EXCEPT ![s] = x]
    BY <1>1, <1>2, <1>3, <1>5 DEF Existing, Locals
  <2>2. CASE rows[o] = {}
    <3>1. Grants(rows[o]) = {}
      BY <2>2 DEF Grants
    <3>2. /\ x \in Locals /\ x.step = "store" /\ x.read = sess[s].read /\ x.there = {}
          /\ x.owner = o /\ x.token = sess[s].token /\ x.seen = sess[s].seen
      BY <1>1, <1>2, <2>2, <3>1 DEF Locals, UserSteps
    <3> HIDE DEF x
    <3>3. sess' \in [Sessions -> Locals] /\ Only(s) /\ sess'[s] = x
      BY <2>1, <3>2, SetTo
    <3>4. Found(s, o)
      BY <1>1, <1>2, <2>1, <3>2, <3>3 DEF Found, history
    <3> QED
      BY <3>4
  <2>3. CASE rows[o] # {}
    <3>1. TheRow(o).token \in Held(o) /\ TheRow(o).token \in TokenSet
      BY <2>3, TheRowIsRow DEF Basics
    <3>2. Grants(rows[o]) = {TheRow(o).token.grant} /\ Grants(rows[o]) \subseteq Nat
      BY <1>5, <2>3, OneRow DEF Basics, Shapes
    <3>3. /\ x \in Locals /\ x.step = "signout" /\ x.read = TheRow(o).token
          /\ x.there = {TheRow(o).token.grant}
          /\ x.owner = o /\ x.token = sess[s].token /\ x.seen = sess[s].seen
      BY <1>1, <1>2, <2>3, <3>1, <3>2 DEF Locals, UserSteps
    <3> HIDE DEF x
    <3>4. sess' \in [Sessions -> Locals] /\ Only(s) /\ sess'[s] = x
      BY <2>1, <3>3, SetTo
    <3>5. Found(s, o)
      BY <1>1, <1>2, <2>1, <3>1, <3>3, <3>4 DEF Found, history
    <3> QED
      BY <3>5
  <2> QED
    BY <2>2, <2>3
<1> QED
  BY <1>4, <1>5

\* EVE revokes the old grant, or cannot be reached.
SignedOff(s, o, g) ==
    /\ sess[s].step = "signout" /\ sess[s].owner = o
    /\ sess[s].read # Nil /\ g = sess[s].read.grant
    /\ sess' \in [Sessions -> Locals] /\ Only(s) /\ Same(s)
    /\ sess'[s].step = IF sess[s].token = Nil THEN "delete" ELSE "store"
    /\ \/ grants' = [grants EXCEPT ![g].alive = FALSE] /\ leaked' = leaked
       \/ grants' = grants /\ leaked' = leaked \cup {g}
    /\ UNCHANGED <<rows, connected, broken>>

LEMMA SignOutSays ==
    ASSUME Basics, NEW s \in Sessions, SignOut(s)
    PROVE  \E o \in Owners, g \in Nat : SignedOff(s, o, g)
<1>1. /\ sess[s].step = "signout" /\ sess[s].owner \in Owners
      /\ sess[s].read \in TokenSet /\ sess[s].read # Nil
  BY SessionTypes DEF SignOut, SessionOK, Owners
<1>2. PICK o \in Owners, g \in Nat : o = sess[s].owner /\ g = sess[s].read.grant
  BY <1>1 DEF TokenSet
<1>3. (IF sess[s].token = Nil THEN "delete" ELSE "store") \in UserSteps \cup JobSteps
  BY DEF UserSteps
<1>4. Goto(s, IF sess[s].token = Nil THEN "delete" ELSE "store")
  BY DEF SignOut
<1>5. /\ sess' \in [Sessions -> Locals] /\ Only(s) /\ Same(s)
      /\ sess'[s].step = IF sess[s].token = Nil THEN "delete" ELSE "store"
  BY <1>3, <1>4, GotoSays DEF Basics
<1>6. \/ grants' = [grants EXCEPT ![g].alive = FALSE] /\ leaked' = leaked
      \/ grants' = grants /\ leaked' = leaked \cup {g}
  BY <1>2 DEF SignOut
<1>7. UNCHANGED <<rows, connected, broken>>
  BY DEF SignOut
<1>8. SignedOff(s, o, g)
  BY <1>1, <1>2, <1>5, <1>6, <1>7 DEF SignedOff
<1> QED
  BY <1>8

\* The wallet's DELETE sees the rows of its moment.
Cleared(s, o) ==
    /\ sess[s].step = "store" /\ sess[s].owner = o /\ o \in Wallets
    /\ sess' \in [Sessions -> Locals] /\ Only(s)
    /\ sess'[s].step = "insert" /\ sess'[s].seen = rows[o]
    /\ sess'[s].owner = o /\ sess'[s].token = sess[s].token
    /\ sess'[s].read = sess[s].read /\ sess'[s].there = sess[s].there
    /\ UNCHANGED <<rows, grants, history>>

LEMMA ClearSays ==
    ASSUME Basics, NEW s \in Sessions, Clear(s)
    PROVE  \E o \in Owners : Cleared(s, o)
<1>1. /\ sess[s].step = "store" /\ sess[s].owner \in Owners /\ sess[s] \in Locals
      /\ sess[s].owner \in Wallets
      /\ UNCHANGED <<rows, grants, history>>
  BY SessionTypes DEF Clear, Owners
<1>2. PICK o \in Owners : o = sess[s].owner
  BY <1>1
<1> DEFINE x == [sess[s] EXCEPT !.step = "insert", !.seen = rows[o]]
<1>3. sess' = [sess EXCEPT ![s] = x]
  BY <1>1, <1>2 DEF Clear, Locals
<1>4. rows[o] \in SUBSET RowSet
  BY DEF Basics, Shapes
<1>5. /\ x \in Locals /\ x.step = "insert" /\ x.seen = rows[o] /\ x.owner = o
      /\ x.token = sess[s].token /\ x.read = sess[s].read /\ x.there = sess[s].there
  BY <1>1, <1>2, <1>4 DEF Locals, UserSteps
<1> HIDE DEF x
<1>6. sess' \in [Sessions -> Locals] /\ Only(s) /\ sess'[s] = x
  BY <1>3, <1>5, SetTo
<1>7. Cleared(s, o)
  BY <1>1, <1>2, <1>5, <1>6 DEF Cleared
<1> QED
  BY <1>7

\* Rows are replaced or deleted: Upsert, Insert and Delete.
Replaced(s, o, kept, gone) ==
    /\ sess[s].step \in {"store", "insert", "delete"} /\ sess[s].owner = o
    /\ sess' \in [Sessions -> Locals] /\ Only(s) /\ Emptied(sess'[s])
    /\ sess'[s].step = (IF s = Job THEN "idle" ELSE "done") /\ Shaped'
    /\ kept \subseteq Held(o) /\ gone \subseteq DOMAIN grants
    /\ sess[s].step = "delete" => kept = {}
    /\ \A t \in Held(o) \ kept : t.grant \in gone
    /\ \A t \in kept : ~Removing(s, t.grant)
    /\ leaked' = leaked \cup (gone \ sess[s].there)
    /\ Held(o)' = kept \cup (IF sess[s].step = "delete" THEN {} ELSE {sess[s].token})
    /\ connected' = IF sess[s].step = "delete" THEN connected \ {o} ELSE connected \cup {o}
    /\ \A k \in Owners \ {o} : Held(k)' = Held(k)
    /\ UNCHANGED <<grants, broken>>

LEMMA GrantsHeld ==
    ASSUME Basics, NEW o \in Owners
    PROVE  /\ Grants(rows[o]) \subseteq DOMAIN grants
           /\ \A t \in Held(o) : t.grant \in Grants(rows[o])
  BY DEF Basics, RowsOK, Held, Grants, Issued

LEMMA UpsertSays ==
    ASSUME Basics, NEW s \in Sessions, Upsert(s)
    PROVE  \E o \in Owners, kept \in SUBSET TokenSet, gone \in SUBSET Nat : Replaced(s, o, kept, gone)
<1>1. /\ sess[s].step = "store" /\ sess[s].owner \in Corps
      /\ sess[s].token \in TokenSet /\ sess[s].token # Nil
  BY SessionTypes DEF Upsert, SessionOK
<1>2. PICK o \in Corps, t \in TokenSet : o = sess[s].owner /\ t = sess[s].token
  BY <1>1
<1>3. o \in Owners
  BY DEF Owners
<1> DEFINE row == IF rows[o] = {} THEN Row(t)
                  ELSE [TheRow(o) EXCEPT !.token = t, !.failed = FALSE]
<1>4. /\ rows' = [rows EXCEPT ![o] = {row}] /\ connected' = connected \cup {o}
      /\ leaked' = leaked \cup (Grants(rows[o]) \ sess[s].there)
      /\ UNCHANGED <<grants, broken>> /\ End(s)
  BY <1>2 DEF Upsert, Unread
<1>5. row \in RowSet /\ row.token = t
  <2>1. CASE rows[o] = {}
    <3>1. Cardinality(Corps) \in Nat
      BY OwnersAssumption, FS_CardinalityType
    <3> QED
      BY <2>1, <3>1 DEF Row, RowSet
  <2>2. CASE rows[o] # {}
    <3>1. TheRow(o) \in RowSet
      BY <1>3, <2>2, TheRowIsRow DEF Basics
    <3> QED
      BY <2>2, <3>1 DEF RowSet
  <2> QED
    BY <2>1, <2>2
<1> HIDE DEF row
<1>6. {row} \in SUBSET RowSet /\ IsFiniteSet({row}) /\ {r.token : r \in {row}} = {t}
      /\ \A r, q \in {row} : r = q
  <2>1. IsFiniteSet({row})
    BY FS_Singleton
  <2> QED
    BY <1>5, <2>1
<1>7. Shaped' /\ Held(o)' = {t} /\ \A k \in Owners \ {o} : Held(k)' = Held(k)
  BY <1>3, <1>4, <1>6, PutRows
<1>8. /\ sess' \in [Sessions -> Locals] /\ Only(s) /\ Emptied(sess'[s])
      /\ sess'[s].step = IF s = Job THEN "idle" ELSE "done"
  BY <1>4, EndSays DEF Basics
<1>9. Grants(rows[o]) \subseteq DOMAIN grants /\ \A h \in Held(o) : h.grant \in Grants(rows[o])
  BY <1>3, GrantsHeld
<1>10. Grants(rows[o]) \in SUBSET Nat
  BY <1>9 DEF Basics, Shapes
<1>11. Replaced(s, o, {}, Grants(rows[o]))
  BY <1>1, <1>2, <1>4, <1>7, <1>8, <1>9 DEF Replaced
<1> QED
  BY <1>3, <1>10, <1>11

LEMMA InsertSays ==
    ASSUME Basics, NEW s \in Sessions, Insert(s)
    PROVE  \E o \in Owners, kept \in SUBSET TokenSet, gone \in SUBSET Nat : Replaced(s, o, kept, gone)
<1>1. /\ sess[s].step = "insert" /\ sess[s].owner \in Owners /\ sess[s].token \in TokenSet
      /\ s # Job /\ sess[s].token # Nil /\ sess[s].seen \subseteq RowSet
      /\ \A d \in sess[s].seen : d.token.grant \in DOMAIN grants
  BY SessionTypes DEF Insert, SessionOK, JobSteps, Owners
<1>2. PICK o \in Owners, t \in TokenSet : o = sess[s].owner /\ t = sess[s].token
  BY <1>1
<1>3. o \notin Corps
  BY <1>1, <1>2, SessionTypes, OwnersAssumption DEF SessionOK
<1> DEFINE left == Kept(o, sess[s].seen)
           kept == {r.token : r \in left}
           R == left \cup {Row(t)}
<1>4. /\ rows' = [rows EXCEPT ![o] = R] /\ connected' = connected \cup {o}
      /\ leaked' = leaked \cup (Grants(sess[s].seen) \ sess[s].there)
      /\ UNCHANGED <<grants, broken>> /\ End(s)
  BY <1>2 DEF Insert, Unread
<1>5. /\ left \subseteq rows[o] /\ rows[o] \subseteq RowSet /\ IsFiniteSet(rows[o])
      /\ \A r \in left : \A d \in sess[s].seen : d.token.grant # r.token.grant
      /\ \A r \in rows[o] \ left : \E d \in sess[s].seen : d.token.grant = r.token.grant
  BY DEF Kept, Basics, Shapes, Small
<1> HIDE DEF left
<1>6. Row(t) \in RowSet /\ Row(t).token = t
  <2>1. Cardinality(Corps) \in Nat
    BY OwnersAssumption, FS_CardinalityType
  <2> QED
    BY <2>1 DEF Row, RowSet
<1>7. R \in SUBSET RowSet /\ IsFiniteSet(R) /\ {r.token : r \in R} = kept \cup {t}
  <2>1. IsFiniteSet(left)
    BY <1>5, FS_Subset
  <2>2. IsFiniteSet(left \cup {Row(t)})
    BY <2>1, FS_AddElement
  <2> QED
    BY <1>5, <1>6, <2>2
<1> HIDE DEF R
<1>8. Shaped' /\ Held(o)' = kept \cup {t} /\ \A k \in Owners \ {o} : Held(k)' = Held(k)
  BY <1>3, <1>4, <1>7, PutRows
<1>9. /\ sess' \in [Sessions -> Locals] /\ Only(s) /\ Emptied(sess'[s])
      /\ sess'[s].step = IF s = Job THEN "idle" ELSE "done"
  BY <1>4, EndSays DEF Basics
<1>10. /\ kept \subseteq Held(o) /\ kept \in SUBSET TokenSet
       /\ \A h \in Held(o) \ kept : h.grant \in Grants(sess[s].seen)
       /\ \A h \in kept : \A d \in sess[s].seen : d.token.grant # h.grant
  BY <1>5 DEF Held, Grants, RowSet
<1> HIDE DEF kept
<1>11. Grants(sess[s].seen) \subseteq DOMAIN grants /\ Grants(sess[s].seen) \in SUBSET Nat
  BY <1>1 DEF Grants, Basics, Shapes
<1>12. \A h \in kept : ~Removing(s, h.grant)
  BY <1>1, <1>10 DEF Removing
<1>13. Replaced(s, o, kept, Grants(sess[s].seen))
  BY <1>1, <1>2, <1>4, <1>8, <1>9, <1>10, <1>11, <1>12 DEF Replaced
<1> QED
  BY <1>10, <1>11, <1>13

LEMMA DeleteSays ==
    ASSUME Basics, NEW s \in Sessions, Delete(s)
    PROVE  \E o \in Owners, kept \in SUBSET TokenSet, gone \in SUBSET Nat : Replaced(s, o, kept, gone)
<1>1. sess[s].step = "delete" /\ sess[s].owner \in Owners
  BY SessionTypes DEF Delete, SessionOK, Owners
<1>2. PICK o \in Owners : o = sess[s].owner
  BY <1>1
<1>3. /\ rows' = [rows EXCEPT ![o] = {}] /\ connected' = connected \ {o}
      /\ leaked' = leaked \cup (Grants(rows[o]) \ sess[s].there)
      /\ UNCHANGED <<grants, broken>> /\ End(s)
  BY <1>2 DEF Delete, Unread
<1>4. {} \in SUBSET RowSet /\ IsFiniteSet({}) /\ \A r, q \in {} : r = q
  BY FS_EmptySet
<1>5. Shaped' /\ Held(o)' = {r.token : r \in {}} /\ \A k \in Owners \ {o} : Held(k)' = Held(k)
  BY <1>3, <1>4, PutRows
<1>6. Held(o)' = {}
  BY <1>5
<1>7. /\ sess' \in [Sessions -> Locals] /\ Only(s) /\ Emptied(sess'[s])
      /\ sess'[s].step = IF s = Job THEN "idle" ELSE "done"
  BY <1>3, EndSays DEF Basics
<1>8. Grants(rows[o]) \subseteq DOMAIN grants /\ \A h \in Held(o) : h.grant \in Grants(rows[o])
  BY GrantsHeld
<1>9. Grants(rows[o]) \in SUBSET Nat
  BY <1>8 DEF Basics, Shapes
<1>10. Replaced(s, o, {}, Grants(rows[o]))
  BY <1>1, <1>2, <1>3, <1>5, <1>6, <1>7, <1>8 DEF Replaced
<1> QED
  BY <1>9, <1>10

\* A disconnection begins with the stored token.
Revoking(s, o) ==
    /\ s # Job /\ sess[s].step = "idle"
    /\ sess' \in [Sessions -> Locals] /\ Only(s)
    /\ sess'[s].step = "signout" /\ sess'[s].owner = o /\ sess'[s].read \in Held(o)
    /\ sess'[s].there = {sess'[s].read.grant} /\ sess'[s].token = Nil /\ sess'[s].seen = {}
    /\ UNCHANGED <<rows, grants, history>>

LEMMA BeginRevokeSays ==
    ASSUME Basics, NEW s \in Users, NEW o \in Managed, BeginRevoke(s, o)
    PROVE  s \in Sessions /\ o \in Owners /\ Revoking(s, o)
<1>1. s \in Sessions /\ s # Job /\ o \in Owners
  BY OwnersAssumption DEF Sessions
<1>2. rows[o] # {} /\ ~(Cardinality(rows[o]) > 1) /\ sess[s].step = "idle"
  BY FS_EmptySet DEF BeginRevoke
<1>3. TheRow(o).token \in Held(o) /\ TheRow(o).token \in TokenSet
  BY <1>1, <1>2, TheRowIsRow DEF Basics
<1>4. Grants(rows[o]) = {TheRow(o).token.grant} /\ Grants(rows[o]) \subseteq Nat
  BY <1>1, <1>2, OneRow DEF Basics, Shapes
<1> DEFINE x == [Idle EXCEPT !.step = "signout", !.owner = o, !.read = TheRow(o).token,
                             !.there = Grants(rows[o])]
<1>5. sess' = [sess EXCEPT ![s] = x] /\ UNCHANGED <<rows, grants, history>>
  BY DEF BeginRevoke
<1>6. /\ x \in Locals /\ x.step = "signout" /\ x.owner = o /\ x.read = TheRow(o).token
      /\ x.there = Grants(rows[o]) /\ x.token = Nil /\ x.seen = {}
  BY <1>1, <1>3, <1>4 DEF Idle, Locals, UserSteps
<1> HIDE DEF x
<1>7. sess' \in [Sessions -> Locals] /\ Only(s) /\ sess'[s] = x
  BY <1>1, <1>5, <1>6, SetTo
<1>8. Revoking(s, o)
  BY <1>1, <1>2, <1>3, <1>4, <1>5, <1>6, <1>7 DEF Revoking
<1> QED
  BY <1>1, <1>8

\* The character withdraws a stored grant at EVE.
Withdrawn(o) ==
    /\ \E t \in Held(o) : grants' = [grants EXCEPT ![t.grant].alive = FALSE]
    /\ broken' = broken \cup {o}
    /\ UNCHANGED <<rows, sess, connected, leaked>>

LEMMA WithdrawSays == ASSUME NEW o \in Owners, Withdraw(o) PROVE Withdrawn(o)
  BY DEF Withdraw, Withdrawn, Held

LEMMA ListCorpsSays == ASSUME Basics, ListCorps PROVE Calm(Job) /\ Shaped'
<1>1. "next" \in UserSteps \cup JobSteps /\ Job \in Sessions
  BY DEF JobSteps, Sessions
<1>2. sess[Job].step = "idle" /\ Goto(Job, "next") /\ UNCHANGED <<rows, grants, history>>
  BY DEF ListCorps
<1>3. sess' \in [Sessions -> Locals] /\ sess'[Job].step = "next" /\ Same(Job) /\ Only(Job)
  BY <1>1, <1>2, GotoSays DEF Basics
<1>4. Shaped' /\ SameTokens
  BY <1>2, SameRows
<1> QED
  BY <1>2, <1>3, <1>4 DEF Calm

LEMMA TryNextSays ==
    ASSUME Basics, TryNext
    PROVE  (Calm(Job) /\ Shaped') \/ \E c \in Corps : Took(Job, c)
<1>1. /\ Job \in Sessions /\ sess[Job].step = "next" /\ UNCHANGED <<rows, grants, history>>
      /\ sess \in [Sessions -> Locals]
  BY DEF TryNext, Sessions, Basics, Shapes
<1>2. Shaped' /\ SameTokens
  BY <1>1, SameRows
<1>3. CASE candidates = <<>>
  <2>1. /\ sess' \in [Sessions -> Locals] /\ Only(Job) /\ Emptied(sess'[Job])
        /\ sess'[Job].step = IF Job = Job THEN "idle" ELSE "done"
    BY <1>1, <1>3, EndSays DEF TryNext, Basics
  <2> QED
    BY <1>1, <1>2, <2>1 DEF Calm
<1>4. CASE candidates # <<>> /\ sess' = sess
  BY <1>1, <1>2, <1>4 DEF Calm, Same, Only
<1>5. CASE candidates # <<>> /\ sess' # sess
  <2>1. PICK c \in Corps : c = Head(candidates)
    BY <1>5 DEF Basics, Shapes
  <2>2. rows[c] # {} /\ c \in Owners
    BY <1>5, <2>1 DEF TryNext, Owners
  <2>3. sess' = [sess EXCEPT ![Job] = [Idle EXCEPT !.step = "refresh", !.owner = c,
                                                    !.token = TheRow(c).token]]
    BY <1>5, <2>1, <2>2 DEF TryNext
  <2>4. TheRow(c).token \in Held(c)
    BY <2>2, TheRowIsRow DEF Basics
  <2>5. Took(Job, c)
    BY <1>1, <2>2, <2>3, <2>4, TakeSays
  <2> QED
    BY <2>5
<1> QED
  BY <1>3, <1>4, <1>5

LEMMA FetchSays == ASSUME Basics, Fetch PROVE Calm(Job) /\ Shaped'
<1>1. Job \in Sessions /\ sess[Job].step = "fetch" /\ UNCHANGED <<rows, grants, history>>
  BY DEF Fetch, Sessions
<1>2. PICK step \in {"stamp", "flag"} : Goto(Job, step)
  BY DEF Fetch
<1>3. step \in UserSteps \cup JobSteps
  BY DEF JobSteps
<1>4. sess' \in [Sessions -> Locals] /\ sess'[Job].step = step /\ Same(Job) /\ Only(Job)
  BY <1>1, <1>2, <1>3, GotoSays DEF Basics
<1>5. Shaped' /\ SameTokens
  BY <1>1, SameRows
<1> QED
  BY <1>1, <1>2, <1>4, <1>5 DEF Calm

LEMMA StampSays == ASSUME Basics, Stamp PROVE Calm(Job) /\ Shaped' /\ sess[Job].owner \in Corps
<1>1. /\ Job \in Sessions /\ sess[Job].step = "stamp" /\ UNCHANGED <<grants, history>>
      /\ sess[Job].owner \in Corps
  BY SessionTypes DEF Stamp, Sessions, SessionOK
<1>2. PICK c \in Corps : c = sess[Job].owner
  BY <1>1
<1>3. /\ sess' \in [Sessions -> Locals] /\ Only(Job) /\ Emptied(sess'[Job])
      /\ sess'[Job].step = IF Job = Job THEN "idle" ELSE "done"
  BY <1>1, EndSays DEF Stamp, Basics
<1>4. rows' = Used(c)
  BY <1>2 DEF Stamp
<1>5. ASSUME NEW o \in Owners
      PROVE  /\ Used(c)[o] \in SUBSET RowSet /\ IsFiniteSet(Used(c)[o])
             /\ o \in Corps => \A r, q \in Used(c)[o] : r = q
             /\ {r.token : r \in Used(c)[o]} = Held(o)
  BY UsedRows DEF Basics, Shapes
<1>6. rows' \in [Owners -> SUBSET RowSet]
  <2>1. Used(c) = [o \in Owners |-> Used(c)[o]]
    BY DEF Used
  <2> QED
    BY <1>4, <1>5, <2>1
<1>7. \A o \in Owners : Small(o)'
  BY <1>4, <1>5 DEF Small
<1>8. SameTokens
  BY <1>4, <1>5 DEF SameTokens, Held
<1> QED
  BY <1>1, <1>3, <1>6, <1>7, <1>8 DEF Calm, Shaped
-----------------------------------------------------------------------------
(* What each of them keeps of the invariant *)

\* The part of Shapes about rows, grants and sessions; Others is the rest.
Half ==
    /\ grants \in Seq(Grant) /\ Len(grants) <= MaxGrants /\ Shaped
    /\ sess \in [Sessions -> Locals]
    /\ connected \subseteq Owners /\ broken \subseteq Owners /\ leaked \subseteq DOMAIN grants

Sound ==
    /\ Half /\ (\A o \in Owners : RowsOK(o)) /\ (\A s \in Sessions : SessionOK(s))
    /\ Accounted /\ DisconnectedStays
    /\ (\A s \in Sessions : Fresh(s)) /\ (\A s \in Sessions : Newest(s)) /\ Mended

LEMMA GrantTypes ==
    ASSUME Basics, NEW g \in DOMAIN grants
    PROVE  /\ grants[g] \in Grant /\ grants[g].turn \in Nat /\ grants[g].alive \in BOOLEAN
           /\ g \in Nat
<1>1. grants \in Seq(Grant)
  BY DEF Basics, Shapes
<1>2. grants[g] \in Grant /\ g \in Nat
  BY <1>1
<1> QED
  BY <1>2, BoundsAssumption DEF Grant

\* EVE's side only grows, and only forgets the living.
Grows ==
    /\ DOMAIN grants \subseteq DOMAIN grants' /\ leaked \subseteq leaked'
    /\ \A g \in DOMAIN grants :
          /\ grants'[g].owner = grants[g].owner /\ grants[g].turn <= grants'[g].turn
          /\ grants'[g].turn \in Nat
          /\ ~grants[g].alive => ~grants'[g].alive

LEMMA IssuedStays ==
    ASSUME Basics, Grows, NEW o, NEW t \in TokenSet, Issued(t, o)
    PROVE  Issued(t, o)'
<1>1. /\ t.grant \in DOMAIN grants /\ t.turn \in Nat /\ t.turn <= grants[t.grant].turn
      /\ grants[t.grant].owner = o /\ grants[t.grant].turn \in Nat
  BY GrantTypes DEF Issued, TokenSet
<1>2. /\ t.grant \in DOMAIN grants' /\ grants'[t.grant].owner = o
      /\ grants[t.grant].turn <= grants'[t.grant].turn /\ grants'[t.grant].turn \in Nat
  BY <1>1 DEF Grows
<1>3. t.turn <= grants'[t.grant].turn
  BY <1>1, <1>2
<1> QED
  BY <1>2, <1>3 DEF Issued

LEMMA OthersOK ==
    ASSUME Basics, Grows, NEW z \in Sessions, sess'[z] = sess[z]
    PROVE  SessionOK(z)'
<1>1. /\ SessionOK(z)
      /\ sess[z].token # Nil => sess[z].token \in TokenSet
      /\ sess[z].read # Nil => sess[z].read \in TokenSet
  BY SessionTypes
<1>2. sess[z].token # Nil => Issued(sess[z].token, sess[z].owner)'
  BY <1>1, IssuedStays DEF SessionOK
<1>3. sess[z].read # Nil => Issued(sess[z].read, sess[z].owner)'
  BY <1>1, IssuedStays DEF SessionOK
<1>4. /\ \A d \in sess[z].seen : d.token.grant \in DOMAIN grants'
      /\ sess[z].there \subseteq DOMAIN grants'
      /\ sess[z].step \in {"store", "insert", "delete"} =>
              \A g \in sess[z].there : ~grants'[g].alive \/ g \in leaked'
  BY <1>1 DEF SessionOK, Grows
<1> QED
  BY <1>1, <1>2, <1>3, <1>4 DEF SessionOK, Issued

LEMMA RowsOKStay ==
    ASSUME Basics, Grows, NEW o \in Owners, Held(o)' = Held(o)
    PROVE  RowsOK(o)'
<1>1. \A t \in Held(o) : Issued(t, o)'
  BY TokenIsHeld, IssuedStays
<1> QED
  BY <1>1 DEF RowsOK, Issued

LEMMA EmptiedOK ==
    ASSUME NEW s \in Sessions, Emptied(sess'[s]), sess'[s].step = IF s = Job THEN "idle" ELSE "done"
    PROVE  SessionOK(s)'
  BY DEF SessionOK, Emptied, UserSteps, JobSteps

LEMMA NoRows == ASSUME NEW o PROVE (Held(o) = {}) <=> (rows[o] = {})
  BY DEF Held

\* A token kept, dropped, or taken from a row.
Kin(a, b) == a = b \/ a = Nil \/ \E o \in Owners : a \in Held(o)

\* A step of one session that leaves the grants and every token in the rows alone.
Quiet(s) ==
    /\ sess' \in [Sessions -> Locals] /\ Only(s) /\ Shaped' /\ SameTokens
    /\ UNCHANGED <<grants, history>>
    /\ SessionOK(s)'
    /\ \A g \in DOMAIN grants : InHand(s, g)' <=> InHand(s, g)
    /\ \A g \in DOMAIN grants : InHand(s, g) => sess'[s].token = sess[s].token
    /\ sess[s].step # "save" /\ sess'[s].step # "save"
    /\ Kin(sess'[s].token, sess[s].token) /\ Kin(sess'[s].read, sess[s].read)
    /\ sess'[s].step = "refresh" => \E o \in Owners : sess'[s].token \in Held(o)
    /\ \A o \in Owners : \A t \in Held(o) :
          sess[s].owner = o /\ Removing(s, t.grant) => sess'[s].owner = o /\ Removing(s, t.grant)'

LEMMA QuietKeeps ==
    ASSUME IInv, NEW s \in Sessions, Quiet(s)
    PROVE  Sound'
<1>1. /\ Basics /\ Accounted /\ DisconnectedStays /\ Mended
      /\ \A z \in Sessions : Fresh(z) /\ Newest(z)
  BY DEF IInv
<1>2. /\ grants' = grants /\ connected' = connected /\ leaked' = leaked /\ broken' = broken
      /\ \A z \in Sessions \ {s} : sess'[z] = sess[z]
      /\ \A o \in Owners : Held(o)' = Held(o)
  BY DEF Quiet, history, Only, SameTokens
<1>3. Half'
  BY <1>1, <1>2 DEF Half, Basics, Shapes, Quiet
<1>4. Grows
  BY <1>1, <1>2, GrantTypes DEF Grows
<1>5. \A o \in Owners : RowsOK(o)'
  BY <1>1, <1>2, <1>4, RowsOKStay
<1>6. \A z \in Sessions : SessionOK(z)'
  BY <1>1, <1>2, <1>4, OthersOK DEF Quiet
<1>7. \A z \in Sessions : \A g \in DOMAIN grants : InHand(z, g)' <=> InHand(z, g)
  BY <1>2 DEF InHand, Quiet
<1>8. Accounted'
  BY <1>1, <1>2, <1>7 DEF Accounted
<1>9. DisconnectedStays'
  <2>1. \A o \in Owners : rows'[o] # {} => rows[o] # {}
    BY <1>2 DEF Held
  <2> QED
    BY <1>1, <1>2, <2>1 DEF DisconnectedStays
<1>10. ASSUME NEW z \in Sessions PROVE Fresh(z)'
  <2> SUFFICES ASSUME NEW g \in DOMAIN grants, InHand(z, g)
               PROVE  /\ grants[g].alive /\ sess'[z].token.turn = grants[g].turn
                      /\ \A o \in Owners : \A t \in Held(o) : t.grant # g
                      /\ \A y \in Sessions \ {z} : sess'[y].token # Nil => sess'[y].token.grant # g
                      /\ \A y \in Sessions : sess'[y].read # Nil => sess'[y].read.grant # g
    BY <1>2, <1>7 DEF Fresh
  <2>1. /\ grants[g].alive /\ sess[z].token.turn = grants[g].turn
        /\ \A o \in Owners : \A t \in Held(o) : t.grant # g
        /\ \A y \in Sessions \ {z} : sess[y].token # Nil => sess[y].token.grant # g
        /\ \A y \in Sessions : sess[y].read # Nil => sess[y].read.grant # g
    BY <1>1 DEF Fresh
  <2>2. sess'[z].token = sess[z].token
    BY <1>2 DEF Quiet
  <2>3. \A y \in Sessions \ {z} : sess'[y].token # Nil => sess'[y].token.grant # g
    BY <1>2, <2>1 DEF Quiet, Kin
  <2>4. \A y \in Sessions : sess'[y].read # Nil => sess'[y].read.grant # g
    BY <1>2, <2>1 DEF Quiet, Kin
  <2> QED
    BY <2>1, <2>2, <2>3, <2>4
<1>11. ASSUME NEW z \in Sessions PROVE Newest(z)'
  <2> SUFFICES ASSUME sess'[z].step = "save" PROVE Newest(z)'
    BY DEF Newest
  <2>1. z # s /\ sess'[z] = sess[z] /\ Newest(z)
    BY <1>1, <1>2 DEF Quiet
  <2>2. sess'[s].step = "refresh" => \E o \in Owners : sess'[s].token \in Held(o)
    BY DEF Quiet
  <2>3. sess'[s].step # "save"
    BY DEF Quiet
  <2> QED
    BY <1>2, <2>1, <2>2, <2>3 DEF Newest
<1>12. Mended'
  <2> SUFFICES ASSUME NEW o \in Owners \ broken, NEW t \in Held(o)
               PROVE  /\ \/ grants[t.grant].turn = t.turn
                         \/ \E z \in Sessions : sess'[z].owner = o /\ Saving(z, t.grant)'
                      /\ \/ grants[t.grant].alive
                         \/ \E z \in Sessions : sess'[z].owner = o /\ Removing(z, t.grant)'
    BY <1>2 DEF Mended
  <2>1. /\ \/ grants[t.grant].turn = t.turn
           \/ \E z \in Sessions : sess[z].owner = o /\ Saving(z, t.grant)
        /\ \/ grants[t.grant].alive
           \/ \E z \in Sessions : sess[z].owner = o /\ Removing(z, t.grant)
    BY <1>1 DEF Mended
  <2>2. ASSUME NEW z \in Sessions, sess[z].owner = o, Saving(z, t.grant)
        PROVE  sess'[z].owner = o /\ Saving(z, t.grant)'
    BY <1>2, <2>2 DEF Saving, Quiet
  <2>3. ASSUME NEW z \in Sessions, sess[z].owner = o, Removing(z, t.grant)
        PROVE  sess'[z].owner = o /\ Removing(z, t.grant)'
    <3>1. CASE z = s
      BY <2>3, <3>1 DEF Quiet
    <3>2. CASE z # s
      BY <1>2, <2>3, <3>2 DEF Removing
    <3> QED
      BY <3>1, <3>2
  <2> QED
    BY <2>1, <2>2, <2>3
<1> QED
  BY <1>3, <1>5, <1>6, <1>8, <1>9, <1>10, <1>11, <1>12 DEF Sound

LEMMA CalmIsQuiet ==
    ASSUME Basics, NEW s \in Sessions, Calm(s), Shaped'
    PROVE  Quiet(s)
<1>1. SessionOK(s) /\ sess[s] \in Locals
  BY SessionTypes
<1>2. SessionOK(s)'
  <2>1. CASE Emptied(sess'[s]) /\ sess'[s].step = (IF s = Job THEN "idle" ELSE "done")
    BY <2>1, EmptiedOK
  <2>2. CASE Same(s) /\ s = Job /\ sess'[s].step = "next"
    BY <1>1, <2>2 DEF SessionOK, Same, Calm, JobSteps, Issued
  <2>3. CASE /\ Same(s) /\ sess[s].step \in {"refresh", "fetch"}
             /\ sess'[s].step = "flag" \/ (s = Job /\ sess'[s].step \in {"fetch", "stamp"})
    BY <1>1, <2>3 DEF SessionOK, Same, Calm, JobSteps, UserSteps, Issued
  <2> QED
    BY <2>1, <2>2, <2>3 DEF Calm
<1>3. sess'[s].step \notin {"save", "refresh", "existing", "signout", "store", "insert", "delete"}
  BY DEF Calm
<1>4. Kin(sess'[s].token, sess[s].token) /\ Kin(sess'[s].read, sess[s].read)
  BY DEF Kin, Calm, Same, Emptied
<1> QED
  BY <1>2, <1>3, <1>4 DEF Quiet, Calm, InHand, Removing

LEMMA TookIsQuiet ==
    ASSUME Basics, NEW s \in Sessions, NEW o \in Owners, s = Job => o \in Corps, Took(s, o)
    PROVE  Quiet(s)
<1>1. Shaped' /\ SameTokens
  BY SameRows DEF Took
<1>2. sess'[s].token \in TokenSet /\ Issued(sess'[s].token, o) /\ grants' = grants
  BY TokenIsHeld DEF Took
<1>3. SessionOK(s)'
  BY <1>2, NilIsNoToken DEF SessionOK, Took, UserSteps, JobSteps, Issued
<1> QED
  BY <1>1, <1>3 DEF Quiet, Took, InHand, Removing, Kin

LEMMA FoundIsQuiet ==
    ASSUME Basics, NEW s \in Sessions, NEW o \in Owners, Found(s, o)
    PROVE  Quiet(s)
<1>1. Shaped' /\ SameTokens
  BY SameRows DEF Found
<1>2. /\ SessionOK(s) /\ s # Job /\ sess[s].token # Nil /\ Issued(sess[s].token, o)
      /\ grants' = grants
  BY SessionTypes DEF SessionOK, Found, JobSteps
<1>3. sess'[s].read \in Held(o) => Issued(sess'[s].read, o) /\ sess'[s].read # Nil
  BY TokenIsHeld, NilIsNoToken
<1>4. SessionOK(s)'
  <2>1. CASE sess'[s].step = "store"
    BY <1>2, <2>1 DEF SessionOK, Found, UserSteps, Issued
  <2>2. CASE sess'[s].step = "signout"
    BY <1>2, <1>3, <2>2 DEF SessionOK, Found, UserSteps, Issued
  <2> QED
    BY <2>1, <2>2 DEF Found
<1>5. Kin(sess'[s].token, sess[s].token) /\ Kin(sess'[s].read, sess[s].read)
  BY DEF Kin, Found
<1> QED
  BY <1>1, <1>4, <1>5 DEF Quiet, Found, InHand, Removing

LEMMA ClearedIsQuiet ==
    ASSUME Basics, NEW s \in Sessions, NEW o \in Owners, Cleared(s, o)
    PROVE  Quiet(s)
<1>1. Shaped' /\ SameTokens
  BY SameRows DEF Cleared
<1>2. SessionOK(s) /\ s # Job /\ sess[s].token # Nil /\ grants' = grants /\ leaked' = leaked
  BY SessionTypes DEF SessionOK, Cleared, JobSteps, history
<1>3. \A d \in rows[o] : d.token.grant \in DOMAIN grants
  BY DEF Basics, RowsOK, Held, Issued
<1>4. SessionOK(s)'
  BY <1>2, <1>3 DEF SessionOK, Cleared, UserSteps, Issued
<1>5. Kin(sess'[s].token, sess[s].token) /\ Kin(sess'[s].read, sess[s].read)
  BY DEF Kin, Cleared
<1>6. ASSUME NEW k \in Owners, NEW t \in Held(k), sess[s].owner = k, Removing(s, t.grant)
      PROVE  sess'[s].owner = k /\ Removing(s, t.grant)'
  BY <1>6 DEF Cleared, Removing, Held
<1> QED
  BY <1>1, <1>4, <1>5, <1>6 DEF Quiet, Cleared, InHand

LEMMA RevokingIsQuiet ==
    ASSUME Basics, NEW s \in Sessions, NEW o \in Owners, Revoking(s, o)
    PROVE  Quiet(s)
<1>1. Shaped' /\ SameTokens
  BY SameRows DEF Revoking
<1>2. Issued(sess'[s].read, o) /\ sess'[s].read # Nil /\ grants' = grants
  BY TokenIsHeld, NilIsNoToken DEF Revoking
<1>3. SessionOK(s)'
  BY <1>2 DEF SessionOK, Revoking, UserSteps, Issued
<1>4. Kin(sess'[s].token, sess[s].token) /\ Kin(sess'[s].read, sess[s].read)
  BY DEF Kin, Revoking
<1> QED
  BY <1>1, <1>3, <1>4 DEF Quiet, Revoking, InHand, Removing

LEMMA DroppedKeeps ==
    ASSUME IInv, NEW s \in Sessions, Dropped(s)
    PROVE  Sound'
<1>1. /\ Basics /\ Accounted /\ DisconnectedStays /\ Mended
      /\ \A z \in Sessions : Fresh(z) /\ Newest(z)
  BY DEF IInv
<1>2. /\ grants' = grants /\ connected' = connected /\ rows' = rows
      /\ leaked \subseteq leaked' /\ leaked' \subseteq DOMAIN grants
      /\ broken \subseteq broken' /\ broken' \subseteq Owners
      /\ \A z \in Sessions \ {s} : sess'[z] = sess[z]
  BY DEF Dropped, Only
<1>3. Shaped' /\ \A o \in Owners : Held(o)' = Held(o)
  BY <1>1, <1>2, SameRows DEF SameTokens
<1>4. /\ sess'[s].step \in {"idle", "done"} /\ sess'[s].token = Nil /\ sess'[s].read = Nil
      /\ SessionOK(s)'
  BY EmptiedOK DEF Dropped, Emptied
<1>5. Half'
  BY <1>1, <1>2, <1>3 DEF Half, Basics, Shapes, Dropped
<1>6. Grows
  BY <1>1, <1>2, GrantTypes DEF Grows
<1>7. \A o \in Owners : RowsOK(o)'
  BY <1>1, <1>3, <1>6, RowsOKStay
<1>8. \A z \in Sessions : SessionOK(z)'
  BY <1>1, <1>2, <1>4, <1>6, OthersOK
<1>9. ASSUME NEW z \in Sessions, NEW g \in DOMAIN grants
      PROVE  InHand(z, g)' <=> z # s /\ InHand(z, g)
  BY <1>2, <1>4 DEF InHand
<1>10. Accounted'
  <2> SUFFICES ASSUME NEW g \in DOMAIN grants, grants[g].alive
               PROVE  \/ g \in leaked'
                      \/ \E o \in Owners : \E t \in Held(o) : t.grant = g
                      \/ \E z \in Sessions : InHand(z, g)'
    BY <1>2, <1>3 DEF Accounted
  <2>1. \/ g \in leaked
        \/ \E o \in Owners : \E t \in Held(o) : t.grant = g
        \/ \E z \in Sessions : InHand(z, g)
    BY <1>1 DEF Accounted
  <2>2. InHand(s, g) => g \in leaked'
    BY DEF Dropped
  <2> QED
    BY <1>2, <1>9, <2>1, <2>2
<1>11. DisconnectedStays'
  BY <1>1, <1>2 DEF DisconnectedStays
<1>12. ASSUME NEW z \in Sessions PROVE Fresh(z)'
  BY <1>1, <1>2, <1>3, <1>4, <1>9 DEF Fresh
<1>13. ASSUME NEW z \in Sessions PROVE Newest(z)'
  BY <1>1, <1>2, <1>3, <1>4 DEF Newest
<1>14. Mended'
  <2> SUFFICES ASSUME NEW o \in Owners \ broken', NEW t \in Held(o)
               PROVE  /\ \/ grants[t.grant].turn = t.turn
                         \/ \E z \in Sessions : sess'[z].owner = o /\ Saving(z, t.grant)'
                      /\ \/ grants[t.grant].alive
                         \/ \E z \in Sessions : sess'[z].owner = o /\ Removing(z, t.grant)'
    BY <1>2, <1>3 DEF Mended
  <2>1. /\ \/ grants[t.grant].turn = t.turn
           \/ \E z \in Sessions : sess[z].owner = o /\ Saving(z, t.grant)
        /\ \/ grants[t.grant].alive
           \/ \E z \in Sessions : sess[z].owner = o /\ Removing(z, t.grant)
    BY <1>1, <1>2 DEF Mended
  <2>2. sess[s].owner = o => sess[s].step \notin {"save", "store", "insert", "delete"}
    BY DEF Dropped
  <2>3. ASSUME NEW z \in Sessions, sess[z].owner = o, Saving(z, t.grant) \/ Removing(z, t.grant)
        PROVE  z # s /\ sess'[z] = sess[z]
    BY <1>2, <2>2, <2>3 DEF Saving, Removing
  <2>4. ASSUME NEW z \in Sessions, sess[z].owner = o, Saving(z, t.grant)
        PROVE  sess'[z].owner = o /\ Saving(z, t.grant)'
    BY <2>3, <2>4 DEF Saving
  <2>5. ASSUME NEW z \in Sessions, sess[z].owner = o, Removing(z, t.grant)
        PROVE  sess'[z].owner = o /\ Removing(z, t.grant)'
    BY <2>3, <2>5 DEF Removing
  <2> QED
    BY <2>1, <2>4, <2>5
<1> QED
  BY <1>5, <1>7, <1>8, <1>10, <1>11, <1>12, <1>13, <1>14 DEF Sound

LEMMA ChangedGrants ==
    ASSUME Basics, NEW g \in DOMAIN grants, NEW e \in Grant, grants' = [grants EXCEPT ![g] = e]
    PROVE  /\ grants' \in Seq(Grant) /\ Len(grants') = Len(grants)
           /\ DOMAIN grants' = DOMAIN grants /\ grants'[g] = e
           /\ \A h \in DOMAIN grants \ {g} : grants'[h] = grants[h]
<1>1. grants \in Seq(Grant)
  BY DEF Basics, Shapes
<1> QED
  BY <1>1

LEMMA RotatedKeeps ==
    ASSUME IInv, NEW s \in Sessions, NEW o \in Owners, NEW g \in Nat, Rotated(s, o, g)
    PROVE  Sound'
<1>1. /\ Basics /\ Accounted /\ DisconnectedStays /\ Mended
      /\ \A z \in Sessions : Fresh(z) /\ Newest(z)
  BY DEF IInv
<1>2. /\ connected' = connected /\ rows' = rows /\ leaked' = leaked /\ broken' = broken
      /\ \A z \in Sessions \ {s} : sess'[z] = sess[z]
      /\ sess[s].step = "refresh" /\ sess[s].token # Nil /\ g = sess[s].token.grant
      /\ sess[s].owner = o /\ sess'[s].step = "save"
      /\ sess'[s].token # Nil /\ sess'[s].token.grant = g /\ sess'[s].owner = o
      /\ sess'[s].token.turn = sess[s].token.turn + 1
      /\ sess'[s].read = sess[s].read
  BY DEF Rotated, Only, history
<1>3. Shaped' /\ \A k \in Owners : Held(k)' = Held(k)
  BY <1>1, <1>2, SameRows DEF SameTokens
<1>4. /\ g \in DOMAIN grants /\ grants[g].owner = o /\ grants[g].alive
      /\ grants[g].turn = sess[s].token.turn /\ grants[g].turn < MaxRotations
      /\ grants[g].turn \in Nat /\ grants[g] \in Grant
  BY <1>1, <1>2, SessionTypes, GrantTypes DEF SessionOK, Issued, Rotated, Works
<1>5. /\ grants' \in Seq(Grant) /\ Len(grants') = Len(grants) /\ DOMAIN grants' = DOMAIN grants
      /\ grants'[g].owner = o /\ grants'[g].alive /\ grants'[g].turn = grants[g].turn + 1
      /\ \A h \in DOMAIN grants \ {g} : grants'[h] = grants[h]
  <2> DEFINE e == [grants[g] EXCEPT !.turn = @ + 1]
  <2>1. grants' = [grants EXCEPT ![g] = e]
    BY DEF Rotated
  <2>2. e \in Grant /\ e.owner = o /\ e.alive /\ e.turn = grants[g].turn + 1
    BY <1>4, BoundsAssumption DEF Grant
  <2> HIDE DEF e
  <2>3. /\ grants' \in Seq(Grant) /\ Len(grants') = Len(grants) /\ DOMAIN grants' = DOMAIN grants
        /\ grants'[g] = e /\ \A h \in DOMAIN grants \ {g} : grants'[h] = grants[h]
    BY <1>1, <1>4, <2>1, <2>2, ChangedGrants
  <2> QED
    BY <2>2, <2>3
<1>6. Half'
  BY <1>1, <1>2, <1>3, <1>5 DEF Half, Basics, Shapes, Rotated
<1>7. Grows
  <2>1. \A h \in DOMAIN grants : grants[h].turn \in Nat
    BY <1>1, GrantTypes
  <2> QED
    BY SMTT(30), <1>2, <1>4, <1>5, <2>1 DEF Grows
<1>8. \A k \in Owners : RowsOK(k)'
  BY <1>1, <1>3, <1>7, RowsOKStay
<1>9. SessionOK(s)'
  <2>1. /\ SessionOK(s) /\ sess'[s].seen = sess[s].seen /\ sess'[s].there = sess[s].there
        /\ sess[s].read # Nil => sess[s].read \in TokenSet
    BY <1>1, SessionTypes DEF Rotated
  <2>2. sess[s].read # Nil => Issued(sess[s].read, o)'
    BY <1>1, <1>2, <1>7, <2>1, IssuedStays DEF SessionOK
  <2>3. sess'[s].token.turn <= grants'[g].turn
    BY <1>2, <1>4, <1>5
  <2> QED
    BY <1>2, <1>5, <2>1, <2>2, <2>3 DEF SessionOK, Issued, UserSteps, JobSteps
<1>10. \A z \in Sessions : SessionOK(z)'
  BY <1>1, <1>2, <1>7, <1>9, OthersOK
<1>11. ASSUME NEW z \in Sessions, NEW h
       PROVE  InHand(z, h)' <=> InHand(z, h)
  BY <1>2 DEF InHand
<1>12. Accounted'
  BY <1>1, <1>2, <1>3, <1>4, <1>5, <1>11 DEF Accounted
<1>13. DisconnectedStays'
  BY <1>1, <1>2 DEF DisconnectedStays
<1>14. ASSUME NEW z \in Sessions PROVE Fresh(z)'
  <2> SUFFICES ASSUME NEW h \in DOMAIN grants, InHand(z, h)
               PROVE  /\ grants'[h].alive /\ sess'[z].token.turn = grants'[h].turn
                      /\ \A k \in Owners : \A t \in Held(k) : t.grant # h
                      /\ \A y \in Sessions \ {z} : sess'[y].token # Nil => sess'[y].token.grant # h
                      /\ \A y \in Sessions : sess'[y].read # Nil => sess'[y].read.grant # h
    BY <1>3, <1>5, <1>11 DEF Fresh
  <2>1. /\ grants[h].alive /\ sess[z].token.turn = grants[h].turn
        /\ \A k \in Owners : \A t \in Held(k) : t.grant # h
        /\ \A y \in Sessions \ {z} : sess[y].token # Nil => sess[y].token.grant # h
        /\ \A y \in Sessions : sess[y].read # Nil => sess[y].read.grant # h
    BY <1>1 DEF Fresh
  <2>2. z # s /\ h # g
    BY <1>2, <2>1 DEF InHand
  <2> QED
    BY <1>2, <1>5, <2>1, <2>2
<1>15. Newest(s)'
  <2>1. \A k \in Owners : \A t \in Held(k) : t.grant = g => t.turn < grants'[g].turn
    BY <1>1, <1>4, <1>5, TokenIsHeld DEF Issued, TokenSet
  <2>2. ASSUME NEW z \in Sessions \ {s}, sess[z].step \in {"refresh", "save"}, sess[z].token.grant = g
        PROVE  sess[z].token.turn < grants'[g].turn
    <3>1. sess[z].token \in TokenSet /\ sess[z].token.turn <= grants[g].turn
      BY <1>1, <2>2, SessionTypes DEF SessionOK, Issued
    <3> QED
      BY <1>4, <1>5, <3>1 DEF TokenSet
  <2>3. sess'[s].token.turn = grants'[g].turn
    BY <1>2, <1>4, <1>5
  <2> QED
    BY <1>2, <1>3, <2>1, <2>2, <2>3 DEF Newest
<1>16. ASSUME NEW z \in Sessions \ {s} PROVE Newest(z)'
  <2> SUFFICES ASSUME sess[z].step = "save"
               PROVE  Newest(z)'
    BY <1>2 DEF Newest
  <2>1. Newest(z) /\ sess[z].token # Nil /\ sess[z].token.grant \in DOMAIN grants
    BY <1>1, SessionTypes DEF SessionOK, Issued
  <2>2. sess[z].token.grant # g
    BY <1>2, <1>4, <2>1 DEF Newest
  <2>3. grants'[sess[z].token.grant] = grants[sess[z].token.grant] /\ sess'[z] = sess[z]
    BY <1>2, <1>5, <2>1, <2>2
  <2> QED
    BY <1>2, <1>3, <2>1, <2>2, <2>3 DEF Newest
<1>17. Mended'
  <2> SUFFICES ASSUME NEW k \in Owners \ broken, NEW t \in Held(k)
               PROVE  /\ \/ grants'[t.grant].turn = t.turn
                         \/ \E z \in Sessions : sess'[z].owner = k /\ Saving(z, t.grant)'
                      /\ \/ grants'[t.grant].alive
                         \/ \E z \in Sessions : sess'[z].owner = k /\ Removing(z, t.grant)'
    BY <1>2, <1>3 DEF Mended
  <2>1. /\ \/ grants[t.grant].turn = t.turn
           \/ \E z \in Sessions : sess[z].owner = k /\ Saving(z, t.grant)
        /\ \/ grants[t.grant].alive
           \/ \E z \in Sessions : sess[z].owner = k /\ Removing(z, t.grant)
        /\ t.grant \in DOMAIN grants /\ grants[t.grant].owner = k
    BY <1>1, TokenIsHeld DEF Mended, Issued
  <2>2. ASSUME NEW z \in Sessions, sess[z].owner = k, Saving(z, t.grant)
        PROVE  sess'[z].owner = k /\ Saving(z, t.grant)'
    BY <1>2, <2>2 DEF Saving
  <2>3. ASSUME NEW z \in Sessions, sess[z].owner = k, Removing(z, t.grant)
        PROVE  sess'[z].owner = k /\ Removing(z, t.grant)'
    BY <1>2, <2>3 DEF Removing
  <2>4. t.grant = g => k = o /\ Saving(s, t.grant)'
    BY <1>2, <1>4, <2>1 DEF Saving
  <2> QED
    BY <1>2, <1>5, <2>1, <2>2, <2>3, <2>4
<1> QED
  BY <1>6, <1>8, <1>10, <1>12, <1>13, <1>14, <1>15, <1>16, <1>17 DEF Sound

LEMMA SavedKeeps ==
    ASSUME IInv, NEW s \in Sessions, NEW o \in Owners, NEW t \in TokenSet, Saved(s, o, t)
    PROVE  Sound'
<1>1. /\ Basics /\ Accounted /\ DisconnectedStays /\ Mended
      /\ \A z \in Sessions : Fresh(z) /\ Newest(z)
  BY DEF IInv
<1>2. /\ grants' = grants /\ connected' = connected /\ Shaped'
      /\ leaked' = leaked \cup {h.grant : h \in {h \in Held(o) : h.grant # t.grant}}
                         \cup {g \in {t.grant} : Held(o) = {}}
      /\ broken \subseteq broken' /\ broken' \subseteq broken \cup {o}
      /\ o \in broken' \/ \A h \in Held(o) : h.grant = t.grant
      /\ \A z \in Sessions \ {s} : sess'[z] = sess[z]
      /\ Held(o)' = (IF Held(o) = {} THEN {} ELSE {t})
      /\ \A k \in Owners \ {o} : Held(k)' = Held(k)
  BY DEF Saved, Only
<1>3. /\ sess[s].step = "save" /\ sess[s].owner = o /\ sess[s].token = t /\ t # Nil
      /\ sess'[s].step \in {"fetch", "done"}
      /\ sess'[s].token \in {t, Nil} /\ sess'[s].read \in {sess[s].read, Nil}
  BY DEF Saved, Same, Emptied
<1>4. Issued(t, o) /\ t.grant \in DOMAIN grants /\ t.turn = grants[t.grant].turn
  BY <1>1, <1>3, SessionTypes DEF SessionOK, Issued, Newest
<1>5. leaked' \subseteq DOMAIN grants
  <2>1. leaked \subseteq DOMAIN grants
    BY <1>1 DEF Basics, Shapes
  <2>2. \A h \in Held(o) : h.grant \in DOMAIN grants
    BY <1>1, TokenIsHeld DEF Issued
  <2> QED
    BY <1>2, <1>4, <2>1, <2>2
<1>6. Half'
  BY <1>1, <1>2, <1>5 DEF Half, Basics, Shapes, Saved
<1>7. Grows
  BY <1>1, <1>2, GrantTypes DEF Grows
<1>8. \A k \in Owners : RowsOK(k)'
  <2>1. RowsOK(o)'
    BY <1>2, <1>4 DEF RowsOK, Issued
  <2>2. \A k \in Owners \ {o} : RowsOK(k)'
    BY <1>1, <1>2, <1>7, RowsOKStay
  <2> QED
    BY <2>1, <2>2
<1>9. SessionOK(s)'
  <2>1. CASE Emptied(sess'[s]) /\ s # Job /\ sess'[s].step = "done"
    BY <2>1, EmptiedOK
  <2>2. CASE Same(s) /\ s = Job /\ sess'[s].step = "fetch"
    <3>1. SessionOK(s)
      BY <1>1, SessionTypes
    <3> QED
      BY <1>2, <1>3, <2>2, <3>1 DEF SessionOK, Same, JobSteps, Issued
  <2> QED
    BY <2>1, <2>2 DEF Saved
<1>10. \A z \in Sessions : SessionOK(z)'
  BY <1>1, <1>2, <1>7, <1>9, OthersOK
<1>11. ASSUME NEW z \in Sessions, NEW g
       PROVE  InHand(z, g)' <=> InHand(z, g)
  BY <1>2, <1>3 DEF InHand
<1>12. Accounted'
  <2> SUFFICES ASSUME NEW g \in DOMAIN grants, grants[g].alive
               PROVE  \/ g \in leaked'
                      \/ \E k \in Owners : \E h \in Held(k)' : h.grant = g
                      \/ \E z \in Sessions : InHand(z, g)'
    BY <1>2 DEF Accounted
  <2>1. \/ g \in leaked
        \/ \E k \in Owners : \E h \in Held(k) : h.grant = g
        \/ \E z \in Sessions : InHand(z, g)
    BY <1>1 DEF Accounted
  <2>2. ASSUME NEW h \in Held(o), h.grant = g
        PROVE  g \in leaked' \/ (t \in Held(o)' /\ t.grant = g)
    BY <1>2, <2>2
  <2> QED
    BY <1>2, <1>11, <2>1, <2>2
<1>13. DisconnectedStays'
  <2>1. \A k \in Owners : rows'[k] # {} => rows[k] # {}
    BY <1>2 DEF Held
  <2> QED
    BY <1>1, <1>2, <2>1 DEF DisconnectedStays
<1>14. ASSUME NEW z \in Sessions PROVE Fresh(z)'
  <2> SUFFICES ASSUME NEW h \in DOMAIN grants, InHand(z, h)
               PROVE  /\ grants[h].alive /\ sess'[z].token.turn = grants[h].turn
                      /\ \A k \in Owners : \A q \in Held(k)' : q.grant # h
                      /\ \A y \in Sessions \ {z} : sess'[y].token # Nil => sess'[y].token.grant # h
                      /\ \A y \in Sessions : sess'[y].read # Nil => sess'[y].read.grant # h
    BY <1>2, <1>11 DEF Fresh
  <2>1. /\ grants[h].alive /\ sess[z].token.turn = grants[h].turn
        /\ \A k \in Owners : \A q \in Held(k) : q.grant # h
        /\ \A y \in Sessions \ {z} : sess[y].token # Nil => sess[y].token.grant # h
        /\ \A y \in Sessions : sess[y].read # Nil => sess[y].read.grant # h
    BY <1>1 DEF Fresh
  <2>2. z # s /\ h # t.grant
    BY <1>3, <2>1 DEF InHand
  <2>3. \A k \in Owners : \A q \in Held(k)' : q.grant # h
    BY <1>2, <2>1, <2>2
  <2> QED
    BY <1>2, <1>3, <2>1, <2>2, <2>3
<1>15. ASSUME NEW z \in Sessions PROVE Newest(z)'
  <2> SUFFICES ASSUME sess'[z].step = "save" PROVE Newest(z)'
    BY DEF Newest
  <2>1. z # s /\ sess'[z] = sess[z] /\ Newest(z) /\ Newest(s)
    BY <1>1, <1>2, <1>3
  <2>2. sess[z].token.grant # t.grant
    <3> SUFFICES ASSUME sess[z].token.grant = t.grant PROVE FALSE
      OBVIOUS
    <3>1. sess[s].token.turn < grants[t.grant].turn
      BY <1>3, <2>1 DEF Newest
    <3>2. grants[t.grant].turn \in Nat
      BY <1>1, <1>4, GrantTypes
    <3> QED
      BY <1>3, <1>4, <3>1, <3>2
  <2>3. \A k \in Owners : \A q \in Held(k)' : q \in Held(k) \/ q = t
    BY <1>2
  <2> QED
    BY <1>2, <1>3, <2>1, <2>2, <2>3 DEF Newest
<1>16. Mended'
  <2> SUFFICES ASSUME NEW k \in Owners \ broken', NEW q \in Held(k)'
               PROVE  /\ \/ grants[q.grant].turn = q.turn
                         \/ \E z \in Sessions : sess'[z].owner = k /\ Saving(z, q.grant)'
                      /\ \/ grants[q.grant].alive
                         \/ \E z \in Sessions : sess'[z].owner = k /\ Removing(z, q.grant)'
    BY <1>2 DEF Mended
  <2>1. ASSUME NEW h \in Held(k)
        PROVE  /\ \/ grants[h.grant].turn = h.turn
                  \/ \E z \in Sessions : sess[z].owner = k /\ Saving(z, h.grant)
               /\ \/ grants[h.grant].alive
                  \/ \E z \in Sessions : sess[z].owner = k /\ Removing(z, h.grant)
    BY <1>1, <1>2 DEF Mended
  <2>2. ASSUME NEW z \in Sessions, NEW g, sess[z].owner = k, Removing(z, g)
        PROVE  sess'[z].owner = k /\ Removing(z, g)'
    BY <1>2, <1>3, <2>2 DEF Removing
  <2>3. CASE k # o
    <3>1. q \in Held(k)
      BY <1>2, <2>3
    <3>2. ASSUME NEW z \in Sessions, sess[z].owner = k, Saving(z, q.grant)
          PROVE  sess'[z].owner = k /\ Saving(z, q.grant)'
      BY <1>2, <1>3, <2>3, <3>2 DEF Saving
    <3> QED
      BY <2>1, <2>2, <3>1, <3>2
  <2>4. CASE k = o
    <3>1. q = t /\ Held(o) # {}
      BY <1>2, <2>4
    <3>2. PICK h \in Held(o) : h.grant = t.grant
      BY <1>2, <2>4, <3>1
    <3>3. \/ grants[h.grant].alive
          \/ \E z \in Sessions : sess[z].owner = k /\ Removing(z, h.grant)
      BY <2>1, <2>4
    <3> QED
      BY <1>4, <2>2, <3>1, <3>2, <3>3
  <2> QED
    BY <2>3, <2>4
<1> QED
  BY <1>6, <1>8, <1>10, <1>12, <1>13, <1>14, <1>15, <1>16 DEF Sound

LEMMA ExchangedKeeps ==
    ASSUME IInv, NEW s \in Sessions, NEW o \in Owners, NEW g \in Nat, Exchanged(s, o, g)
    PROVE  Sound'
<1>1. /\ Basics /\ Accounted /\ DisconnectedStays /\ Mended
      /\ \A z \in Sessions : Fresh(z) /\ Newest(z)
  BY DEF IInv
<1>2. /\ connected' = connected /\ rows' = rows /\ leaked' = leaked /\ broken' = broken
      /\ \A z \in Sessions \ {s} : sess'[z] = sess[z]
      /\ sess[s].step = "idle" /\ sess'[s].step = "existing" /\ sess'[s].token # Nil
      /\ sess'[s].token.grant = g /\ sess'[s].token.turn = 0 /\ sess'[s].read = Nil
      /\ g \notin DOMAIN grants /\ DOMAIN grants' = DOMAIN grants \cup {g}
      /\ \A h \in DOMAIN grants : grants'[h] = grants[h]
      /\ grants'[g].owner = o /\ grants'[g].alive /\ grants'[g].turn = 0
  BY DEF Exchanged, Only, history
<1>3. Shaped' /\ \A k \in Owners : Held(k)' = Held(k)
  BY <1>1, <1>2, SameRows DEF SameTokens
<1>4. Half'
  BY <1>1, <1>2, <1>3 DEF Half, Basics, Shapes, Exchanged
<1>5. Grows
  BY <1>1, <1>2, GrantTypes DEF Grows
<1>6. \A k \in Owners : RowsOK(k)'
  BY <1>1, <1>3, <1>5, RowsOKStay
<1>7. SessionOK(s)'
  BY <1>2 DEF SessionOK, Exchanged, UserSteps, Issued
<1>8. \A z \in Sessions : SessionOK(z)'
  BY <1>1, <1>2, <1>5, <1>7, OthersOK
<1>9. \A k \in Owners : \A t \in Held(k) : t.grant \in DOMAIN grants
  BY <1>1, TokenIsHeld DEF Issued
<1>10. ASSUME NEW z \in Sessions
       PROVE  /\ sess[z].token # Nil => sess[z].token.grant \in DOMAIN grants
              /\ sess[z].read # Nil => sess[z].read.grant \in DOMAIN grants
  BY <1>1, SessionTypes DEF SessionOK, Issued
<1>11. ASSUME NEW z \in Sessions, NEW h
       PROVE  InHand(z, h)' <=> InHand(z, h) \/ (z = s /\ h = g)
  BY <1>2 DEF InHand
<1>12. Accounted'
  <2>1. InHand(s, g)'
    BY <1>11
  <2> QED
    BY <1>1, <1>2, <1>3, <1>11, <2>1 DEF Accounted
<1>13. DisconnectedStays'
  BY <1>1, <1>2 DEF DisconnectedStays
<1>14. ASSUME NEW z \in Sessions PROVE Fresh(z)'
  <2> SUFFICES ASSUME NEW h \in DOMAIN grants', InHand(z, h)'
               PROVE  /\ grants'[h].alive /\ sess'[z].token.turn = grants'[h].turn
                      /\ \A k \in Owners : \A t \in Held(k) : t.grant # h
                      /\ \A y \in Sessions \ {z} : sess'[y].token # Nil => sess'[y].token.grant # h
                      /\ \A y \in Sessions : sess'[y].read # Nil => sess'[y].read.grant # h
    BY <1>3 DEF Fresh
  <2>1. CASE z = s /\ h = g
    <3>1. ASSUME NEW y \in Sessions \ {s}
          PROVE  /\ sess'[y].token # Nil => sess'[y].token.grant # g
                 /\ sess'[y].read # Nil => sess'[y].read.grant # g
      <4>1. sess'[y] = sess[y] /\ g \notin DOMAIN grants
        BY <1>2
      <4> QED
        BY <1>10, <4>1
    <3> QED
      BY <1>2, <1>9, <2>1, <3>1
  <2>2. CASE InHand(z, h)
    <3>1. z # s /\ h \in DOMAIN grants
      <4>1. sess[s].step = "idle"
        BY <1>2
      <4> QED
        BY <1>10, <2>2, <4>1 DEF InHand
    <3>2. /\ grants[h].alive /\ sess[z].token.turn = grants[h].turn
          /\ \A k \in Owners : \A t \in Held(k) : t.grant # h
          /\ \A y \in Sessions \ {z} : sess[y].token # Nil => sess[y].token.grant # h
          /\ \A y \in Sessions : sess[y].read # Nil => sess[y].read.grant # h
      BY <1>1, <2>2, <3>1 DEF Fresh
    <3> QED
      BY <1>2, <3>1, <3>2
  <2> QED
    BY <1>11, <2>1, <2>2
<1>15. ASSUME NEW z \in Sessions PROVE Newest(z)'
  <2> SUFFICES ASSUME sess'[z].step = "save" PROVE Newest(z)'
    BY DEF Newest
  <2>1. z # s /\ sess'[z] = sess[z] /\ Newest(z) /\ SessionOK(z)
    BY <1>1, <1>2, SessionTypes
  <2>2. sess[z].token.grant \in DOMAIN grants
    BY <1>10, <2>1 DEF SessionOK
  <2>3. grants'[sess[z].token.grant] = grants[sess[z].token.grant]
    BY <1>2, <2>2
  <2> QED
    BY <1>2, <1>3, <2>1, <2>3 DEF Newest
<1>16. Mended'
  <2> SUFFICES ASSUME NEW k \in Owners \ broken, NEW t \in Held(k)
               PROVE  /\ \/ grants'[t.grant].turn = t.turn
                         \/ \E z \in Sessions : sess'[z].owner = k /\ Saving(z, t.grant)'
                      /\ \/ grants'[t.grant].alive
                         \/ \E z \in Sessions : sess'[z].owner = k /\ Removing(z, t.grant)'
    BY <1>2, <1>3 DEF Mended
  <2>1. /\ \/ grants[t.grant].turn = t.turn
           \/ \E z \in Sessions : sess[z].owner = k /\ Saving(z, t.grant)
        /\ \/ grants[t.grant].alive
           \/ \E z \in Sessions : sess[z].owner = k /\ Removing(z, t.grant)
    BY <1>1 DEF Mended
  <2>2. grants'[t.grant] = grants[t.grant]
    BY <1>2, <1>9
  <2>3. ASSUME NEW z \in Sessions, sess[z].owner = k, Saving(z, t.grant)
        PROVE  sess'[z].owner = k /\ Saving(z, t.grant)'
    BY <1>2, <2>3 DEF Saving
  <2>4. ASSUME NEW z \in Sessions, sess[z].owner = k, Removing(z, t.grant)
        PROVE  sess'[z].owner = k /\ Removing(z, t.grant)'
    BY <1>2, <2>4 DEF Removing
  <2> QED
    BY <2>1, <2>2, <2>3, <2>4
<1> QED
  BY <1>4, <1>6, <1>8, <1>12, <1>13, <1>14, <1>15, <1>16 DEF Sound

LEMMA SignedOffKeeps ==
    ASSUME IInv, NEW s \in Sessions, NEW o \in Owners, NEW g \in Nat, SignedOff(s, o, g)
    PROVE  Sound'
<1>1. /\ Basics /\ Accounted /\ DisconnectedStays /\ Mended
      /\ \A z \in Sessions : Fresh(z) /\ Newest(z)
  BY DEF IInv
<1>2. /\ connected' = connected /\ rows' = rows /\ broken' = broken
      /\ \A z \in Sessions \ {s} : sess'[z] = sess[z]
      /\ sess[s].step = "signout" /\ sess[s].owner = o /\ sess[s].read # Nil
      /\ g = sess[s].read.grant
      /\ sess'[s].step = (IF sess[s].token = Nil THEN "delete" ELSE "store")
      /\ sess'[s].token = sess[s].token /\ sess'[s].read = sess[s].read
      /\ sess'[s].owner = o /\ sess'[s].seen = sess[s].seen /\ sess'[s].there = sess[s].there
  BY DEF SignedOff, Only, Same
<1>3. Shaped' /\ \A k \in Owners : Held(k)' = Held(k)
  BY <1>1, <1>2, SameRows DEF SameTokens
<1>4. /\ SessionOK(s) /\ g \in DOMAIN grants /\ grants[g].owner = o
      /\ grants[g].turn \in Nat /\ grants[g] \in Grant
  BY <1>1, <1>2, SessionTypes, GrantTypes DEF SessionOK, Issued
<1>5. /\ grants' \in Seq(Grant) /\ Len(grants') = Len(grants) /\ DOMAIN grants' = DOMAIN grants
      /\ \A h \in DOMAIN grants : /\ grants'[h].owner = grants[h].owner
                                  /\ grants'[h].turn = grants[h].turn
                                  /\ grants'[h].alive => grants[h].alive
      /\ \A h \in DOMAIN grants \ {g} : grants'[h] = grants[h]
      /\ ~grants'[g].alive \/ g \in leaked'
      /\ leaked \subseteq leaked' /\ leaked' \subseteq DOMAIN grants
  <2>1. leaked \subseteq DOMAIN grants /\ grants \in Seq(Grant)
    BY <1>1 DEF Basics, Shapes
  <2>2. CASE grants' = [grants EXCEPT ![g].alive = FALSE] /\ leaked' = leaked
    <3> DEFINE e == [grants[g] EXCEPT !.alive = FALSE]
    <3>1. grants' = [grants EXCEPT ![g] = e]
      BY <2>2
    <3>2. e \in Grant /\ e.owner = grants[g].owner /\ ~e.alive /\ e.turn = grants[g].turn
      BY <1>4 DEF Grant
    <3> HIDE DEF e
    <3>3. /\ grants' \in Seq(Grant) /\ Len(grants') = Len(grants) /\ DOMAIN grants' = DOMAIN grants
          /\ grants'[g] = e /\ \A h \in DOMAIN grants \ {g} : grants'[h] = grants[h]
      BY <1>1, <1>4, <3>1, <3>2, ChangedGrants
    <3> QED
      BY <2>1, <2>2, <3>2, <3>3
  <2>3. CASE grants' = grants /\ leaked' = leaked \cup {g}
    BY <1>4, <2>1, <2>3
  <2> QED
    BY <2>2, <2>3 DEF SignedOff
<1>6. Half'
  BY <1>1, <1>2, <1>3, <1>5 DEF Half, Basics, Shapes, SignedOff
<1>7. Grows
  <2>1. \A h \in DOMAIN grants : grants[h].turn \in Nat
    BY <1>1, GrantTypes
  <2> QED
    BY <1>5, <2>1 DEF Grows
<1>8. \A k \in Owners : RowsOK(k)'
  BY <1>1, <1>3, <1>7, RowsOKStay
<1>9. SessionOK(s)'
  <2>1. sess[s].read # Nil => Issued(sess[s].read, o)'
    BY <1>1, <1>2, <1>4, <1>7, SessionTypes, IssuedStays DEF SessionOK
  <2>2. sess[s].token # Nil => Issued(sess[s].token, o)'
    BY <1>1, <1>2, <1>4, <1>7, SessionTypes, IssuedStays DEF SessionOK
  <2>3. s # Job /\ sess[s].there = {g} /\ \A d \in sess[s].seen : d.token.grant \in DOMAIN grants
    BY <1>2, <1>4 DEF SessionOK, JobSteps
  <2> QED
    BY <1>2, <1>4, <1>5, <2>1, <2>2, <2>3 DEF SessionOK, Issued, UserSteps
<1>10. \A z \in Sessions : SessionOK(z)'
  BY <1>1, <1>2, <1>7, <1>9, OthersOK
<1>11. ASSUME NEW z \in Sessions, NEW h
       PROVE  InHand(z, h)' <=> InHand(z, h)
  BY <1>2 DEF InHand
<1>12. Accounted'
  BY <1>1, <1>3, <1>5, <1>11 DEF Accounted
<1>13. DisconnectedStays'
  BY <1>1, <1>2 DEF DisconnectedStays
<1>14. ASSUME NEW z \in Sessions PROVE Fresh(z)'
  <2> SUFFICES ASSUME NEW h \in DOMAIN grants, InHand(z, h)
               PROVE  /\ grants'[h].alive /\ sess'[z].token.turn = grants'[h].turn
                      /\ \A k \in Owners : \A t \in Held(k) : t.grant # h
                      /\ \A y \in Sessions \ {z} : sess'[y].token # Nil => sess'[y].token.grant # h
                      /\ \A y \in Sessions : sess'[y].read # Nil => sess'[y].read.grant # h
    BY <1>3, <1>5, <1>11 DEF Fresh
  <2>1. /\ grants[h].alive /\ sess[z].token.turn = grants[h].turn
        /\ \A k \in Owners : \A t \in Held(k) : t.grant # h
        /\ \A y \in Sessions \ {z} : sess[y].token # Nil => sess[y].token.grant # h
        /\ \A y \in Sessions : sess[y].read # Nil => sess[y].read.grant # h
    BY <1>1 DEF Fresh
  <2>2. h # g
    BY <1>2, <2>1
  <2>3. /\ \A y \in Sessions : sess'[y].token = sess[y].token
        /\ \A y \in Sessions : sess'[y].read = sess[y].read
    BY <1>2
  <2> QED
    BY <1>5, <2>1, <2>2, <2>3
<1>15. ASSUME NEW z \in Sessions PROVE Newest(z)'
  <2> SUFFICES ASSUME sess'[z].step = "save" PROVE Newest(z)'
    BY DEF Newest
  <2>1. z # s /\ sess'[z] = sess[z] /\ Newest(z) /\ SessionOK(z)
    BY <1>1, <1>2, SessionTypes
  <2>2. sess[z].token.grant \in DOMAIN grants
    BY <2>1 DEF SessionOK, Issued
  <2>3. grants'[sess[z].token.grant].turn = grants[sess[z].token.grant].turn
    BY <1>5, <2>2
  <2>4. sess'[s].step \notin {"refresh", "save"}
    BY <1>2
  <2> QED
    BY <1>2, <1>3, <2>1, <2>3, <2>4 DEF Newest
<1>16. Mended'
  <2> SUFFICES ASSUME NEW k \in Owners \ broken, NEW t \in Held(k)
               PROVE  /\ \/ grants'[t.grant].turn = t.turn
                         \/ \E z \in Sessions : sess'[z].owner = k /\ Saving(z, t.grant)'
                      /\ \/ grants'[t.grant].alive
                         \/ \E z \in Sessions : sess'[z].owner = k /\ Removing(z, t.grant)'
    BY <1>2, <1>3 DEF Mended
  <2>1. /\ \/ grants[t.grant].turn = t.turn
           \/ \E z \in Sessions : sess[z].owner = k /\ Saving(z, t.grant)
        /\ \/ grants[t.grant].alive
           \/ \E z \in Sessions : sess[z].owner = k /\ Removing(z, t.grant)
        /\ t.grant \in DOMAIN grants /\ grants[t.grant].owner = k
    BY <1>1, TokenIsHeld DEF Mended, Issued
  <2>2. ASSUME NEW z \in Sessions, sess[z].owner = k, Saving(z, t.grant)
        PROVE  sess'[z].owner = k /\ Saving(z, t.grant)'
    BY <1>2, <2>2 DEF Saving
  <2>3. ASSUME NEW z \in Sessions, sess[z].owner = k, Removing(z, t.grant)
        PROVE  sess'[z].owner = k /\ Removing(z, t.grant)'
    BY <1>2, <2>3 DEF Removing
  <2>4. t.grant = g => k = o /\ sess'[s].owner = k /\ Removing(s, t.grant)'
    BY <1>2, <1>4, <2>1 DEF Removing
  <2>5. grants'[t.grant].turn = grants[t.grant].turn
    BY <1>5, <2>1
  <2>6. t.grant # g => grants'[t.grant] = grants[t.grant]
    BY <1>5, <2>1
  <2> QED
    BY <2>1, <2>2, <2>3, <2>4, <2>5, <2>6
<1> QED
  BY <1>6, <1>8, <1>10, <1>12, <1>13, <1>14, <1>15, <1>16 DEF Sound

LEMMA WithdrawnKeeps ==
    ASSUME IInv, NEW o \in Owners, Withdrawn(o)
    PROVE  Sound'
<1>1. /\ Basics /\ Accounted /\ DisconnectedStays /\ Mended
      /\ \A z \in Sessions : Fresh(z) /\ Newest(z)
  BY DEF IInv
<1>2. /\ connected' = connected /\ rows' = rows /\ broken' = broken \cup {o}
      /\ sess' = sess /\ leaked' = leaked
  BY DEF Withdrawn
<1>3. PICK t0 \in Held(o) : grants' = [grants EXCEPT ![t0.grant].alive = FALSE]
  BY DEF Withdrawn
<1>4. PICK g \in DOMAIN grants : g = t0.grant
  BY <1>1, TokenIsHeld DEF Issued
<1>5. grants[g].owner = o /\ grants[g] \in Grant
  BY <1>1, <1>4, TokenIsHeld, GrantTypes DEF Issued
<1>6. Shaped' /\ \A k \in Owners : Held(k)' = Held(k)
  BY <1>1, <1>2, SameRows DEF SameTokens
<1>7. /\ grants' \in Seq(Grant) /\ Len(grants') = Len(grants) /\ DOMAIN grants' = DOMAIN grants
      /\ \A h \in DOMAIN grants : /\ grants'[h].owner = grants[h].owner
                                  /\ grants'[h].turn = grants[h].turn
                                  /\ grants'[h].alive => grants[h].alive
      /\ \A h \in DOMAIN grants \ {g} : grants'[h] = grants[h]
  <2> DEFINE e == [grants[g] EXCEPT !.alive = FALSE]
  <2>1. grants' = [grants EXCEPT ![g] = e]
    BY <1>3, <1>4
  <2>2. e \in Grant /\ e.owner = grants[g].owner /\ ~e.alive /\ e.turn = grants[g].turn
    BY <1>5 DEF Grant
  <2> HIDE DEF e
  <2>3. /\ grants' \in Seq(Grant) /\ Len(grants') = Len(grants) /\ DOMAIN grants' = DOMAIN grants
        /\ grants'[g] = e /\ \A h \in DOMAIN grants \ {g} : grants'[h] = grants[h]
    BY <1>1, <2>1, <2>2, ChangedGrants
  <2> QED
    BY <2>2, <2>3
<1>8. Half'
  BY <1>1, <1>2, <1>6, <1>7 DEF Half, Basics, Shapes
<1>9. Grows
  <2>1. \A h \in DOMAIN grants : grants[h].turn \in Nat
    BY <1>1, GrantTypes
  <2> QED
    BY <1>2, <1>7, <2>1 DEF Grows
<1>10. \A k \in Owners : RowsOK(k)'
  BY <1>1, <1>6, <1>9, RowsOKStay
<1>11. \A z \in Sessions : SessionOK(z)'
  BY <1>1, <1>2, <1>9, OthersOK
<1>12. ASSUME NEW z, NEW h PROVE InHand(z, h)' <=> InHand(z, h)
  BY <1>2 DEF InHand
<1>13. Accounted'
  BY <1>1, <1>2, <1>6, <1>7, <1>12 DEF Accounted
<1>14. DisconnectedStays'
  BY <1>1, <1>2 DEF DisconnectedStays
<1>15. ASSUME NEW z \in Sessions PROVE Fresh(z)'
  <2> SUFFICES ASSUME NEW h \in DOMAIN grants, InHand(z, h)
               PROVE  /\ grants'[h].alive /\ sess[z].token.turn = grants'[h].turn
                      /\ \A k \in Owners : \A t \in Held(k) : t.grant # h
                      /\ \A y \in Sessions \ {z} : sess[y].token # Nil => sess[y].token.grant # h
                      /\ \A y \in Sessions : sess[y].read # Nil => sess[y].read.grant # h
    BY <1>2, <1>6, <1>7, <1>12 DEF Fresh
  <2>1. /\ grants[h].alive /\ sess[z].token.turn = grants[h].turn
        /\ \A k \in Owners : \A t \in Held(k) : t.grant # h
        /\ \A y \in Sessions \ {z} : sess[y].token # Nil => sess[y].token.grant # h
        /\ \A y \in Sessions : sess[y].read # Nil => sess[y].read.grant # h
    BY <1>1 DEF Fresh
  <2>2. h # g
    BY <1>3, <1>4, <2>1
  <2> QED
    BY <1>7, <2>1, <2>2
<1>16. ASSUME NEW z \in Sessions PROVE Newest(z)'
  <2> SUFFICES ASSUME sess[z].step = "save" PROVE Newest(z)'
    BY <1>2 DEF Newest
  <2>1. sess[z].token.grant \in DOMAIN grants /\ Newest(z)
    BY <1>1, SessionTypes DEF SessionOK, Issued
  <2>2. grants'[sess[z].token.grant].turn = grants[sess[z].token.grant].turn
    BY <1>7, <2>1
  <2> QED
    BY <1>2, <1>6, <2>1, <2>2 DEF Newest
<1>17. Mended'
  <2> SUFFICES ASSUME NEW k \in Owners \ broken', NEW t \in Held(k)
               PROVE  /\ \/ grants'[t.grant].turn = t.turn
                         \/ \E z \in Sessions : sess[z].owner = k /\ Saving(z, t.grant)
                      /\ \/ grants'[t.grant].alive
                         \/ \E z \in Sessions : sess[z].owner = k /\ Removing(z, t.grant)
    BY <1>2, <1>6 DEF Mended, Saving, Removing
  <2>1. k # o /\ k \notin broken
    BY <1>2
  <2>2. /\ \/ grants[t.grant].turn = t.turn
           \/ \E z \in Sessions : sess[z].owner = k /\ Saving(z, t.grant)
        /\ \/ grants[t.grant].alive
           \/ \E z \in Sessions : sess[z].owner = k /\ Removing(z, t.grant)
        /\ t.grant \in DOMAIN grants /\ grants[t.grant].owner = k
    BY <1>1, <2>1, TokenIsHeld DEF Mended, Issued
  <2>3. t.grant # g
    BY <1>5, <2>1, <2>2
  <2> QED
    BY <1>7, <2>2, <2>3
<1> QED
  BY <1>8, <1>10, <1>11, <1>13, <1>14, <1>15, <1>16, <1>17 DEF Sound

LEMMA ReplacedKeeps ==
    ASSUME IInv, NEW s \in Sessions, NEW o \in Owners, NEW kept \in SUBSET TokenSet,
           NEW gone \in SUBSET Nat, Replaced(s, o, kept, gone)
    PROVE  Sound'
<1>1. /\ Basics /\ Accounted /\ DisconnectedStays /\ Mended
      /\ \A z \in Sessions : Fresh(z) /\ Newest(z)
  BY DEF IInv
<1> DEFINE deleting == sess[s].step = "delete"
<1>2. /\ grants' = grants /\ broken' = broken /\ Shaped'
      /\ leaked' = leaked \cup (gone \ sess[s].there) /\ gone \subseteq DOMAIN grants
      /\ connected' = (IF deleting THEN connected \ {o} ELSE connected \cup {o})
      /\ \A z \in Sessions \ {s} : sess'[z] = sess[z]
      /\ Held(o)' = kept \cup (IF deleting THEN {} ELSE {sess[s].token})
      /\ kept \subseteq Held(o) /\ (deleting => kept = {})
      /\ \A t \in Held(o) \ kept : t.grant \in gone
      /\ \A k \in Owners \ {o} : Held(k)' = Held(k)
  BY DEF Replaced, Only
<1>3. /\ sess[s].step \in {"store", "insert", "delete"} /\ sess[s].owner = o
      /\ sess'[s].step \in {"idle", "done"} /\ sess'[s].token = Nil /\ sess'[s].read = Nil
      /\ SessionOK(s)'
  BY EmptiedOK DEF Replaced, Emptied
<1>4. /\ SessionOK(s)
      /\ ~deleting => /\ sess[s].token # Nil /\ sess[s].token \in TokenSet
                      /\ Issued(sess[s].token, o) /\ sess[s].token.grant \in DOMAIN grants
                      /\ InHand(s, sess[s].token.grant)
  BY <1>1, <1>3, SessionTypes DEF SessionOK, Issued, InHand
<1>5. /\ leaked \subseteq leaked' /\ leaked' \subseteq DOMAIN grants
      /\ connected' \subseteq Owners
  BY <1>1, <1>2 DEF Basics, Shapes
<1>6. Half'
  BY <1>1, <1>2, <1>5 DEF Half, Basics, Shapes, Replaced
<1>7. Grows
  BY <1>1, <1>2, <1>5, GrantTypes DEF Grows
<1>8. \A k \in Owners : RowsOK(k)'
  <2>1. ASSUME NEW t \in Held(o)' PROVE Issued(t, o)
    <3>1. CASE t \in kept
      BY <1>1, <1>2, <3>1, TokenIsHeld
    <3>2. CASE t \notin kept
      BY <1>2, <1>4, <3>2
    <3> QED
      BY <3>1, <3>2
  <2>2. RowsOK(o)'
    BY <1>2, <2>1 DEF RowsOK, Issued
  <2>3. \A k \in Owners \ {o} : RowsOK(k)'
    BY <1>1, <1>2, <1>7, RowsOKStay
  <2> QED
    BY <2>2, <2>3
<1>9. \A z \in Sessions : SessionOK(z)'
  BY <1>1, <1>2, <1>3, <1>7, OthersOK
<1>10. ASSUME NEW z \in Sessions, NEW g
       PROVE  InHand(z, g)' <=> z # s /\ InHand(z, g)
  BY <1>2, <1>3 DEF InHand
<1>11. Accounted'
  <2> SUFFICES ASSUME NEW g \in DOMAIN grants, grants[g].alive
               PROVE  \/ g \in leaked'
                      \/ \E k \in Owners : \E h \in Held(k)' : h.grant = g
                      \/ \E z \in Sessions : InHand(z, g)'
    BY <1>2 DEF Accounted
  <2>1. \/ g \in leaked
        \/ \E k \in Owners : \E h \in Held(k) : h.grant = g
        \/ \E z \in Sessions : InHand(z, g)
    BY <1>1 DEF Accounted
  <2>2. ASSUME NEW h \in Held(o), h.grant = g
        PROVE  g \in leaked' \/ h \in Held(o)'
    <3>1. g \in sess[s].there => g \in leaked
      BY <1>3, <1>4 DEF SessionOK
    <3> QED
      BY <1>2, <2>2, <3>1
  <2>3. InHand(s, g) => \E h \in Held(o)' : h.grant = g
    <3> SUFFICES ASSUME InHand(s, g) PROVE \E h \in Held(o)' : h.grant = g
      OBVIOUS
    <3>1. ~deleting /\ sess[s].token.grant = g
      BY DEF InHand
    <3> QED
      BY <1>2, <3>1
  <2> QED
    BY <1>2, <1>10, <2>1, <2>2, <2>3
<1>12. DisconnectedStays'
  <2>1. \A k \in Owners \ {o} : rows'[k] # {} => rows[k] # {}
    BY <1>2 DEF Held
  <2>2. rows'[o] # {} => ~deleting
    BY <1>2 DEF Held
  <2> QED
    BY <1>1, <1>2, <2>1, <2>2 DEF DisconnectedStays
<1>13. ASSUME NEW z \in Sessions PROVE Fresh(z)'
  <2> SUFFICES ASSUME NEW h \in DOMAIN grants, z # s, InHand(z, h)
               PROVE  /\ grants[h].alive /\ sess'[z].token.turn = grants[h].turn
                      /\ \A k \in Owners : \A q \in Held(k)' : q.grant # h
                      /\ \A y \in Sessions \ {z} : sess'[y].token # Nil => sess'[y].token.grant # h
                      /\ \A y \in Sessions : sess'[y].read # Nil => sess'[y].read.grant # h
    BY <1>2, <1>10 DEF Fresh
  <2>1. /\ grants[h].alive /\ sess[z].token.turn = grants[h].turn
        /\ \A k \in Owners : \A q \in Held(k) : q.grant # h
        /\ \A y \in Sessions \ {z} : sess[y].token # Nil => sess[y].token.grant # h
        /\ \A y \in Sessions : sess[y].read # Nil => sess[y].read.grant # h
    BY <1>1 DEF Fresh
  <2>2. \A k \in Owners : \A q \in Held(k)' : q.grant # h
    BY <1>2, <1>4, <2>1
  <2> QED
    BY <1>2, <1>3, <2>1, <2>2
<1>14. ASSUME NEW z \in Sessions PROVE Newest(z)'
  <2> SUFFICES ASSUME sess'[z].step = "save" PROVE Newest(z)'
    BY DEF Newest
  <2>1. z # s /\ sess'[z] = sess[z] /\ Newest(z) /\ sess[z].token # Nil
    BY <1>1, <1>2, <1>3, SessionTypes DEF SessionOK
  <2>2. ~deleting => sess[s].token.grant # sess[z].token.grant
    BY <1>1, <1>4, <2>1 DEF Fresh
  <2>3. \A k \in Owners : \A q \in Held(k)' :
            q \in Held(k) \/ (~deleting /\ q = sess[s].token)
    BY <1>2
  <2>4. sess'[s].step \notin {"refresh", "save"}
    BY <1>3
  <2> QED
    BY <1>2, <2>1, <2>2, <2>3, <2>4 DEF Newest
<1>15. Mended'
  <2> SUFFICES ASSUME NEW k \in Owners \ broken, NEW q \in Held(k)'
               PROVE  /\ \/ grants[q.grant].turn = q.turn
                         \/ \E z \in Sessions : sess'[z].owner = k /\ Saving(z, q.grant)'
                      /\ \/ grants[q.grant].alive
                         \/ \E z \in Sessions : sess'[z].owner = k /\ Removing(z, q.grant)'
    BY <1>2 DEF Mended
  <2>1. ASSUME NEW z \in Sessions, NEW g, sess[z].owner = k, Saving(z, g)
        PROVE  sess'[z].owner = k /\ Saving(z, g)'
    BY <1>2, <1>3, <2>1 DEF Saving
  <2>2. ASSUME NEW z \in Sessions \ {s}, NEW g, sess[z].owner = k, Removing(z, g)
        PROVE  sess'[z].owner = k /\ Removing(z, g)'
    BY <1>2, <2>2 DEF Removing
  <2>3. CASE q \in Held(k) /\ (k = o => q \in kept)
    <3>1. /\ \/ grants[q.grant].turn = q.turn
             \/ \E z \in Sessions : sess[z].owner = k /\ Saving(z, q.grant)
          /\ \/ grants[q.grant].alive
             \/ \E z \in Sessions : sess[z].owner = k /\ Removing(z, q.grant)
      BY <1>1, <2>3 DEF Mended
    <3>2. sess[s].owner = k => ~Removing(s, q.grant)
      BY <1>3, <2>3 DEF Replaced
    <3> QED
      BY <2>1, <2>2, <3>1, <3>2
  <2>4. CASE k = o /\ ~deleting /\ q = sess[s].token
    BY <1>1, <1>4, <2>4 DEF Fresh
  <2> QED
    BY <1>2, <2>3, <2>4
<1> QED
  BY <1>6, <1>8, <1>9, <1>11, <1>12, <1>13, <1>14, <1>15 DEF Sound
-----------------------------------------------------------------------------
(* The whole *)

Others ==
    /\ failures \in 0..MaxFailures /\ access \subseteq Corps /\ latest \in Corps \cup {Nil}
    /\ candidates \in Seq(Corps)

LEMMA SequencesOfCorps ==
    ASSUME NEW S \in SUBSET Corps, NEW order \in SetToSeqs(S)
    PROVE  order \in Seq(Corps) /\ DOMAIN order = 1..Cardinality(S) /\ Len(order) = Cardinality(S)
           /\ \A i, j \in DOMAIN order : i # j => order[i] # order[j]
<1>1. IsFiniteSet(S) /\ Cardinality(S) \in Nat
  BY OwnersAssumption, FS_Subset, FS_CardinalityType
<1>2. order \in [1..Cardinality(S) -> S]
  BY DEF SetToSeqs
<1>3. order \in [1..Cardinality(S) -> Corps]
  BY <1>2
<1>4. order \in Seq(Corps)
  BY <1>1, <1>3
<1>5. \A i, j \in DOMAIN order : i # j => order[i] # order[j]
  BY DEF SetToSeqs
<1> QED
  BY <1>1, <1>3, <1>4, <1>5

LEMMA OthersKept ==
    ASSUME IInv, [Next]_vars
    PROVE  Others'
<1> USE BoundsAssumption
<1>1. Others /\ Basics
  BY DEF IInv, Basics, Shapes, Others
<1>2. ASSUME failures' = failures \/ Trouble PROVE failures' \in 0..MaxFailures
  BY <1>1, <1>2 DEF Others, Trouble
<1>3. ASSUME NEW s \in Sessions, Step(s)
      PROVE  /\ failures' = failures \/ Trouble
             /\ UNCHANGED <<access, latest, candidates>>
  BY <1>3 DEF Step, EveRefreshes, Save, Flag, Existing, SignOut, Upsert, Clear, Insert, Delete
<1>4. ASSUME NEW s \in Sessions, Fail(s) PROVE Others'
  <2>1. candidates' \in Seq(Corps)
    BY <1>1, <1>4 DEF Fail, Others
  <2> QED
    BY <1>1, <1>2, <1>4, <2>1 DEF Fail, Others
<1>5. ASSUME NEW s \in Users, NEW o \in Managed,
             BeginRefresh(s, o) \/ Exchange(s, o) \/ BeginRevoke(s, o)
      PROVE  UNCHANGED <<access, latest, candidates, failures>>
  BY <1>5 DEF BeginRefresh, Exchange, BeginRevoke
<1>6. ASSUME ListCorps PROVE Others'
  <2>1. PICK order \in SetToSeqs({c \in Corps : rows[c] # {}}) : candidates' = order
    BY <1>6 DEF ListCorps
  <2>2. order \in Seq(Corps)
    BY <2>1, SequencesOfCorps
  <2> QED
    BY <1>1, <1>6, <2>1, <2>2 DEF ListCorps, Others
<1>7. ASSUME TryNext PROVE Others'
  <2>1. candidates' \in Seq(Corps)
    <3>1. candidates \in Seq(Corps)
      BY <1>1 DEF Others
    <3>2. candidates # <<>> => Tail(candidates) \in Seq(Corps)
      BY <3>1
    <3>3. candidates' = candidates \/ (candidates # <<>> /\ candidates' = Tail(candidates))
      BY <1>7 DEF TryNext
    <3> QED
      BY <3>1, <3>2, <3>3
  <2> QED
    BY <1>1, <1>7, <2>1 DEF TryNext, Others
<1>8. ASSUME Fetch PROVE Others'
  BY <1>1, <1>8 DEF Fetch, Others
<1>9. ASSUME Stamp PROVE Others'
  <2>1. sess[Job].owner \in Corps
    BY <1>1, <1>9, StampSays
  <2> QED
    BY <1>1, <1>9, <2>1 DEF Stamp, Others
<1>10. ASSUME NEW o \in Owners, Withdraw(o) PROVE Others'
  BY <1>1, <1>2, <1>10 DEF Withdraw, Others
<1>11. ASSUME NEW c \in Corps, DockingRights(c) PROVE Others'
  <2>1. access' \subseteq Corps
    BY <1>1, <1>11 DEF DockingRights, Others
  <2> QED
    BY <1>1, <1>2, <1>11, <2>1 DEF DockingRights, Others
<1>12. ASSUME UNCHANGED vars PROVE Others'
  BY <1>1, <1>12 DEF vars, Others
<1>13. ASSUME NEW s \in Sessions, Step(s) PROVE Others'
  BY <1>1, <1>2, <1>3, <1>13 DEF Others
<1>14. ASSUME NEW s \in Users, NEW o \in Managed,
             BeginRefresh(s, o) \/ Exchange(s, o) \/ BeginRevoke(s, o)
       PROVE  Others'
  BY <1>1, <1>5, <1>14 DEF Others
<1> QED
  BY <1>4, <1>6, <1>7, <1>8, <1>9, <1>10, <1>11, <1>12, <1>13, <1>14 DEF Next, JobStep

LEMMA StillKeeps ==
    ASSUME IInv, UNCHANGED <<rows, grants, sess, history>>
    PROVE  Sound'
<1>1. /\ Basics /\ Accounted /\ DisconnectedStays /\ Mended
      /\ \A z \in Sessions : Fresh(z) /\ Newest(z)
  BY DEF IInv
<1>2. /\ connected' = connected /\ rows' = rows /\ leaked' = leaked /\ broken' = broken
      /\ sess' = sess /\ grants' = grants
  BY DEF history
<1>3. Shaped' /\ \A k \in Owners : Held(k)' = Held(k)
  BY <1>1, <1>2, SameRows DEF SameTokens
<1>4. Half'
  BY <1>1, <1>2, <1>3 DEF Half, Basics, Shapes
<1>5. Grows
  BY <1>1, <1>2, GrantTypes DEF Grows
<1>6. (\A k \in Owners : RowsOK(k)') /\ (\A z \in Sessions : SessionOK(z)')
  BY <1>1, <1>2, <1>3, <1>5, RowsOKStay, OthersOK
<1>7. Accounted' /\ DisconnectedStays'
  BY <1>1, <1>2, <1>3 DEF Accounted, DisconnectedStays, InHand
<1>8. ASSUME NEW z \in Sessions PROVE Fresh(z)' /\ Newest(z)'
  BY <1>1, <1>2, <1>3 DEF Fresh, Newest, InHand
<1>9. Mended'
  BY <1>1, <1>2, <1>3 DEF Mended, Saving, Removing
<1> QED
  BY <1>4, <1>6, <1>7, <1>8, <1>9 DEF Sound

LEMMA StepKeeps ==
    ASSUME IInv, NEW s \in Sessions, Step(s) \/ Fail(s)
    PROVE  Sound'
<1>1. Basics
  BY DEF IInv
<1>2. CASE EveRefreshes(s)
  <2>1. CASE Calm(s) /\ rows' = rows
    <3>1. Shaped'
      BY <1>1, <2>1, SameRows
    <3> QED
      BY <1>1, <2>1, <3>1, CalmIsQuiet, QuietKeeps
  <2>2. CASE \E o \in Owners, g \in Nat : Rotated(s, o, g)
    BY <2>2, RotatedKeeps
  <2> QED
    BY <1>1, <1>2, <2>1, <2>2, EveSays
<1>3. CASE Save(s)
  BY <1>1, <1>3, SaveSays, SavedKeeps
<1>4. CASE Flag(s)
  BY <1>1, <1>4, FlagSays, CalmIsQuiet, QuietKeeps
<1>5. CASE Existing(s)
  BY <1>1, <1>5, ExistingSays, DroppedKeeps, FoundIsQuiet, QuietKeeps
<1>6. CASE SignOut(s)
  BY <1>1, <1>6, SignOutSays, SignedOffKeeps
<1>7. CASE Upsert(s)
  BY <1>1, <1>7, UpsertSays, ReplacedKeeps
<1>8. CASE Clear(s)
  BY <1>1, <1>8, ClearSays, ClearedIsQuiet, QuietKeeps
<1>9. CASE Insert(s)
  BY <1>1, <1>9, InsertSays, ReplacedKeeps
<1>10. CASE Delete(s)
  BY <1>1, <1>10, DeleteSays, ReplacedKeeps
<1>11. CASE Fail(s)
  BY <1>1, <1>11, FailSays, DroppedKeeps
<1> QED
  BY <1>2, <1>3, <1>4, <1>5, <1>6, <1>7, <1>8, <1>9, <1>10, <1>11 DEF Step

LEMMA NextKeeps ==
    ASSUME IInv, [Next]_vars
    PROVE  IInv'
<1>1. Basics
  BY DEF IInv
<1>2. ASSUME NEW s \in Users, NEW o \in Managed, BeginRefresh(s, o) PROVE Sound'
  <2>1. s \in Sessions /\ s # Job /\ o \in Owners /\ Took(s, o)
    BY <1>1, <1>2, BeginRefreshSays, OwnersAssumption DEF Sessions
  <2> QED
    BY <1>1, <2>1, TookIsQuiet, QuietKeeps
<1>3. ASSUME NEW s \in Users, NEW o \in Managed, Exchange(s, o) PROVE Sound'
  BY <1>1, <1>3, ExchangeSays, ExchangedKeeps
<1>4. ASSUME NEW s \in Users, NEW o \in Managed, BeginRevoke(s, o) PROVE Sound'
  BY <1>1, <1>4, BeginRevokeSays, RevokingIsQuiet, QuietKeeps
<1>5. ASSUME JobStep PROVE Sound'
  <2>1. Job \in Sessions
    BY DEF Sessions
  <2>2. (Calm(Job) /\ Shaped') \/ \E o \in Corps : Took(Job, o)
    BY <1>1, <1>5, ListCorpsSays, TryNextSays, FetchSays, StampSays DEF JobStep
  <2>3. \A o \in Corps : o \in Owners
    BY DEF Owners
  <2> QED
    BY <1>1, <2>1, <2>2, <2>3, CalmIsQuiet, TookIsQuiet, QuietKeeps
<1>6. ASSUME NEW o \in Owners, Withdraw(o) PROVE Sound'
  BY <1>6, WithdrawSays, WithdrawnKeeps
<1>7. ASSUME NEW c \in Corps, DockingRights(c) PROVE Sound'
  BY <1>7, StillKeeps DEF DockingRights, history
<1>8. ASSUME UNCHANGED vars PROVE Sound'
  BY <1>8, StillKeeps DEF vars, history
<1>9. Sound'
  BY <1>2, <1>3, <1>4, <1>5, <1>6, <1>7, <1>8, StepKeeps DEF Next
<1>10. Others'
  BY OthersKept
<1> QED
  BY <1>9, <1>10 DEF Sound, Half, Others, IInv, Basics, Shapes, Shaped

LEMMA InitHolds == Init => IInv
<1> SUFFICES ASSUME Init PROVE IInv
  OBVIOUS
<1> USE BoundsAssumption, OwnersAssumption
<1>1. PICK order \in SetToSeqs(Corps) :
        /\ grants = [g \in 1..Len(order) |-> [owner |-> order[g], alive |-> TRUE, turn |-> 0]]
        /\ rows = [o \in Owners |-> {Row(Token(g)) : g \in {g \in DOMAIN order : order[g] = o}}]
  BY DEF Init
<1>2. /\ order \in Seq(Corps) /\ DOMAIN order = 1..Cardinality(Corps)
      /\ Len(order) = Cardinality(Corps) /\ Len(order) \in Nat
      /\ \A i, j \in DOMAIN order : i # j => order[i] # order[j]
  BY SequencesOfCorps
<1>3. /\ grants \in Seq(Grant) /\ DOMAIN grants = DOMAIN order /\ Len(grants) <= MaxGrants
      /\ \A g \in DOMAIN grants : /\ grants[g].owner = order[g] /\ grants[g].alive
                                  /\ grants[g].turn = 0 /\ g \in Nat
  <2>1. \A g \in 1..Len(order) : order[g] \in Corps
    BY <1>2
  <2>2. \A g \in 1..Len(order) : [owner |-> order[g], alive |-> TRUE, turn |-> 0] \in Grant
    BY <2>1 DEF Grant, Owners
  <2>3. /\ grants \in Seq(Grant) /\ DOMAIN grants = 1..Len(order) /\ Len(grants) = Len(order)
        /\ \A g \in 1..Len(order) :
              grants[g] = [owner |-> order[g], alive |-> TRUE, turn |-> 0]
    BY <1>1, <1>2, <2>2
  <2> QED
    BY <1>2, <2>3
<1>4. ASSUME NEW g \in DOMAIN order
      PROVE  /\ Row(Token(g)) \in RowSet /\ Row(Token(g)).token = Token(g)
             /\ Token(g).grant = g /\ Token(g).turn = 0
  <2>1. Cardinality(Corps) \in Nat /\ g \in Nat
    BY <1>2, FS_CardinalityType
  <2> QED
    BY <2>1 DEF Row, Token, RowSet, TokenSet
<1>5. ASSUME NEW o \in Owners
      PROVE  /\ rows[o] \in SUBSET RowSet /\ Small(o)
             /\ \A t \in Held(o) : \E g \in DOMAIN order : t = Token(g) /\ order[g] = o
  <2> DEFINE D == {g \in DOMAIN order : order[g] = o}
  <2>1. rows[o] = {Row(Token(g)) : g \in D}
    BY <1>1
  <2>2. \A g, h \in D : g = h
    BY <1>2
  <2>3. IsFiniteSet(rows[o])
    <3>1. CASE D = {}
      <4>1. rows[o] = {}
        BY <2>1, <3>1
      <4> QED
        BY <4>1, FS_EmptySet
    <3>2. CASE D # {}
      <4>1. PICK g : D = {g}
        BY <2>2, <3>2
      <4>2. rows[o] = {Row(Token(g))}
        BY <2>1, <4>1
      <4> QED
        BY <4>2, FS_Singleton
    <3> QED
      BY <3>1, <3>2
  <2>4. \A r, q \in rows[o] : r = q
    BY <2>1, <2>2
  <2>5. rows[o] \in SUBSET RowSet
    BY <1>4, <2>1
  <2>6. \A t \in Held(o) : \E g \in DOMAIN order : t = Token(g) /\ order[g] = o
    BY <1>4, <2>1 DEF Held
  <2> QED
    BY <2>3, <2>4, <2>5, <2>6 DEF Small
<1>6. /\ access = Corps /\ sess = [s \in Sessions |-> Idle] /\ candidates = <<>> /\ latest = Nil
      /\ connected = Corps /\ leaked = {} /\ broken = {} /\ failures = 0
  BY DEF Init
<1>7. ASSUME NEW s \in Sessions
      PROVE  /\ sess[s].step = "idle" /\ sess[s].token = Nil /\ sess[s].read = Nil
             /\ sess[s].seen = {} /\ sess[s].there = {} /\ sess[s] \in Locals
  BY <1>6 DEF Idle, Locals, UserSteps
<1>8. sess \in [Sessions -> Locals]
  BY <1>6, <1>7
<1>9. Shapes
  <2>1. rows \in [Owners -> SUBSET RowSet]
    BY <1>1, <1>5
  <2> QED
    BY <1>3, <1>5, <1>6, <1>8, <2>1 DEF Shapes, Owners
<1>10. \A o \in Owners : RowsOK(o)
  BY <1>3, <1>4, <1>5 DEF RowsOK, Issued
<1>11. \A s \in Sessions : SessionOK(s)
  BY <1>7 DEF SessionOK, UserSteps, JobSteps
<1>12. Accounted
  <2> SUFFICES ASSUME NEW g \in DOMAIN grants
               PROVE  \E o \in Owners : \E t \in Held(o) : t.grant = g
    BY DEF Accounted
  <2>1. order[g] \in Corps /\ order[g] \in Owners
    BY <1>2, <1>3 DEF Owners
  <2>2. Row(Token(g)) \in rows[order[g]]
    BY <1>1, <1>3, <2>1
  <2>3. Token(g) \in Held(order[g]) /\ Token(g).grant = g
    BY <1>3, <1>4, <2>2 DEF Held
  <2> QED
    BY <2>1, <2>3
<1>13. DisconnectedStays
  <2> SUFFICES ASSUME NEW o \in Owners, rows[o] # {} PROVE o \in Corps
    BY <1>6 DEF DisconnectedStays
  <2>1. PICK t : t \in Held(o)
    BY NoRows
  <2> QED
    BY <1>2, <1>5, <2>1
<1>14. \A s \in Sessions : Fresh(s) /\ Newest(s)
  BY <1>7 DEF Fresh, Newest, InHand
<1>15. Mended
  BY <1>3, <1>4, <1>5 DEF Mended
<1> QED
  BY <1>9, <1>10, <1>11, <1>12, <1>13, <1>14, <1>15 DEF IInv, Basics

\* The invariant holds in every state of every behaviour.
LEMMA Inductive == Spec => []IInv
<1>1. IInv /\ [Next]_vars => IInv'
  BY NextKeeps
<1> QED
  BY InitHolds, <1>1, PTL DEF Spec

(* The rows, the grants and the sessions are well formed; while nobody is working   *)
(* on an owner, its stored token is the one EVE will accept, unless a failure, a    *)
(* withdrawal or a late writer broke it: for any corporations, sessions and bounds. *)
THEOREM TokensStaySound == Spec => []TokensSound
<1>1. IInv => TypeOK
  <2> SUFFICES ASSUME IInv PROVE TypeOK
    OBVIOUS
  <2>1. Basics /\ Shapes
    BY DEF IInv, Basics
  <2>2. ASSUME NEW g \in 1..Len(grants)
        PROVE  /\ g \in DOMAIN grants /\ grants[g].owner \in Owners
               /\ grants[g].turn \in 0..MaxRotations
    <3>1. g \in DOMAIN grants
      BY <2>1 DEF Shapes
    <3>2. grants[g] \in Grant
      BY <2>1, <3>1, GrantTypes
    <3> QED
      BY <3>1, <3>2 DEF Grant
  <2>3. ASSUME NEW o, NEW t \in TokenSet, Issued(t, o) PROVE TokenOK(t)
    <3>1. /\ t.grant \in DOMAIN grants /\ t.turn <= grants[t.grant].turn /\ t.turn \in Nat
          /\ grants[t.grant].turn \in Nat
      BY <2>1, <2>3, GrantTypes DEF Issued, TokenSet
    <3>2. DOMAIN grants = 1..Len(grants)
      BY <2>1 DEF Shapes
    <3> QED
      BY <3>1, <3>2 DEF TokenOK
  <2>4. ASSUME NEW o \in Owners, NEW r \in rows[o]
        PROVE  /\ TokenOK(r.token) /\ grants[r.token.grant].owner = o
               /\ r.failed \in BOOLEAN /\ r.used \in 0..Cardinality(Corps)
    <3>1. r \in RowSet /\ r.token \in Held(o)
      BY <2>1 DEF Shapes, Held
    <3>2. r.token \in TokenSet /\ Issued(r.token, o)
      BY <2>1, <3>1, TokenIsHeld
    <3> QED
      BY <2>3, <3>1, <3>2 DEF RowSet, Issued
  <2>5. ASSUME NEW c \in Corps PROVE Cardinality(rows[c]) <= 1
    <3>1. \A r, q \in rows[c] : r = q
      BY <2>1 DEF Shapes, Small, Owners
    <3>2. rows[c] = {} \/ \E r : rows[c] = {r}
      BY <3>1
    <3>3. Cardinality({}) = 0 /\ \A r : Cardinality({r}) = 1
      BY FS_EmptySet, FS_Singleton
    <3> QED
      BY <3>2, <3>3
  <2>6. ASSUME NEW s \in Sessions, NEW t \in {sess[s].token, sess[s].read}
        PROVE  t = Nil \/ TokenOK(t)
    BY <2>1, <2>3, SessionTypes DEF SessionOK
  <2>7. leaked \subseteq 1..Len(grants)
    BY <2>1 DEF Shapes
  <2>8. /\ Len(grants) <= MaxGrants /\ failures \in 0..MaxFailures
        /\ access \subseteq Corps /\ latest \in Corps \cup {Nil}
        /\ connected \subseteq Owners /\ broken \subseteq Owners
    BY <2>1 DEF Shapes
  <2> QED
    BY <2>2, <2>4, <2>5, <2>6, <2>7, <2>8 DEF TypeOK
<1>2. IInv => StoredTokenWorks
  <2> SUFFICES ASSUME IInv, NEW o \in Owners \ broken, NEW r \in rows[o],
                      \A s \in Sessions : sess[s].owner = o
                                            => sess[s].step \in {"fetch", "stamp", "flag"}
               PROVE  Works(r.token)
    BY DEF StoredTokenWorks
  <2>1. r.token \in Held(o) /\ Mended
    BY DEF IInv, Held
  <2> QED
    BY <2>1 DEF Mended, Saving, Removing, Works
<1> QED
  BY Inductive, <1>1, <1>2, PTL DEF TokensSound

(* A living grant is stored, in somebody's hand, or was left behind by a failure or *)
(* a race; and a disconnected owner has no row until it is connected again, whatever*)
(* refresh or flag was in flight.                                                   *)
THEOREM CredentialsAreGivenUp == Spec => []GivenUpForGood
<1>1. IInv => SignedOut
  <2> SUFFICES ASSUME IInv, NEW g \in 1..Len(grants), grants[g].alive
               PROVE  \/ g \in leaked
                      \/ \E t \in Stored : t.grant = g
                      \/ \E s \in Sessions : sess[s].token # Nil /\ sess[s].token.grant = g
    BY DEF SignedOut
  <2>1. g \in DOMAIN grants
    BY DEF IInv, Basics, Shapes
  <2>2. \/ g \in leaked
        \/ \E o \in Owners : \E t \in Held(o) : t.grant = g
        \/ \E s \in Sessions : InHand(s, g)
    BY <2>1 DEF IInv, Accounted
  <2>3. ASSUME NEW o \in Owners, NEW t \in Held(o) PROVE t \in Stored
    BY <2>3 DEF Held, Stored
  <2> QED
    BY <2>2, <2>3 DEF InHand
<1>2. IInv => DisconnectedStays
  BY DEF IInv
<1> QED
  BY Inductive, <1>1, <1>2, PTL DEF GivenUpForGood
=============================================================================
