----------------------------- MODULE BestLinks -----------------------------
(***************************************************************************)
(* What the contract watcher promises of its table appraisal_contracts:    *)
(* whatever EVE answers, each appraisal shows a most meaningful one of the *)
(* contracts that were reported to cite it, or none, for all appraisals in *)
(* one step; an appraisal shown as completed is bought, and stays bought.  *)
(***************************************************************************)
EXTENDS Naturals

CONSTANTS Appraisals, Contracts, Cites, IssuedAt, Nil

Standings == {"in_progress", "completed", "mismatch", "rejected", "expired"}
Observations == [contract : Contracts, standing : Standings]
Links == Observations \cup {Nil}

VARIABLES
    answer,    \* what has been reported of contracts
    links,     \* per appraisal: what it shows
    bought     \* appraisals with lots

vars == <<answer, links, bought>>

Rank(standing) == CASE standing = "in_progress" -> 3
                    [] standing = "completed"   -> 2
                    [] standing = "mismatch"    -> 1
                    [] OTHER                    -> 0

MoreMeaningful(o, p) ==
    \/ Rank(o.standing) > Rank(p.standing)
    \/ Rank(o.standing) = Rank(p.standing) /\ IssuedAt[o.contract] > IssuedAt[p.contract]

Bests(reported, a) ==
    LET mine == {o \in reported : Cites[o.contract] = a}
    IN  {o \in mine : \A p \in mine : ~MoreMeaningful(p, o)}
          \cup (IF mine = {} THEN {Nil} ELSE {})

Completed(link) == link # Nil /\ link.standing = "completed"

Init == answer = {} /\ links = [a \in Appraisals |-> Nil] /\ bought = {}

Report == answer' \in SUBSET Observations /\ UNCHANGED <<links, bought>>

Publish ==
    /\ answer' \in SUBSET Observations
    /\ links' \in [Appraisals -> Links]
    /\ \A a \in Appraisals : links'[a] \in Bests(answer, a)
    /\ bought' = bought \cup {a \in Appraisals : Completed(links'[a])}

Next == Report \/ Publish

Spec == Init /\ [][Next]_vars
=============================================================================
