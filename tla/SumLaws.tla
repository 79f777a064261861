------------------------------ MODULE SumLaws ------------------------------
(***************************************************************************)
(* The laws of finite sums that the proofs about money and quantities need. *)
(*                                                                         *)
(* The program totals everything it is trusted with: what lots cost, what  *)
(* is booked of them, what is still free, what a plan asked for.  The       *)
(* models write such a total as SumFunctionOnSet(f, S) of the community     *)
(* modules, the fold of + over the set S.  This module proves, for every    *)
(* finite S, what such a total does when S grows or shrinks, when a term    *)
(* changes, and when the terms are grouped or renamed.                      *)
(*                                                                         *)
(* Each law is proved by a least counterexample: if it failed, then, S     *)
(* being finite, it would fail for a subset none of whose own proper       *)
(* subsets fails (LeastSubset), and taking one element out of that subset  *)
(* contradicts its choice.  The fold picks its elements with a CHOOSE that *)
(* says nothing of the order, so the law that any element can be taken out *)
(* first, SumOnRemove, is what the others rest on.                          *)
(***************************************************************************)
EXTENDS Integers, Functions, FiniteSets, FiniteSetTheorems, TLAPS

\* The element the fold takes out of s first.
Pick(s) == CHOOSE x \in s : TRUE

\* h maps every subset of S to the total of f over it, added up as the fold does.
Adds(h, f, S) == h = [s \in SUBSET S |-> IF s = {} THEN 0 ELSE f[Pick(s)] + h[s \ {Pick(s)}]]

\* Among a non-empty family of subsets of a finite set there is one, itself
\* finite, none of whose proper subsets belongs to the family.
LEMMA LeastSubset ==
  ASSUME NEW S, IsFiniteSet(S), NEW Bad \in SUBSET SUBSET S, Bad # {}
  PROVE  \E s \in Bad : IsFiniteSet(s) /\ \A t \in SUBSET s : t # s => t \notin Bad
<1>1. FiniteSubsetsOf(S) = SUBSET S BY FS_FiniteSubsetsOfFinite
<1>2. IsWellFoundedOn(StrictSubsetOrdering(S), SUBSET S)
  BY <1>1, FS_StrictSubsetOrderingWellFounded
<1>3. \E s \in Bad : \A t \in Bad : ~ (<<t, s>> \in StrictSubsetOrdering(S))
  BY <1>2, WFMin
<1> QED BY <1>3, FS_Subset DEF StrictSubsetOrdering

\* A non-empty set of naturals has a least element.
LEMMA LeastNumber ==
  ASSUME NEW S \in SUBSET Nat, S # {}
  PROVE  \E m \in S : \A k \in S : m <= k
<1>1. PICK n \in S : n \in Nat OBVIOUS
<1>2. IsFiniteSet(0..n) BY <1>1, FS_Interval
<1> DEFINE Bad == {0..i : i \in S \cap 0..n}
<1>3. Bad # {} BY <1>1
<1>4. Bad \in SUBSET SUBSET (0..n) BY <1>1
<1>5. PICK s \in Bad : \A t \in SUBSET s : t # s => t \notin Bad
  <2> HIDE DEF Bad
  <2> QED BY ZenonT(40), <1>2, <1>3, <1>4, LeastSubset
<1>6. PICK m \in S \cap 0..n : s = 0..m BY <1>5
<1>7. \A k \in S : m <= k
  <2> SUFFICES ASSUME NEW k \in S, k < m PROVE FALSE BY <1>6
  <2>1. k \in S \cap 0..n /\ 0..k \in SUBSET (0..m) /\ m \notin 0..k /\ m \in 0..m BY <1>1, <1>6
  <2>2. 0..k \in Bad BY <2>1
  <2> QED BY <1>5, <1>6, <2>1, <2>2
<1> QED BY <1>6, <1>7

\* Two tables of totals of the same f agree wherever both are defined.
LEMMA AddsAgree ==
  ASSUME NEW f, NEW A, NEW B, IsFiniteSet(A), NEW g, NEW h, Adds(g, f, A), Adds(h, f, B)
  PROVE  \A s \in SUBSET (A \cap B) : g[s] = h[s]
<1> DEFINE Bad == {s \in SUBSET (A \cap B) : g[s] # h[s]}
<1>1. SUFFICES ASSUME Bad # {} PROVE FALSE
  OBVIOUS
<1>2. IsFiniteSet(A \cap B) BY FS_Intersection
<1>3. PICK s \in Bad : \A t \in SUBSET s : t # s => t \notin Bad
  <2> Bad \in SUBSET SUBSET (A \cap B) OBVIOUS
  <2> HIDE DEF Bad
  <2> QED BY <1>1, <1>2, LeastSubset
<1>4. s # {} BY DEF Adds
<1>5. Pick(s) \in s BY <1>4 DEF Pick
<1>6. g[s \ {Pick(s)}] = h[s \ {Pick(s)}] BY <1>3, <1>5
<1>7. g[s] = f[Pick(s)] + g[s \ {Pick(s)}] BY <1>4 DEF Adds
<1>8. h[s] = f[Pick(s)] + h[s \ {Pick(s)}] BY <1>4 DEF Adds
<1> QED BY <1>6, <1>7, <1>8

\* Every finite set has a table of totals.
LEMMA AddsExists ==
  ASSUME NEW f, NEW S, IsFiniteSet(S)
  PROVE  \E h : Adds(h, f, S)
<1> DEFINE Bad == {s \in SUBSET S : ~ \E h : Adds(h, f, s)}
<1>1. SUFFICES ASSUME Bad # {} PROVE FALSE
  OBVIOUS
<1>2. PICK s \in Bad : IsFiniteSet(s) /\ \A t \in SUBSET s : t # s => t \notin Bad
  <2> Bad \in SUBSET SUBSET S OBVIOUS
  <2> HIDE DEF Bad
  <2> QED BY <1>1, LeastSubset
<1> DEFINE sum(t) == CHOOSE h : Adds(h, f, t)
           val(t) == IF t = {} THEN 0 ELSE f[Pick(t)] + sum(t \ {Pick(t)})[t \ {Pick(t)}]
           H == [t \in SUBSET s |-> val(t)]
<1>3. ASSUME NEW t \in SUBSET s, t # s PROVE Adds(sum(t), f, t)
  <2>1. t \in SUBSET S /\ t \notin Bad BY <1>2, <1>3
  <2> QED BY <2>1
<1>4. ASSUME NEW t \in SUBSET s, t # {} PROVE Pick(t) \in t
  BY <1>4 DEF Pick
<1>5. ASSUME NEW t \in SUBSET s, t # s PROVE sum(t)[t] = val(t)
  <2>1. CASE t = {}
    <3>1. Adds(sum(t), f, t) BY <1>3, <1>5
    <3> HIDE DEF sum
    <3>2. sum(t)[t] = 0 BY <3>1, <2>1 DEF Adds
    <3> QED BY <3>2, <2>1
  <2>2. CASE t # {}
    <3> DEFINE r == t \ {Pick(t)}
    <3>1. Pick(t) \in t /\ r \in SUBSET t /\ r # s BY <1>4, <2>2
    <3>2. Adds(sum(t), f, t) /\ Adds(sum(r), f, r) BY <3>1, <1>3, <1>5
    <3>3. IsFiniteSet(t) BY <1>2, FS_Subset
    <3>4. sum(t)[r] = sum(r)[r]
      <4> HIDE DEF sum, r
      <4> QED BY <3>1, <3>2, <3>3, AddsAgree
    <3>5. sum(t)[t] = f[Pick(t)] + sum(t)[r]
      <4> HIDE DEF sum
      <4> QED BY <3>2, <2>2 DEF Adds
    <3> QED BY <3>4, <3>5, <2>2
  <2> QED BY <2>1, <2>2
<1>6. Adds(H, f, s)
  <2>1. ASSUME NEW t \in SUBSET s
        PROVE  val(t) = IF t = {} THEN 0 ELSE f[Pick(t)] + H[t \ {Pick(t)}]
    <3>1. CASE t = {} BY <3>1
    <3>2. CASE t # {}
      <4> DEFINE r == t \ {Pick(t)}
      <4>1. r \in SUBSET s /\ r # s BY <1>4, <3>2
      <4>2. H[r] = sum(r)[r] BY <4>1, <1>5
      <4> QED BY <4>2, <3>2
    <3> QED BY <3>1, <3>2
  <2> HIDE DEF val
  <2> QED BY <2>1 DEF Adds
<1>7. s \notin Bad BY <1>6
<1> QED BY <1>2, <1>7

\* The fold of the community modules is the entry of such a table.
LEMMA SumIsAdded ==
  ASSUME NEW f, NEW S, IsFiniteSet(S)
  PROVE  \E h : SumFunctionOnSet(f, S) = h[S] /\ Adds(h, f, S)
<1>1. SumFunctionOnSet(f, S) = (CHOOSE g : Adds(g, f, S))[S]
  BY DEF SumFunctionOnSet, FoldFunctionOnSet, MapThenFoldSet, Adds, Pick
<1> QED BY <1>1, AddsExists

\* The total over no element is 0.
LEMMA SumOnEmpty ==
  ASSUME NEW f PROVE SumFunctionOnSet(f, {}) = 0
<1>1. PICK h : SumFunctionOnSet(f, {}) = h[{}] /\ Adds(h, f, {}) BY SumIsAdded, FS_EmptySet
<1> QED BY <1>1 DEF Adds

\* A total is the term of the picked element plus the total over the rest.
LEMMA SumOnPick ==
  ASSUME NEW f, NEW S, IsFiniteSet(S), S # {}
  PROVE  SumFunctionOnSet(f, S) = f[Pick(S)] + SumFunctionOnSet(f, S \ {Pick(S)})
<1> DEFINE r == S \ {Pick(S)}
<1>1. IsFiniteSet(r) /\ r \in SUBSET S BY FS_Subset
<1>2. PICK h : SumFunctionOnSet(f, S) = h[S] /\ Adds(h, f, S) BY SumIsAdded
<1>3. PICK g : SumFunctionOnSet(f, r) = g[r] /\ Adds(g, f, r) BY SumIsAdded, <1>1
<1>4. h[r] = g[r] BY <1>1, <1>2, <1>3, AddsAgree
<1>5. h[S] = f[Pick(S)] + h[r]
  BY <1>2 DEF Adds
<1> QED BY <1>2, <1>3, <1>4, <1>5

\* A total of integers is an integer.
LEMMA SumOnInt ==
  ASSUME NEW f, NEW S, IsFiniteSet(S), \A x \in S : f[x] \in Int
  PROVE  SumFunctionOnSet(f, S) \in Int
<1> DEFINE Bad == {s \in SUBSET S : SumFunctionOnSet(f, s) \notin Int}
<1>1. SUFFICES ASSUME Bad # {} PROVE FALSE
  OBVIOUS
<1>2. PICK s \in Bad : IsFiniteSet(s) /\ \A t \in SUBSET s : t # s => t \notin Bad
  <2> Bad \in SUBSET SUBSET S OBVIOUS
  <2> HIDE DEF Bad
  <2> QED BY <1>1, LeastSubset
<1>3. s # {} BY SumOnEmpty
<1>4. Pick(s) \in s /\ f[Pick(s)] \in Int BY <1>3 DEF Pick
<1>5. SumFunctionOnSet(f, s \ {Pick(s)}) \in Int BY <1>2, <1>4
<1>6. SumFunctionOnSet(f, s) = f[Pick(s)] + SumFunctionOnSet(f, s \ {Pick(s)})
  BY <1>2, <1>3, SumOnPick
<1> QED BY <1>4, <1>5, <1>6

\* Any element can be the one that is taken out: totals do not depend on the
\* order in which the program visits the rows.
LEMMA SumOnRemove ==
  ASSUME NEW f, NEW S, IsFiniteSet(S), \A x \in S : f[x] \in Int, NEW x \in S
  PROVE  SumFunctionOnSet(f, S) = f[x] + SumFunctionOnSet(f, S \ {x})
<1> DEFINE sum(s) == SumFunctionOnSet(f, s)
           Bad == {s \in SUBSET S : \E y \in s : sum(s) # f[y] + sum(s \ {y})}
<1>1. SUFFICES ASSUME Bad # {} PROVE FALSE
  OBVIOUS
<1>2. PICK s \in Bad : IsFiniteSet(s) /\ \A t \in SUBSET s : t # s => t \notin Bad
  <2> Bad \in SUBSET SUBSET S OBVIOUS
  <2> HIDE DEF Bad
  <2> QED BY <1>1, LeastSubset
<1>3. PICK y \in s : sum(s) # f[y] + sum(s \ {y}) BY <1>2
<1> DEFINE c == Pick(s)
<1>4. c \in s BY <1>3 DEF Pick
<1>5. sum(s) = f[c] + sum(s \ {c}) BY <1>2, <1>3, SumOnPick
<1>6. c # y BY <1>3, <1>5
<1>7. sum(s \ {c}) = f[y] + sum((s \ {c}) \ {y}) BY <1>2, <1>4, <1>6
<1>8. sum(s \ {y}) = f[c] + sum((s \ {y}) \ {c}) BY <1>2, <1>4, <1>6
<1>9. (s \ {y}) \ {c} = (s \ {c}) \ {y} OBVIOUS
<1>10. sum((s \ {c}) \ {y}) \in Int
  <2>1. IsFiniteSet((s \ {c}) \ {y}) BY <1>2, FS_Subset
  <2> QED BY <2>1, SumOnInt
<1>11. f[c] \in Int /\ f[y] \in Int BY <1>4
<1>12. sum(s) = f[c] + (f[y] + sum((s \ {c}) \ {y})) BY <1>5, <1>7
<1>13. f[y] + sum(s \ {y}) = f[y] + (f[c] + sum((s \ {c}) \ {y})) BY <1>8, <1>9
<1>14. sum(s) = f[y] + sum(s \ {y})
  <2> HIDE DEF c, sum
  <2> QED BY <1>10, <1>11, <1>12, <1>13
<1> QED BY <1>3, <1>14

\* A total of quantities that are never negative is not negative.
LEMMA SumOnNat ==
  ASSUME NEW f, NEW S, IsFiniteSet(S), \A x \in S : f[x] \in Nat
  PROVE  SumFunctionOnSet(f, S) \in Nat
<1> DEFINE Bad == {s \in SUBSET S : SumFunctionOnSet(f, s) \notin Nat}
<1>1. SUFFICES ASSUME Bad # {} PROVE FALSE
  OBVIOUS
<1>2. PICK s \in Bad : IsFiniteSet(s) /\ \A t \in SUBSET s : t # s => t \notin Bad
  <2> Bad \in SUBSET SUBSET S OBVIOUS
  <2> HIDE DEF Bad
  <2> QED BY <1>1, LeastSubset
<1>3. s # {} BY SumOnEmpty
<1>4. Pick(s) \in s /\ f[Pick(s)] \in Nat BY <1>3 DEF Pick
<1>5. SumFunctionOnSet(f, s \ {Pick(s)}) \in Nat BY <1>2, <1>4
<1>6. SumFunctionOnSet(f, s) = f[Pick(s)] + SumFunctionOnSet(f, s \ {Pick(s)})
  BY <1>2, <1>3, SumOnPick
<1> QED BY <1>4, <1>5, <1>6

\* Only the terms over S matter to the total over S.
LEMMA SumOnSame ==
  ASSUME NEW f, NEW g, NEW S, IsFiniteSet(S), \A x \in S : f[x] = g[x]
  PROVE  SumFunctionOnSet(f, S) = SumFunctionOnSet(g, S)
<1> DEFINE Bad == {s \in SUBSET S : SumFunctionOnSet(f, s) # SumFunctionOnSet(g, s)}
<1>1. SUFFICES ASSUME Bad # {} PROVE FALSE
  OBVIOUS
<1>2. PICK s \in Bad : IsFiniteSet(s) /\ \A t \in SUBSET s : t # s => t \notin Bad
  <2> Bad \in SUBSET SUBSET S OBVIOUS
  <2> HIDE DEF Bad
  <2> QED BY <1>1, LeastSubset
<1>3. s # {} BY SumOnEmpty
<1>4. Pick(s) \in s /\ f[Pick(s)] = g[Pick(s)] BY <1>3 DEF Pick
<1>5. SumFunctionOnSet(f, s \ {Pick(s)}) = SumFunctionOnSet(g, s \ {Pick(s)}) BY <1>2, <1>4
<1>6. SumFunctionOnSet(f, s) = f[Pick(s)] + SumFunctionOnSet(f, s \ {Pick(s)})
  BY <1>2, <1>3, SumOnPick
<1>7. SumFunctionOnSet(g, s) = g[Pick(s)] + SumFunctionOnSet(g, s \ {Pick(s)})
  BY <1>2, <1>3, SumOnPick
<1> QED BY <1>4, <1>5, <1>6, <1>7

\* A new element adds its term: a new lot, a new booking.
LEMMA SumOnAdd ==
  ASSUME NEW f, NEW S, IsFiniteSet(S), NEW x, x \notin S,
         \A y \in S \cup {x} : f[y] \in Int
  PROVE  SumFunctionOnSet(f, S \cup {x}) = f[x] + SumFunctionOnSet(f, S)
<1>1. IsFiniteSet(S \cup {x}) BY FS_AddElement
<1>2. (S \cup {x}) \ {x} = S OBVIOUS
<1>3. SumFunctionOnSet(f, S \cup {x}) = f[x] + SumFunctionOnSet(f, (S \cup {x}) \ {x})
  BY <1>1, SumOnRemove
<1> QED BY <1>2, <1>3

\* A total of zeros is 0.
LEMMA SumOnZero ==
  ASSUME NEW f, NEW S, IsFiniteSet(S), \A x \in S : f[x] = 0
  PROVE  SumFunctionOnSet(f, S) = 0
<1> DEFINE Bad == {s \in SUBSET S : SumFunctionOnSet(f, s) # 0}
<1>1. SUFFICES ASSUME Bad # {} PROVE FALSE
  OBVIOUS
<1>2. PICK s \in Bad : IsFiniteSet(s) /\ \A t \in SUBSET s : t # s => t \notin Bad
  <2> Bad \in SUBSET SUBSET S OBVIOUS
  <2> HIDE DEF Bad
  <2> QED BY <1>1, LeastSubset
<1>3. s # {} BY SumOnEmpty
<1>4. Pick(s) \in s /\ f[Pick(s)] = 0 BY <1>3 DEF Pick
<1>5. SumFunctionOnSet(f, s \ {Pick(s)}) = 0 BY <1>2, <1>4
<1>6. SumFunctionOnSet(f, s) = f[Pick(s)] + SumFunctionOnSet(f, s \ {Pick(s)})
  BY <1>2, <1>3, SumOnPick
<1> QED BY <1>4, <1>5, <1>6

\* The total of a sum is the sum of the totals.
LEMMA SumOnPlus ==
  ASSUME NEW f, NEW g, NEW h, NEW S, IsFiniteSet(S),
         \A x \in S : f[x] \in Int /\ g[x] \in Int /\ h[x] = f[x] + g[x]
  PROVE  SumFunctionOnSet(h, S) = SumFunctionOnSet(f, S) + SumFunctionOnSet(g, S)
<1> DEFINE Bad == {s \in SUBSET S : SumFunctionOnSet(h, s)
                                      # SumFunctionOnSet(f, s) + SumFunctionOnSet(g, s)}
<1>1. SUFFICES ASSUME Bad # {} PROVE FALSE
  OBVIOUS
<1>2. PICK s \in Bad : IsFiniteSet(s) /\ \A t \in SUBSET s : t # s => t \notin Bad
  <2> Bad \in SUBSET SUBSET S OBVIOUS
  <2> HIDE DEF Bad
  <2> QED BY <1>1, LeastSubset
<1>3. s # {}
  <2>1. /\ SumFunctionOnSet(f, {}) = 0 /\ SumFunctionOnSet(g, {}) = 0
        /\ SumFunctionOnSet(h, {}) = 0
    BY SumOnEmpty
  <2>2. SumFunctionOnSet(h, {}) = SumFunctionOnSet(f, {}) + SumFunctionOnSet(g, {})
    BY <2>1
  <2> QED BY <2>2
<1> DEFINE c == Pick(s)
           r == s \ {c}
<1>4. c \in s /\ f[c] \in Int /\ g[c] \in Int /\ h[c] = f[c] + g[c] BY <1>3 DEF Pick
<1>5. SumFunctionOnSet(h, r) = SumFunctionOnSet(f, r) + SumFunctionOnSet(g, r)
  BY <1>2, <1>4
<1>6. SumFunctionOnSet(f, r) \in Int /\ SumFunctionOnSet(g, r) \in Int
  <2>1. IsFiniteSet(r) BY <1>2, FS_Subset
  <2> QED BY <2>1, SumOnInt
<1>7. SumFunctionOnSet(f, s) = f[c] + SumFunctionOnSet(f, r) BY <1>2, <1>3, SumOnPick
<1>8. SumFunctionOnSet(g, s) = g[c] + SumFunctionOnSet(g, r) BY <1>2, <1>3, SumOnPick
<1>9. SumFunctionOnSet(h, s) = h[c] + SumFunctionOnSet(h, r) BY <1>2, <1>3, SumOnPick
<1>10. SumFunctionOnSet(h, s) = SumFunctionOnSet(f, s) + SumFunctionOnSet(g, s)
  <2> HIDE DEF c, r
  <2> QED BY <1>4, <1>5, <1>6, <1>7, <1>8, <1>9
<1> QED BY <1>10

\* Smaller terms have a smaller total.
LEMMA SumOnAtMost ==
  ASSUME NEW f, NEW g, NEW S, IsFiniteSet(S),
         \A x \in S : f[x] \in Int /\ g[x] \in Int /\ f[x] <= g[x]
  PROVE  SumFunctionOnSet(f, S) <= SumFunctionOnSet(g, S)
<1> DEFINE d == [x \in S |-> g[x] - f[x]]
<1>1. \A x \in S : d[x] \in Nat /\ g[x] = f[x] + d[x] OBVIOUS
<1> HIDE DEF d
<1>2. SumFunctionOnSet(g, S) = SumFunctionOnSet(f, S) + SumFunctionOnSet(d, S)
  BY <1>1, SumOnPlus
<1>3. SumFunctionOnSet(d, S) \in Nat BY <1>1, SumOnNat
<1>4. SumFunctionOnSet(f, S) \in Int BY SumOnInt
<1> QED BY <1>2, <1>3, <1>4

\* Disjoint parts are totalled separately.
LEMMA SumOnUnion ==
  ASSUME NEW f, NEW A, NEW B, IsFiniteSet(A), IsFiniteSet(B), A \cap B = {},
         \A x \in A \cup B : f[x] \in Int
  PROVE  SumFunctionOnSet(f, A \cup B) = SumFunctionOnSet(f, A) + SumFunctionOnSet(f, B)
<1> DEFINE Bad == {s \in SUBSET A : SumFunctionOnSet(f, s \cup B)
                                      # SumFunctionOnSet(f, s) + SumFunctionOnSet(f, B)}
<1>1. SUFFICES ASSUME Bad # {} PROVE FALSE
  OBVIOUS
<1>2. PICK s \in Bad : IsFiniteSet(s) /\ \A t \in SUBSET s : t # s => t \notin Bad
  <2> Bad \in SUBSET SUBSET A OBVIOUS
  <2> HIDE DEF Bad
  <2> QED BY <1>1, LeastSubset
<1>3. SumFunctionOnSet(f, B) \in Int BY SumOnInt
<1>4. s # {}
  <2>1. {} \cup B = B OBVIOUS
  <2>2. SumFunctionOnSet(f, {}) + SumFunctionOnSet(f, B) = SumFunctionOnSet(f, B)
    BY <1>3, SumOnEmpty
  <2>3. SumFunctionOnSet(f, {} \cup B) = SumFunctionOnSet(f, {}) + SumFunctionOnSet(f, B)
    BY <2>1, <2>2
  <2> QED BY <2>3
<1>5. PICK c \in s : TRUE BY <1>4
<1> DEFINE r == s \ {c}
<1>6. /\ IsFiniteSet(r) /\ IsFiniteSet(s \cup B)
      /\ f[c] \in Int /\ c \in s \cup B /\ (s \cup B) \ {c} = r \cup B
      /\ r \in SUBSET s /\ r # s
  BY <1>2, <1>5, FS_Subset, FS_Union
<1>7. SumFunctionOnSet(f, r \cup B) = SumFunctionOnSet(f, r) + SumFunctionOnSet(f, B)
  BY <1>2, <1>6
<1>8. SumFunctionOnSet(f, s) = f[c] + SumFunctionOnSet(f, r) BY <1>2, <1>5, SumOnRemove
<1>9. SumFunctionOnSet(f, s \cup B) = f[c] + SumFunctionOnSet(f, r \cup B)
  <2>1. \A x \in s \cup B : f[x] \in Int OBVIOUS
  <2>2. SumFunctionOnSet(f, s \cup B) = f[c] + SumFunctionOnSet(f, (s \cup B) \ {c})
    BY <2>1, <1>6, SumOnRemove
  <2> QED BY <2>2, <1>6
<1>10. SumFunctionOnSet(f, r) \in Int BY <1>6, SumOnInt
<1>11. SumFunctionOnSet(f, s \cup B) = SumFunctionOnSet(f, s) + SumFunctionOnSet(f, B)
  <2> HIDE DEF r
  <2> QED BY <1>3, <1>6, <1>7, <1>8, <1>9, <1>10
<1> QED BY <1>11

\* When one term changes the total changes by as much: one row is updated.
LEMMA SumOnChange ==
  ASSUME NEW f, NEW g, NEW S, IsFiniteSet(S), NEW x \in S,
         \A y \in S : f[y] \in Int /\ g[y] \in Int,
         \A y \in S \ {x} : g[y] = f[y]
  PROVE  SumFunctionOnSet(g, S) = SumFunctionOnSet(f, S) - f[x] + g[x]
<1> DEFINE r == S \ {x}
<1>1. IsFiniteSet(r) BY FS_Subset
<1>2. SumFunctionOnSet(f, S) = f[x] + SumFunctionOnSet(f, r) BY SumOnRemove
<1>3. SumFunctionOnSet(g, S) = g[x] + SumFunctionOnSet(g, r) BY SumOnRemove
<1>4. SumFunctionOnSet(g, r) = SumFunctionOnSet(f, r) BY <1>1, SumOnSame
<1>5. SumFunctionOnSet(f, r) \in Int BY <1>1, SumOnInt
<1>6. f[x] \in Int /\ g[x] \in Int OBVIOUS
<1> HIDE DEF r
<1> QED BY <1>2, <1>3, <1>4, <1>5, <1>6

\* Of quantities that are never negative, no term exceeds the total.
LEMMA SumOnTerm ==
  ASSUME NEW f, NEW S, IsFiniteSet(S), \A y \in S : f[y] \in Nat, NEW x \in S
  PROVE  f[x] <= SumFunctionOnSet(f, S)
<1> DEFINE r == S \ {x}
<1>1. IsFiniteSet(r) BY FS_Subset
<1>2. SumFunctionOnSet(f, S) = f[x] + SumFunctionOnSet(f, r) BY SumOnRemove
<1>3. SumFunctionOnSet(f, r) \in Nat BY <1>1, SumOnNat
<1>4. f[x] \in Nat OBVIOUS
<1> HIDE DEF r
<1> QED BY <1>2, <1>3, <1>4

\* Totals do not depend on the names of the elements: f over T is g over S
\* when b renames S to T one to one.
LEMMA SumOnImage ==
  ASSUME NEW f, NEW S, IsFiniteSet(S), NEW T, NEW b \in [S -> T],
         \A x, y \in S : b[x] = b[y] => x = y,
         \A z \in T : \E x \in S : b[x] = z,
         \A z \in T : f[z] \in Int,
         NEW g, \A x \in S : g[x] = f[b[x]]
  PROVE  SumFunctionOnSet(g, S) = SumFunctionOnSet(f, T)
<1> DEFINE img(s) == {b[x] : x \in s}
           Bad == {s \in SUBSET S : SumFunctionOnSet(g, s) # SumFunctionOnSet(f, img(s))}
<1>1. SUFFICES ASSUME Bad # {} PROVE FALSE
  <2>1. img(S) = T OBVIOUS
  <2> HIDE DEF img
  <2> QED BY <2>1
<1>2. PICK s \in Bad : IsFiniteSet(s) /\ \A t \in SUBSET s : t # s => t \notin Bad
  <2> Bad \in SUBSET SUBSET S OBVIOUS
  <2> HIDE DEF Bad
  <2> QED BY <1>1, LeastSubset
<1>3. s # {}
  <2>1. img({}) = {} OBVIOUS
  <2> HIDE DEF img
  <2> QED BY <2>1, SumOnEmpty
<1>4. PICK c \in s : TRUE BY <1>3
<1> DEFINE r == s \ {c}
<1>5. /\ IsFiniteSet(r) /\ r \in SUBSET s /\ r # s /\ b[c] \in img(s)
      /\ img(s) \ {b[c]} = img(r)
  BY <1>2, <1>4, FS_Subset
<1>6. IsFiniteSet(img(s)) /\ \A z \in img(s) : f[z] \in Int
  <2>1. [x \in s |-> b[x]] \in Surjection(s, img(s)) BY DEF Surjection
  <2>2. IsFiniteSet(img(s)) BY <1>2, <2>1, FS_Surjection
  <2> QED BY <2>2
<1>7. SumFunctionOnSet(g, s) = g[c] + SumFunctionOnSet(g, r)
  <2>1. \A x \in s : g[x] \in Int OBVIOUS
  <2> QED BY <1>2, <2>1, SumOnRemove
<1>8. SumFunctionOnSet(f, img(s)) = f[b[c]] + SumFunctionOnSet(f, img(r))
  <2> HIDE DEF img
  <2>1. SumFunctionOnSet(f, img(s)) = f[b[c]] + SumFunctionOnSet(f, img(s) \ {b[c]})
    BY <1>5, <1>6, SumOnRemove
  <2> QED BY <2>1, <1>5
<1>9. SumFunctionOnSet(g, r) = SumFunctionOnSet(f, img(r)) BY <1>2, <1>5
<1>10. g[c] = f[b[c]] OBVIOUS
<1>11. SumFunctionOnSet(g, s) = SumFunctionOnSet(f, img(s))
  <2> HIDE DEF img, r
  <2> QED BY <1>7, <1>8, <1>9, <1>10
<1> QED BY <1>11

\* The same with its hypotheses in one definition, for use amid many facts: b takes S
\* to T one to one, and g is f taken along.
Renames(b, S, T, g, f) ==
  /\ IsFiniteSet(S) /\ b \in [S -> T]
  /\ \A x, y \in S : b[x] = b[y] => x = y
  /\ \A z \in T : \E x \in S : b[x] = z
  /\ \A z \in T : f[z] \in Int
  /\ \A x \in S : g[x] = f[b[x]]

LEMMA SumRenamed ==
  ASSUME NEW b, NEW S, NEW T, NEW g, NEW f, Renames(b, S, T, g, f)
  PROVE  SumFunctionOnSet(g, S) = SumFunctionOnSet(f, T)
<1>1. b \in [S -> T] BY DEF Renames
<1> QED BY <1>1, SumOnImage DEF Renames

\* Elements grouped by a key k, the groups totalled, and the group totals
\* totalled, give the total: the bookings of each lot, over all lots.
LEMMA SumOnParts ==
  ASSUME NEW f, NEW S, IsFiniteSet(S), \A x \in S : f[x] \in Int,
         NEW K, IsFiniteSet(K), NEW k, \A x \in S : k[x] \in K,
         NEW part, \A h \in K : part[h] = {x \in S : k[x] = h},
         NEW g, \A h \in K : g[h] = SumFunctionOnSet(f, part[h])
  PROVE  SumFunctionOnSet(g, K) = SumFunctionOnSet(f, S)
<1> DEFINE grouped(J) == {x \in S : k[x] \in J}
           Bad == {J \in SUBSET K : SumFunctionOnSet(g, J) # SumFunctionOnSet(f, grouped(J))}
<1>1. SUFFICES ASSUME Bad # {} PROVE FALSE
  <2>1. grouped(K) = S OBVIOUS
  <2> HIDE DEF grouped
  <2> QED BY <2>1
<1>2. PICK s \in Bad : IsFiniteSet(s) /\ \A t \in SUBSET s : t # s => t \notin Bad
  <2> Bad \in SUBSET SUBSET K OBVIOUS
  <2> HIDE DEF Bad
  <2> QED BY <1>1, LeastSubset
<1>3. s # {}
  <2>1. grouped({}) = {} OBVIOUS
  <2> HIDE DEF grouped
  <2> QED BY <2>1, SumOnEmpty
<1>4. PICK c \in s : TRUE BY <1>3
<1> DEFINE r == s \ {c}
           one == {x \in S : k[x] = c}
<1>5. /\ r \in SUBSET s /\ r # s
      /\ grouped(s) = one \cup grouped(r) /\ one \cap grouped(r) = {}
  BY <1>4
<1>6. IsFiniteSet(one) /\ IsFiniteSet(grouped(r)) BY FS_Subset
<1>7. SumFunctionOnSet(g, s) = g[c] + SumFunctionOnSet(g, r)
  <2>1. \A h \in s : g[h] \in Int
    <3> TAKE h \in s
    <3>1. IsFiniteSet(part[h]) /\ \A x \in part[h] : f[x] \in Int BY FS_Subset
    <3>2. SumFunctionOnSet(f, part[h]) \in Int BY <3>1, SumOnInt
    <3> QED BY <3>2
  <2> QED BY <1>2, <1>4, <2>1, SumOnRemove
<1>8. SumFunctionOnSet(f, grouped(s)) = SumFunctionOnSet(f, one) + SumFunctionOnSet(f, grouped(r))
  <2>1. \A x \in one \cup grouped(r) : f[x] \in Int OBVIOUS
  <2>2. SumFunctionOnSet(f, one \cup grouped(r)) = SumFunctionOnSet(f, one) + SumFunctionOnSet(f, grouped(r))
    <3> HIDE DEF one, grouped, r
    <3> QED BY <1>5, <1>6, <2>1, SumOnUnion
  <2>3. grouped(s) = one \cup grouped(r) BY <1>5
  <2> QED BY <2>2, <2>3
<1>9. SumFunctionOnSet(g, r) = SumFunctionOnSet(f, grouped(r)) BY <1>2, <1>5
<1>10. g[c] = SumFunctionOnSet(f, one) OBVIOUS
<1>11. SumFunctionOnSet(g, s) = SumFunctionOnSet(f, grouped(s))
  <2> HIDE DEF one, grouped, r
  <2> QED BY <1>7, <1>8, <1>9, <1>10
<1> QED BY <1>11

\* Terms that are 0 can be left out.
LEMMA SumOnSupport ==
  ASSUME NEW f, NEW S, IsFiniteSet(S), NEW P \in SUBSET S,
         \A x \in S : f[x] \in Int, \A x \in S \ P : f[x] = 0
  PROVE  SumFunctionOnSet(f, S) = SumFunctionOnSet(f, P)
<1> DEFINE R == S \ P
<1>1. /\ IsFiniteSet(P) /\ IsFiniteSet(R) /\ P \cap R = {} /\ S = P \cup R
      /\ \A x \in R : f[x] = 0
  BY FS_Subset
<1> HIDE DEF R
<1>2. SumFunctionOnSet(f, R) = 0 BY <1>1, SumOnZero
<1>3. SumFunctionOnSet(f, P) \in Int BY <1>1, SumOnInt
<1>4. SumFunctionOnSet(f, P \cup R) = SumFunctionOnSet(f, P) + SumFunctionOnSet(f, R)
  BY <1>1, SumOnUnion
<1> QED BY <1>1, <1>2, <1>3, <1>4

\* A total with one term is that term.
LEMMA SumOnOne ==
  ASSUME NEW f, NEW S, IsFiniteSet(S), NEW x \in S, f[x] \in Int,
         \A y \in S \ {x} : f[y] = 0
  PROVE  SumFunctionOnSet(f, S) = f[x]
<1> DEFINE R == S \ {x}
<1>1. IsFiniteSet(R) /\ (\A y \in R : f[y] = 0) BY FS_Subset
<1>2. SumFunctionOnSet(f, S) = f[x] + SumFunctionOnSet(f, R)
  <2>1. \A y \in S : f[y] \in Int OBVIOUS
  <2> QED BY <2>1, SumOnRemove
<1> HIDE DEF R
<1>3. SumFunctionOnSet(f, R) = 0 BY <1>1, SumOnZero
<1> QED BY <1>2, <1>3

\* Of quantities that are never negative, a part totals at most the whole.
LEMMA SumOnPart ==
  ASSUME NEW f, NEW S, IsFiniteSet(S), NEW P \in SUBSET S, \A x \in S : f[x] \in Nat
  PROVE  SumFunctionOnSet(f, P) <= SumFunctionOnSet(f, S)
<1> DEFINE R == S \ P
<1>1. /\ IsFiniteSet(P) /\ IsFiniteSet(R) /\ P \cap R = {} /\ S = P \cup R
      /\ (\A x \in R : f[x] \in Nat) /\ (\A x \in P : f[x] \in Nat)
  BY FS_Subset
<1> HIDE DEF R
<1>2. SumFunctionOnSet(f, R) \in Nat /\ SumFunctionOnSet(f, P) \in Nat BY <1>1, SumOnNat
<1>3. SumFunctionOnSet(f, P \cup R) = SumFunctionOnSet(f, P) + SumFunctionOnSet(f, R)
  <2>1. \A x \in P \cup R : f[x] \in Int BY <1>1
  <2> QED BY <1>1, <2>1, SumOnUnion
<1> QED BY <1>1, <1>2, <1>3

\* A total over the elements that qualify is the total over all with 0 for the rest.
LEMMA SumOnFilter ==
  ASSUME NEW f, NEW S, IsFiniteSet(S), NEW P \in SUBSET S,
         NEW g, \A x \in S : g[x] \in Int,
         \A x \in P : f[x] = g[x], \A x \in S \ P : g[x] = 0
  PROVE  SumFunctionOnSet(f, P) = SumFunctionOnSet(g, S)
<1>1. IsFiniteSet(P) BY FS_Subset
<1>2. SumFunctionOnSet(f, P) = SumFunctionOnSet(g, P) BY <1>1, SumOnSame
<1>3. SumFunctionOnSet(g, S) = SumFunctionOnSet(g, P) BY SumOnSupport
<1> QED BY <1>2, <1>3

\* The total of a list after another is the sum of their totals.
LEMMA SumOnJoined ==
  ASSUME NEW m \in Nat, NEW n \in Nat, NEW f, NEW g, NEW h,
         \A k \in 1..m : f[k] \in Int /\ h[k] = f[k],
         \A k \in 1..n : g[k] \in Int /\ h[m + k] = g[k]
  PROVE  SumFunctionOnSet(h, 1..(m + n))
           = SumFunctionOnSet(f, 1..m) + SumFunctionOnSet(g, 1..n)
<1> DEFINE A == 1..m
           B == (m + 1)..(m + n)
           b == [k \in 1..n |-> m + k]
<1>1. /\ IsFiniteSet(A) /\ IsFiniteSet(B) /\ IsFiniteSet(1..n)
      /\ A \cap B = {} /\ A \cup B = 1..(m + n)
  BY FS_Interval
<1>2. /\ b \in [1..n -> B]
      /\ \A x, y \in 1..n : b[x] = b[y] => x = y
      /\ \A x \in 1..n : g[x] = h[b[x]]
  OBVIOUS
<1>3. ASSUME NEW z \in B PROVE h[z] \in Int /\ \E x \in 1..n : b[x] = z
  <2>1. z - m \in 1..n /\ m + (z - m) = z OBVIOUS
  <2>2. b[z - m] = z BY <2>1
  <2>3. h[m + (z - m)] = g[z - m] /\ g[z - m] \in Int BY <2>1
  <2> QED BY <2>1, <2>2, <2>3
<1>4. \A x \in A : h[x] \in Int /\ h[x] = f[x] OBVIOUS
<1> HIDE DEF A, B, b
<1>5. SumFunctionOnSet(h, A \cup B) = SumFunctionOnSet(h, A) + SumFunctionOnSet(h, B)
  <2>1. \A x \in A \cup B : h[x] \in Int BY <1>3, <1>4
  <2> QED BY <1>1, <2>1, SumOnUnion
<1>6. SumFunctionOnSet(h, A) = SumFunctionOnSet(f, A) BY <1>1, <1>4, SumOnSame
<1>7. SumFunctionOnSet(g, 1..n) = SumFunctionOnSet(h, B)
  <2>1. PICK N : N = 1..n OBVIOUS
  <2>2. IsFiniteSet(N) /\ b \in [N -> B] BY <1>1, <1>2, <2>1
  <2>3. \A x, y \in N : b[x] = b[y] => x = y BY <1>2, <2>1
  <2>4. \A z \in B : \E x \in N : b[x] = z BY <1>3, <2>1
  <2>5. \A z \in B : h[z] \in Int BY <1>3
  <2>6. \A x \in N : g[x] = h[b[x]] BY <1>2, <2>1
  <2>7. SumFunctionOnSet(g, N) = SumFunctionOnSet(h, B)
    BY <2>2, <2>3, <2>4, <2>5, <2>6, SumOnImage
  <2> QED BY <2>1, <2>7
<1> QED BY <1>1, <1>5, <1>6, <1>7 DEF A
\* Counting is totalling ones.
LEMMA SumOnOnes ==
  ASSUME NEW f, NEW S, IsFiniteSet(S), \A x \in S : f[x] = 1
  PROVE  SumFunctionOnSet(f, S) = Cardinality(S)
<1> DEFINE Bad == {s \in SUBSET S : SumFunctionOnSet(f, s) # Cardinality(s)}
<1>1. SUFFICES ASSUME Bad # {} PROVE FALSE
  OBVIOUS
<1>2. PICK s \in Bad : IsFiniteSet(s) /\ \A t \in SUBSET s : t # s => t \notin Bad
  <2> Bad \in SUBSET SUBSET S OBVIOUS
  <2> HIDE DEF Bad
  <2> QED BY <1>1, LeastSubset
<1>3. s # {} BY SumOnEmpty, FS_EmptySet
<1>4. Pick(s) \in s /\ f[Pick(s)] = 1 BY <1>3 DEF Pick
<1>5. SumFunctionOnSet(f, s \ {Pick(s)}) = Cardinality(s \ {Pick(s)}) BY <1>2, <1>4
<1>6. SumFunctionOnSet(f, s) = f[Pick(s)] + SumFunctionOnSet(f, s \ {Pick(s)})
  BY <1>2, <1>3, SumOnPick
<1>7. Cardinality(s \ {Pick(s)}) = Cardinality(s) - 1 /\ Cardinality(s) \in Nat
  BY <1>2, <1>4, FS_RemoveElement, FS_CardinalityType
<1> QED BY <1>4, <1>5, <1>6, <1>7

\* A total of multiples is the multiple of the total.
LEMMA SumOnTimes ==
  ASSUME NEW f, NEW g, NEW S, IsFiniteSet(S), NEW c \in Int,
         \A x \in S : f[x] \in Int /\ g[x] = c * f[x]
  PROVE  SumFunctionOnSet(g, S) = c * SumFunctionOnSet(f, S)
<1> DEFINE Bad == {s \in SUBSET S : SumFunctionOnSet(g, s) # c * SumFunctionOnSet(f, s)}
<1>1. SUFFICES ASSUME Bad # {} PROVE FALSE
  OBVIOUS
<1>2. PICK s \in Bad : IsFiniteSet(s) /\ \A t \in SUBSET s : t # s => t \notin Bad
  <2> Bad \in SUBSET SUBSET S OBVIOUS
  <2> HIDE DEF Bad
  <2> QED BY <1>1, LeastSubset
<1>3. s # {}
  <2>1. SumFunctionOnSet(f, {}) = 0 /\ SumFunctionOnSet(g, {}) = 0 /\ c * 0 = 0 BY SumOnEmpty
  <2> QED BY <2>1
<1>4. PICK x : x = Pick(s) OBVIOUS
<1>5. x \in s /\ f[x] \in Int /\ g[x] = c * f[x] BY <1>3, <1>4 DEF Pick
<1>6. PICK a \in Int : a = SumFunctionOnSet(f, s \ {x})
  <2>1. IsFiniteSet(s \ {x}) /\ \A y \in s \ {x} : f[y] \in Int BY <1>2, FS_Subset
  <2> QED BY <2>1, SumOnInt
<1>7. SumFunctionOnSet(g, s \ {x}) = c * a BY <1>2, <1>5, <1>6
<1>8. SumFunctionOnSet(f, s) = f[x] + a BY <1>2, <1>3, <1>4, <1>6, SumOnPick
<1>9. SumFunctionOnSet(g, s) = c * f[x] + c * a BY <1>2, <1>3, <1>4, <1>5, <1>7, SumOnPick
<1>10. c * (f[x] + a) = c * f[x] + c * a BY <1>5, <1>6
<1> QED BY <1>8, <1>9, <1>10

\* A total of equal terms.
LEMMA SumOnLevel ==
  ASSUME NEW f, NEW S, IsFiniteSet(S), NEW c, c \in Int, \A x \in S : f[x] = c
  PROVE  SumFunctionOnSet(f, S) = c * Cardinality(S)
<1>1. PICK one : one = [x \in S |-> 1] OBVIOUS
<1>2. SumFunctionOnSet(one, S) = Cardinality(S) BY <1>1, SumOnOnes
<1>3. \A x \in S : one[x] \in Int /\ f[x] = c * one[x] BY <1>1
<1>4. SumFunctionOnSet(f, S) = c * SumFunctionOnSet(one, S) BY <1>3, SumOnTimes
<1> QED BY <1>2, <1>4

\* A list f in n runs of one value each: c[m] from place cut[m - 1] + 1 to place cut[m],
\* where g[m] is what run m comes to.
Stretches(f, g, c, cut, n) ==
  /\ n \in Nat /\ cut \in [0..n -> Nat] /\ cut[0] = 0
  /\ \A m \in 1..n : cut[m - 1] <= cut[m] /\ c[m] \in Nat
  /\ \A m \in 1..n : \A k \in (cut[m - 1] + 1)..cut[m] : f[k] = c[m]
  /\ \A m \in 1..n : g[m] = c[m] * (cut[m] - cut[m - 1])

\* It totals the values by the lengths of their runs.
LEMMA SumOnRuns ==
  ASSUME NEW f, NEW g, NEW c, NEW cut, NEW n, Stretches(f, g, c, cut, n)
  PROVE  SumFunctionOnSet(f, 1..cut[n]) = SumFunctionOnSet(g, 1..n)
<1> /\ n \in Nat /\ cut \in [0..n -> Nat] /\ cut[0] = 0
    /\ \A m \in 1..n : cut[m - 1] <= cut[m] /\ c[m] \in Nat
    /\ \A m \in 1..n : \A k \in (cut[m - 1] + 1)..cut[m] : f[k] = c[m]
    /\ \A m \in 1..n : g[m] = c[m] * (cut[m] - cut[m - 1])
  BY DEF Stretches
<1> DEFINE Holds(m) == /\ SumFunctionOnSet(f, 1..cut[m]) = SumFunctionOnSet(g, 1..m)
                       /\ \A k \in 1..cut[m] : f[k] \in Nat
           Bad == {m \in 0..n : ~Holds(m)}
<1>1. SUFFICES ASSUME Bad # {} PROVE FALSE
  <2>1. n \in 0..n OBVIOUS
  <2> HIDE DEF Holds
  <2>2. Holds(n) BY <1>1, <2>1
  <2> QED BY <2>2 DEF Holds
<1>2. PICK m \in Bad : \A k \in Bad : m <= k
  <2>1. Bad \in SUBSET Nat OBVIOUS
  <2> HIDE DEF Bad
  <2> QED BY <1>1, <2>1, LeastNumber
<1>3. m # 0
  <2>1. 1..cut[0] = {} /\ 1..0 = {} OBVIOUS
  <2>2. SumFunctionOnSet(f, {}) = 0 /\ SumFunctionOnSet(g, {}) = 0 BY SumOnEmpty
  <2>3. Holds(0) BY <2>1, <2>2
  <2> QED BY <1>2, <2>3
<1>4. PICK l \in 0..n : l = m - 1 BY <1>2, <1>3
<1>5. m \in 1..n /\ cut[l] \in Nat /\ cut[m] \in Nat /\ cut[l] <= cut[m] /\ c[m] \in Nat
  BY <1>2, <1>3, <1>4
<1>6. Holds(l)
  <2>1. ~(m <= l) /\ (~Holds(l) => l \in Bad) BY <1>4, <1>5
  <2> QED BY <1>2, <2>1
<1>7. PICK A : A = 1..cut[l] OBVIOUS
<1>8. PICK B : B = (cut[l] + 1)..cut[m] OBVIOUS
<1>9. /\ IsFiniteSet(A) /\ IsFiniteSet(B) /\ A \cap B = {} /\ A \cup B = 1..cut[m]
      /\ Cardinality(B) = cut[m] - cut[l]
  <2>1. IsFiniteSet(A) BY <1>5, <1>7, FS_Interval
  <2>2. /\ IsFiniteSet(B)
        /\ Cardinality(B) = IF cut[l] + 1 > cut[m] THEN 0 ELSE cut[m] - (cut[l] + 1) + 1
    <3>1. PICK a \in Int : a = cut[l] + 1 BY <1>5
    <3>2. PICK z \in Int : z = cut[m] BY <1>5
    <3> QED BY <1>8, <3>1, <3>2, FS_Interval
  <2>3. A \cap B = {} /\ A \cup B = 1..cut[m] BY <1>5, <1>7, <1>8
  <2> QED BY <1>5, <2>1, <2>2, <2>3
<1>10. (\A k \in A : f[k] \in Nat) /\ \A k \in B : f[k] = c[m] BY <1>4, <1>5, <1>6, <1>7, <1>8
<1>11. SumFunctionOnSet(f, B) = g[m]
  <2>1. PICK v \in Int : v = c[m] BY <1>5
  <2>2. IsFiniteSet(B) /\ \A k \in B : f[k] = v BY <1>9, <1>10, <2>1
  <2>3. SumFunctionOnSet(f, B) = v * Cardinality(B)
    <3> HIDE DEF Holds, Bad
    <3> QED BY <2>2, SumOnLevel
  <2> QED BY <1>4, <1>5, <1>9, <2>1, <2>3
<1>12. SumFunctionOnSet(f, A \cup B) = SumFunctionOnSet(f, A) + SumFunctionOnSet(f, B)
  <2>1. \A k \in A \cup B : f[k] \in Int BY <1>5, <1>10
  <2> QED BY <1>9, <2>1, SumOnUnion
<1>13. SumFunctionOnSet(g, 1..m) = g[m] + SumFunctionOnSet(g, 1..l)
  <2>1. IsFiniteSet(1..l) /\ m \notin 1..l /\ (1..l) \cup {m} = 1..m
    <3>1. IsFiniteSet(1..l) BY FS_Interval
    <3> QED BY <1>4, <1>5, <3>1
  <2>2. \A j \in (1..l) \cup {m} : g[j] \in Int
    <3> SUFFICES ASSUME NEW j \in 1..m PROVE g[j] \in Int BY <2>1
    <3>1. j \in 1..n /\ j - 1 \in 0..n /\ j \in 0..n BY <1>5
    <3>2. cut[j] \in Int /\ cut[j - 1] \in Int /\ c[j] \in Int BY <3>1
    <3>3. c[j] * (cut[j] - cut[j - 1]) \in Int BY <3>2
    <3> QED BY <3>1, <3>3
  <2>3. SumFunctionOnSet(g, (1..l) \cup {m}) = g[m] + SumFunctionOnSet(g, 1..l)
    BY <2>1, <2>2, SumOnAdd
  <2> QED BY <2>1, <2>3
<1>14. Holds(m)
  <2>1. \A k \in 1..cut[m] : f[k] \in Nat BY <1>5, <1>9, <1>10
  <2>2. SumFunctionOnSet(f, A) = SumFunctionOnSet(g, 1..l) BY <1>6, <1>7
  <2>3. SumFunctionOnSet(f, A) \in Nat BY <1>9, <1>10, SumOnNat
  <2>4. g[m] \in Int
    <3>1. g[m] = c[m] * (cut[m] - cut[l]) BY <1>4, <1>5
    <3> QED BY <1>5, <3>1
  <2>5. SumFunctionOnSet(f, A \cup B) = SumFunctionOnSet(f, A) + g[m] BY <1>11, <1>12
  <2>6. SumFunctionOnSet(g, 1..m) = g[m] + SumFunctionOnSet(f, A) BY <1>13, <2>2
  <2>7. SumFunctionOnSet(f, 1..cut[m]) = SumFunctionOnSet(f, A \cup B) BY <1>9
  <2>8. SumFunctionOnSet(f, 1..cut[m]) = SumFunctionOnSet(g, 1..m)
    <3> HIDE DEF Holds, Bad
    <3> QED BY <2>3, <2>4, <2>5, <2>6, <2>7
  <2> QED BY <2>1, <2>8
<1> QED BY <1>2, <1>14

LEMMA Crosswise ==
  ASSUME NEW p \in Nat, NEW q \in Nat, NEW a \in Nat, NEW b \in Nat,
         (p >= q /\ a >= b) \/ (p <= q /\ a <= b)
  PROVE  p * b + q * a <= p * a + q * b
<1>1. ASSUME NEW x \in Nat, NEW y \in Nat, NEW u \in Nat, NEW v \in Nat, x >= y, u >= v
      PROVE  x * v + y * u <= x * u + y * v
  <2>1. PICK c \in Nat : x = y + c BY <1>1
  <2>2. PICK d \in Nat : u = v + d BY <1>1
  <2>3. x * v = y * v + c * v BY <2>1
  <2>4. y * u = y * v + y * d BY <2>2
  <2>5. x * u = y * u + c * u BY <2>1
  <2>6. c * u = c * v + c * d BY <2>2
  <2>7. y * v \in Nat /\ c * v \in Nat /\ y * d \in Nat /\ c * d \in Nat OBVIOUS
  <2> QED BY <2>3, <2>4, <2>5, <2>6, <2>7
<1>2. CASE p >= q /\ a >= b BY <1>1, <1>2
<1>3. CASE p <= q /\ a <= b
  <2>1. q * a + p * b <= q * b + p * a BY <1>1, <1>3
  <2>2. q * a \in Nat /\ p * b \in Nat /\ q * b \in Nat /\ p * a \in Nat OBVIOUS
  <2> QED BY <2>1, <2>2
<1> QED BY <1>2, <1>3

\* Of two ways a and b to weigh the same values p with one total weight, a gives no
\* less than b to values above q and no more to those below it.
Leans(a, b, p, q, S) ==
  /\ IsFiniteSet(S) /\ q \in Nat
  /\ \A x \in S : p[x] \in Nat /\ a[x] \in Nat /\ b[x] \in Nat
  /\ \A x \in S : (p[x] >= q /\ a[x] >= b[x]) \/ (p[x] <= q /\ a[x] <= b[x])
  /\ SumFunctionOnSet(a, S) = SumFunctionOnSet(b, S)

\* Then the values weigh at least as much with a.
LEMMA SumOnLeaning ==
  ASSUME NEW a, NEW b, NEW p, NEW q, NEW S, Leans(a, b, p, q, S),
         NEW pa, \A x \in S : pa[x] = p[x] * a[x], NEW pb, \A x \in S : pb[x] = p[x] * b[x]
  PROVE  SumFunctionOnSet(pb, S) <= SumFunctionOnSet(pa, S)
<1> /\ IsFiniteSet(S) /\ q \in Nat
    /\ \A x \in S : p[x] \in Nat /\ a[x] \in Nat /\ b[x] \in Nat
    /\ \A x \in S : (p[x] >= q /\ a[x] >= b[x]) \/ (p[x] <= q /\ a[x] <= b[x])
    /\ SumFunctionOnSet(a, S) = SumFunctionOnSet(b, S)
  BY DEF Leans
<1>1. PICK qa : qa = [x \in S |-> q * a[x]] OBVIOUS
<1>2. PICK qb : qb = [x \in S |-> q * b[x]] OBVIOUS
<1>3. PICK lo : lo = [x \in S |-> pb[x] + qa[x]] OBVIOUS
<1>4. PICK hi : hi = [x \in S |-> pa[x] + qb[x]] OBVIOUS
<1>5. \A x \in S : pa[x] \in Nat /\ pb[x] \in Nat /\ qa[x] \in Nat /\ qb[x] \in Nat BY <1>1, <1>2
<1>6. \A x \in S : lo[x] \in Int /\ hi[x] \in Int /\ lo[x] <= hi[x]
  <2> TAKE x \in S
  <2>1. p[x] * b[x] + q * a[x] <= p[x] * a[x] + q * b[x] BY Crosswise
  <2>2. lo[x] = p[x] * b[x] + q * a[x] /\ hi[x] = p[x] * a[x] + q * b[x] BY <1>1, <1>2, <1>3, <1>4
  <2>3. lo[x] \in Int /\ hi[x] \in Int BY <1>3, <1>4, <1>5
  <2> QED BY <2>1, <2>2, <2>3
<1>7. SumFunctionOnSet(lo, S) <= SumFunctionOnSet(hi, S) BY <1>6, SumOnAtMost
<1>8. SumFunctionOnSet(lo, S) = SumFunctionOnSet(pb, S) + SumFunctionOnSet(qa, S)
  <2>1. \A x \in S : pb[x] \in Int /\ qa[x] \in Int /\ lo[x] = pb[x] + qa[x] BY <1>3, <1>5
  <2> QED BY <2>1, SumOnPlus
<1>9. SumFunctionOnSet(hi, S) = SumFunctionOnSet(pa, S) + SumFunctionOnSet(qb, S)
  <2>1. \A x \in S : pa[x] \in Int /\ qb[x] \in Int /\ hi[x] = pa[x] + qb[x] BY <1>4, <1>5
  <2> QED BY <2>1, SumOnPlus
<1>10. SumFunctionOnSet(qa, S) = q * SumFunctionOnSet(a, S)
  <2>1. \A x \in S : a[x] \in Int /\ qa[x] = q * a[x] BY <1>1
  <2> QED BY <2>1, SumOnTimes
<1>11. SumFunctionOnSet(qb, S) = q * SumFunctionOnSet(b, S)
  <2>1. \A x \in S : b[x] \in Int /\ qb[x] = q * b[x] BY <1>2
  <2> QED BY <2>1, SumOnTimes
<1>12. /\ SumFunctionOnSet(pa, S) \in Nat /\ SumFunctionOnSet(pb, S) \in Nat
       /\ SumFunctionOnSet(qa, S) \in Nat
  BY <1>5, SumOnNat
<1> QED BY <1>7, <1>8, <1>9, <1>10, <1>11, <1>12

-----------------------------------------------------------------------------
(* Ranks *)

\* In a finite strict order the ranks, how many come before, are 0, 1, 2 and so on.
LEMMA RanksAre ==
    ASSUME NEW I, IsFiniteSet(I), NEW bf, \A i \in I : bf[i] \in SUBSET I,
           \A i \in I : i \notin bf[i],
           \A i, j \in I : i # j => j \in bf[i] \/ i \in bf[j],
           \A i, j, k \in I : j \in bf[i] /\ k \in bf[j] => k \in bf[i],
           NEW rank, rank = [i \in I |-> Cardinality(bf[i])]
    PROVE  /\ Cardinality(I) \in Nat
           /\ rank \in [I -> 0 .. Cardinality(I) - 1]
           /\ \A m \in 0 .. Cardinality(I) - 1 : \E i \in I : rank[i] = m
           /\ \A i, j \in I : (rank[i] = rank[j] => i = j) /\ (j \in bf[i] => rank[j] < rank[i])
<1> DEFINE k == Cardinality(I)
<1>1. k \in Nat BY FS_CardinalityType
<1>2. \A i \in I : IsFiniteSet(bf[i]) /\ Cardinality(bf[i]) \in Nat BY FS_Subset, FS_CardinalityType
<1>3. ASSUME NEW i \in I PROVE rank[i] \in 0 .. k - 1
  <2>1. bf[i] # I OBVIOUS
  <2>2. Cardinality(bf[i]) <= k /\ Cardinality(bf[i]) # k BY <2>1, FS_Subset
  <2> HIDE DEF k
  <2> QED BY <1>1, <1>2, <2>2
<1>4. ASSUME NEW i \in I, NEW j \in I, j \in bf[i] PROVE rank[j] < rank[i]
  <2>1. bf[j] \in SUBSET bf[i] /\ bf[j] # bf[i] BY <1>4
  <2>2. Cardinality(bf[j]) <= Cardinality(bf[i]) /\ Cardinality(bf[i]) # Cardinality(bf[j])
    BY <1>2, <2>1, FS_Subset
  <2> QED BY <1>2, <2>2
<1>5. ASSUME NEW i \in I, NEW j \in I, rank[i] = rank[j] PROVE i = j
  <2> SUFFICES ASSUME i # j PROVE FALSE OBVIOUS
  <2>1. rank[i] \in Int /\ rank[j] \in Int BY <1>2
  <2>2. CASE j \in bf[i] BY <1>4, <1>5, <2>1, <2>2
  <2>3. CASE i \in bf[j]
    <3>1. rank[i] < rank[j] BY <1>4, <2>3
    <3> QED BY <1>5, <2>1, <3>1
  <2> QED BY <2>2, <2>3
<1>6. rank \in [I -> 0 .. k - 1] BY <1>3
<1>7. rank \in Injection(I, 0 .. k - 1) BY <1>5, <1>6 DEF Injection, IsInjective
<1>8. IsFiniteSet(0 .. k - 1) /\ Cardinality(0 .. k - 1) = k
  <2> HIDE DEF k
  <2>1. PICK top \in Int : top = k - 1 BY <1>1
  <2>2. Cardinality(0 .. top) = IF 0 > top THEN 0 ELSE top - 0 + 1 BY FS_Interval
  <2>3. IsFiniteSet(0 .. top) BY FS_Interval
  <2> QED BY <1>1, <2>1, <2>2, <2>3
<1>9. rank \in Surjection(I, 0 .. k - 1) BY <1>7, <1>8, FS_Injection
<1>10. \A m \in 0 .. k - 1 : \E i \in I : rank[i] = m BY <1>9 DEF Surjection
<1> QED BY <1>1, <1>4, <1>5, <1>6, <1>10

\* So as many have a rank below n as n says.
LEMMA RanksCount ==
    ASSUME NEW I, IsFiniteSet(I), NEW bf, \A i \in I : bf[i] \in SUBSET I,
           \A i \in I : i \notin bf[i],
           \A i, j \in I : i # j => j \in bf[i] \/ i \in bf[j],
           \A i, j, k \in I : j \in bf[i] /\ k \in bf[j] => k \in bf[i],
           NEW n \in Nat, n <= Cardinality(I)
    PROVE  Cardinality({i \in I : Cardinality(bf[i]) < n}) = n
<1> DEFINE low == {i \in I : Cardinality(bf[i]) < n}
<1>1. PICK k : k = Cardinality(I) OBVIOUS
<1>2. \A i \in I : IsFiniteSet(bf[i]) /\ Cardinality(bf[i]) \in Nat BY FS_Subset, FS_CardinalityType
<1>3. PICK rank : rank = [i \in I |-> Cardinality(bf[i])] OBVIOUS
<1>5. /\ k \in Nat /\ rank \in [I -> 0 .. k - 1]
      /\ \A m \in 0 .. k - 1 : \E i \in I : rank[i] = m
      /\ \A i, j \in I : rank[i] = rank[j] => i = j
  BY <1>1, <1>3, RanksAre
<1>10. IsFiniteSet(low) /\ low \in SUBSET I BY FS_Subset
<1>11. \A i \in low : rank[i] \in 0 .. n - 1 BY <1>2, <1>3, <1>5
<1>12. \A m \in 0 .. n - 1 : \E i \in low : rank[i] = m
  <2> SUFFICES ASSUME NEW m \in 0 .. n - 1 PROVE \E i \in low : rank[i] = m
    OBVIOUS
  <2>1. m \in 0 .. k - 1 BY <1>1, <1>5
  <2>2. PICK i \in I : rank[i] = m BY <1>5, <2>1
  <2>3. Cardinality(bf[i]) < n BY <1>3, <2>2
  <2> QED BY <2>2, <2>3
<1> DEFINE lows == [i \in low |-> rank[i]]
<1>13. lows \in Injection(low, 0 .. n - 1)
  <2>1. lows \in [low -> 0 .. n - 1] BY <1>11
  <2>2. \A i, j \in low : lows[i] = lows[j] => i = j BY <1>5
  <2> QED BY <2>1, <2>2 DEF Injection, IsInjective
<1>14. lows \in Surjection(low, 0 .. n - 1)
  <2>1. lows \in [low -> 0 .. n - 1] BY <1>11
  <2>2. \A m \in 0 .. n - 1 : \E i \in low : lows[i] = m BY <1>12
  <2> HIDE DEF lows
  <2> QED BY <2>1, <2>2 DEF Surjection
<1>15. IsFiniteSet(0 .. n - 1) /\ Cardinality(0 .. n - 1) = n
  <2>1. PICK top \in Int : top = n - 1 OBVIOUS
  <2>2. Cardinality(0 .. top) = IF 0 > top THEN 0 ELSE top - 0 + 1 BY FS_Interval
  <2>3. IsFiniteSet(0 .. top) BY FS_Interval
  <2> QED BY <2>1, <2>2, <2>3
<1> HIDE DEF low, lows
<1>16. Cardinality(low) = Cardinality(0 .. n - 1) BY <1>13, <1>14, <1>15, FS_Injection
<1> QED BY <1>15, <1>16 DEF low

=============================================================================
