-------------------------- MODULE RoomChoiceProofs --------------------------
(***************************************************************************)
(* Proofs about RoomChoice for any house, party and features.  Both        *)
(* searches are recursive functions; what they compute is proved by        *)
(* induction on the number of rooms they have passed, from the principle   *)
(* that a set of naturals that is not empty has a smallest element.  Both  *)
(* prune, and the proofs say what a pruned choice is represented by.       *)
(***************************************************************************)
EXTENDS RoomChoice, FiniteSetTheorems, WellFoundedInduction, TLAPS

-----------------------------------------------------------------------------
(***************************************************************************)
(* Naturals                                                                *)
(***************************************************************************)

LEMMA SmallestOfNaturals ==
    ASSUME NEW T \in SUBSET Nat, T # {}
    PROVE  \E n \in T : \A m \in T : n <= m
<1> DEFINE R == OpToRel(<, Nat)
<1>1. IsWellFoundedOn(R, Nat)
  BY NatLessThanWellFounded
<1>2. \A m, n \in Nat : m < n => <<m, n>> \in R
  BY DEF OpToRel
<1> HIDE DEF R
<1>3. PICK n \in T : \A m \in T : ~ (<<m, n>> \in R)
  BY <1>1, WFMin
<1>4. \A m \in T : ~ (m < n)
  BY <1>2, <1>3
<1>5. \A m \in T : n <= m
  BY <1>4
<1> QED BY <1>5

LEMMA NaturalsAreInductive ==
    ASSUME NEW T, 0 \in T, \A n \in Nat : n \in T => n + 1 \in T
    PROVE  Nat \subseteq T
<1> SUFFICES ASSUME Nat \ T # {} PROVE FALSE
  OBVIOUS
<1>1. PICK n \in Nat \ T : \A m \in Nat \ T : n <= m
  BY SmallestOfNaturals
<1>2. n # 0 /\ n - 1 \in Nat
  BY <1>1
<1>3. n - 1 \in T
  BY <1>1, <1>2
<1> QED BY <1>1, <1>2, <1>3

LEMMA LargestOfNaturals ==
    ASSUME NEW n \in Nat, NEW T \in SUBSET (0..n), T # {}
    PROVE  \E k \in T : \A m \in T : m <= k
<1> DEFINE U == {k \in Nat : \A m \in T : m <= k}
<1>1. n \in U
  OBVIOUS
<1>2. PICK k \in U : \A m \in U : k <= m
  BY <1>1, SmallestOfNaturals
<1>3. k \in T
  <2> SUFFICES ASSUME k \notin T PROVE FALSE
    OBVIOUS
  <2>1. \A m \in T : m <= k - 1 /\ m \in Nat
    BY <1>2
  <2>2. k - 1 \in Nat
    <3>1. PICK m \in T : TRUE
      OBVIOUS
    <3>2. m <= k - 1 /\ m \in Nat /\ k \in Nat
      BY <2>1
    <3> QED BY <3>2
  <2>3. k - 1 \in U
    BY <2>1, <2>2
  <2> QED BY <1>2, <2>3
<1> QED BY <1>2, <1>3

\* g starts at s0 and takes n steps.
Iterates(g, S, s0, Step, n) ==
    g \in [0..n -> S] /\ g[0] = s0 /\ \A i \in 1..n : g[i] = Step[i][g[i - 1]]

LEMMA StepsReachEnd ==
    ASSUME NEW S, NEW s0 \in S, NEW Step, Step \in [Nat -> [S -> S]], NEW n \in Nat
    PROVE  \E g : Iterates(g, S, s0, Step, n)
<1> DEFINE T == {k \in Nat : \E g \in [0..k -> S] :
                     g[0] = s0 /\ \A i \in 1..k : g[i] = Step[i][g[i - 1]]}
<1>1. 0 \in T
  <2> DEFINE g == [i \in 0..0 |-> s0]
  <2>1. g \in [0..0 -> S] /\ g[0] = s0 /\ \A i \in 1..0 : g[i] = Step[i][g[i - 1]]
    OBVIOUS
  <2> QED BY <2>1
<1>2. ASSUME NEW k \in Nat, k \in T PROVE k + 1 \in T
  <2>1. PICK g \in [0..k -> S] : g[0] = s0 /\ \A i \in 1..k : g[i] = Step[i][g[i - 1]]
    BY <1>2
  <2> DEFINE h == [i \in 0..(k + 1) |-> IF i = k + 1 THEN Step[k + 1][g[k]] ELSE g[i]]
  <2>2. Step[k + 1] \in [S -> S] /\ g[k] \in S
    OBVIOUS
  <2>3. h \in [0..(k + 1) -> S] /\ h[0] = s0
    BY <2>1, <2>2
  <2>4. ASSUME NEW i \in 1..(k + 1) PROVE h[i] = Step[i][h[i - 1]]
    <3>1. CASE i = k + 1
      <4>1. i - 1 = k /\ h[k] = g[k]
        BY <3>1
      <4> QED BY <3>1, <4>1
    <3>2. CASE i # k + 1
      <4>1. i \in 1..k /\ i - 1 \in 0..k /\ i - 1 # k + 1
        BY <3>2
      <4>2. h[i] = g[i] /\ h[i - 1] = g[i - 1]
        BY <3>2, <4>1
      <4> QED BY <2>1, <4>1, <4>2
    <3> QED BY <3>1, <3>2
  <2> HIDE DEF h
  <2> QED BY <2>3, <2>4
<1> HIDE DEF T
<1>3. n \in T
  BY <1>1, <1>2, NaturalsAreInductive
<1> QED BY <1>3 DEF T, Iterates

-----------------------------------------------------------------------------
(***************************************************************************)
(* Sets of rooms and what they sleep                                       *)
(***************************************************************************)

LEMMA SizeFacts ==
    ASSUME NEW D, IsFiniteSet(D), NEW s \in SUBSET D
    PROVE  /\ IsFiniteSet(s) /\ Cardinality(s) \in Nat
           /\ Cardinality(s) = 0 <=> s = {}
           /\ Cardinality(s) <= Cardinality(D)
           /\ \A r \in D \ s : Cardinality(s \cup {r}) = Cardinality(s) + 1
           /\ \A r \in s : Cardinality(s \ {r}) = Cardinality(s) - 1
           /\ \A t \in SUBSET D : s \subseteq t /\ s # t => Cardinality(s) < Cardinality(t)
<1>1. IsFiniteSet(s) /\ Cardinality(s) <= Cardinality(D)
  BY FS_Subset
<1>2. Cardinality(s) \in Nat /\ (Cardinality(s) = 0 <=> s = {})
  BY <1>1, FS_CardinalityType, FS_EmptySet
<1>3. \A r \in D \ s : Cardinality(s \cup {r}) = Cardinality(s) + 1
  BY <1>1, FS_AddElement
<1>4. \A r \in s : Cardinality(s \ {r}) = Cardinality(s) - 1
  BY <1>1, FS_RemoveElement
<1>5. ASSUME NEW t \in SUBSET D, s \subseteq t, s # t PROVE Cardinality(s) < Cardinality(t)
  <2>1. IsFiniteSet(t)
    BY FS_Subset
  <2>2. Cardinality(t) \in Nat
    BY <2>1, FS_CardinalityType
  <2>3. Cardinality(s) <= Cardinality(t) /\ Cardinality(t) # Cardinality(s)
    BY <1>5, <2>1, FS_Subset
  <2> QED BY <1>2, <2>2, <2>3
<1> QED BY <1>1, <1>2, <1>3, <1>4, <1>5

Pick(s) == CHOOSE x \in s : TRUE

\* iter adds up what a set of rooms sleeps, taking one room after the other off it.
AddsUp(iter, fun, D) ==
    iter = [s \in SUBSET D |-> IF s = {} THEN 0 ELSE fun[Pick(s)] + iter[s \ {Pick(s)}]]

LEMMA SumsAreAddedUp ==
    ASSUME NEW fun, NEW D
    PROVE  SumFunctionOnSet(fun, D) = (CHOOSE iter : AddsUp(iter, fun, D))[D]
BY DEF SumFunctionOnSet, FoldFunctionOnSet, MapThenFoldSet, AddsUp, Pick

LEMMA SumExists ==
    ASSUME NEW D, IsFiniteSet(D), NEW fun \in [D -> Nat]
    PROVE  \E sum \in [SUBSET D -> Nat] : AddsUp(sum, fun, D)
<1> DEFINE H == [SUBSET D -> Nat]
           Longer(h) == [s \in SUBSET D |-> IF s = {} THEN 0 ELSE fun[Pick(s)] + h[s \ {Pick(s)}]]
           Step == [i \in Nat |-> [h \in H |-> Longer(h)]]
           zero == [s \in SUBSET D |-> 0]
           n == Cardinality(D)
<1>1. n \in Nat
  BY SizeFacts
<1>2. \A s \in SUBSET D : s # {} => Pick(s) \in s
  BY DEF Pick
<1>3. ASSUME NEW h \in H PROVE Longer(h) \in H
  BY <1>2
<1>4. Step \in [Nat -> [H -> H]] /\ zero \in H
  BY <1>3
<1> HIDE DEF Step, zero, n, H
<1>5. PICK g : Iterates(g, H, zero, Step, n)
  BY <1>1, <1>4, StepsReachEnd
<1> USE DEF Iterates
<1> DEFINE sum == [s \in SUBSET D |-> g[Cardinality(s)][s]]
<1>6. ASSUME NEW s \in SUBSET D PROVE Cardinality(s) \in 0..n
  BY <1>1, SizeFacts DEF n
<1>7. sum \in [SUBSET D -> Nat]
  BY <1>5, <1>6 DEF H
<1>8. ASSUME NEW s \in SUBSET D, s # {}
      PROVE  sum[s] = fun[Pick(s)] + sum[s \ {Pick(s)}]
  <2> DEFINE k == Cardinality(s)  u == s \ {Pick(s)}
  <2>1. Pick(s) \in s /\ Cardinality(u) = k - 1 /\ k \in 1..n /\ k - 1 \in 0..n
    <3>1. Pick(s) \in s
      BY <1>2, <1>8
    <3>2. Cardinality(u) = k - 1 /\ k # 0
      BY <1>8, <3>1, SizeFacts
    <3> QED BY <1>1, <1>6, <3>1, <3>2
  <2>2. g[k] = Step[k][g[k - 1]] /\ g[k - 1] \in H
    BY <1>5, <2>1
  <2>3. g[k] = Longer(g[k - 1])
    <3>1. k \in Nat
      BY <1>1, <2>1
    <3>2. Step[k] = [h \in H |-> Longer(h)]
      BY <3>1 DEF Step
    <3> HIDE DEF Longer, k
    <3> QED BY <2>2, <3>2
  <2>4. g[k][s] = fun[Pick(s)] + g[k - 1][u]
    BY <1>8, <2>3
  <2> QED BY <2>1, <2>4
<1>9. sum[{}] = 0
  <2>1. Cardinality({}) = 0
    BY FS_EmptySet
  <2> QED BY <1>5, <2>1 DEF zero
<1>10. AddsUp(sum, fun, D)
  <2>1. \A s \in SUBSET D : sum[s] = IF s = {} THEN 0 ELSE fun[Pick(s)] + sum[s \ {Pick(s)}]
    BY <1>8, <1>9
  <2>2. sum = [s \in SUBSET D |-> sum[s]]
    OBVIOUS
  <2> HIDE DEF sum
  <2> QED BY <2>1, <2>2 DEF AddsUp
<1> QED BY <1>7, <1>10

\* The order in which rooms are taken off does not matter.
LEMMA AnyRoomComesOff ==
    ASSUME NEW D, IsFiniteSet(D), NEW fun \in [D -> Nat], NEW sum \in [SUBSET D -> Nat],
           AddsUp(sum, fun, D), NEW s \in SUBSET D, NEW r \in s
    PROVE  sum[s] = fun[r] + sum[s \ {r}]
<1> DEFINE Off(u, x) == sum[u] = fun[x] + sum[u \ {x}]
           T == {Cardinality(u) : u \in {w \in SUBSET D : \E x \in w : ~Off(w, x)}}
<1>1. \A u \in SUBSET D : u # {} => Pick(u) \in u /\ Off(u, Pick(u))
  <2>1. \A u : u # {} => Pick(u) \in u
    BY DEF Pick
  <2> QED BY <2>1 DEF AddsUp
<1> SUFFICES ASSUME ~Off(s, r) PROVE FALSE
  OBVIOUS
<1>2. Cardinality(s) \in T
  OBVIOUS
<1>3. T \subseteq Nat
  BY SizeFacts
<1>4. PICK k \in T : \A m \in T : k <= m
  BY <1>2, <1>3, SmallestOfNaturals
<1>5. PICK u \in SUBSET D : k = Cardinality(u) /\ \E x \in u : ~Off(u, x)
  BY <1>4
<1>6. PICK x \in u : ~Off(u, x)
  BY <1>5
<1> DEFINE y == Pick(u)
<1>7. y \in u /\ sum[u] = fun[y] + sum[u \ {y}] /\ x # y
  BY <1>1, <1>6
<1>8. ASSUME NEW z \in u, NEW w \in u \ {z} PROVE Off(u \ {z}, w)
  <2>1. Cardinality(u \ {z}) < Cardinality(u) /\ Cardinality(u \ {z}) \in Nat
    <3>1. Cardinality(u \ {z}) = Cardinality(u) - 1 /\ Cardinality(u) \in Nat
      BY SizeFacts
    <3>2. Cardinality(u \ {z}) \in Nat
      BY SizeFacts
    <3> QED BY <3>1, <3>2
  <2>2. Cardinality(u \ {z}) \notin T
    <3>1. ~ (k <= Cardinality(u \ {z}))
      BY <1>3, <1>5, <2>1
    <3> HIDE DEF T
    <3> QED BY <1>4, <3>1
  <2> QED BY <2>2
<1>9. sum[u \ {y}] = fun[x] + sum[(u \ {y}) \ {x}] /\ sum[u \ {x}] = fun[y] + sum[(u \ {x}) \ {y}]
  BY <1>7, <1>8
<1>10. (u \ {y}) \ {x} = (u \ {x}) \ {y}
  OBVIOUS
<1>11. /\ sum[u] \in Nat /\ fun[x] \in Nat /\ fun[y] \in Nat
       /\ sum[(u \ {x}) \ {y}] \in Nat
  BY <1>7
<1>12. sum[u] = fun[x] + sum[u \ {x}]
  <2> DEFINE a == sum[u]  b == sum[u \ {y}]  c == sum[u \ {x}]  d == sum[(u \ {x}) \ {y}]
             e == fun[x]  f == fun[y]
  <2>1. a = f + b /\ b = e + d /\ c = f + d /\ e \in Nat /\ f \in Nat /\ d \in Nat
    BY <1>7, <1>9, <1>10, <1>11
  <2> HIDE DEF a, b, c, d, e, f
  <2>2. a = e + c
    BY <2>1
  <2> QED BY <2>2 DEF a, c, e
<1> QED BY <1>6, <1>12

\* The sum over a smaller set of rooms is the same function's.
LEMMA SumsAgree ==
    ASSUME NEW D, IsFiniteSet(D), NEW fun \in [D -> Nat], NEW sum \in [SUBSET D -> Nat],
           AddsUp(sum, fun, D), NEW S \in SUBSET D
    PROVE  SumFunctionOnSet(fun, S) = sum[S]
<1> DEFINE part == [s \in SUBSET S |-> sum[s]]
           iter == CHOOSE iter : AddsUp(iter, fun, S)
<1>1. \A s : s # {} => Pick(s) \in s
  BY DEF Pick
<1>2. \A s \in SUBSET D : sum[s] = IF s = {} THEN 0 ELSE fun[Pick(s)] + sum[s \ {Pick(s)}]
  BY DEF AddsUp
<1>3. AddsUp(part, fun, S)
  <2>1. \A s \in SUBSET S : part[s] = IF s = {} THEN 0 ELSE fun[Pick(s)] + part[s \ {Pick(s)}]
    BY <1>1, <1>2
  <2>2. part = [s \in SUBSET S |-> part[s]]
    OBVIOUS
  <2> HIDE DEF part
  <2> QED BY <2>1, <2>2 DEF AddsUp
<1>4. AddsUp(iter, fun, S)
  BY <1>3
<1> HIDE DEF iter, part
<1>5. \A s \in SUBSET S : iter[s] = IF s = {} THEN 0 ELSE fun[Pick(s)] + iter[s \ {Pick(s)}]
  BY <1>4 DEF AddsUp
<1> DEFINE T == {Cardinality(u) : u \in {w \in SUBSET S : iter[w] # sum[w]}}
<1>6. ASSUME iter[S] # sum[S] PROVE FALSE
  <2>1. Cardinality(S) \in T
    BY <1>6
  <2>2. T \subseteq Nat
    BY SizeFacts
  <2>3. PICK k \in T : \A m \in T : k <= m
    BY <2>1, <2>2, SmallestOfNaturals
  <2>4. PICK u \in SUBSET S : k = Cardinality(u) /\ iter[u] # sum[u]
    BY <2>3
  <2>5. u # {} /\ Pick(u) \in u
    BY <1>1, <1>2, <1>5, <2>4
  <2> DEFINE w == u \ {Pick(u)}
  <2>6. Cardinality(w) = Cardinality(u) - 1 /\ Cardinality(u) \in Nat /\ Cardinality(w) \in Nat
    <3>1. u \in SUBSET D /\ w \in SUBSET D
      OBVIOUS
    <3>2. Cardinality(w) \in Nat
      BY <3>1, SizeFacts
    <3> QED BY <2>5, <3>1, <3>2, SizeFacts
  <2>7. Cardinality(w) \notin T
    <3>1. ~ (k <= Cardinality(w))
      BY <2>2, <2>4, <2>6
    <3> HIDE DEF T
    <3> QED BY <2>3, <3>1
  <2>8. iter[w] = sum[w]
    BY <2>7
  <2> QED BY <1>2, <1>5, <2>4, <2>5, <2>8
<1> QED BY <1>6, SumsAreAddedUp DEF iter

LEMMA SumFacts ==
    ASSUME NEW D, IsFiniteSet(D), NEW fun \in [D -> Nat], NEW s \in SUBSET D
    PROVE  /\ SumFunctionOnSet(fun, s) \in Nat
           /\ SumFunctionOnSet(fun, {}) = 0
           /\ \A r \in D \ s : SumFunctionOnSet(fun, s \cup {r}) = SumFunctionOnSet(fun, s) + fun[r]
<1>1. PICK sum \in [SUBSET D -> Nat] : AddsUp(sum, fun, D)
  BY SumExists
<1>2. \A u \in SUBSET D : SumFunctionOnSet(fun, u) = sum[u]
  BY <1>1, SumsAgree
<1>3. sum[{}] = 0
  BY <1>1 DEF AddsUp
<1>4. ASSUME NEW r \in D \ s PROVE sum[s \cup {r}] = sum[s] + fun[r]
  <2>1. s \cup {r} \in SUBSET D /\ r \in s \cup {r} /\ (s \cup {r}) \ {r} = s
    OBVIOUS
  <2>2. sum[s \cup {r}] = fun[r] + sum[s]
    BY <1>1, <2>1, AnyRoomComesOff
  <2> QED BY <2>2
<1> QED BY <1>2, <1>3, <1>4

\* More rooms sleep no fewer.
LEMMA SumGrows ==
    ASSUME NEW D, IsFiniteSet(D), NEW fun \in [D -> Nat], NEW s \in SUBSET D,
           NEW t \in SUBSET D, s \subseteq t
    PROVE  SumFunctionOnSet(fun, s) <= SumFunctionOnSet(fun, t)
<1> DEFINE Less(u) == ~ (SumFunctionOnSet(fun, s) <= SumFunctionOnSet(fun, u))
           T == {Cardinality(u) : u \in {w \in SUBSET D : s \subseteq w /\ Less(w)}}
<1> SUFFICES ASSUME Less(t) PROVE FALSE
  OBVIOUS
<1>1. Cardinality(t) \in T /\ T \subseteq Nat
  BY SizeFacts
<1>2. PICK k \in T : \A m \in T : k <= m
  BY <1>1, SmallestOfNaturals
<1>3. PICK u \in SUBSET D : k = Cardinality(u) /\ s \subseteq u /\ Less(u)
  BY <1>2
<1>4. SumFunctionOnSet(fun, s) \in Nat
  BY SumFacts
<1>5. u # s
  BY <1>3, <1>4
<1>6. PICK r \in u : r \notin s
  BY <1>3, <1>5
<1> DEFINE w == u \ {r}
<1>7. w \in SUBSET D /\ s \subseteq w /\ r \in D \ w /\ u = w \cup {r}
  BY <1>3, <1>6
<1>8. Cardinality(w) \in Nat /\ Cardinality(u) = Cardinality(w) + 1
  BY <1>7, SizeFacts
<1> HIDE DEF w
<1>9. ~Less(w)
  BY <1>1, <1>2, <1>3, <1>7, <1>8
<1>10. /\ SumFunctionOnSet(fun, w) \in Nat /\ fun[r] \in Nat
       /\ SumFunctionOnSet(fun, u) = SumFunctionOnSet(fun, w) + fun[r]
  BY <1>7, SumFacts
<1> QED BY <1>3, <1>4, <1>9, <1>10

-----------------------------------------------------------------------------
(***************************************************************************)
(* The orders among choices                                                *)
(***************************************************************************)

\* R puts the elements of S in a strict total order.
TotalOrder(R, S) ==
    /\ \A a \in S : <<a, a>> \notin R
    /\ \A a, b \in S : a # b => <<a, b>> \in R \/ <<b, a>> \in R
    /\ \A a, b, c \in S : <<a, b>> \in R /\ <<b, c>> \in R => <<a, c>> \in R

\* The one that comes before most others comes before all.
LEMMA OneIsFirst ==
    ASSUME NEW S, IsFiniteSet(S), S # {}, NEW R, TotalOrder(R, S)
    PROVE  \E a \in S : \A b \in S \ {a} : <<a, b>> \in R
<1> DEFINE after(a) == {b \in S : <<a, b>> \in R}
           T == {Cardinality(after(a)) : a \in S}
           n == Cardinality(S)
<1>1. n \in Nat
  BY FS_CardinalityType
<1>2. \A a \in S : IsFiniteSet(after(a)) /\ Cardinality(after(a)) \in 0..n
  <2>1. ASSUME NEW a \in S PROVE IsFiniteSet(after(a)) /\ Cardinality(after(a)) \in 0..n
    <3>1. after(a) \in SUBSET S
      OBVIOUS
    <3> HIDE DEF after
    <3>2. IsFiniteSet(after(a)) /\ Cardinality(after(a)) <= n
      BY <3>1, FS_Subset
    <3>3. Cardinality(after(a)) \in Nat
      BY <3>2, FS_CardinalityType
    <3> QED BY <1>1, <3>2, <3>3
  <2> QED BY <2>1
<1>3. T \in SUBSET (0..n) /\ T # {}
  <2> HIDE DEF after
  <2> QED BY <1>2
<1>4. PICK k \in T : \A m \in T : m <= k
  <2> HIDE DEF T, n
  <2> QED BY <1>1, <1>3, LargestOfNaturals
<1>5. PICK a \in S : k = Cardinality(after(a))
  <2> HIDE DEF after
  <2> QED BY <1>4
<1>6. ASSUME NEW b \in S \ {a}, <<a, b>> \notin R PROVE FALSE
  <2>1. <<b, a>> \in R
    BY <1>6 DEF TotalOrder
  <2>2. a \in after(b) /\ a \notin after(a) /\ after(a) \subseteq after(b)
    BY <2>1 DEF TotalOrder
  <2>3. IsFiniteSet(after(a)) /\ IsFiniteSet(after(b)) /\ Cardinality(after(b)) \in T
    <3>1. Cardinality(after(b)) \in T
      OBVIOUS
    <3> HIDE DEF after, T, n
    <3> QED BY <1>2, <3>1
  <2> HIDE DEF after
  <2>4. Cardinality(after(b)) <= Cardinality(after(a))
    <3> HIDE DEF T
    <3> QED BY <1>4, <1>5, <2>3
  <2>5. /\ Cardinality(after(a)) <= Cardinality(after(b))
        /\ Cardinality(after(b)) = Cardinality(after(a)) => after(b) = after(a)
    BY <2>2, <2>3, FS_Subset
  <2>6. Cardinality(after(b)) = Cardinality(after(a))
    BY <1>2, <2>4, <2>5
  <2> QED BY <2>2, <2>5, <2>6
<1> QED BY <1>6

LEMMA FirstDifference ==
    ASSUME NEW a \in SUBSET Nat, NEW b \in SUBSET Nat
    PROVE  ComesFirst(a, b) <=> \E k \in a \ b : \A j \in Nat : j < k => (j \in a <=> j \in b)
<1> DEFINE D == (a \ b) \cup (b \ a)
<1>1. ASSUME a # b PROVE Min(D) \in D /\ \A j \in D : Min(D) <= j
  <2>1. \E k \in D : \A j \in D : k <= j
    BY <1>1, SmallestOfNaturals
  <2> HIDE DEF D
  <2> QED BY <2>1 DEF Min
<1>2. ASSUME ComesFirst(a, b)
      PROVE  \E k \in a \ b : \A j \in Nat : j < k => (j \in a <=> j \in b)
  <2> DEFINE k == Min(D)
  <2>1. a # b /\ k \in a
    BY <1>2 DEF ComesFirst
  <2>2. k \in D /\ \A j \in D : k <= j
    BY <1>1, <2>1
  <2> HIDE DEF k
  <2>3. k \in a \ b /\ \A j \in Nat : j < k => j \notin D
    BY <2>1, <2>2
  <2> QED BY <2>3
<1>3. ASSUME NEW k \in a \ b, \A j \in Nat : j < k => (j \in a <=> j \in b)
      PROVE  ComesFirst(a, b)
  <2>1. a # b /\ k \in D /\ \A j \in D : k <= j
    BY <1>3
  <2>2. Min(D) \in Nat /\ Min(D) <= k /\ k <= Min(D)
    <3>1. D \subseteq Nat
      OBVIOUS
    <3> HIDE DEF D
    <3> QED BY <1>1, <2>1, <3>1
  <2>3. Min(D) = k
    <3> HIDE DEF D
    <3> QED BY <2>2
  <2> QED BY <2>1, <2>3 DEF ComesFirst
<1> QED BY <1>2, <1>3

LEMMA ComesFirstFacts ==
    ASSUME NEW a \in SUBSET Nat, NEW b \in SUBSET Nat
    PROVE  /\ ~ComesFirst(a, a)
           /\ a # b => ComesFirst(a, b) \/ ComesFirst(b, a)
           /\ \A c \in SUBSET Nat : ComesFirst(a, b) /\ ComesFirst(b, c) => ComesFirst(a, c)
           /\ \A r \in Nat \ (a \cup b) : ComesFirst(a, b) => ComesFirst(a \cup {r}, b \cup {r})
<1>1. ~ComesFirst(a, a)
  BY DEF ComesFirst
<1>2. ASSUME a # b PROVE ComesFirst(a, b) \/ ComesFirst(b, a)
  <2>1. PICK k \in (a \ b) \cup (b \ a) : \A j \in (a \ b) \cup (b \ a) : k <= j
    BY <1>2, SmallestOfNaturals
  <2>2. \A j \in Nat : j < k => (j \in a <=> j \in b)
    BY <2>1
  <2> QED BY <2>1, <2>2, FirstDifference
<1>3. ASSUME NEW c \in SUBSET Nat, ComesFirst(a, b), ComesFirst(b, c) PROVE ComesFirst(a, c)
  <2>1. PICK k \in a \ b : \A j \in Nat : j < k => (j \in a <=> j \in b)
    BY <1>3, FirstDifference
  <2>2. PICK m \in b \ c : \A j \in Nat : j < m => (j \in b <=> j \in c)
    BY <1>3, FirstDifference
  <2>3. k \in Nat /\ m \in Nat /\ k # m
    BY <2>1, <2>2
  <2>4. CASE k < m
    <3>1. k \in a \ c
      BY <2>1, <2>2, <2>3, <2>4
    <3>2. \A j \in Nat : j < k => (j \in a <=> j \in c)
      BY <2>1, <2>2, <2>3, <2>4
    <3> QED BY <3>1, <3>2, FirstDifference
  <2>5. CASE m < k
    <3>1. m \in a \ c
      BY <2>1, <2>2, <2>3, <2>5
    <3>2. \A j \in Nat : j < m => (j \in a <=> j \in c)
      BY <2>1, <2>2, <2>3, <2>5
    <3> QED BY <3>1, <3>2, FirstDifference
  <2> QED BY <2>3, <2>4, <2>5
<1>4. ASSUME NEW r \in Nat \ (a \cup b), ComesFirst(a, b)
      PROVE  ComesFirst(a \cup {r}, b \cup {r})
  <2>1. ((a \cup {r}) \ (b \cup {r})) \cup ((b \cup {r}) \ (a \cup {r})) = (a \ b) \cup (b \ a)
    BY <1>4
  <2>2. a \cup {r} # b \cup {r}
    BY <1>4 DEF ComesFirst
  <2> QED BY <1>4, <2>1, <2>2 DEF ComesFirst
<1> QED BY <1>1, <1>2, <1>3, <1>4

-----------------------------------------------------------------------------
(***************************************************************************)
(* The choices of a stay                                                   *)
(***************************************************************************)

OpenStay == house \in Houses /\ people \in 1..MaxParty

PlacesOf(places) == places \in [DOMAIN house -> Nat]

LEMMA HouseFacts ==
    ASSUME OpenStay
    PROVE  /\ Len(house) \in Nat /\ DOMAIN house = 1..Len(house) /\ IsFiniteSet(DOMAIN house)
           /\ people \in Nat /\ people # 0
           /\ PlacesOf(StandardPlaces) /\ PlacesOf(MaximumPlaces)
           /\ \A r \in DOMAIN house : /\ house[r].features \subseteq Feature
                                      /\ house[r].standard <= house[r].maximum
<1>1. PICK n \in 0..MaxRooms : house \in [1..n -> RoomFacts]
  BY DEF OpenStay, Houses
<1>2. n \in Nat /\ DOMAIN house = 1..n
  BY <1>1, RoomChoiceAssumption
<1>3. house \in Seq(RoomFacts) /\ Len(house) = n
  BY <1>1, <1>2
<1>4. IsFiniteSet(1..n)
  BY <1>2, FS_Interval
<1>5. people \in Nat /\ people # 0
  BY RoomChoiceAssumption DEF OpenStay
<1>6. ASSUME NEW r \in DOMAIN house
      PROVE  /\ house[r].features \subseteq Feature
             /\ house[r].standard \in Nat /\ house[r].maximum \in Nat
             /\ house[r].standard <= house[r].maximum
  <2>1. house[r] \in RoomFacts
    BY <1>1, <1>6
  <2> QED BY <2>1, RoomChoiceAssumption DEF RoomFacts
<1>7. PlacesOf(StandardPlaces) /\ PlacesOf(MaximumPlaces)
  BY <1>6 DEF PlacesOf, StandardPlaces, MaximumPlaces
<1> QED BY <1>2, <1>3, <1>4, <1>5, <1>6, <1>7

LEMMA ChoiceFacts ==
    ASSUME OpenStay, NEW places, PlacesOf(places), NEW s \in SUBSET DOMAIN house
    PROVE  /\ s \subseteq Nat /\ IsFiniteSet(s)
           /\ Cardinality(s) \in Nat
           /\ Cardinality(s) = 0 <=> s = {}
           /\ Cardinality(Features(s)) \in Nat
           /\ Sleeping(places, s) \in Nat /\ Sleeping(places, {}) = 0
           /\ \A r \in DOMAIN house \ s :
                 /\ Cardinality(s \cup {r}) = Cardinality(s) + 1
                 /\ Sleeping(places, s \cup {r}) = Sleeping(places, s) + places[r]
                 /\ places[r] \in Nat
           /\ \A t \in SUBSET DOMAIN house : s \subseteq t =>
                 /\ Sleeping(places, s) <= Sleeping(places, t)
                 /\ s # t => Cardinality(s) < Cardinality(t)
<1>1. s \subseteq Nat /\ IsFiniteSet(DOMAIN house)
  BY HouseFacts
<1>2. Features(s) \subseteq Feature
  BY HouseFacts DEF Features
<1>3. Cardinality(Features(s)) \in Nat
  <2>1. IsFiniteSet(Features(s))
    BY <1>2, RoomChoiceAssumption, FS_Subset
  <2> QED BY <2>1, FS_CardinalityType
<1>4. /\ IsFiniteSet(s) /\ Cardinality(s) \in Nat
      /\ Cardinality(s) = 0 <=> s = {}
      /\ \A r \in DOMAIN house \ s : Cardinality(s \cup {r}) = Cardinality(s) + 1
      /\ \A t \in SUBSET DOMAIN house : s \subseteq t /\ s # t => Cardinality(s) < Cardinality(t)
  BY <1>1, SizeFacts
<1>5. /\ Sleeping(places, s) \in Nat /\ Sleeping(places, {}) = 0
      /\ \A r \in DOMAIN house \ s :
            Sleeping(places, s \cup {r}) = Sleeping(places, s) + places[r]
  BY <1>1, SumFacts DEF Sleeping, PlacesOf
<1>6. \A t \in SUBSET DOMAIN house : s \subseteq t => Sleeping(places, s) <= Sleeping(places, t)
  BY <1>1, SumGrows DEF Sleeping, PlacesOf
<1> QED BY <1>1, <1>3, <1>4, <1>5, <1>6 DEF PlacesOf

LEMMA BetterFacts ==
    ASSUME OpenStay, NEW places, PlacesOf(places),
           NEW a \in SUBSET DOMAIN house, NEW b \in SUBSET DOMAIN house
    PROVE  /\ ~Better(places, a, a)
           /\ a # b => Better(places, a, b) \/ Better(places, b, a)
           /\ \A c \in SUBSET DOMAIN house :
                 Better(places, a, b) /\ Better(places, b, c) => Better(places, a, c)
           /\ Cardinality(a) < Cardinality(b) => Better(places, a, b)
           /\ Better(places, a, b) => Cardinality(a) <= Cardinality(b)
<1>1. \A s \in SUBSET DOMAIN house :
          /\ s \in SUBSET Nat /\ Cardinality(s) \in Nat
          /\ Cardinality(Features(s)) \in Nat /\ Sleeping(places, s) \in Nat
  BY ChoiceFacts
<1>2. ~Better(places, a, a)
  BY <1>1, ComesFirstFacts DEF Better
<1>3. a # b => Better(places, a, b) \/ Better(places, b, a)
  <2>1. a # b => ComesFirst(a, b) \/ ComesFirst(b, a)
    BY <1>1, ComesFirstFacts
  <2> QED BY <1>1, <2>1 DEF Better
<1>4. ASSUME NEW c \in SUBSET DOMAIN house, Better(places, a, b), Better(places, b, c)
      PROVE  Better(places, a, c)
  <2>1. ComesFirst(a, b) /\ ComesFirst(b, c) => ComesFirst(a, c)
    BY <1>1, ComesFirstFacts
  <2> QED BY <1>1, <1>4, <2>1 DEF Better
<1> QED BY <1>1, <1>2, <1>3, <1>4 DEF Better

LEMMA CheaperFacts ==
    ASSUME OpenStay, NEW places, PlacesOf(places),
           NEW a \in SUBSET DOMAIN house, NEW b \in SUBSET DOMAIN house
    PROVE  /\ a # b => Cheaper(places, a, b) \/ Cheaper(places, b, a)
           /\ \A c \in SUBSET DOMAIN house :
                 Cheaper(places, a, b) /\ Cheaper(places, b, c) => Cheaper(places, a, c)
           /\ Cardinality(a) < Cardinality(b) => Cheaper(places, a, b)
<1>1. \A s \in SUBSET DOMAIN house :
          s \in SUBSET Nat /\ Cardinality(s) \in Nat /\ Sleeping(places, s) \in Nat
  BY ChoiceFacts
<1>2. a # b => Cheaper(places, a, b) \/ Cheaper(places, b, a)
  <2>1. a # b => ComesFirst(a, b) \/ ComesFirst(b, a)
    BY <1>1, ComesFirstFacts
  <2> QED BY <1>1, <2>1 DEF Cheaper
<1>3. ASSUME NEW c \in SUBSET DOMAIN house, Cheaper(places, a, b), Cheaper(places, b, c)
      PROVE  Cheaper(places, a, c)
  <2>1. ComesFirst(a, b) /\ ComesFirst(b, c) => ComesFirst(a, c)
    BY <1>1, ComesFirstFacts
  <2> QED BY <1>1, <1>3, <2>1 DEF Cheaper
<1> QED BY <1>1, <1>2, <1>3 DEF Cheaper

\* Choices that can be completed the same way stay so, and in their order, with one more room.
LEMMA KeyFacts ==
    ASSUME OpenStay, NEW places, PlacesOf(places),
           NEW a \in SUBSET DOMAIN house, NEW b \in SUBSET DOMAIN house, SameKey(places, a, b),
           NEW r \in DOMAIN house \ (a \cup b)
    PROVE  /\ SameKey(places, a \cup {r}, b \cup {r})
           /\ Better(places, a, b) => Better(places, a \cup {r}, b \cup {r})
<1>1. /\ Sleeping(places, a) = Sleeping(places, b) /\ Features(a) = Features(b)
      /\ Cardinality(a) \in Nat /\ Cardinality(b) \in Nat
      /\ Cardinality(Features(a)) \in Nat /\ Sleeping(places, a) \in Nat
  BY ChoiceFacts DEF SameKey
<1>2. /\ Sleeping(places, a \cup {r}) = Sleeping(places, a) + places[r]
      /\ Sleeping(places, b \cup {r}) = Sleeping(places, b) + places[r]
      /\ Cardinality(a \cup {r}) = Cardinality(a) + 1
      /\ Cardinality(b \cup {r}) = Cardinality(b) + 1
      /\ places[r] \in Nat
  <2>1. \A s \in {a, b} : /\ Sleeping(places, s \cup {r}) = Sleeping(places, s) + places[r]
                          /\ Cardinality(s \cup {r}) = Cardinality(s) + 1
                          /\ places[r] \in Nat
    <3>1. ASSUME NEW s \in SUBSET DOMAIN house, r \in DOMAIN house \ s
          PROVE  /\ Sleeping(places, s \cup {r}) = Sleeping(places, s) + places[r]
                 /\ Cardinality(s \cup {r}) = Cardinality(s) + 1
                 /\ places[r] \in Nat
      BY <3>1, ChoiceFacts
    <3> QED BY <3>1
  <2> QED BY <2>1
<1>3. Features(a \cup {r}) = Features(b \cup {r})
  <2>1. \A s : Features(s \cup {r}) = Features(s) \cup house[r].features
    BY DEF Features
  <2> QED BY <1>1, <2>1
<1>4. ComesFirst(a, b) => ComesFirst(a \cup {r}, b \cup {r})
  <2>1. a \in SUBSET Nat /\ b \in SUBSET Nat /\ r \in Nat \ (a \cup b)
    BY HouseFacts
  <2> QED BY <2>1, ComesFirstFacts
<1>5. SameKey(places, a \cup {r}, b \cup {r})
  BY <1>1, <1>2, <1>3 DEF SameKey
<1>6. ASSUME Better(places, a, b) PROVE Better(places, a \cup {r}, b \cup {r})
  <2>1. \/ Cardinality(a) < Cardinality(b)
        \/ Cardinality(a) = Cardinality(b) /\ ComesFirst(a, b)
    BY <1>1, <1>6 DEF Better
  <2>2. CASE Cardinality(a) < Cardinality(b)
    BY <1>1, <1>2, <2>2 DEF Better
  <2>3. CASE Cardinality(a) = Cardinality(b) /\ ComesFirst(a, b)
    BY <1>1, <1>2, <1>3, <1>4, <2>3 DEF Better
  <2> QED BY <2>1, <2>2, <2>3
<1> QED BY <1>5, <1>6

-----------------------------------------------------------------------------
(***************************************************************************)
(* The recommendation.  After r rooms the best choice of these is known,   *)
(* and every other choice of them that could still lead to a better one is *)
(* represented by a partial choice that leads to one at least as good.     *)
(***************************************************************************)

AtLeast(places, a, b) == a = b \/ Better(places, a, b)

FullChoice(places, s) == Sleeping(places, s) >= people

\* Nothing that contains s beats the best.
Beaten(found, s) == found.best # {} /\ Cardinality(s) >= Cardinality(found.best)

Stage(places, r, found) ==
    /\ found.best \subseteq 1..r
    /\ found.best # {} => FullChoice(places, found.best)
    /\ \A s \in SUBSET (1..r) : FullChoice(places, s) =>
           found.best # {} /\ AtLeast(places, found.best, s)
    /\ \A t \in found.partial : t \subseteq 1..r /\ ~FullChoice(places, t)
    /\ \A s \in SUBSET (1..r) : ~FullChoice(places, s) =>
           \/ Beaten(found, s)
           \/ \E t \in found.partial : SameKey(places, t, s) /\ AtLeast(places, t, s)

LEMMA BestFacts ==
    ASSUME OpenStay, NEW places, PlacesOf(places), NEW S \in SUBSET SUBSET DOMAIN house, S # {}
    PROVE  TheBest(places, S) \in S /\ \A s \in S : AtLeast(places, TheBest(places, S), s)
<1> DEFINE R == {p \in S \X S : Better(places, p[1], p[2])}
<1>1. \A a, b \in S : <<a, b>> \in R <=> Better(places, a, b)
  OBVIOUS
<1>2. IsFiniteSet(S)
  <2>1. IsFiniteSet(SUBSET DOMAIN house)
    BY HouseFacts, FS_SUBSET
  <2> QED BY <2>1, FS_Subset
<1> HIDE DEF R
<1>3. TotalOrder(R, S)
  <2>1. \A a \in S : ~Better(places, a, a)
    BY BetterFacts
  <2>2. \A a, b \in S : a # b => Better(places, a, b) \/ Better(places, b, a)
    BY BetterFacts
  <2>3. \A a, b, c \in S : Better(places, a, b) /\ Better(places, b, c) => Better(places, a, c)
    BY BetterFacts
  <2> QED BY <1>1, <2>1, <2>2, <2>3 DEF TotalOrder
<1>4. \E a \in S : \A b \in S \ {a} : Better(places, a, b)
  <2>1. \E a \in S : \A b \in S \ {a} : <<a, b>> \in R
    BY <1>2, <1>3, OneIsFirst
  <2> QED BY <1>1, <2>1
<1>5. /\ TheBest(places, S) \in S
      /\ \A b \in S \ {TheBest(places, S)} : Better(places, TheBest(places, S), b)
  BY <1>4 DEF TheBest
<1> QED BY <1>5 DEF AtLeast

LEMMA AtLeastFacts ==
    ASSUME OpenStay, NEW places, PlacesOf(places),
           NEW a \in SUBSET DOMAIN house, NEW b \in SUBSET DOMAIN house,
           NEW c \in SUBSET DOMAIN house, AtLeast(places, a, b)
    PROVE  /\ AtLeast(places, b, c) => AtLeast(places, a, c)
           /\ Cardinality(a) <= Cardinality(b)
           /\ Cardinality(b) < Cardinality(c) => AtLeast(places, a, c)
<1>1. /\ Cardinality(a) \in Nat /\ Cardinality(b) \in Nat /\ Cardinality(c) \in Nat
  BY ChoiceFacts
<1>2. AtLeast(places, b, c) => AtLeast(places, a, c)
  BY BetterFacts DEF AtLeast
<1>3. Cardinality(a) <= Cardinality(b)
  BY <1>1, BetterFacts DEF AtLeast
<1>4. Cardinality(b) < Cardinality(c) => AtLeast(places, b, c)
  BY BetterFacts DEF AtLeast
<1> QED BY <1>2, <1>3, <1>4

\* A room that is added to both leaves the better one at least as good.
LEMMA AtLeastWithRoom ==
    ASSUME OpenStay, NEW places, PlacesOf(places),
           NEW a \in SUBSET DOMAIN house, NEW b \in SUBSET DOMAIN house,
           NEW r \in DOMAIN house \ (a \cup b), SameKey(places, a, b), AtLeast(places, a, b)
    PROVE  /\ SameKey(places, a \cup {r}, b \cup {r})
           /\ AtLeast(places, a \cup {r}, b \cup {r})
BY KeyFacts DEF AtLeast, SameKey

LEMMA ExtendStage ==
    ASSUME OpenStay, NEW places, PlacesOf(places), NEW r \in Nat, r + 1 \in DOMAIN house,
           NEW found, Stage(places, r, found)
    PROVE  Stage(places, r + 1, Extend(places, found, r + 1))
<1> DEFINE q == r + 1
           made == {s \cup {q} : s \in found.partial}
           full == {s \in made : Sleeping(places, s) >= people}
           contest == full \cup ({found.best} \ {{}})
           best == TheBest(places, contest)
           alive == found.partial \cup
                    {s \in made \ full : best = {} \/ Cardinality(s) < Cardinality(best)}
           partial == {s \in alive : \A t \in alive \ {s} :
                          SameKey(places, s, t) => Better(places, s, t)}
           next == Extend(places, found, q)
<1>1. next.best = best /\ next.partial = partial
  BY DEF Extend
<1>2. /\ 1..q = (1..r) \cup {q} /\ q \notin 1..r /\ 1..q \subseteq DOMAIN house
      /\ people \in Nat /\ people # 0 /\ q \in Nat
  BY HouseFacts
<1>3. ASSUME NEW t \in found.partial
      PROVE  /\ t \subseteq 1..r /\ t \subseteq DOMAIN house /\ q \in DOMAIN house \ t
             /\ ~FullChoice(places, t)
  BY <1>2 DEF Stage
<1>4. contest \in SUBSET SUBSET (1..q) /\ {} \notin contest
      /\ \A s \in contest : FullChoice(places, s)
  <2>1. \A s \in made : s \subseteq 1..q /\ s # {}
    BY <1>2, <1>3
  <2>2. found.best \subseteq 1..q /\ (found.best # {} => FullChoice(places, found.best))
    BY <1>2 DEF Stage
  <2>3. \A s \in full : s \in made /\ FullChoice(places, s)
    BY DEF FullChoice
  <2> HIDE DEF made, full
  <2> QED BY <2>1, <2>2, <2>3
<1>5. \A s \in SUBSET (1..q) : s \in SUBSET DOMAIN house /\ Cardinality(s) \in Nat
  BY <1>2, ChoiceFacts
<1> HIDE DEF contest
<1>6. /\ contest = {} => best = {}
      /\ contest # {} => /\ best \in contest /\ best # {}
                         /\ \A s \in contest : AtLeast(places, best, s)
  <2>1. contest = {} => best = {}
    BY DEF TheBest
  <2>2. contest \in SUBSET SUBSET DOMAIN house
    BY <1>4, <1>5
  <2> QED BY <1>4, <2>1, <2>2, BestFacts
<1> HIDE DEF best
<1>7. best \subseteq 1..q /\ (best # {} => FullChoice(places, best))
  BY <1>4, <1>6
<1>8. found.best # {} => best # {} /\ AtLeast(places, best, found.best)
  <2>1. found.best # {} => found.best \in contest
    BY DEF contest
  <2> QED BY <1>6, <2>1
<1>9. ASSUME NEW t \in found.partial, FullChoice(places, t \cup {q})
      PROVE  best # {} /\ AtLeast(places, best, t \cup {q})
  <2>1. t \cup {q} \in contest
    BY <1>9 DEF contest, FullChoice
  <2> QED BY <1>6, <2>1
<1>10. ASSUME NEW s \in SUBSET (1..q), Beaten(found, s) PROVE best # {} /\ Beaten(next, s)
  <2>1. found.best # {} /\ Cardinality(s) >= Cardinality(found.best)
    BY <1>10 DEF Beaten
  <2>2. best # {} /\ AtLeast(places, best, found.best)
    BY <1>8, <2>1
  <2>3. found.best \in SUBSET (1..q)
    BY <1>2 DEF Stage
  <2>4. Cardinality(best) <= Cardinality(found.best)
    BY <1>5, <1>7, <2>2, <2>3, AtLeastFacts
  <2>5. Cardinality(s) >= Cardinality(best)
    BY <1>5, <1>7, <2>1, <2>3, <2>4
  <2> HIDE DEF next
  <2> QED BY <1>1, <2>2, <2>5 DEF Beaten
<1> HIDE DEF next

\* What a choice with the new room does was known without it.
<1>11. ASSUME NEW s \in SUBSET (1..q), q \in s
       PROVE  LET s0 == s \ {q}
              IN  /\ s0 \in SUBSET (1..r) /\ s0 \in SUBSET (1..q) /\ s = s0 \cup {q}
                  /\ q \in DOMAIN house \ s0
                  /\ Cardinality(s) = Cardinality(s0) + 1
                  /\ Sleeping(places, s0) \in Nat /\ Sleeping(places, s) \in Nat
                  /\ Sleeping(places, s0) <= Sleeping(places, s)
  <2> DEFINE s0 == s \ {q}
  <2>1. /\ s0 \in SUBSET (1..r) /\ s0 \in SUBSET (1..q) /\ s = s0 \cup {q}
        /\ q \in DOMAIN house \ s0 /\ s0 \in SUBSET DOMAIN house /\ s \in SUBSET DOMAIN house
    BY <1>2, <1>11
  <2> HIDE DEF s0, q
  <2>2. /\ Cardinality(s0 \cup {q}) = Cardinality(s0) + 1
        /\ Sleeping(places, s0) \in Nat
    BY <2>1, ChoiceFacts
  <2>3. Sleeping(places, s) \in Nat
    BY <2>1, ChoiceFacts
  <2>4. s0 \subseteq s
    BY <2>1
  <2>5. Sleeping(places, s0) <= Sleeping(places, s)
    BY <2>1, <2>4, ChoiceFacts
  <2> QED BY <2>1, <2>2, <2>3, <2>5 DEF s0
<1>12. ASSUME NEW s \in SUBSET (1..q), FullChoice(places, s)
       PROVE  best # {} /\ AtLeast(places, best, s)
  <2>1. CASE q \notin s
    <3>1. s \in SUBSET (1..r)
      BY <1>2, <2>1
    <3>2. found.best # {} /\ AtLeast(places, found.best, s)
      BY <1>12, <3>1 DEF Stage
    <3>3. found.best \in SUBSET (1..q)
      BY <1>2 DEF Stage
    <3> QED BY <1>5, <1>7, <1>8, <3>2, <3>3, AtLeastFacts
  <2>2. CASE q \in s
    <3> DEFINE s0 == s \ {q}
    <3>1. /\ s0 \in SUBSET (1..r) /\ s0 \in SUBSET (1..q) /\ s = s0 \cup {q}
          /\ q \in DOMAIN house \ s0
          /\ Cardinality(s) = Cardinality(s0) + 1
      BY <1>11, <2>2
    <3>2. /\ s0 \in SUBSET DOMAIN house /\ s \in SUBSET DOMAIN house
          /\ best \in SUBSET DOMAIN house
          /\ found.best \in SUBSET DOMAIN house
          /\ Cardinality(s0) \in Nat /\ Cardinality(s) \in Nat
      BY <1>2, <1>5, <1>7, <3>1 DEF Stage
    <3> HIDE DEF s0
    <3>3. Cardinality(s0) < Cardinality(s)
      BY <3>1, <3>2
    <3>4. CASE FullChoice(places, s0)
      <4>1. found.best # {} /\ AtLeast(places, found.best, s0)
        BY <3>1, <3>4 DEF Stage
      <4>2. best # {} /\ AtLeast(places, best, found.best)
        BY <1>8, <4>1
      <4>3. AtLeast(places, best, s0)
        BY <3>2, <4>1, <4>2, AtLeastFacts
      <4> QED BY <3>2, <3>3, <4>2, <4>3, AtLeastFacts
    <3>5. CASE Beaten(found, s0)
      <4>1. best # {} /\ Cardinality(s0) >= Cardinality(best)
        BY <1>1, <1>10, <3>1, <3>5 DEF Beaten
      <4>2. Cardinality(best) < Cardinality(s)
        BY <1>5, <1>7, <3>2, <3>3, <4>1
      <4> QED BY <3>2, <4>1, <4>2, BetterFacts DEF AtLeast
    <3>6. ASSUME NEW t \in found.partial, SameKey(places, t, s0), AtLeast(places, t, s0)
          PROVE  best # {} /\ AtLeast(places, best, s)
      <4>1. t \in SUBSET DOMAIN house /\ q \in DOMAIN house \ (t \cup s0)
        BY <1>3, <3>1
      <4>2. SameKey(places, t \cup {q}, s) /\ AtLeast(places, t \cup {q}, s)
        BY <3>1, <3>2, <3>6, <4>1, AtLeastWithRoom
      <4>3. FullChoice(places, t \cup {q})
        BY <1>12, <4>2 DEF FullChoice, SameKey
      <4>4. best # {} /\ AtLeast(places, best, t \cup {q})
        BY <1>9, <4>3
      <4>5. t \cup {q} \in SUBSET DOMAIN house
        BY <4>1
      <4> QED BY <3>2, <4>2, <4>4, <4>5, AtLeastFacts
    <3>7. \/ FullChoice(places, s0) \/ Beaten(found, s0)
          \/ \E t \in found.partial : SameKey(places, t, s0) /\ AtLeast(places, t, s0)
      BY <3>1 DEF Stage
    <3> QED BY <3>4, <3>5, <3>6, <3>7
  <2> QED BY <2>1, <2>2
<1>13. \A t \in alive : t \in SUBSET (1..q) /\ t \in SUBSET DOMAIN house /\ ~FullChoice(places, t)
  BY <1>2, <1>3 DEF FullChoice
<1>14. ASSUME NEW t \in alive
       PROVE  \E u \in partial : SameKey(places, u, t) /\ AtLeast(places, u, t)
  <2> HIDE DEF alive
  <2> DEFINE class == {x \in alive : SameKey(places, x, t)}
             u == TheBest(places, class)
  <2>1. t \in class /\ class \in SUBSET SUBSET DOMAIN house
    BY <1>13 DEF SameKey
  <2>2. u \in class /\ \A x \in class : AtLeast(places, u, x)
    <3> HIDE DEF class
    <3> QED BY <2>1, BestFacts
  <2> HIDE DEF u
  <2>3. \A x \in alive \ {u} : SameKey(places, u, x) => x \in class
    BY <2>2 DEF SameKey
  <2>4. u \in partial
    BY <2>2, <2>3 DEF AtLeast
  <2> QED BY <2>1, <2>2, <2>4
<1>15. ASSUME NEW s \in SUBSET (1..q), ~FullChoice(places, s)
       PROVE  \/ Beaten(next, s)
              \/ \E t \in partial : SameKey(places, t, s) /\ AtLeast(places, t, s)
  <2> HIDE DEF partial
  <2>1. ASSUME NEW t \in alive, SameKey(places, t, s), AtLeast(places, t, s)
        PROVE  \E u \in partial : SameKey(places, u, s) /\ AtLeast(places, u, s)
    <3> HIDE DEF alive
    <3>1. PICK u \in partial : SameKey(places, u, t) /\ AtLeast(places, u, t)
      BY <1>14
    <3>2. u \in alive
      BY DEF partial
    <3>3. /\ u \in SUBSET DOMAIN house /\ t \in SUBSET DOMAIN house /\ s \in SUBSET DOMAIN house
      BY <1>5, <1>13, <3>2
    <3>4. AtLeast(places, u, s)
      BY <2>1, <3>1, <3>3, AtLeastFacts
    <3>5. SameKey(places, u, s)
      BY <2>1, <3>1 DEF SameKey
    <3> QED BY <3>4, <3>5
  <2>2. CASE q \notin s
    <3>1. s \in SUBSET (1..r)
      BY <1>2, <2>2
    <3>2. CASE Beaten(found, s)
      BY <1>10, <3>2
    <3>3. ASSUME NEW t \in found.partial, SameKey(places, t, s), AtLeast(places, t, s)
          PROVE  \E u \in partial : SameKey(places, u, s) /\ AtLeast(places, u, s)
      BY <2>1, <3>3
    <3> QED BY <1>15, <3>1, <3>2, <3>3 DEF Stage
  <2>3. CASE q \in s
    <3> DEFINE s0 == s \ {q}
    <3>1. /\ s0 \in SUBSET (1..r) /\ s0 \in SUBSET (1..q) /\ s = s0 \cup {q}
          /\ q \in DOMAIN house \ s0
          /\ Cardinality(s) = Cardinality(s0) + 1
          /\ Sleeping(places, s0) \in Nat /\ Sleeping(places, s) \in Nat
          /\ Sleeping(places, s0) <= Sleeping(places, s)
      BY <1>11, <2>3
    <3>2. /\ s0 \in SUBSET DOMAIN house /\ s \in SUBSET DOMAIN house
          /\ Cardinality(s0) \in Nat /\ Cardinality(s) \in Nat
      BY <1>5, <3>1
    <3> HIDE DEF s0
    <3>3. ~FullChoice(places, s0)
      BY <1>2, <1>15, <3>1 DEF FullChoice
    <3>4. CASE Beaten(found, s0)
      <4>1. best # {} /\ Cardinality(s0) >= Cardinality(best)
        BY <1>1, <1>10, <3>1, <3>4 DEF Beaten
      <4>2. Cardinality(s) >= Cardinality(best)
        BY <1>5, <1>7, <3>1, <3>2, <4>1
      <4> QED BY <1>1, <4>1, <4>2 DEF Beaten
    <3>5. ASSUME NEW t \in found.partial, SameKey(places, t, s0), AtLeast(places, t, s0)
          PROVE  \/ Beaten(next, s)
                 \/ \E u \in partial : SameKey(places, u, s) /\ AtLeast(places, u, s)
      <4>1. /\ t \in SUBSET DOMAIN house /\ q \in DOMAIN house \ (t \cup s0)
            /\ t \cup {q} \in SUBSET (1..q)
        BY <1>2, <1>3, <3>1
      <4>2. SameKey(places, t \cup {q}, s) /\ AtLeast(places, t \cup {q}, s)
        BY <3>1, <3>2, <3>5, <4>1, AtLeastWithRoom
      <4>3. ~FullChoice(places, t \cup {q})
        BY <1>15, <4>2 DEF FullChoice, SameKey
      <4>4. CASE t \cup {q} \in alive
        BY <2>1, <4>2, <4>4
      <4>5. CASE t \cup {q} \notin alive
        <5>1. best # {} /\ ~ (Cardinality(t \cup {q}) < Cardinality(best))
          BY <4>3, <4>5 DEF FullChoice
        <5>2. Cardinality(t \cup {q}) <= Cardinality(s)
          BY <1>5, <3>2, <4>1, <4>2, AtLeastFacts
        <5>3. Cardinality(s) >= Cardinality(best)
          BY <1>5, <1>7, <3>2, <4>1, <5>1, <5>2
        <5> QED BY <1>1, <5>1, <5>3 DEF Beaten
      <4> QED BY <4>4, <4>5
    <3> QED BY <3>1, <3>3, <3>4, <3>5 DEF Stage
  <2> QED BY <2>2, <2>3
<1>16. \A t \in partial : t \subseteq 1..q /\ ~FullChoice(places, t)
  BY <1>13
<1> HIDE DEF partial
<1>17. Stage(places, q, next)
  BY <1>1, <1>7, <1>12, <1>15, <1>16 DEF Stage
<1> QED BY <1>17 DEF next

FirstFound == [best |-> {}, partial |-> {{}}]

IsPass(pass, places) ==
    pass = [r \in 0..Len(house) |-> IF r = 0 THEN FirstFound ELSE Extend(places, pass[r - 1], r)]

Found == [best : SUBSET DOMAIN house, partial : SUBSET SUBSET DOMAIN house]

LEMMA RecommendRoomsByPass ==
    ASSUME NEW places
    PROVE  RecommendRooms(places) =
               IF Sleeping(places, DOMAIN house) < people THEN {}
               ELSE (CHOOSE pass : IsPass(pass, places))[Len(house)].best
BY DEF RecommendRooms, IsPass, FirstFound

LEMMA ExtendKeepsType ==
    ASSUME OpenStay, NEW places, PlacesOf(places), NEW r \in DOMAIN house, NEW found \in Found
    PROVE  Extend(places, found, r) \in Found
<1> DEFINE made == {s \cup {r} : s \in found.partial}
           full == {s \in made : Sleeping(places, s) >= people}
           contest == full \cup ({found.best} \ {{}})
           best == TheBest(places, contest)
<1>1. found.best \subseteq DOMAIN house /\ \A s \in found.partial : s \subseteq DOMAIN house
  BY DEF Found
<1>2. made \in SUBSET SUBSET DOMAIN house
  BY <1>1
<1>3. contest \in SUBSET SUBSET DOMAIN house
  BY <1>1, <1>2
<1> HIDE DEF contest
<1>4. best \subseteq DOMAIN house
  <2>1. CASE contest = {}
    BY <2>1 DEF TheBest
  <2>2. CASE contest # {}
    <3>1. best \in contest
      BY <1>3, <2>2, BestFacts
    <3> QED BY <1>3, <3>1
  <2> QED BY <2>1, <2>2
<1>5. Extend(places, found, r).best = best
  BY DEF Extend, contest
<1>6. Extend(places, found, r).partial \in SUBSET SUBSET DOMAIN house
  BY <1>1, <1>2 DEF Extend
<1>7. \E b, p : Extend(places, found, r) = [best |-> b, partial |-> p]
  BY DEF Extend
<1> HIDE DEF best
<1> QED BY <1>4, <1>5, <1>6, <1>7 DEF Found

LEMMA PassExists ==
    ASSUME OpenStay, NEW places, PlacesOf(places)
    PROVE  \E pass : IsPass(pass, places)
<1> DEFINE n == Len(house)
           Go(i, f) == IF i \in 1..n THEN Extend(places, f, i) ELSE f
           Step == [i \in Nat |-> [f \in Found |-> Go(i, f)]]
<1>1. n \in Nat /\ DOMAIN house = 1..n
  BY HouseFacts
<1>2. \A i \in Nat : \A f \in Found : Go(i, f) \in Found
  BY <1>1, ExtendKeepsType
<1>3. Step \in [Nat -> [Found -> Found]]
  <2> HIDE DEF Go
  <2> QED BY <1>2
<1>4. FirstFound \in Found
  BY DEF FirstFound, Found
<1>5. \A i \in 1..n, f \in Found : Step[i][f] = Extend(places, f, i)
  BY <1>1
<1> HIDE DEF Step, n
<1>6. PICK g : Iterates(g, Found, FirstFound, Step, n)
  BY <1>1, <1>3, <1>4, StepsReachEnd
<1>7. ASSUME NEW r \in 0..n
      PROVE  g[r] = IF r = 0 THEN FirstFound ELSE Extend(places, g[r - 1], r)
  <2>1. CASE r = 0
    BY <1>6, <2>1 DEF Iterates
  <2>2. CASE r # 0
    <3>1. r \in 1..n /\ r - 1 \in 0..n
      BY <1>1, <2>2
    <3>2. g[r] = Step[r][g[r - 1]] /\ g[r - 1] \in Found
      BY <1>6, <3>1 DEF Iterates
    <3> QED BY <1>5, <2>2, <3>1, <3>2
  <2> QED BY <2>1, <2>2
<1>8. g = [r \in 0..n |-> g[r]]
  BY <1>6 DEF Iterates
<1>9. IsPass(g, places)
  BY <1>7, <1>8 DEF IsPass, n
<1> QED BY <1>9

LEMMA RecommendationIsBest ==
    ASSUME OpenStay, NEW places, PlacesOf(places)
    PROVE  /\ RecommendRooms(places) = {} <=> LargeEnough(places) = {}
           /\ LargeEnough(places) # {} =>
                 /\ RecommendRooms(places) \in LargeEnough(places)
                 /\ \A s \in LargeEnough(places) : AtLeast(places, RecommendRooms(places), s)
<1> DEFINE n == Len(house)
           pass == CHOOSE pass : IsPass(pass, places)
           T == {r \in Nat : r <= n => Stage(places, r, pass[r])}
<1>1. n \in Nat /\ DOMAIN house = 1..n /\ people \in Nat /\ people # 0
  BY HouseFacts
<1>2. IsPass(pass, places)
  BY PassExists
<1> HIDE DEF pass
<1>3. 0 \in T
  <2>1. pass[0] = FirstFound
    BY <1>1, <1>2 DEF IsPass
  <2>2. Sleeping(places, {}) = 0
    BY ChoiceFacts
  <2>3. \A s \in SUBSET (1..0) : s = {}
    OBVIOUS
  <2>4. FirstFound.best = {} /\ FirstFound.partial = {{}}
    BY DEF FirstFound
  <2>5. ~FullChoice(places, {}) /\ SameKey(places, {}, {}) /\ AtLeast(places, {}, {})
    BY <1>1, <2>2 DEF FullChoice, SameKey, AtLeast
  <2>6. Stage(places, 0, FirstFound)
    BY <2>3, <2>4, <2>5 DEF Stage
  <2> QED BY <2>1, <2>6
<1>4. ASSUME NEW r \in Nat, r \in T PROVE r + 1 \in T
  <2> SUFFICES ASSUME r + 1 <= n PROVE Stage(places, r + 1, pass[r + 1])
    OBVIOUS
  <2>1. Stage(places, r, pass[r]) /\ r + 1 \in DOMAIN house
    BY <1>1, <1>4
  <2>2. pass[r + 1] = Extend(places, pass[r], r + 1)
    <3>1. r + 1 \in 0..Len(house) /\ r + 1 # 0 /\ (r + 1) - 1 = r
      BY <1>1
    <3> QED BY <1>2, <3>1 DEF IsPass
  <2> QED BY <2>1, <2>2, ExtendStage
<1>5. Stage(places, n, pass[n])
  <2> HIDE DEF T
  <2>1. n \in T
    BY <1>1, <1>3, <1>4, NaturalsAreInductive
  <2> QED BY <1>1, <2>1 DEF T
<1>6. LargeEnough(places) = {s \in SUBSET (1..n) : FullChoice(places, s)}
  BY <1>1 DEF LargeEnough, FullChoice
<1>7. {} \notin LargeEnough(places)
  <2>1. Sleeping(places, {}) = 0
    BY ChoiceFacts
  <2> QED BY <1>1, <2>1 DEF LargeEnough
<1>8. CASE Sleeping(places, DOMAIN house) < people
  <2>1. \A s \in SUBSET DOMAIN house : /\ Sleeping(places, s) <= Sleeping(places, DOMAIN house)
                                       /\ Sleeping(places, s) \in Nat
    BY ChoiceFacts
  <2>2. Sleeping(places, DOMAIN house) \in Nat
    BY ChoiceFacts
  <2>3. LargeEnough(places) = {}
    BY <1>1, <1>8, <2>1, <2>2 DEF LargeEnough
  <2>4. RecommendRooms(places) = {}
    BY <1>8, RecommendRoomsByPass
  <2> QED BY <2>3, <2>4
<1>9. CASE ~(Sleeping(places, DOMAIN house) < people)
  <2>1. RecommendRooms(places) = pass[n].best
    BY <1>9, RecommendRoomsByPass DEF pass
  <2> QED BY <1>5, <1>6, <1>7, <2>1 DEF Stage
<1> QED BY <1>8, <1>9

-----------------------------------------------------------------------------
(***************************************************************************)
(* The policy's allocation.  From room i on, with a choice of earlier      *)
(* rooms and the best choice so far, the search returns one that is at     *)
(* least as cheap as both the best and everything that completes the       *)
(* choice.                                                                 *)
(***************************************************************************)

NoDearer(places, a, b) == a = b \/ Cheaper(places, a, b)

\* One call of the search, which hands on to later for the next room.
Visit(places, later, i, s, best) ==
    IF Sleeping(places, s) >= people
    THEN IF best = {} \/ Cheaper(places, s, best) THEN s ELSE best
    ELSE IF i > Len(house) \/ Hopeless(s, best) THEN best
    ELSE later[i + 1][s][later[i + 1][s \cup {i}][best]]

IsSearch(search, places) ==
    search = [i \in 1..Len(house) + 1 |->
                 [s \in SUBSET DOMAIN house |-> [best \in SUBSET DOMAIN house |->
                     Visit(places, search, i, s, best)]]]

LEMMA AllocateRoomsBySearch ==
    ASSUME NEW places
    PROVE  AllocateRooms(places) = (CHOOSE search : IsSearch(search, places))[1][{}][{}]
BY DEF AllocateRooms, IsSearch, Visit

LEMMA SearchExists ==
    ASSUME OpenStay, NEW places, PlacesOf(places)
    PROVE  \E search : IsSearch(search, places)
<1> DEFINE n == Len(house)
           C == SUBSET DOMAIN house
           L == [C -> [C -> C]]
           Result(h, i, s, b) ==
               IF Sleeping(places, s) >= people
               THEN IF b = {} \/ Cheaper(places, s, b) THEN s ELSE b
               ELSE IF i > n \/ Hopeless(s, b) THEN b
               ELSE h[s][h[s \cup {i}][b]]
           Level(h, i) == [s \in C |-> [b \in C |-> Result(h, i, s, b)]]
           keep == [s \in C |-> [b \in C |-> b]]
           Go(k, h) == IF k \in 1..(n + 1) THEN Level(h, n + 2 - k) ELSE h
           Step == [k \in Nat |-> [h \in L |-> Go(k, h)]]
<1>1. n \in Nat /\ DOMAIN house = 1..n
  BY HouseFacts
<1>2. ASSUME NEW h \in L, NEW i \in 1..(n + 1) PROVE Level(h, i) \in L
  <2>1. ASSUME NEW s \in C, NEW b \in C PROVE Result(h, i, s, b) \in C
    <3>1. ~(i > n) => s \cup {i} \in C
      BY <1>1
    <3>2. ~(i > n) => h[s \cup {i}][b] \in C
      BY <3>1
    <3>3. ~(i > n) => h[s][h[s \cup {i}][b]] \in C
      BY <3>2
    <3> QED BY <3>3
  <2> HIDE DEF Result
  <2> QED BY <2>1
<1>3. \A k \in Nat, h \in L : Go(k, h) \in L
  <2>1. \A k \in 1..(n + 1) : n + 2 - k \in 1..(n + 1)
    BY <1>1
  <2> HIDE DEF Level, L, n
  <2> QED BY <1>2, <2>1
<1>4. Step \in [Nat -> [L -> L]] /\ keep \in L
  <2> HIDE DEF Go
  <2> QED BY <1>3
<1>5. \A k \in 1..(n + 1), h \in L : Step[k][h] = Level(h, n + 2 - k)
  <2>1. \A k \in 1..(n + 1) : k \in Nat
    BY <1>1
  <2> HIDE DEF L, Level
  <2> QED BY <2>1
<1> HIDE DEF Step, keep, Level
<1>6. n + 1 \in Nat
  BY <1>1
<1>7. PICK g : Iterates(g, L, keep, Step, n + 1)
  <2> HIDE DEF L, n
  <2> QED BY <1>4, <1>6, StepsReachEnd
<1> DEFINE search == [i \in 1..(n + 1) |-> g[n + 2 - i]]
<1>8. ASSUME NEW i \in 1..(n + 1)
      PROVE  search[i] = [s \in C |-> [b \in C |-> Visit(places, search, i, s, b)]]
  <2> DEFINE k == n + 2 - i
  <2>1. k \in 1..(n + 1) /\ k - 1 \in 0..(n + 1) /\ n + 2 - k = i
    BY <1>1
  <2>2. g[k] = Step[k][g[k - 1]] /\ g[k - 1] \in L
    BY <2>1, <1>7 DEF Iterates
  <2>3. g[k] = Level(g[k - 1], i)
    <3> HIDE DEF k
    <3> QED BY <1>5, <2>1, <2>2
  <2>4. search[i] = g[k]
    OBVIOUS
  <2>5. ~(i > n) => i + 1 \in 1..(n + 1) /\ n + 2 - (i + 1) = k - 1
    BY <1>1
  <2>6. ~(i > n) => search[i + 1] = g[k - 1]
    BY <2>5
  <2> HIDE DEF search
  <2>7. ASSUME NEW s \in C, NEW b \in C
        PROVE  Result(g[k - 1], i, s, b) = Visit(places, search, i, s, b)
    <3> HIDE DEF k
    <3> QED BY <2>6 DEF Visit
  <2> HIDE DEF k, Result
  <2> QED BY <2>3, <2>4, <2>7 DEF Level
<1>9. search = [i \in 1..(n + 1) |-> [s \in C |-> [b \in C |-> Visit(places, search, i, s, b)]]]
  <2>1. search = [i \in 1..(n + 1) |-> search[i]]
    OBVIOUS
  <2> HIDE DEF search
  <2> QED BY <1>8, <2>1
<1> HIDE DEF search
<1>10. IsSearch(search, places)
  BY <1>9 DEF IsSearch
<1> QED BY <1>10

\* What a call of the search returns for room i, a choice s of earlier rooms and the best so far.
Settles(places, i, s, best, result) ==
    /\ result \subseteq DOMAIN house
    /\ result # {} => FullChoice(places, result)
    /\ best # {} => result # {} /\ NoDearer(places, result, best)
    /\ \A t \in SUBSET DOMAIN house :
           FullChoice(places, t) /\ s \subseteq t /\ t \cap 1..(i - 1) \subseteq s =>
               result # {} /\ NoDearer(places, result, t)

SearchSettles(places, search, i) ==
    \A s \in SUBSET (1..(i - 1)), best \in SUBSET DOMAIN house :
        (best # {} => FullChoice(places, best)) => Settles(places, i, s, best, search[i][s][best])

LEMMA NoDearerFacts ==
    ASSUME OpenStay, NEW places, PlacesOf(places),
           NEW a \in SUBSET DOMAIN house, NEW b \in SUBSET DOMAIN house,
           NEW c \in SUBSET DOMAIN house, NoDearer(places, a, b)
    PROVE  /\ NoDearer(places, b, c) => NoDearer(places, a, c)
           /\ Cardinality(b) < Cardinality(c) => NoDearer(places, a, c)
<1>1. NoDearer(places, b, c) => NoDearer(places, a, c)
  BY CheaperFacts DEF NoDearer
<1>2. Cardinality(b) < Cardinality(c) => NoDearer(places, b, c)
  BY CheaperFacts DEF NoDearer
<1> QED BY <1>1, <1>2

LEMMA VisitSettles ==
    ASSUME OpenStay, NEW places, PlacesOf(places), NEW search, NEW i \in 1..(Len(house) + 1),
           i <= Len(house) => SearchSettles(places, search, i + 1),
           NEW s \in SUBSET (1..(i - 1)), NEW best \in SUBSET DOMAIN house,
           best # {} => FullChoice(places, best)
    PROVE  Settles(places, i, s, best, Visit(places, search, i, s, best))
<1>1. /\ Len(house) \in Nat /\ DOMAIN house = 1..Len(house) /\ people \in Nat /\ people # 0
      /\ i \in Nat
  BY HouseFacts
<1>2. s \in SUBSET DOMAIN house
  BY <1>1
<1>3. \A t \in SUBSET DOMAIN house :
          /\ t = {} \/ t # {}
          /\ Cardinality(t) \in Nat
          /\ s \subseteq t => s = t \/ Cardinality(s) < Cardinality(t)
  BY <1>2, ChoiceFacts
<1>4. ~FullChoice(places, {})
  <2>1. Sleeping(places, {}) = 0
    BY ChoiceFacts
  <2> QED BY <1>1, <2>1 DEF FullChoice
<1>5. CASE FullChoice(places, s)
  <2> DEFINE result == IF best = {} \/ Cheaper(places, s, best) THEN s ELSE best
  <2>1. Visit(places, search, i, s, best) = result
    BY <1>5 DEF Visit, FullChoice
  <2>2. s # {} /\ (result = s \/ (result = best /\ best # {}))
    BY <1>4, <1>5
  <2>3. result \in SUBSET DOMAIN house /\ result # {} /\ FullChoice(places, result)
    BY <1>2, <1>5, <2>2
  <2>4. NoDearer(places, result, s) /\ (best # {} => NoDearer(places, result, best))
    BY <1>2, CheaperFacts DEF NoDearer
  <2> HIDE DEF result
  <2>5. \A t \in SUBSET DOMAIN house : s \subseteq t => NoDearer(places, result, t)
    BY <1>2, <1>3, <2>3, <2>4, NoDearerFacts
  <2> QED BY <2>1, <2>3, <2>4, <2>5 DEF Settles
<1>6. CASE ~FullChoice(places, s) /\ (i > Len(house) \/ Hopeless(s, best))
  <2>1. Visit(places, search, i, s, best) = best
    BY <1>6 DEF Visit, FullChoice
  <2>2. NoDearer(places, best, best)
    BY DEF NoDearer
  <2>3. ASSUME NEW t \in SUBSET DOMAIN house, FullChoice(places, t), s \subseteq t,
               t \cap 1..(i - 1) \subseteq s
        PROVE  best # {} /\ NoDearer(places, best, t)
    <3>1. s # t /\ Cardinality(s) < Cardinality(t)
      BY <1>3, <1>6, <2>3
    <3>2. i <= Len(house)
      <4> SUFFICES ASSUME i > Len(house) PROVE FALSE
        BY <1>1
      <4>1. t \subseteq 1..(i - 1)
        BY <1>1
      <4> QED BY <2>3, <3>1, <4>1
    <3>3. best # {} /\ Cardinality(s) >= Cardinality(best)
      BY <1>1, <1>6, <3>2 DEF Hopeless
    <3>4. Cardinality(best) < Cardinality(t)
      BY <1>2, <1>3, <3>1, <3>3
    <3> QED BY <2>2, <3>3, <3>4, NoDearerFacts
  <2> QED BY <2>1, <2>2, <2>3 DEF Settles
<1>7. CASE ~FullChoice(places, s) /\ ~(i > Len(house) \/ Hopeless(s, best))
  <2> DEFINE with == search[i + 1][s \cup {i}][best]
             result == search[i + 1][s][with]
  <2>1. Visit(places, search, i, s, best) = result
    BY <1>7 DEF Visit, FullChoice
  <2>2. i <= Len(house) /\ i \in DOMAIN house /\ SearchSettles(places, search, i + 1)
    BY <1>1, <1>7
  <2>3. /\ s \cup {i} \in SUBSET (1..((i + 1) - 1)) /\ s \in SUBSET (1..((i + 1) - 1))
        /\ 1..((i + 1) - 1) = 1..(i - 1) \cup {i}
    BY <1>1
  <2>4. Settles(places, i + 1, s \cup {i}, best, with)
    BY <2>2, <2>3 DEF SearchSettles
  <2> HIDE DEF with
  <2>5. with \in SUBSET DOMAIN house /\ (with # {} => FullChoice(places, with))
    BY <2>4 DEF Settles
  <2>6. Settles(places, i + 1, s, with, result)
    BY <2>2, <2>3, <2>5 DEF SearchSettles
  <2> HIDE DEF result
  <2>7. result \in SUBSET DOMAIN house /\ (result # {} => FullChoice(places, result))
    BY <2>6 DEF Settles
  <2>8. \A t \in SUBSET DOMAIN house :
            with # {} /\ NoDearer(places, with, t) => result # {} /\ NoDearer(places, result, t)
    BY <2>5, <2>6, <2>7, NoDearerFacts DEF Settles
  <2>9. best # {} => result # {} /\ NoDearer(places, result, best)
    BY <2>4, <2>8 DEF Settles
  <2>10. ASSUME NEW t \in SUBSET DOMAIN house, FullChoice(places, t), s \subseteq t,
                t \cap 1..(i - 1) \subseteq s
         PROVE  result # {} /\ NoDearer(places, result, t)
    <3>1. CASE i \in t
      <4>1. s \cup {i} \subseteq t /\ t \cap 1..((i + 1) - 1) \subseteq s \cup {i}
        BY <2>3, <2>10, <3>1
      <4>2. with # {} /\ NoDearer(places, with, t)
        BY <2>4, <2>10, <4>1 DEF Settles
      <4> QED BY <2>8, <4>2
    <3>2. CASE i \notin t
      <4>1. t \cap 1..((i + 1) - 1) \subseteq s
        BY <2>3, <2>10, <3>2
      <4> QED BY <2>6, <2>10, <4>1 DEF Settles
    <3> QED BY <3>1, <3>2
  <2> QED BY <2>1, <2>7, <2>9, <2>10 DEF Settles
<1> QED BY <1>5, <1>6, <1>7

LEMMA AllocationIsCheapest ==
    ASSUME OpenStay, NEW places, PlacesOf(places)
    PROVE  /\ AllocateRooms(places) = {} <=> LargeEnough(places) = {}
           /\ LargeEnough(places) # {} =>
                 /\ AllocateRooms(places) \in LargeEnough(places)
                 /\ \A s \in LargeEnough(places) : NoDearer(places, AllocateRooms(places), s)
<1> DEFINE n == Len(house)
           search == CHOOSE search : IsSearch(search, places)
           T == {k \in Nat : k <= n => SearchSettles(places, search, n + 1 - k)}
<1>1. n \in Nat /\ DOMAIN house = 1..n /\ people \in Nat /\ people # 0
  BY HouseFacts
<1>2. IsSearch(search, places)
  BY SearchExists
<1>3. AllocateRooms(places) = search[1][{}][{}]
  BY AllocateRoomsBySearch
<1> HIDE DEF search
<1>4. ASSUME NEW i \in 1..(n + 1), i <= n => SearchSettles(places, search, i + 1)
      PROVE  SearchSettles(places, search, i)
  <2> SUFFICES ASSUME NEW s \in SUBSET (1..(i - 1)), NEW best \in SUBSET DOMAIN house,
                      best # {} => FullChoice(places, best)
               PROVE  Settles(places, i, s, best, search[i][s][best])
    BY DEF SearchSettles
  <2>1. s \in SUBSET DOMAIN house
    BY <1>1
  <2>2. search[i][s][best] = Visit(places, search, i, s, best)
    <3>1. search[i] = [t \in SUBSET DOMAIN house |-> [b \in SUBSET DOMAIN house |->
                          Visit(places, search, i, t, b)]]
      BY <1>2 DEF IsSearch
    <3> QED BY <2>1, <3>1
  <2> QED BY <1>4, <2>2, VisitSettles
<1>5. 0 \in T
  <2>1. n + 1 - 0 \in 1..(n + 1) /\ n + 1 - 0 = n + 1 /\ ~(n + 1 - 0 <= n)
    BY <1>1
  <2> HIDE DEF n
  <2> QED BY <1>4, <2>1
<1>6. ASSUME NEW k \in Nat, k \in T PROVE k + 1 \in T
  <2> SUFFICES ASSUME k + 1 <= n PROVE SearchSettles(places, search, n + 1 - (k + 1))
    OBVIOUS
  <2>1. /\ n + 1 - (k + 1) \in 1..(n + 1) /\ (n + 1 - (k + 1)) + 1 = n + 1 - k
        /\ k <= n
    BY <1>1
  <2>2. SearchSettles(places, search, n + 1 - k)
    BY <1>6, <2>1
  <2> HIDE DEF n
  <2> QED BY <1>4, <2>1, <2>2
<1>7. SearchSettles(places, search, 1)
  <2> HIDE DEF T
  <2>1. n \in T
    BY <1>1, <1>5, <1>6, NaturalsAreInductive
  <2>2. SearchSettles(places, search, n + 1 - n)
    BY <1>1, <2>1 DEF T
  <2>3. n + 1 - n = 1
    BY <1>1
  <2> QED BY <2>2, <2>3
<1> DEFINE result == search[1][{}][{}]
<1>8. Settles(places, 1, {}, {}, result)
  BY <1>7 DEF SearchSettles
<1>9. \A t \in SUBSET DOMAIN house : {} \subseteq t /\ t \cap 1..(1 - 1) \subseteq {}
  OBVIOUS
<1>10. {} \notin LargeEnough(places)
  <2>1. Sleeping(places, {}) = 0
    BY ChoiceFacts
  <2> QED BY <1>1, <2>1 DEF LargeEnough
<1> HIDE DEF result
<1>11. /\ result # {} => result \in LargeEnough(places)
       /\ \A t \in LargeEnough(places) : result # {} /\ NoDearer(places, result, t)
  BY <1>8, <1>9 DEF Settles, LargeEnough, FullChoice
<1> QED BY <1>3, <1>10, <1>11 DEF result

LEMMA ChoicesAreBest ==
    ASSUME OpenStay
    PROVE  RecommendsTheBest
<1> SUFFICES ASSUME NEW places \in {StandardPlaces, MaximumPlaces}
             PROVE  LET choices == LargeEnough(places)
                        found == RecommendRooms(places)
                        allocated == AllocateRooms(places)
                    IN  /\ found = {} <=> choices = {}
                        /\ allocated = {} <=> choices = {}
                        /\ choices # {} =>
                              /\ found \in choices
                              /\ \A s \in choices \ {found} : Better(places, found, s)
                              /\ allocated \in choices
                              /\ \A s \in choices \ {allocated} : Cheaper(places, allocated, s)
  BY DEF RecommendsTheBest
<1>1. PlacesOf(places)
  BY HouseFacts
<1>2. /\ RecommendRooms(places) = {} <=> LargeEnough(places) = {}
      /\ LargeEnough(places) # {} =>
            /\ RecommendRooms(places) \in LargeEnough(places)
            /\ \A s \in LargeEnough(places) : AtLeast(places, RecommendRooms(places), s)
  BY <1>1, RecommendationIsBest
<1>3. /\ AllocateRooms(places) = {} <=> LargeEnough(places) = {}
      /\ LargeEnough(places) # {} =>
            /\ AllocateRooms(places) \in LargeEnough(places)
            /\ \A s \in LargeEnough(places) : NoDearer(places, AllocateRooms(places), s)
  BY <1>1, AllocationIsCheapest
<1> QED BY <1>2, <1>3 DEF AtLeast, NoDearer

-----------------------------------------------------------------------------
(***************************************************************************)
(* What is offered, and the theorems                                       *)
(***************************************************************************)

\* The recommendation is one the check of the selection accepts as it stands.
LEMMA RecommendationIsBookable ==
    ASSUME OpenStay, Recommendation.rooms # {}
    PROVE  /\ Recommendation.rooms \subseteq DOMAIN house
           /\ Selection(Recommendation.rooms, Recommendation.overflow) =
                  IF Recommendation.overflow THEN "interrupt" ELSE "allow"
           /\ Recommendation.overflow \in BOOLEAN
<1> DEFINE standard == RecommendRooms(StandardPlaces)
           maximum == RecommendRooms(MaximumPlaces)
<1>1. \A places \in {StandardPlaces, MaximumPlaces} : RecommendRooms(places) # {} =>
          RecommendRooms(places) \in LargeEnough(places)
  <2>1. ASSUME NEW places \in {StandardPlaces, MaximumPlaces}, RecommendRooms(places) # {}
        PROVE  RecommendRooms(places) \in LargeEnough(places)
    <3>1. PlacesOf(places)
      BY HouseFacts
    <3> QED BY <2>1, <3>1, RecommendationIsBest
  <2> QED BY <2>1
<1>2. CASE standard # {}
  <2>1. Recommendation = [rooms |-> standard, overflow |-> FALSE]
    BY <1>2 DEF Recommendation
  <2>2. standard \in LargeEnough(StandardPlaces)
    BY <1>1, <1>2
  <2> HIDE DEF standard
  <2> QED BY <1>2, <2>1, <2>2 DEF LargeEnough, Selection
<1>3. CASE standard = {}
  <2>1. Recommendation = [rooms |-> maximum, overflow |-> maximum # {}]
    BY <1>3 DEF Recommendation
  <2> HIDE DEF standard
  <2>2. maximum # {} /\ maximum \in LargeEnough(MaximumPlaces)
    BY <1>1, <2>1
  <2>3. LargeEnough(StandardPlaces) = {}
    BY <1>3, HouseFacts, RecommendationIsBest DEF standard
  <2> HIDE DEF maximum
  <2>4. Recommendation.rooms = maximum /\ Recommendation.overflow = TRUE
    BY <2>1, <2>2
  <2>5. maximum \subseteq DOMAIN house /\ Sleeping(MaximumPlaces, maximum) >= people
    BY <2>2 DEF LargeEnough
  <2>6. ~(Sleeping(StandardPlaces, maximum) >= people)
    BY <2>3, <2>5 DEF LargeEnough
  <2>7. ~(Sleeping(MaximumPlaces, maximum) < people)
    <3>1. Sleeping(MaximumPlaces, maximum) \in Nat /\ people \in Nat
      BY <2>5, HouseFacts, ChoiceFacts
    <3> QED BY <2>5, <3>1
  <2>8. Selection(maximum, TRUE) = "interrupt"
    BY <2>2, <2>6, <2>7 DEF Selection
  <2> QED BY <2>4, <2>5, <2>8
<1> QED BY <1>2, <1>3

\* The inductive invariant of the offer and the outcome.
ChoiceInv == ChoiceTypeOK /\ OffersAreBookable

LEMMA ChoiceStep == ChoiceInv /\ [ChoiceNext]_choiceVars => ChoiceInv'
<1> SUFFICES ASSUME ChoiceInv, [ChoiceNext]_choiceVars PROVE ChoiceInv'
  OBVIOUS
<1>1. CASE UNCHANGED choiceVars
  BY <1>1 DEF choiceVars, ChoiceInv, ChoiceTypeOK, OffersAreBookable, Selection, Sleeping,
     StandardPlaces, MaximumPlaces
<1>2. CASE FindGuestOptions
  <2>1. /\ Recommendation.rooms # {} /\ offer' = Recommendation
        /\ UNCHANGED <<house, people, outcome>> /\ OpenStay
    BY <1>2 DEF FindGuestOptions, ChoiceInv, ChoiceTypeOK, OpenStay
  <2>2. /\ Recommendation.rooms \subseteq DOMAIN house /\ Recommendation.overflow \in BOOLEAN
        /\ Selection(Recommendation.rooms, Recommendation.overflow) =
               IF Recommendation.overflow THEN "interrupt" ELSE "allow"
    BY <2>1, RecommendationIsBookable
  <2>3. \E rooms, overflow : Recommendation = [rooms |-> rooms, overflow |-> overflow]
    BY DEF Recommendation
  <2>4. ChoiceTypeOK'
    BY <2>1, <2>2, <2>3 DEF ChoiceInv, ChoiceTypeOK
  <2>5. \A rooms, consent : Selection(rooms, consent)' = Selection(rooms, consent)
    BY <2>1 DEF Selection, Sleeping, StandardPlaces, MaximumPlaces
  <2>6. OffersAreBookable'
    BY <2>1, <2>2, <2>5 DEF OffersAreBookable
  <2> QED BY <2>4, <2>6 DEF ChoiceInv
<1>3. ASSUME NEW rooms \in SUBSET DOMAIN house, NEW consent \in BOOLEAN,
             SubmitGuestVisit(rooms, consent)
      PROVE  ChoiceInv'
  <2>1. /\ UNCHANGED <<house, people, offer>>
        /\ outcome' = [rooms |-> rooms, consent |-> consent,
                       verdict |-> HookVerdict(rooms, consent)]
    BY <1>3 DEF SubmitGuestVisit
  <2>2. HookVerdict(rooms, consent) \in {"deny", "interrupt", "allow"}
    BY DEF HookVerdict, Selection
  <2> HIDE DEF HookVerdict
  <2>3. ChoiceTypeOK'
    BY <2>1, <2>2 DEF ChoiceInv, ChoiceTypeOK
  <2>4. OffersAreBookable'
    BY <2>1 DEF ChoiceInv, OffersAreBookable, Selection, Sleeping, StandardPlaces, MaximumPlaces
  <2> QED BY <2>3, <2>4 DEF ChoiceInv
<1> QED BY <1>1, <1>2, <1>3 DEF ChoiceNext

LEMMA ChoiceStart == ChoiceInit => ChoiceInv
BY DEF ChoiceInit, ChoiceInv, ChoiceTypeOK, OffersAreBookable, NoOffer, NoOutcome

\* The state variables keep their types, for any rooms, features and parties.
THEOREM ChoiceTypeCorrect == ChoiceSpec => []ChoiceTypeOK
<1>1. ChoiceInit => ChoiceInv
  BY ChoiceStart
<1>2. ChoiceInv => ChoiceTypeOK
  BY DEF ChoiceInv
<1> QED BY <1>1, <1>2, ChoiceStep, PTL DEF ChoiceSpec

\* What the search recommends the check of the selection accepts, and asks a host exactly when
\* the search said it would, for any house and party (find-room-options.ts:78,
\* occupancy.ts:40-95).
THEOREM OffersCanBeBooked == ChoiceSpec => []OffersAreBookable
<1>1. ChoiceInit => ChoiceInv
  BY ChoiceStart
<1>2. ChoiceInv => OffersAreBookable
  BY DEF ChoiceInv
<1> QED BY <1>1, <1>2, ChoiceStep, PTL DEF ChoiceSpec

\* The pruned dynamic programme of the recommendation and the pruned search of the allocation
\* find the best of all choices that sleep the party, in any house with any number of rooms
\* (recommendation.ts:54-80, allocate-rooms.ts:38-50).
THEOREM PruningLosesNothing == ChoiceSpec => []RecommendsTheBest
<1>1. ChoiceInit => ChoiceInv
  BY ChoiceStart
<1>2. ChoiceInv => RecommendsTheBest
  BY ChoicesAreBest DEF ChoiceInv, ChoiceTypeOK, OpenStay
<1> QED BY <1>1, <1>2, ChoiceStep, PTL DEF ChoiceSpec
=============================================================================
