------------------------ MODULE GBComputation_proofs -------------------------
(***************************************************************************)
(* Theorems about GBComputation, for any lattice of monomials, generators, *)
(* stop conditions and bounds.                                             *)
(***************************************************************************)
EXTENDS GBComputation, FiniteSetTheorems, WellFoundedInduction, TLAPS

-----------------------------------------------------------------------------
(* Monomials *)

\* A set of numbers that is not empty has a least element.
LEMMA LeastNumber ==
    ASSUME NEW S, S \subseteq Nat, S # {}
    PROVE  \E n \in S : \A m \in S : n <= m
  <1>1. PICK n \in S : \A m \in S : ~ (<<m, n>> \in OpToRel(<, Nat))
        BY NatLessThanWellFounded, WFMin
  <1>2. \A m \in S : ~ (m < n)
        BY <1>1 DEF OpToRel
  <1> QED BY <1>2

\* Divisibility is an order, the lcm is the least upper bound, and a proper
\* divisor has a smaller degree.
LEMMA DividesFacts ==
    /\ \A x, y \in Monomials : Divides(x, Lcm(x, y)) /\ Divides(y, Lcm(x, y))
    /\ \A x, y, z \in Monomials : Divides(x, y) /\ Divides(y, z) => Divides(x, z)
    /\ \A x, y, z \in Monomials : Divides(x, z) /\ Divides(y, z) => Divides(Lcm(x, y), z)
    /\ \A x, y \in Monomials : Divides(x, y) /\ x # y => Degree(x) < Degree(y)
  <1>1. ASSUME NEW x \in Monomials, NEW y \in Monomials
        PROVE  Divides(x, Lcm(x, y)) /\ Divides(y, Lcm(x, y))
    <2>1. Lcm(Lcm(x, x), y) = Lcm(x, Lcm(x, y)) /\ Lcm(x, x) = x
          BY LcmAssumption
    <2>2. Lcm(Lcm(y, y), x) = Lcm(y, Lcm(y, x)) /\ Lcm(y, y) = y /\ Lcm(y, x) = Lcm(x, y)
          BY LcmAssumption
    <2> QED BY <2>1, <2>2 DEF Divides
  <1>2. ASSUME NEW x \in Monomials, NEW y \in Monomials, NEW z \in Monomials,
               Divides(x, y), Divides(y, z)
        PROVE  Divides(x, z)
    <2>1. Lcm(Lcm(x, y), z) = Lcm(x, Lcm(y, z))
          BY LcmAssumption
    <2> QED BY <1>2, <2>1 DEF Divides
  <1>3. ASSUME NEW x \in Monomials, NEW y \in Monomials, NEW z \in Monomials,
               Divides(x, z), Divides(y, z)
        PROVE  Divides(Lcm(x, y), z)
    <2>1. Lcm(Lcm(x, y), z) = Lcm(x, Lcm(y, z))
          BY LcmAssumption
    <2> QED BY <1>3, <2>1 DEF Divides
  <1>4. ASSUME NEW x \in Monomials, NEW y \in Monomials, Divides(x, y), x # y
        PROVE  Degree(x) < Degree(y)
    <2>1. Lcm(y, x) = y
          BY <1>4, LcmAssumption DEF Divides
    <2> QED BY <1>4, <2>1, DegreeAssumption
  <1> QED BY <1>1, <1>2, <1>3, <1>4

-----------------------------------------------------------------------------
(* The criteria of Gebauer and Moeller *)

\* A cut that separates i from j and has no edge of F across it.
Cut(A, i, j, n, F) ==
    LET K == Below(Lcm(gb[i], gb[j]), n)
    IN  /\ A \subseteq K /\ i \in A /\ j \notin A
        /\ \A a \in A, b \in K \ A : ~Adjacent(a, b, F)

\* Any two elements on its two sides have the same lcm.
LevelCut(A, i, j, n, F) ==
    /\ Cut(A, i, j, n, F)
    /\ \A a \in A, b \in Below(Lcm(gb[i], gb[j]), n) \ A :
          Lcm(gb[a], gb[b]) = Lcm(gb[i], gb[j])

\* When two elements are not linked, a cut between two elements of the least degree
\* is of this kind.
LEMMA LeastCut ==
    ASSUME gb \in Seq(Monomials), NEW n \in 0..Len(gb), NEW F,
           NEW i0 \in 1..n, NEW j0 \in 1..n, ~Linked(i0, j0, n, F)
    PROVE  \E i \in 1..n, j \in 1..n : \E A : LevelCut(A, i, j, n, F)
  <1> DEFINE L(i, j) == Lcm(gb[i], gb[j])
             Bad == {d \in Nat : \E i, j \in 1..n : ~Linked(i, j, n, F) /\ Degree(L(i, j)) = d}
  <1>1. \A k \in 1..n : gb[k] \in Monomials
        OBVIOUS
  <1>2. \A i, j \in 1..n : L(i, j) \in Monomials /\ Degree(L(i, j)) \in Nat
        BY <1>1, LcmAssumption, DegreeAssumption
  <1>3. Bad # {}
        BY <1>2
  <1>4. PICK d \in Bad : \A e \in Bad : d <= e
        BY <1>3, LeastNumber
  <1>5. PICK i \in 1..n, j \in 1..n : ~Linked(i, j, n, F) /\ Degree(L(i, j)) = d
        BY <1>4
  <1> DEFINE K == Below(L(i, j), n)
  <1>6. PICK A \in SUBSET K : i \in A /\ j \notin A /\ \A a \in A, b \in K \ A : ~Adjacent(a, b, F)
        BY <1>5 DEF Linked
  <1>7. ASSUME NEW a \in A, NEW b \in K \ A, L(a, b) # L(i, j)
        PROVE  FALSE
    <2>1. a \in 1..n /\ b \in 1..n /\ Divides(gb[a], L(i, j)) /\ Divides(gb[b], L(i, j))
          BY <1>6 DEF Below
    <2>2. Divides(L(a, b), L(i, j))
          BY <2>1, <1>1, <1>2, DividesFacts
    <2>3. Degree(L(a, b)) < Degree(L(i, j))
          BY <2>1, <2>2, <1>2, <1>7, DividesFacts
    <2>4. Linked(a, b, n, F)
      <3>1. ~Linked(a, b, n, F) => Degree(L(a, b)) \in Bad
            BY <2>1, <1>2
      <3>2. Degree(L(a, b)) \in Nat /\ d \in Nat /\ Degree(L(a, b)) < d
            BY <2>1, <2>3, <1>2, <1>5
      <3> QED BY <3>1, <3>2, <1>4
    <2> DEFINE K2 == Below(L(a, b), n)
    <2>5. K2 \subseteq K
      <3> SUFFICES ASSUME NEW k \in K2 PROVE k \in K
          OBVIOUS
      <3>1. k \in 1..n /\ Divides(gb[k], L(a, b))
            BY DEF Below
      <3>2. Divides(gb[k], L(i, j))
        <4>1. gb[k] \in Monomials /\ L(a, b) \in Monomials /\ L(i, j) \in Monomials
              BY <3>1, <2>1, <1>1, <1>2
        <4> QED BY <4>1, <3>1, <2>2, DividesFacts
      <3> QED BY <3>1, <3>2 DEF Below
    <2>6. a \in K2 /\ b \in K2
          BY <2>1, <1>1, DividesFacts DEF Below
    <2>7. \E c \in A \cap K2, e \in K2 \ (A \cap K2) : Adjacent(c, e, F)
          BY <2>4, <2>6 DEF Linked
    <2> QED BY <2>5, <2>7, <1>6
  <1>8. Cut(A, i, j, n, F)
        BY <1>6 DEF Cut
  <1> QED BY <1>7, <1>8 DEF LevelCut

\* The new pairs of an element m: among the elements that have with m the lcm L, the
\* first is coprime to m, or is paired with m unless a chosen pair has an lcm that
\* divides L properly.
LEMMA FirstIsPaired ==
    ASSUME gb \in Seq(Monomials), NEW m \in 1..Len(gb), NEW c \in 1..m - 1,
           First(m, c), ~Coprime(gb[m], gb[c]),
           \A l \in 1..m - 1 :
              Divides(Lcm(gb[m], gb[l]), Lcm(gb[m], gb[c])) => Lcm(gb[m], gb[l]) = Lcm(gb[m], gb[c])
    PROVE  <<m, c>> \in NewPairs(m)
  <1>1. c \in Chosen(m)
        BY DEF Chosen
  <1>2. ASSUME NEW l \in Chosen(m) \ {c}, Divides(Lcm(gb[m], gb[l]), Lcm(gb[m], gb[c]))
        PROVE  FALSE
    <2>1. l \in 1..m - 1 /\ First(m, l) /\ l # c /\ Lcm(gb[m], gb[l]) = Lcm(gb[m], gb[c])
          BY <1>2 DEF Chosen
    <2>2. l \in 1..c - 1 \/ c \in 1..l - 1
          BY <2>1
    <2> QED BY <2>1, <2>2 DEF First
  <1> QED BY <1>1, <1>2 DEF NewPairs

\* When pairs are made for the element m, an old pair is dropped only when
\* pair_not_needed says so, and the pairs of minimalize_pairs_non_ZZ are added:
\* any two elements stay linked.
LEMMA CriteriaKeepLinks ==
    ASSUME gb \in Seq(Monomials), NEW m \in 1..Len(gb), NEW E, NEW F,
           \A i, j \in 1..m - 1 : Linked(i, j, m - 1, E),
           \A p \in E \ F : PairNotNeeded(p, m),
           NewPairs(m) \subseteq F
    PROVE  \A i, j \in 1..m : Linked(i, j, m, F)
  <1> SUFFICES ASSUME NEW i0 \in 1..m, NEW j0 \in 1..m, ~Linked(i0, j0, m, F)
               PROVE  FALSE
      OBVIOUS
  <1> m \in 0..Len(gb)
      OBVIOUS
  <1>1. \A k \in 1..Len(gb) : gb[k] \in Monomials
        OBVIOUS
  <1>2. PICK i \in 1..m, j \in 1..m : \E A : LevelCut(A, i, j, m, F)
        BY LeastCut
  <1>a. PICK A : LevelCut(A, i, j, m, F)
        BY <1>2
  <1> DEFINE L == Lcm(gb[i], gb[j])
             K == Below(L, m)
             B == K \ A
  <1>3. L \in Monomials /\ i \in K /\ j \in K
        BY <1>1, LcmAssumption, DividesFacts DEF Below
  <1>4. /\ A \subseteq K /\ i \in A /\ j \in B
        /\ \A a \in A, b \in B : ~Adjacent(a, b, F) /\ Lcm(gb[a], gb[b]) = L
        BY <1>a, <1>3 DEF Cut, LevelCut
  <1>5. \A k \in K : k \in 1..m /\ gb[k] \in Monomials /\ Divides(gb[k], L)
        BY <1>1 DEF Below
  <1> HIDE DEF L, K, B
  \* Case 1: each side has an old element.
  <1>6. ASSUME NEW a \in A \ {m}, NEW b \in B \ {m}
        PROVE  FALSE
    <2>1. a \in 1..m - 1 /\ b \in 1..m - 1 /\ Lcm(gb[a], gb[b]) = L
          BY <1>4, <1>5 DEF B
    <2>2. Linked(a, b, m - 1, E)
          BY <2>1
    <2> DEFINE K1 == Below(Lcm(gb[a], gb[b]), m - 1)
    <2>3. \A k : k \in K1 <=> k \in K \ {m}
          BY <2>1 DEF Below, K
    <2>4. A \ {m} \in SUBSET K1 /\ a \in A \ {m} /\ b \notin A \ {m}
          BY <2>3, <1>4 DEF B
    <2>5. PICK c \in A \ {m}, e \in K1 \ (A \ {m}) : Adjacent(c, e, E)
          BY <2>2, <2>4 DEF Linked
    <2>6. c \in A /\ e \in B /\ c # m /\ e # m
          BY <2>3, <2>5 DEF B
    <2>7. ~Adjacent(c, e, F) /\ Lcm(gb[c], gb[e]) = L /\ Lcm(gb[e], gb[c]) = L
          BY <2>6, <1>4, <1>5, LcmAssumption DEF B
    <2>8. \/ <<c, e>> \in E \ F /\ PairNotNeeded(<<c, e>>, m)
          \/ <<e, c>> \in E \ F /\ PairNotNeeded(<<e, c>>, m)
          BY <2>5, <2>7 DEF Adjacent
    <2>9. /\ Divides(gb[m], L)
          /\ Lcm(gb[m], gb[c]) # L /\ Lcm(gb[m], gb[e]) # L
          BY <2>7, <2>8 DEF PairNotNeeded, PairLcm
    <2>10. m \in K
          BY <2>9 DEF Below, K
    <2>11. m \in A \/ m \in B
          BY <2>10 DEF B
    <2>12. Lcm(gb[m], gb[e]) = L \/ Lcm(gb[c], gb[m]) = L
          BY <2>6, <2>11, <1>4
    <2>13. Lcm(gb[c], gb[m]) = Lcm(gb[m], gb[c])
          BY <2>6, <1>4, <1>5, <1>1, LcmAssumption
    <2> QED BY <2>9, <2>12, <2>13
  \* Case 2: one side is the new element.
  <1>7. ASSUME NEW S, S # {}, m \in K, S = K \ {m},
               \A c \in S : Lcm(gb[m], gb[c]) = L /\ ~Adjacent(m, c, F) /\ ~Adjacent(c, m, F)
        PROVE  FALSE
    <2>1. S \subseteq 1..m - 1
          BY <1>5, <1>7
    <2>2. PICK c \in S : \A e \in S : c <= e
      <3>1. S \subseteq Nat /\ S # {}
            BY <2>1, <1>7
      <3> QED BY <3>1, LeastNumber, Zenon
    <2>3. \A k \in 1..m - 1 : Divides(Lcm(gb[m], gb[k]), L) => k \in S
      <3> SUFFICES ASSUME NEW k \in 1..m - 1, Divides(Lcm(gb[m], gb[k]), L)
                   PROVE  k \in S
          OBVIOUS
      <3>1. gb[k] \in Monomials /\ gb[m] \in Monomials
            BY <1>1
      <3>2. Divides(gb[k], Lcm(gb[m], gb[k])) /\ Lcm(gb[m], gb[k]) \in Monomials
            BY <3>1, LcmAssumption, DividesFacts
      <3>3. Divides(gb[k], L)
            BY <3>1, <3>2, <1>3, DividesFacts
      <3> QED BY <3>3, <1>7 DEF Below, K
    <2>4. First(m, c)
      <3> SUFFICES ASSUME NEW k \in 1..c - 1, Lcm(gb[m], gb[k]) = Lcm(gb[m], gb[c])
                   PROVE  FALSE
          BY DEF First
      <3>1. k \in 1..m - 1 /\ ~(c <= k)
            BY <2>1
      <3>2. Lcm(gb[m], gb[k]) = L
            BY <1>7
      <3>3. Divides(L, L)
            BY <1>3, LcmAssumption DEF Divides
      <3> QED BY <3>1, <3>2, <3>3, <2>2, <2>3
    <2>5. ~Coprime(gb[m], gb[c])
          BY <1>7 DEF Adjacent
    <2>6. <<m, c>> \in NewPairs(m)
      <3>1. \A l \in 1..m - 1 :
              Divides(Lcm(gb[m], gb[l]), Lcm(gb[m], gb[c])) => Lcm(gb[m], gb[l]) = Lcm(gb[m], gb[c])
            BY <2>3, <1>7
      <3> QED BY <2>1, <2>4, <2>5, <3>1, FirstIsPaired
    <2> QED BY <2>6, <1>7 DEF Adjacent
  <1>8. CASE A = {m}
    <2>1. m \in K /\ B # {} /\ B = K \ {m}
          BY <1>4, <1>8 DEF B
    <2>2. \A c \in B : Lcm(gb[m], gb[c]) = L /\ ~Adjacent(m, c, F) /\ ~Adjacent(c, m, F)
      <3> SUFFICES ASSUME NEW c \in B
                   PROVE  Lcm(gb[m], gb[c]) = L /\ ~Adjacent(m, c, F) /\ ~Adjacent(c, m, F)
          OBVIOUS
      <3>1. ~Adjacent(m, c, F) /\ Lcm(gb[m], gb[c]) = L
            BY <1>4, <1>8
      <3>2. Adjacent(c, m, F) => Adjacent(m, c, F)
            BY <1>1, <1>5, CoprimeAssumption DEF Adjacent, B
      <3> QED BY <3>1, <3>2
    <2> QED BY <2>1, <2>2, <1>7
  <1>9. CASE B = {m}
    <2>1. m \in K /\ A # {} /\ A = K \ {m}
          BY <1>4, <1>9 DEF B
    <2>2. \A c \in A : Lcm(gb[m], gb[c]) = L /\ ~Adjacent(m, c, F) /\ ~Adjacent(c, m, F)
      <3> SUFFICES ASSUME NEW c \in A
                   PROVE  Lcm(gb[m], gb[c]) = L /\ ~Adjacent(m, c, F) /\ ~Adjacent(c, m, F)
          OBVIOUS
      <3>1. ~Adjacent(c, m, F) /\ Lcm(gb[c], gb[m]) = L
            BY <1>4, <1>9
      <3>2. gb[c] \in Monomials /\ gb[m] \in Monomials
            BY <1>1, <1>4, <1>5
      <3>3. Adjacent(m, c, F) => Adjacent(c, m, F)
            BY <3>2, CoprimeAssumption DEF Adjacent
      <3>4. Lcm(gb[m], gb[c]) = Lcm(gb[c], gb[m])
            BY <3>2, LcmAssumption
      <3> QED BY <3>1, <3>3, <3>4
    <2> QED BY <2>1, <2>2, <1>7
  <1> QED BY <1>4, <1>6, <1>8, <1>9

-----------------------------------------------------------------------------
(* The queue *)

Queues == [pairs : SUBSET Items, laterPairs : SUBSET Items,
           gens : SUBSET Items, laterGens : SUBSET Items]

AllOf(L) == L.pairs \cup L.laterPairs \cup L.gens \cup L.laterGens

\* An item is in one of the lists of its kind.
Sorted(L) ==
    /\ L \in Queues
    /\ \A p \in L.pairs \cup L.laterPairs : ~IsGen(p)
    /\ \A p \in L.gens \cup L.laterGens : IsGen(p)
    /\ L.pairs \cap L.laterPairs = {} /\ L.gens \cap L.laterGens = {}

\* Every item is in one place, every pair is of an element that the loop over the
\* new elements has passed, and the two counters count.
QueueInv ==
    /\ gb \in Seq(Monomials) /\ npI \in 0..Len(gb)
    /\ Sorted(lists)
    /\ heap \subseteq Items /\ handled \subseteq Items /\ delayed \subseteq Items
    /\ IsFiniteSet(heap) /\ IsFiniteSet(Listed)
    /\ \A p \in Pending \cup handled : ~IsGen(p) => p[1] <= npI
    /\ heap \cap Listed = {} /\ handled \cap Pending = {}
    /\ nInDegree = Cardinality(Listed)
    /\ nGensLeft = Cardinality(GensIn(Pending))

\* The elements due come from the rest of the degree; the Hilbert function knows
\* how many they are, or has counted beyond zero and flushes no more.
DueInv ==
    /\ due \in Nat /\ due <= nInDegree
    /\ hilb \in [use : BOOLEAN, new : BOOLEAN, n : Int]
    /\ hilb.use => hilb.n = due \/ hilb.n <= 0
    /\ ~hilb.use => hilb.n = 0

\* Removing a part of a finite set.
LEMMA RemovePart ==
    ASSUME NEW S, IsFiniteSet(S), NEW T \in SUBSET S
    PROVE  /\ IsFiniteSet(S \ T) /\ IsFiniteSet(T)
           /\ Cardinality(S) \in Nat /\ Cardinality(T) \in Nat
           /\ Cardinality(T) <= Cardinality(S)
           /\ Cardinality(S \ T) = Cardinality(S) - Cardinality(T)
  <1>1. IsFiniteSet(S \ T) /\ IsFiniteSet(T) /\ Cardinality(T) <= Cardinality(S)
        BY FS_Subset
  <1>2. Cardinality((S \ T) \cup T) =
            Cardinality(S \ T) + Cardinality(T) - Cardinality((S \ T) \cap T)
        BY <1>1, FS_Union
  <1>3. (S \ T) \cup T = S /\ (S \ T) \cap T = {}
        OBVIOUS
  <1>4. /\ Cardinality(S) \in Nat /\ Cardinality(T) \in Nat /\ Cardinality(S \ T) \in Nat
        /\ Cardinality({}) = 0
        BY <1>1, FS_CardinalityType, FS_EmptySet
  <1> QED BY <1>1, <1>2, <1>3, <1>4

\* Taking an item from the lists leaves the others, sorted.
LEMMA WithoutOne ==
    ASSUME Sorted(lists), NEW p \in Candidates
    PROVE  p \in Listed /\ Sorted(Without(p)) /\ AllOf(Without(p)) = Listed \ {p}
  <1>1. CASE p \in lists.pairs
    <2>1. Without(p) = [lists EXCEPT !.pairs = @ \ {p}]
      <3>1. p \notin lists.laterPairs /\ p \notin lists.gens
            BY <1>1 DEF Sorted
      <3> QED BY <1>1, <3>1 DEF Without
    <2> QED BY <1>1, <2>1 DEF Sorted, Queues, AllOf, Listed
  <1>2. CASE p \notin lists.pairs /\ p \in lists.laterPairs
    <2>1. Without(p) = [lists EXCEPT !.pairs = lists.laterPairs \ {p}, !.laterPairs = {}]
      <3>1. p \notin lists.gens
            BY <1>2 DEF Sorted
      <3> QED BY <1>2, <3>1 DEF Without
    <2>2. lists.pairs = {}
          BY <1>2 DEF Candidates
    <2> QED BY <1>2, <2>1, <2>2 DEF Sorted, Queues, AllOf, Listed
  <1>3. CASE p \notin lists.pairs /\ p \notin lists.laterPairs /\ p \in lists.gens
    <2>1. Without(p) = [lists EXCEPT !.gens = @ \ {p}]
          BY <1>3 DEF Without
    <2> QED BY <1>3, <2>1 DEF Sorted, Queues, AllOf, Listed
  <1>4. CASE p \notin lists.pairs /\ p \notin lists.laterPairs /\ p \notin lists.gens
    <2>1. Without(p) = [lists EXCEPT !.gens = lists.laterGens \ {p}, !.laterGens = {}]
          BY <1>4 DEF Without
    <2>2. lists.gens = {} /\ p \in lists.laterGens
          BY <1>4 DEF Candidates
    <2> QED BY <1>4, <2>1, <2>2 DEF Sorted, Queues, AllOf, Listed
  <1> QED BY <1>1, <1>2, <1>3, <1>4

\* A deferred item stays among those of the degree.
LEMMA DeferKeepsItems ==
    ASSUME Sorted(lists), NEW p \in Candidates,
           lists' = IF IsGen(p) THEN [Without(p) EXCEPT !.laterGens = @ \cup {p}]
                                ELSE [Without(p) EXCEPT !.laterPairs = @ \cup {p}]
    PROVE  Sorted(lists)' /\ Listed' = Listed
  <1> DEFINE W == Without(p)
  <1>1. Sorted(W) /\ AllOf(W) = Listed \ {p} /\ p \in Listed
        BY WithoutOne
  <1>2. p \in Items
        BY <1>1 DEF Sorted, Queues, Listed
  <1> HIDE DEF W
  <1>3. lists' = IF IsGen(p) THEN [W EXCEPT !.laterGens = @ \cup {p}]
                             ELSE [W EXCEPT !.laterPairs = @ \cup {p}]
        BY DEF W
  <1>4. W \in Queues
        BY <1>1 DEF Sorted
  <1>5. CASE IsGen(p)
    <2>1. lists' = [W EXCEPT !.laterGens = W.laterGens \cup {p}]
          BY <1>3, <1>5
    <2>2. /\ lists'.pairs = W.pairs /\ lists'.laterPairs = W.laterPairs
          /\ lists'.gens = W.gens /\ lists'.laterGens = W.laterGens \cup {p}
          BY <2>1, <1>4 DEF Queues
    <2>3. lists' \in Queues
          BY <2>1, <1>2, <1>4 DEF Queues
    <2>4. p \notin W.gens
          BY <1>1 DEF AllOf
    <2>5. Sorted(lists')
          BY <2>2, <2>3, <2>4, <1>1, <1>5 DEF Sorted
    <2>6. Listed' = AllOf(W) \cup {p}
          BY <2>2 DEF AllOf, Listed
    <2> QED BY <2>5, <2>6, <1>1 DEF Sorted, IsGen
  <1>6. CASE ~IsGen(p)
    <2>1. lists' = [W EXCEPT !.laterPairs = W.laterPairs \cup {p}]
          BY <1>3, <1>6
    <2>2. /\ lists'.pairs = W.pairs /\ lists'.laterPairs = W.laterPairs \cup {p}
          /\ lists'.gens = W.gens /\ lists'.laterGens = W.laterGens
          BY <2>1, <1>4 DEF Queues
    <2>3. lists' \in Queues
          BY <2>1, <1>2, <1>4 DEF Queues
    <2>4. p \notin W.pairs
          BY <1>1 DEF AllOf
    <2>5. Sorted(lists')
          BY <2>2, <2>3, <2>4, <1>1, <1>6 DEF Sorted
    <2>6. Listed' = AllOf(W) \cup {p}
          BY <2>2 DEF AllOf, Listed
    <2> QED BY <2>5, <2>6, <1>1 DEF Sorted, IsGen
  <1> QED BY <1>5, <1>6

\* Items of the degree that are reduced or discarded leave the queue for good.
LEMMA HandlePart ==
    ASSUME QueueInv, NEW X \in SUBSET Listed,
           heap' = heap, Sorted(lists)', Listed' = Listed \ X, handled' = handled \cup X,
           delayed' = delayed, npI' = npI,
           gb' \in Seq(Monomials), Len(gb) <= Len(gb'),
           nInDegree' = nInDegree - Cardinality(X),
           nGensLeft' = nGensLeft - Cardinality(GensIn(X))
    PROVE  QueueInv' /\ Pending' \cup handled' = Pending \cup handled
  <1>1. IsFiniteSet(Listed') /\ nInDegree' = Cardinality(Listed')
        BY RemovePart DEF QueueInv
  <1>2. Pending' = Pending \ X /\ X \subseteq Pending
        BY DEF QueueInv, Pending
  <1>3. GensIn(Pending') = GensIn(Pending) \ GensIn(X) /\ GensIn(X) \subseteq GensIn(Pending)
        BY <1>2 DEF GensIn
  <1>4. IsFiniteSet(GensIn(Pending))
    <2>1. IsFiniteSet(Pending)
          BY FS_Union DEF QueueInv, Pending
    <2> QED BY <2>1, FS_Subset DEF GensIn
  <1>5. nGensLeft' = Cardinality(GensIn(Pending'))
        BY <1>3, <1>4, RemovePart DEF QueueInv
  <1>6. GensIn(Pending') = GensIn(Pending)'
        BY DEF GensIn, IsGen
  <1>7. X \subseteq Items
        BY DEF QueueInv, Sorted, Queues, Listed
  <1>8. gb' \in Seq(Monomials) /\ npI' \in 0..Len(gb')
        BY DEF QueueInv
  <1>9. /\ heap' \subseteq Items /\ handled' \subseteq Items /\ delayed' \subseteq Items
        /\ IsFiniteSet(heap') /\ heap' \cap Listed' = {} /\ handled' \cap Pending' = {}
        BY <1>2, <1>7 DEF QueueInv
  <1>10. \A p \in Pending' \cup handled' : ~IsGen(p) => p[1] <= npI'
        BY <1>2 DEF QueueInv
  <1>11. Pending' \cup handled' = Pending \cup handled
        BY <1>2
  <1>12. QueueInv'
        BY <1>1, <1>5, <1>6, <1>8, <1>9, <1>10 DEF QueueInv, IsGen
  <1> QED BY <1>11, <1>12

\* What a step leaves alone stays well formed.
LEMMA QueueKept ==
    ASSUME QueueInv, UNCHANGED <<heap, lists, nInDegree, nGensLeft, npI, handled, delayed, gb>>
    PROVE  QueueInv'
  BY DEF QueueInv, Sorted, Queues, Listed, Pending, GensIn, IsGen, Items

\* Setting two fields of the record of the Hilbert function.
LEMMA HilbFields ==
    ASSUME NEW h \in [use : BOOLEAN, new : BOOLEAN, n : Int], NEW k \in Int
    PROVE  /\ [h EXCEPT !.new = TRUE, !.n = k] \in [use : BOOLEAN, new : BOOLEAN, n : Int]
           /\ [h EXCEPT !.new = TRUE, !.n = k].n = k
           /\ [h EXCEPT !.new = TRUE, !.n = k].use = h.use
  OBVIOUS

\* A step that leaves the elements due, the count of the degree and the number the
\* Hilbert function expects keeps their relation.
LEMMA DueKept ==
    ASSUME DueInv, UNCHANGED <<due, nInDegree>>,
           hilb' \in [use : BOOLEAN, new : BOOLEAN, n : Int],
           hilb'.n = hilb.n, hilb.use => hilb'.use
    PROVE  DueInv'
  <1>1. due' = due /\ nInDegree' = nInDegree
        OBVIOUS
  <1>2. due \in Nat /\ due <= nInDegree /\ (hilb.use => hilb.n = due \/ hilb.n <= 0)
        /\ (~hilb.use => hilb.n = 0)
        BY DEF DueInv
  <1>3. hilb'.use => hilb'.n = due \/ hilb'.n <= 0
        BY <1>2
  <1>4. ~hilb'.use => hilb'.n = 0
        BY <1>2
  <1> QED BY <1>1, <1>2, <1>3, <1>4 DEF DueInv

\* Links stay when no item disappears and the elements already passed do not change.
LEMMA CoverKept ==
    ASSUME QueueInv, PairsCovered, npI' = npI,
           \A k \in 1..npI : gb'[k] = gb[k],
           Pending' \cup handled' = Pending \cup handled
    PROVE  PairsCovered'
  <1> SUFFICES ASSUME NEW i \in 1..npI, NEW j \in 1..npI
               PROVE  Linked(i, j, npI, Pending \cup handled)'
      BY DEF PairsCovered
  <1> DEFINE K == Below(Lcm(gb[i], gb[j]), npI)
             E == Pending \cup handled
  <1>1. Linked(i, j, npI, E)
        BY DEF PairsCovered
  <1>2. gb'[i] = gb[i] /\ gb'[j] = gb[j] /\ K' = K
    <2>1. gb'[i] = gb[i] /\ gb'[j] = gb[j]
          OBVIOUS
    <2> QED BY <2>1 DEF Below
  <1>3. \A a, b \in K : Adjacent(a, b, E) => Adjacent(a, b, E)'
    <2>1. \A a \in K : a \in 1..npI
          BY DEF Below
    <2>2. E' = E
          OBVIOUS
    <2> QED BY <2>1, <2>2 DEF Adjacent
  <1>4. ASSUME NEW A \in SUBSET (K'), i \in A, j \notin A
        PROVE  \E a \in A, b \in K' \ A : Adjacent(a, b, E)'
    <2>1. PICK a \in A, b \in K \ A : Adjacent(a, b, E)
          BY <1>1, <1>2, <1>4 DEF Linked
    <2> QED BY <2>1, <1>2, <1>3, <1>4
  <1> QED BY <1>4 DEF Linked

-----------------------------------------------------------------------------
(* The actions that change the queue *)

\* The new pairs of the next element: finite, and new.
LEMMA NewPairsFacts ==
    ASSUME QueueInv, NEW m \in 1..Len(gb)
    PROVE  /\ NewPairs(m) \subseteq Items /\ IsFiniteSet(NewPairs(m))
           /\ \A p \in NewPairs(m) : ~IsGen(p) /\ p[1] = m /\ p[2] \in 1..m - 1
  <1>1. \A p \in NewPairs(m) : \E i \in 1..m - 1 : p = <<m, i>>
        BY DEF NewPairs, Chosen
  <1>2. NewPairs(m) \subseteq (1..m) \X (1..m)
        BY <1>1
  <1>3. IsFiniteSet(NewPairs(m))
    <2>1. IsFiniteSet(1..m)
          BY FS_Interval
    <2>2. IsFiniteSet((1..m) \X (1..m))
          BY <2>1, FS_Product
    <2> QED BY <1>2, <2>2, FS_Subset
  <1>4. \A p \in NewPairs(m) : ~IsGen(p) /\ p[1] = m /\ p[2] \in 1..m - 1 /\ p \in Items
        BY <1>1 DEF IsGen, Items
  <1> QED BY <1>3, <1>4

\* The pairs of a new element: those the criteria discard leave their elements
\* linked (update_pairs).
LEMMA MakePairsQueue ==
    ASSUME QueueInv, DueInv, PairsCovered, MakePairs
    PROVE  QueueInv' /\ DueInv' /\ PairsCovered'
  <1> DEFINE m == npI + 1
  <1>1. m \in 1..Len(gb) /\ npI' = m /\ npI = m - 1 /\ gb' = gb
        BY DEF MakePairs, QueueInv
  <1>2. heap' = {p \in heap : ~PairNotNeeded(p, m)} \cup NewPairs(m)
        BY DEF MakePairs, UpdatePairs
  <1>3. UNCHANGED <<lists, handled, delayed, nInDegree, nGensLeft, due, hilb>> /\ Listed' = Listed
        BY DEF MakePairs, queue, history, Listed
  <1>4. /\ NewPairs(m) \subseteq Items /\ IsFiniteSet(NewPairs(m))
        /\ \A p \in NewPairs(m) : ~IsGen(p) /\ p[1] = m
        BY <1>1, NewPairsFacts
  <1> HIDE DEF m
  <1>5. \A p \in Pending \cup handled : p \notin NewPairs(m)
        BY <1>1, <1>4 DEF QueueInv
  <1>6. GensIn(Pending)' = GensIn(Pending)
        BY <1>2, <1>3, <1>4 DEF Pending, GensIn, IsGen, PairNotNeeded
  <1>7. IsFiniteSet(heap')
    <2>1. IsFiniteSet({p \in heap : ~PairNotNeeded(p, m)})
          BY FS_Subset DEF QueueInv
    <2> QED BY <1>2, <1>4, <2>1, FS_Union
  <1>8. heap' \cap Listed = {} /\ handled \cap (heap' \cup Listed) = {} /\ heap' \subseteq Items
        BY <1>2, <1>4, <1>5 DEF QueueInv, Pending
  <1>9. \A p \in heap' \cup Listed \cup handled : ~IsGen(p) => p[1] <= m
    <2> SUFFICES ASSUME NEW p \in heap' \cup Listed \cup handled, ~IsGen(p)
                 PROVE  p[1] <= m
        OBVIOUS
    <2>1. CASE p \in NewPairs(m)
          BY <2>1, <1>1, <1>4
    <2>2. CASE p \in Pending \cup handled
      <3>1. p \in Items /\ p[1] <= npI
            BY <2>2 DEF QueueInv, Pending, Sorted, Queues, Listed
      <3>2. p[1] \in Nat
            BY <3>1 DEF Items
      <3> QED BY <3>1, <3>2, <1>1
    <2> QED BY <2>1, <2>2, <1>2 DEF Pending
  <1>10. QueueInv'
    <2>1. Pending' = heap' \cup Listed
          BY <1>3 DEF Pending
    <2>2. /\ Sorted(lists)' /\ IsFiniteSet(Listed') /\ nInDegree' = Cardinality(Listed')
          /\ handled' \subseteq Items /\ delayed' \subseteq Items
          BY <1>3 DEF QueueInv, Sorted, IsGen
    <2>3. nGensLeft' = Cardinality(GensIn(Pending))'
          BY <1>3, <1>6 DEF QueueInv
    <2>4. gb' \in Seq(Monomials) /\ npI' \in 0..Len(gb')
          BY <1>1 DEF QueueInv
    <2>5. \A p \in Pending' \cup handled' : ~IsGen(p) => p[1] <= npI'
          BY <2>1, <1>1, <1>3, <1>9
    <2>6. heap' \cap Listed' = {} /\ handled' \cap Pending' = {}
          BY <2>1, <1>3, <1>8
    <2> QED BY <2>1, <2>2, <2>3, <2>4, <2>5, <2>6, <1>7, <1>8 DEF QueueInv, IsGen
  <1>11. DueInv'
         BY <1>3 DEF DueInv
  <1>12. PairsCovered'
    <2> DEFINE E == Pending \cup handled
               F == heap' \cup Listed \cup handled
    <2>1. \A p \in E \ F : PairNotNeeded(p, m)
          BY <1>2 DEF Pending
    <2>2. NewPairs(m) \subseteq F
          BY <1>2
    <2>3. \A i, j \in 1..m - 1 : Linked(i, j, m - 1, E)
          BY <1>1 DEF PairsCovered
    <2>4. gb \in Seq(Monomials)
          BY DEF QueueInv
    <2> HIDE DEF E, F
    <2>5. \A i, j \in 1..m : Linked(i, j, m, F)
          BY <1>1, <2>1, <2>2, <2>3, <2>4, CriteriaKeepLinks
    <2>6. F = (Pending \cup handled)'
          BY <1>3 DEF F, Pending
    <2>7. \A i, j \in 1..m : Linked(i, j, m, F) <=> Linked(i, j, npI, Pending \cup handled)'
          BY <1>1, <2>6 DEF Linked, Below, Adjacent
    <2> QED BY <2>5, <2>7, <1>1 DEF PairsCovered
  <1> QED BY <1>10, <1>11, <1>12

\* The pairs and generators of a degree are a part of the heap.
LEMMA BeginDegreeQueue ==
    ASSUME QueueInv, DueInv, PairsCovered, BeginDegree
    PROVE  QueueInv' /\ DueInv' /\ PairsCovered'
  <1>1. PICK d \in {PairDegree(p) : p \in heap}, found \in 0..MaxElements : PrepareDegree(d, found)
        BY DEF BeginDegree
  <1>2. nInDegree = 0 /\ UNCHANGED <<gb, nPairs, npI, hint, delayed, stops>>
        BY DEF BeginDegree
  <1>3. IsFiniteSet(Listed) /\ Cardinality(Listed) = 0 /\ Listed = {}
        BY <1>2, FS_EmptySet DEF QueueInv
  <1> DEFINE here == OfDegree(d)
             L == [EmptyLists EXCEPT !.pairs = here \ GensIn(here), !.gens = GensIn(here)]
             discard == hilb.use /\ found = 0 /\ ~BeyondDegree(call.stop, d)
  <1>4. here \subseteq heap /\ IsFiniteSet(here) /\ Cardinality(here) \in Nat
    <2>1. here \subseteq heap
          BY DEF OfDegree
    <2> QED BY <2>1, RemovePart DEF QueueInv
  <1>5. /\ heap' = heap \ here /\ due' = found /\ found <= Cardinality(here) /\ found \in Nat
        /\ IF discard THEN Flush(L, Cardinality(here), nGensLeft) /\ handled' = handled \cup here
           ELSE lists' = L /\ nInDegree' = Cardinality(here) /\ UNCHANGED <<nGensLeft, handled>>
    <2>1. found <= Cardinality(here) /\ heap' = heap \ here /\ due' = found
          BY <1>1 DEF PrepareDegree
    <2>2. IF discard THEN Flush(L, Cardinality(here), nGensLeft) /\ handled' = handled \cup here
          ELSE lists' = L /\ nInDegree' = Cardinality(here) /\ UNCHANGED <<nGensLeft, handled>>
          BY <1>1 DEF PrepareDegree
    <2>3. found \in Nat
          BY <1>1, BoundAssumption
    <2> QED BY <2>1, <2>2, <2>3
  <1>6. Sorted(L) /\ AllOf(L) = here
    <2>1. GensIn(here) \subseteq here /\ here \subseteq Items
          BY <1>4 DEF GensIn, QueueInv
    <2>2. /\ L.pairs = here \ GensIn(here) /\ L.gens = GensIn(here)
          /\ L.laterPairs = {} /\ L.laterGens = {} /\ L \in Queues
          BY <2>1 DEF EmptyLists, Queues
    <2> QED BY <2>1, <2>2 DEF Sorted, AllOf, GensIn
  <1>8. /\ hilb' \in [use : BOOLEAN, new : BOOLEAN, n : Int] /\ hilb'.use = hilb.use
        /\ hilb'.n = IF BeyondDegree(call.stop, d) \/ ~hilb.use THEN hilb.n ELSE found
    <2>1. CASE BeyondDegree(call.stop, d)
          BY <1>1, <2>1 DEF PrepareDegree, DueInv
    <2>2. CASE ~BeyondDegree(call.stop, d)
      <3>1. hilb' = [hilb EXCEPT !.n = IF hilb.use THEN found ELSE hilb.n]
            BY <1>1, <2>2 DEF PrepareDegree
      <3> QED BY <2>2, <3>1, <1>5 DEF DueInv
    <2> QED BY <2>1, <2>2
  <1>9. hilb.use => hilb.n <= 0
        BY <1>2 DEF DueInv
  <1> HIDE DEF here, L, discard
  <1>10. CASE discard
    <2>1. /\ lists' = EmptyLists /\ nInDegree' = 0 /\ handled' = handled \cup here
          /\ nGensLeft' = nGensLeft - Cardinality(GensIn(here))
      <3>1. L.pairs \cup L.laterPairs \cup L.gens \cup L.laterGens = here
            BY <1>6 DEF AllOf
      <3>2. Flush(L, Cardinality(here), nGensLeft) /\ handled' = handled \cup here
            BY <1>5, <1>10
      <3>3. nInDegree' = Cardinality(here) - Cardinality(here)
            BY <3>1, <3>2 DEF Flush
      <3>4. nGensLeft' = nGensLeft
                - Cardinality(GensIn(L.pairs \cup L.laterPairs \cup L.gens \cup L.laterGens))
            BY <3>2 DEF Flush
      <3>5. lists' = EmptyLists
            BY <3>2 DEF Flush
      <3>6. nGensLeft' = nGensLeft - Cardinality(GensIn(here))
            BY <3>1, <3>4, Zenon
      <3> QED BY <3>2, <3>3, <3>5, <3>6, <1>4
    <2>2. Sorted(lists)' /\ Listed' = {}
      <3>1. Sorted(EmptyLists) /\ AllOf(EmptyLists) = {}
            BY DEF Sorted, EmptyLists, Queues, AllOf
      <3> QED BY <2>1, <3>1 DEF Sorted, Listed, AllOf, IsGen
    <2>3. Pending = heap /\ Pending' = heap \ here
          BY <1>3, <1>5, <2>2 DEF Pending
    <2>4. nGensLeft' = Cardinality(GensIn(Pending))'
      <3>1. GensIn(heap \ here) = GensIn(heap) \ GensIn(here) /\ GensIn(here) \subseteq GensIn(heap)
            BY <1>4 DEF GensIn
      <3>2. IsFiniteSet(GensIn(heap))
            BY FS_Subset DEF QueueInv, GensIn
      <3>3. nGensLeft = Cardinality(GensIn(heap))
            BY <2>3 DEF QueueInv
      <3>4. nGensLeft' = Cardinality(GensIn(heap \ here))
            BY <2>1, <3>1, <3>2, <3>3, RemovePart
      <3> QED BY <2>3, <3>4 DEF GensIn, IsGen
    <2>5. QueueInv'
      <3>1. /\ heap' \subseteq Items /\ handled' \subseteq Items /\ delayed' \subseteq Items
            /\ IsFiniteSet(heap') /\ IsFiniteSet(Listed') /\ nInDegree' = Cardinality(Listed')
            BY <1>2, <1>4, <1>5, <2>1, <2>2, FS_Subset, FS_EmptySet DEF QueueInv
      <3>2. gb' \in Seq(Monomials) /\ npI' \in 0..Len(gb')
            BY <1>2 DEF QueueInv
      <3>3. \A p \in Pending' \cup handled' : ~IsGen(p) => p[1] <= npI'
            BY <1>2, <1>4, <2>1, <2>3 DEF QueueInv
      <3>4. heap' \cap Listed' = {} /\ handled' \cap Pending' = {}
            BY <1>4, <1>5, <2>1, <2>2, <2>3 DEF QueueInv
      <3> QED BY <2>2, <2>4, <3>1, <3>2, <3>3, <3>4 DEF QueueInv, IsGen
    <2>6. DueInv'
          BY <2>1, <1>5, <1>8, <1>9, <1>10 DEF DueInv, discard
    <2>7. Pending' \cup handled' = Pending \cup handled
          BY <2>1, <2>3, <1>4
    <2>8. PairsCovered'
          BY <2>7, <1>2, CoverKept
    <2> QED BY <2>5, <2>6, <2>8
  <1>11. CASE ~discard
    <2>1. /\ lists' = L /\ nInDegree' = Cardinality(here) /\ handled' = handled
          /\ nGensLeft' = nGensLeft
          BY <1>5, <1>11
    <2>2. Sorted(lists)' /\ Listed' = here
          BY <2>1, <1>6 DEF Sorted, Listed, AllOf, IsGen
    <2>3. Pending = heap /\ Pending' = heap
          BY <1>3, <1>4, <1>5, <2>2 DEF Pending
    <2>4. nGensLeft' = Cardinality(GensIn(Pending))'
      <3>1. GensIn(Pending)' = GensIn(Pending)
            BY <2>3 DEF GensIn, IsGen
      <3> QED BY <2>1, <3>1 DEF QueueInv
    <2>5. QueueInv'
      <3>1. /\ heap' \subseteq Items /\ handled' \subseteq Items /\ delayed' \subseteq Items
            /\ IsFiniteSet(heap') /\ IsFiniteSet(Listed') /\ nInDegree' = Cardinality(Listed')
            BY <1>2, <1>4, <1>5, <2>1, <2>2, FS_Subset DEF QueueInv
      <3>2. gb' \in Seq(Monomials) /\ npI' \in 0..Len(gb')
            BY <1>2 DEF QueueInv
      <3>3. \A p \in Pending' \cup handled' : ~IsGen(p) => p[1] <= npI'
            BY <1>2, <2>1, <2>3 DEF QueueInv
      <3>4. heap' \cap Listed' = {} /\ handled' \cap Pending' = {}
            BY <1>5, <2>1, <2>2, <2>3 DEF QueueInv
      <3> QED BY <2>2, <2>4, <3>1, <3>2, <3>3, <3>4 DEF QueueInv, IsGen
    <2>6. DueInv'
          BY <2>1, <1>5, <1>8, <1>9 DEF DueInv
    <2>7. PairsCovered'
          BY <2>1, <2>3, <1>2, CoverKept
    <2> QED BY <2>5, <2>6, <2>7
  <1> QED BY <1>10, <1>11

\* An item that is deferred, reduced to zero or becomes a basis element; with the
\* last element due, the Hilbert function discards the rest.
LEMMA ProcessSpairQueue ==
    ASSUME QueueInv, DueInv, PairsCovered, ProcessSpair
    PROVE  QueueInv' /\ DueInv' /\ PairsCovered'
  <1>1. PICK p \in Candidates : Defer(p) \/ ReduceToZero(p) \/ InsertGB(p)
        BY DEF ProcessSpair
  <1>2. UNCHANGED <<heap, npI>>
        BY DEF ProcessSpair, loops
  <1>3. /\ Sorted(lists) /\ IsFiniteSet(Listed) /\ nInDegree = Cardinality(Listed)
        /\ nInDegree \in Nat /\ nGensLeft \in Nat
    <2>1. IsFiniteSet(Pending)
          BY FS_Union DEF QueueInv, Pending
    <2>2. IsFiniteSet(GensIn(Pending))
          BY <2>1, FS_Subset DEF GensIn
    <2> QED BY <2>2, FS_CardinalityType DEF QueueInv
  <1>4. p \in Listed /\ Sorted(Without(p)) /\ AllOf(Without(p)) = Listed \ {p}
        BY <1>3, WithoutOne
  <1>5. Cardinality({p}) = 1 /\ {p} \in SUBSET Listed
        BY <1>4, FS_Singleton
  <1>6. LessGen(p) = nGensLeft - Cardinality(GensIn({p}))
    <2>1. CASE IsGen(p)
      <3>1. GensIn({p}) = {p}
            BY <2>1 DEF GensIn
      <3> QED BY <2>1, <3>1, <1>5 DEF LessGen
    <2>2. CASE ~IsGen(p)
      <3>1. GensIn({p}) = {} /\ Cardinality({}) = 0
            BY <2>2, FS_EmptySet DEF GensIn
      <3> QED BY <2>2, <3>1, <1>3 DEF LessGen
    <2> QED BY <2>1, <2>2
  <1>7. CASE Defer(p)
    <2>1. /\ Sorted(lists)' /\ Listed' = Listed
      <3>1. lists' = IF IsGen(p) THEN [Without(p) EXCEPT !.laterGens = @ \cup {p}]
                                 ELSE [Without(p) EXCEPT !.laterPairs = @ \cup {p}]
            BY <1>7 DEF Defer
      <3> QED BY <3>1, <1>3, DeferKeepsItems
    <2>2. /\ delayed' = delayed \cup {p} /\ p \in Items
          /\ UNCHANGED <<gb, nInDegree, nGensLeft, hilb, due, handled>>
          BY <1>3, <1>4, <1>7 DEF Defer, Sorted, Queues, Listed
    <2>3. Pending' = Pending
          BY <1>2, <2>1 DEF Pending
    <2>4. GensIn(Pending)' = GensIn(Pending)
          BY <2>3 DEF GensIn, IsGen
    <2>5. QueueInv'
          BY <1>2, <2>1, <2>2, <2>3, <2>4 DEF QueueInv, IsGen
    <2>6. DueInv'
          BY <2>2 DEF DueInv
    <2>7. PairsCovered'
          BY <1>2, <2>2, <2>3, CoverKept
    <2> QED BY <2>5, <2>6, <2>7
  <1>8. CASE ReduceToZero(p)
    <2>1. /\ due < Cardinality(Listed) /\ lists' = Without(p)
          /\ nInDegree' = nInDegree - 1 /\ nGensLeft' = LessGen(p)
          /\ handled' = handled \cup {p} /\ UNCHANGED <<gb, hilb, due, delayed>>
          BY <1>8 DEF ReduceToZero
    <2>2. Sorted(lists)' /\ Listed' = Listed \ {p}
          BY <2>1, <1>4 DEF Sorted, Listed, AllOf, IsGen
    <2>3. QueueInv' /\ Pending' \cup handled' = Pending \cup handled
      <3>1. gb' \in Seq(Monomials) /\ Len(gb) <= Len(gb')
            BY <2>1 DEF QueueInv
      <3> QED BY <1>2, <1>5, <1>6, <2>1, <2>2, <3>1, HandlePart
    <2>4. DueInv'
          BY <2>1, <1>3 DEF DueInv
    <2>5. PairsCovered'
          BY <1>2, <2>1, <2>3, CoverKept
    <2> QED BY <2>3, <2>4, <2>5
  <1>9. CASE InsertGB(p)
    <2>1. PICK m \in Standard(thisDegree) : gb' = Append(gb, m)
          BY <1>9 DEF InsertGB
    <2>2. /\ m \in Monomials /\ gb' \in Seq(Monomials) /\ Len(gb) <= Len(gb')
          /\ \A k \in 1..npI : gb'[k] = gb[k]
          BY <2>1 DEF Standard, QueueInv
    <2>3. /\ due > 0 /\ due' = due - 1 /\ delayed' = delayed
          /\ hilb' = IF hilb.use THEN [hilb EXCEPT !.new = TRUE, !.n = @ - 1] ELSE hilb
          BY <1>9 DEF InsertGB
    <2>4. CASE hilb.use /\ hilb.n = 1
      <3> DEFINE W == Without(p)
      <3>1. Flush(W, nInDegree - 1, LessGen(p)) /\ handled' = handled \cup Listed
            BY <1>9, <2>4 DEF InsertGB
      <3>2. W.pairs \cup W.laterPairs \cup W.gens \cup W.laterGens = Listed \ {p}
            BY <1>4 DEF AllOf
      <3>3. /\ lists' = EmptyLists
            /\ nInDegree' = (nInDegree - 1) - Cardinality(Listed \ {p})
            /\ nGensLeft' = LessGen(p) - Cardinality(GensIn(Listed \ {p}))
            BY <3>1, <3>2 DEF Flush
      <3>4. Sorted(lists)' /\ Listed' = {}
        <4>1. Sorted(EmptyLists) /\ AllOf(EmptyLists) = {}
              BY DEF Sorted, EmptyLists, Queues, AllOf
        <4> QED BY <3>3, <4>1 DEF Sorted, Listed, AllOf, IsGen
      <3>5. Cardinality(Listed \ {p}) = nInDegree - 1 /\ Cardinality(Listed) \in Nat
            BY <1>3, <1>5, RemovePart
      <3>6. nInDegree' = 0
            BY <3>3, <3>5, <1>3
      <3>7. nGensLeft' = nGensLeft - Cardinality(GensIn(Listed))
        <4>1. GensIn({p}) \in SUBSET GensIn(Listed)
              /\ GensIn(Listed \ {p}) = GensIn(Listed) \ GensIn({p})
              BY <1>4 DEF GensIn
        <4>2. IsFiniteSet(GensIn(Listed))
              BY <1>3, FS_Subset DEF GensIn
        <4>3. /\ Cardinality(GensIn(Listed)) \in Nat /\ Cardinality(GensIn({p})) \in Nat
              /\ Cardinality(GensIn(Listed \ {p})) = Cardinality(GensIn(Listed)) - Cardinality(GensIn({p}))
              BY <4>1, <4>2, RemovePart
        <4> QED BY <3>3, <4>3, <1>3, <1>6
      <3>8. QueueInv' /\ Pending' \cup handled' = Pending \cup handled
        <4>1. Listed' = Listed \ Listed /\ Listed \in SUBSET Listed
              BY <3>4
        <4>2. nInDegree' = nInDegree - Cardinality(Listed)
              BY <3>6, <1>3
        <4> QED BY <1>2, <2>2, <2>3, <3>1, <3>4, <3>7, <4>1, <4>2, HandlePart
      <3>9. DueInv'
        <4>1. due = 1 /\ hilb' = [hilb EXCEPT !.new = TRUE, !.n = hilb.n - 1]
              BY <2>3, <2>4 DEF DueInv
        <4>2. /\ hilb' \in [use : BOOLEAN, new : BOOLEAN, n : Int]
              /\ hilb'.n = 0 /\ hilb'.use = hilb.use
          <5>1. hilb \in [use : BOOLEAN, new : BOOLEAN, n : Int]
                BY DEF DueInv
          <5>2. hilb.n - 1 \in Int /\ hilb.n = 1
                BY <5>1, <2>4
          <5>3. /\ hilb' \in [use : BOOLEAN, new : BOOLEAN, n : Int]
                /\ hilb'.n = hilb.n - 1 /\ hilb'.use = hilb.use
                BY <4>1, <5>1, <5>2, HilbFields
          <5> QED BY <5>2, <5>3
        <4> QED BY <4>1, <4>2, <2>3, <2>4, <3>6 DEF DueInv
      <3>10. PairsCovered'
            BY <1>2, <2>2, <3>8, CoverKept
      <3> QED BY <3>8, <3>9, <3>10
    <2>5. CASE ~(hilb.use /\ hilb.n = 1)
      <3>1. /\ lists' = Without(p) /\ nInDegree' = nInDegree - 1 /\ nGensLeft' = LessGen(p)
            /\ handled' = handled \cup {p}
            BY <1>9, <2>5 DEF InsertGB
      <3>2. Sorted(lists)' /\ Listed' = Listed \ {p}
            BY <3>1, <1>4 DEF Sorted, Listed, AllOf, IsGen
      <3>3. QueueInv' /\ Pending' \cup handled' = Pending \cup handled
            BY <1>2, <1>5, <1>6, <2>2, <2>3, <3>1, <3>2, HandlePart
      <3>4. DueInv'
        <4>1. due' \in Nat /\ due' <= nInDegree'
              BY <2>3, <3>1, <1>3 DEF DueInv
        <4>2. CASE hilb.use
          <5>1. hilb' = [hilb EXCEPT !.new = TRUE, !.n = hilb.n - 1]
                BY <2>3, <4>2
          <5>2. /\ hilb' \in [use : BOOLEAN, new : BOOLEAN, n : Int]
                /\ hilb'.n = hilb.n - 1 /\ hilb'.use = hilb.use /\ hilb.n \in Int
            <6>1. hilb \in [use : BOOLEAN, new : BOOLEAN, n : Int]
                  BY DEF DueInv
            <6>2. hilb.n - 1 \in Int /\ hilb.n \in Int
                  BY <6>1
            <6> QED BY <5>1, <6>1, <6>2, HilbFields
          <5>3. hilb.n = due \/ hilb.n <= 0
                BY <4>2 DEF DueInv
          <5>4. due' = due - 1 /\ due \in Nat
                BY <2>3 DEF DueInv
          <5> QED BY <5>2, <5>3, <5>4, <4>1, <4>2 DEF DueInv
        <4>3. CASE ~hilb.use
              BY <4>1, <4>3, <2>3 DEF DueInv
        <4> QED BY <4>2, <4>3
      <3>5. PairsCovered'
            BY <1>2, <2>2, <3>3, CoverKept
      <3> QED BY <3>3, <3>4, <3>5
    <2> QED BY <2>4, <2>5
  <1> QED BY <1>1, <1>7, <1>8, <1>9

\* When nothing is left, the lists are cleared, and were empty.
LEMMA DoneQueue ==
    ASSUME QueueInv, DueInv, PairsCovered, Done
    PROVE  QueueInv' /\ DueInv' /\ PairsCovered' /\ Pending' = {} /\ due' = 0
  <1>1. /\ nInDegree = 0 /\ heap = {} /\ lists' = EmptyLists
        /\ UNCHANGED <<gb, heap, nInDegree, nGensLeft, npI, hilb, due, handled, delayed>>
        BY DEF Done, loops, history
  <1>2. Listed = {}
        BY <1>1, FS_EmptySet DEF QueueInv
  <1>3. Sorted(lists)' /\ Listed' = {}
    <2>1. Sorted(EmptyLists) /\ AllOf(EmptyLists) = {}
          BY DEF Sorted, EmptyLists, Queues, AllOf
    <2> QED BY <1>1, <2>1 DEF Sorted, Listed, AllOf, IsGen
  <1>4. Pending = {} /\ Pending' = {} /\ GensIn(Pending)' = GensIn(Pending)
        BY <1>1, <1>2, <1>3 DEF Pending, GensIn
  <1>5. QueueInv'
        BY <1>1, <1>2, <1>3, <1>4 DEF QueueInv, IsGen
  <1>6. DueInv' /\ due' = 0
        BY <1>1 DEF DueInv
  <1>7. PairsCovered'
        BY <1>1, <1>4, CoverKept
  <1> QED BY <1>4, <1>5, <1>6, <1>7

-----------------------------------------------------------------------------
(* The invariant of the queue, and what it says *)

GBInv == QueueInv /\ DueInv /\ PairsCovered

\* The queue begins with the generators, and nothing has been handled.
LEMMA InitQueue ==
    ASSUME Init
    PROVE  GBInv
  <1>1. /\ gb = << >> /\ npI = 0 /\ heap = {<<0, g>> : g \in Gens} /\ lists = EmptyLists
        /\ nInDegree = 0 /\ nGensLeft = Cardinality(Gens)
        /\ handled = {} /\ delayed = {} /\ due = 0
        /\ hilb = [use |-> FALSE, new |-> FALSE, n |-> 0]
        BY DEF Init
  <1>2. Sorted(lists) /\ Listed = {}
        BY <1>1 DEF Sorted, EmptyLists, Queues, Listed
  <1>3. IsFiniteSet(heap) /\ Cardinality(heap) = Cardinality(Gens)
    <2> DEFINE f == [g \in Gens |-> <<0, g>>]
    <2>1. f \in Surjection(Gens, heap) /\ f \in Injection(Gens, heap)
          BY <1>1 DEF Surjection, Injection, IsInjective
    <2> QED BY <2>1, BoundAssumption, FS_Surjection
  <1>4. Pending = heap /\ GensIn(Pending) = heap
        BY <1>1, <1>2 DEF Pending, GensIn, IsGen
  <1>5. heap \subseteq Items /\ \A p \in heap : IsGen(p)
        BY <1>1 DEF Items, IsGen
  <1>6. QueueInv
    <2>1. gb \in Seq(Monomials) /\ npI \in 0..Len(gb)
          BY <1>1
    <2>2. heap \subseteq Items /\ handled \subseteq Items /\ delayed \subseteq Items
          BY <1>1, <1>5
    <2>3. /\ IsFiniteSet(heap) /\ IsFiniteSet(Listed)
          /\ nInDegree = Cardinality(Listed) /\ nGensLeft = Cardinality(GensIn(Pending))
          BY <1>1, <1>2, <1>3, <1>4, FS_EmptySet
    <2>4. \A p \in Pending \cup handled : ~IsGen(p) => p[1] <= npI
          BY <1>1, <1>4, <1>5
    <2>5. heap \cap Listed = {} /\ handled \cap Pending = {}
          BY <1>1, <1>2
    <2> QED BY <1>2, <2>1, <2>2, <2>3, <2>4, <2>5 DEF QueueInv
  <1>7. DueInv
        BY <1>1 DEF DueInv
  <1>8. PairsCovered
        BY <1>1 DEF PairsCovered
  <1> QED BY <1>6, <1>7, <1>8 DEF GBInv

\* Steps that leave the queue and the elements alone.
LEMMA QuietQueue ==
    ASSUME GBInv, UNCHANGED <<gb, queue, npI, history>>,
           hilb' \in [use : BOOLEAN, new : BOOLEAN, n : Int],
           hilb'.n = hilb.n, hilb.use => hilb'.use
    PROVE  GBInv'
  <1>1. UNCHANGED <<gb, heap, lists, nInDegree, nGensLeft, npI, handled, delayed, due>>
        BY DEF queue, history
  <1>2. QueueInv'
        BY <1>1, QueueKept DEF GBInv
  <1>3. DueInv'
        BY <1>1, DueKept DEF GBInv
  <1>4. Pending' \cup handled' = Pending \cup handled
        BY <1>1 DEF Pending, Listed
  <1>5. PairsCovered'
        BY <1>1, <1>4, CoverKept DEF GBInv
  <1> QED BY <1>2, <1>3, <1>5 DEF GBInv

\* Every step of the machine keeps the invariant of the queue.
LEMMA NextQueue ==
    ASSUME GBInv, [Next]_vars
    PROVE  GBInv'
  <1> DEFINE Hilberts == [use : BOOLEAN, new : BOOLEAN, n : Int]
  <1>1. QueueInv /\ DueInv /\ PairsCovered /\ hilb \in Hilberts
        BY DEF GBInv, DueInv
  <1> DEFINE Quiet == /\ UNCHANGED <<gb, queue, npI, history>>
                      /\ hilb' \in Hilberts /\ hilb'.n = hilb.n /\ (hilb.use => hilb'.use)
  <1>2. Quiet => GBInv'
        BY QuietQueue
  <1>3. hilb' = hilb => hilb' \in Hilberts /\ hilb'.n = hilb.n /\ (hilb.use => hilb'.use)
        BY <1>1
  <1>4. CASE MakePairs
        BY <1>1, <1>4, MakePairsQueue DEF GBInv
  <1>5. CASE Done
        BY <1>1, <1>5, DoneQueue DEF GBInv
  <1>6. CASE BeginDegree
        BY <1>1, <1>6, BeginDegreeQueue DEF GBInv
  <1>7. CASE ProcessSpair
        BY <1>1, <1>7, ProcessSpairQueue DEF GBInv
  <1>8. CASE MakePairsInterrupted \/ MakePairsDone \/ ResumeDegree \/ DegreeDone
             \/ AutoReduce \/ AutoReduceDone
    <2>1. UNCHANGED <<gb, queue, npI, history, hilb>>
          BY <1>8 DEF MakePairsInterrupted, MakePairsDone, ResumeDegree, DegreeDone,
                      AutoReduce, AutoReduceDone, loops
    <2> QED BY <2>1, <1>2, <1>3
  <1>9. CASE Hilb
    <2>1. UNCHANGED <<gb, queue, npI, history>>
          BY <1>9 DEF Hilb, loops
    <2>2. hilb' = hilb \/ hilb' = [hilb EXCEPT !.new = FALSE]
          BY <1>9 DEF Hilb
    <2>3. hilb' \in Hilberts /\ hilb'.n = hilb.n /\ hilb'.use = hilb.use
          BY <2>2, <1>1
    <2> QED BY <2>1, <2>3, <1>2
  <1>10. CASE \E s \in StopChoices : Start(s)
    <2>1. PICK s \in StopChoices : Start(s)
          BY <1>10
    <2>2. UNCHANGED <<gb, queue, npI, history>>
          BY <2>1 DEF Start, loops
    <2>3. hilb' = hilb \/ hilb' = [hilb EXCEPT !.use = TRUE, !.new = TRUE]
          BY <2>1 DEF Start, SetHilbertFunction
    <2>4. hilb' \in Hilberts /\ hilb'.n = hilb.n /\ (hilb.use => hilb'.use)
          BY <2>3, <1>1
    <2> QED BY <2>2, <2>4, <1>2
  <1>11. CASE UNCHANGED vars
    <2>1. UNCHANGED <<gb, queue, npI, history, hilb>>
          BY <1>11 DEF vars, loops
    <2> QED BY <2>1, <1>2, <1>3
  <1> QED BY <1>4, <1>5, <1>6, <1>7, <1>8, <1>9, <1>10, <1>11 DEF Next, Compute

\* In every behaviour the queue is well formed and the criteria are sound.
THEOREM QueueCorrect == Spec => []GBInv
  <1>1. Init => GBInv
        BY InitQueue
  <1>2. GBInv /\ [Next]_vars => GBInv'
        BY NextQueue
  <1> QED BY <1>1, <1>2, PTL DEF Spec

\* Whatever pairs the criteria of Gebauer and Moeller discard, in whatever order the
\* degrees, limits and interrupts come: any two elements stay linked, at or below
\* their lcm, by pairs that are pending or have been reduced.
THEOREM CriteriaSound == Spec => []PairsCovered
  <1>1. GBInv => PairsCovered
        BY DEF GBInv
  <1> QED BY <1>1, QueueCorrect, PTL

\* The counters that end a degree and the computation count what is queued.
THEOREM CountersCorrect == Spec => []CountersExact
  <1>1. GBInv => CountersExact
        BY DEF GBInv, QueueInv, CountersExact
  <1> QED BY <1>1, QueueCorrect, PTL

\* No item is queued again after it has been reduced or discarded.
THEOREM ItemsHandledOnce == Spec => []HandledOnce
  <1>1. GBInv => HandledOnce
        BY DEF GBInv, QueueInv, HandledOnce
  <1> QED BY <1>1, QueueCorrect, PTL

\* The Hilbert function never discards an item while an element is still due.
THEOREM FlushCorrect == Spec => []NothingDueIsFlushed
  <1>1. GBInv => NothingDueIsFlushed
    <2> SUFFICES ASSUME GBInv, Listed = {} PROVE due = 0
        BY DEF NothingDueIsFlushed
    <2>1. nInDegree = 0
          BY FS_EmptySet DEF GBInv, QueueInv
    <2> QED BY <2>1 DEF GBInv, DueInv
  <1> QED BY <1>1, QueueCorrect, PTL

-----------------------------------------------------------------------------
(* The state machine *)

States == {"newdegree", "newpairs", "hilb", "spairs", "autoreduce", "done"}
Statuses == {"not started", "interrupted", "done", "degree limit",
             "gb limit", "pair limit", "min gens"}
Calls == [running : BOOLEAN, stop : StopConditions, status : Statuses]

MachineInv ==
    /\ state \in States
    /\ thisDegree \in Nat /\ completeThru \in Int
    /\ arI \in 0..Len(gb) /\ arJ \in Nat /\ nPairs \in Nat
    /\ call \in Calls
    /\ hint \in BOOLEAN /\ stops \in 0..MaxStops

\* A call that returns has its status, and the others of its fields.
LEMMA ReturnFields ==
    ASSUME call \in Calls, NEW status \in Statuses, Return(status)
    PROVE  call' \in Calls /\ ~call'.running /\ call'.status = status
  <1>1. call' = [call EXCEPT !.running = FALSE, !.status = status]
        BY DEF Return
  <1> QED BY <1>1 DEF Calls

\* The limits a call may be told of.
LEMMA LimitStatus ==
    ASSUME NEW s, NEW e, NEW p, NEW g, LimitReached(s, e, p, g) # "computing"
    PROVE  LimitReached(s, e, p, g) \in Statuses \ {"done"}
  <1>1. LimitReached(s, e, p, g) \in {"gb limit", "pair limit", "min gens", "computing"}
    <2> DEFINE A == s.kind = "elements" /\ s.n > 0 /\ e >= s.n
               B == s.kind = "pairs" /\ s.n > 0 /\ p >= s.n
               C == s.kind = "mingens" /\ g = 0
    <2>1. LimitReached(s, e, p, g) = CASE A -> "gb limit" [] B -> "pair limit" [] C -> "min gens"
                                       [] OTHER -> "computing"
          BY DEF LimitReached
    <2>2. ~(A /\ B) /\ ~(A /\ C) /\ ~(B /\ C)
          OBVIOUS
    <2> HIDE DEF A, B, C
    <2> QED BY <2>1, <2>2
  <1> QED BY <1>1 DEF Statuses

\* Starting a call: its status is kept, or names a limit that was already reached.
LEMMA StartFields ==
    ASSUME call \in Calls, stops \in 0..MaxStops, NEW s \in StopChoices, Start(s)
    PROVE  /\ call' \in Calls /\ call.status # "done" /\ call'.status # "done"
           /\ stops' \in 0..MaxStops
  <1> DEFINE limit == LimitReached(s, Len(gb), nPairs, nGensLeft)
             early == IF limit # "computing" THEN limit
                      ELSE IF BeyondDegree(s, thisDegree) THEN "degree limit" ELSE "computing"
             status == IF s.kind = "always" \/ early = "computing" THEN call.status ELSE early
  <1>1. /\ call' = [running |-> s.kind # "always" /\ early = "computing", stop |-> s,
                    status |-> status]
        /\ call.status # "done"
        BY DEF Start
  <1>2. early # "computing" => early \in Statuses \ {"done"}
        BY LimitStatus DEF Statuses
  <1> HIDE DEF early
  <1>3. status \in Statuses \ {"done"}
        BY <1>1, <1>2 DEF Calls
  <1>4. s \in StopConditions
        BY BoundAssumption DEF StopConditions
  <1>5. stops' \in 0..MaxStops
    <2>1. MaxStops \in Nat /\ (s.kind # "none" => stops < MaxStops)
          /\ stops' = IF s.kind = "none" THEN stops ELSE stops + 1
          BY BoundAssumption DEF Start
    <2> QED BY <2>1
  <1> QED BY <1>1, <1>3, <1>4, <1>5 DEF Calls

\* The degree of an item of the heap is a number.
LEMMA PairDegreeNat ==
    ASSUME QueueInv, NEW p \in heap
    PROVE  PairDegree(p) \in Nat
  <1>1. p \in Items /\ (~IsGen(p) => p[1] <= npI)
        BY DEF QueueInv, Pending
  <1>2. CASE IsGen(p)
    <2>1. p[2] \in Gens
          BY <1>1, <1>2 DEF Items, IsGen
    <2> QED BY <2>1, <1>2, BoundAssumption DEF PairDegree
  <1>3. CASE ~IsGen(p)
    <2>1. p[1] \in 1..Len(gb) /\ p[2] \in 1..Len(gb)
          BY <1>1, <1>3 DEF Items, IsGen, QueueInv
    <2>2. gb[p[1]] \in Monomials /\ gb[p[2]] \in Monomials
          BY <2>1 DEF QueueInv
    <2> QED BY <2>2, <1>3, LcmAssumption, DegreeAssumption DEF PairDegree, PairLcm
  <1> QED BY <1>2, <1>3

\* An interrupt ends the call with its own status.
LEMMA InterruptedFields ==
    ASSUME call \in Calls, stops \in 0..MaxStops, Interrupted
    PROVE  call' \in Calls /\ ~call'.running /\ call'.status = "interrupted" /\ stops' \in 0..MaxStops
  <1>1. "interrupted" \in Statuses /\ Return("interrupted")
        BY DEF Statuses, Interrupted
  <1>2. stops' \in 0..MaxStops
        BY BoundAssumption DEF Interrupted
  <1> QED BY <1>1, <1>2, ReturnFields

\* What a step does to the call.
LEMMA CallStep ==
    ASSUME call \in Calls, stops \in 0..MaxStops, [Next]_vars
    PROVE  /\ call' \in Calls /\ stops' \in 0..MaxStops
           /\ (Next => call.status # "done" \/ call.running)
           /\ call' # call /\ ~ (\E s \in StopChoices : Start(s)) =>
                 ~call'.running /\ (call'.status = "done" => Done)
  <1>1. CASE MakePairs \/ MakePairsDone \/ ResumeDegree \/ DegreeDone
    <2>1. call' = call /\ stops' = stops /\ call.running
          BY <1>1 DEF MakePairs, MakePairsDone, ResumeDegree, DegreeDone, In
    <2> QED BY <2>1
  <1>2. CASE MakePairsInterrupted
    <2>1. call.running /\ Interrupted
          BY <1>2 DEF MakePairsInterrupted, In
    <2> QED BY <2>1, InterruptedFields
  <1>3. CASE Hilb
    <2>1. call.running /\ (GoOn \/ Interrupted)
          BY <1>3 DEF Hilb, In
    <2> QED BY <2>1, InterruptedFields DEF GoOn
  <1>4. CASE Done
    <2>1. call.running /\ Return("done") /\ stops' = stops /\ "done" \in Statuses
          BY <1>4 DEF Done, In, Statuses
    <2> QED BY <2>1, <1>4, ReturnFields
  <1>5. CASE BeginDegree
    <2>1. call.running /\ stops' = stops /\ (call' = call \/ Return("degree limit"))
          BY <1>5 DEF BeginDegree, PrepareDegree, In
    <2>2. "degree limit" \in Statuses
          BY DEF Statuses
    <2> QED BY <2>1, <2>2, ReturnFields
  <1>6. CASE ProcessSpair
    <2> DEFINE limit == LimitReached(call.stop, Len(gb'), nPairs', nGensLeft')
    <2>1. call.running /\ IF limit # "computing" THEN Return(limit) /\ UNCHANGED stops
                          ELSE GoOn \/ Interrupted
          BY <1>6 DEF ProcessSpair, In
    <2>2. limit # "computing" => limit \in Statuses \ {"done"}
          BY LimitStatus
    <2> HIDE DEF limit
    <2> QED BY <2>1, <2>2, ReturnFields, InterruptedFields DEF GoOn
  <1>7. CASE AutoReduce
    <2>1. call.running /\ (GoOn \/ Interrupted)
          BY <1>7 DEF AutoReduce, In
    <2> QED BY <2>1, InterruptedFields DEF GoOn
  <1>8. CASE AutoReduceDone
    <2>1. call.running /\ stops' = stops /\ (call' = call \/ Return("degree limit"))
          BY <1>8 DEF AutoReduceDone, In
    <2>2. "degree limit" \in Statuses
          BY DEF Statuses
    <2> QED BY <2>1, <2>2, ReturnFields
  <1>9. CASE \E s \in StopChoices : Start(s)
        BY <1>9, StartFields
  <1>10. CASE ~Next /\ UNCHANGED vars
        BY <1>10 DEF vars
  <1> QED BY <1>1, <1>2, <1>3, <1>4, <1>5, <1>6, <1>7, <1>8, <1>9, <1>10 DEF Next, Compute

\* A step keeps the elements; only the processing of an item adds one.
LEMMA ElementsStep ==
    ASSUME QueueInv, [Next]_vars
    PROVE  /\ Len(gb) <= Len(gb') /\ \A k \in 1..Len(gb) : gb'[k] = gb[k]
           /\ gb' = gb \/ (ProcessSpair /\ \E m \in Standard(thisDegree) : gb' = Append(gb, m))
  <1>1. gb \in Seq(Monomials)
        BY DEF QueueInv
  <1>2. gb' = gb \/ (ProcessSpair /\ \E m \in Standard(thisDegree) : gb' = Append(gb, m))
    <2>1. CASE ProcessSpair
          BY <2>1 DEF ProcessSpair, Defer, ReduceToZero, InsertGB
    <2>2. CASE \E s \in StopChoices : Start(s)
          BY <2>2 DEF Start
    <2>3. CASE BeginDegree
          BY <2>3 DEF BeginDegree
    <2>4. CASE MakePairs \/ MakePairsInterrupted \/ MakePairsDone \/ Hilb \/ Done
               \/ ResumeDegree \/ DegreeDone \/ AutoReduce \/ AutoReduceDone
          BY <2>4 DEF MakePairs, MakePairsInterrupted, MakePairsDone, Hilb, Done,
                      ResumeDegree, DegreeDone, AutoReduce, AutoReduceDone
    <2>5. CASE UNCHANGED vars
          BY <2>5 DEF vars
    <2> QED BY <2>1, <2>2, <2>3, <2>4, <2>5 DEF Next, Compute
  <1>3. ASSUME NEW m \in Standard(thisDegree), gb' = Append(gb, m)
        PROVE  Len(gb) <= Len(gb') /\ \A k \in 1..Len(gb) : gb'[k] = gb[k]
        BY <1>1, <1>3 DEF Standard
  <1> QED BY <1>2, <1>3

\* Every step keeps the types of the machine.
LEMMA MachineStep ==
    ASSUME QueueInv, MachineInv, [Next]_vars
    PROVE  MachineInv'
  <1>1. call' \in Calls /\ stops' \in 0..MaxStops
        BY CallStep DEF MachineInv
  <1>2. hint' \in BOOLEAN
    <2>1. hint' = hint
      <3>1. CASE ProcessSpair
            BY <3>1 DEF ProcessSpair
      <3>2. CASE (\E s \in StopChoices : Start(s)) \/ BeginDegree
            BY <3>2 DEF Start, BeginDegree
      <3>3. CASE MakePairs \/ MakePairsInterrupted \/ MakePairsDone \/ Hilb \/ Done
                 \/ ResumeDegree \/ DegreeDone \/ AutoReduce \/ AutoReduceDone
            BY <3>3 DEF MakePairs, MakePairsInterrupted, MakePairsDone, Hilb, Done,
                        ResumeDegree, DegreeDone, AutoReduce, AutoReduceDone
      <3>4. CASE UNCHANGED vars
            BY <3>4 DEF vars
      <3> QED BY <3>1, <3>2, <3>3, <3>4 DEF Next, Compute
    <2> QED BY <2>1 DEF MachineInv
  <1>3. state' \in States
    <2>1. CASE ProcessSpair
          BY <2>1 DEF ProcessSpair, MachineInv
    <2>2. CASE \E s \in StopChoices : Start(s)
          BY <2>2 DEF Start, SetHilbertFunction, MachineInv, States
    <2>3. CASE BeginDegree
          BY <2>3 DEF BeginDegree, PrepareDegree, MachineInv, States
    <2>4. CASE MakePairs \/ MakePairsInterrupted \/ MakePairsDone \/ Hilb \/ Done
               \/ ResumeDegree \/ DegreeDone \/ AutoReduce \/ AutoReduceDone
          BY <2>4 DEF MakePairs, MakePairsInterrupted, MakePairsDone, Hilb, Done,
                      ResumeDegree, DegreeDone, AutoReduce, AutoReduceDone, MachineInv, States
    <2>5. CASE UNCHANGED vars
          BY <2>5 DEF vars, MachineInv
    <2> QED BY <2>1, <2>2, <2>3, <2>4, <2>5 DEF Next, Compute
  <1>4. thisDegree' \in Nat /\ completeThru' \in Int
    <2>1. CASE UNCHANGED degrees
          BY <2>1 DEF degrees, MachineInv
    <2>2. CASE Done
          BY <2>2 DEF Done, MachineInv
    <2>3. CASE BeginDegree
      <3>1. PICK d \in {PairDegree(p) : p \in heap} : thisDegree' = d /\ completeThru' = d - 1
            BY <2>3 DEF BeginDegree, PrepareDegree
      <3> QED BY <3>1, PairDegreeNat
    <2>4. CASE ProcessSpair \/ (\E s \in StopChoices : Start(s))
          BY <2>1, <2>4 DEF ProcessSpair, Start
    <2>5. CASE MakePairs \/ MakePairsInterrupted \/ MakePairsDone \/ Hilb
               \/ ResumeDegree \/ DegreeDone \/ AutoReduce \/ AutoReduceDone
          BY <2>1, <2>5 DEF MakePairs, MakePairsInterrupted, MakePairsDone, Hilb,
                      ResumeDegree, DegreeDone, AutoReduce, AutoReduceDone
    <2>6. CASE UNCHANGED vars
          BY <2>1, <2>6 DEF vars
    <2> QED BY <2>2, <2>3, <2>4, <2>5, <2>6 DEF Next, Compute
  <1>5. arI' \in 0..Len(gb') /\ arJ' \in Nat /\ nPairs' \in Nat
    <2>0. gb \in Seq(Monomials) /\ Len(gb) \in Nat /\ Len(gb) <= Len(gb') /\ Len(gb') \in Nat
      <3>1. gb' \in Seq(Monomials)
        <4>1. gb \in Seq(Monomials)
              BY DEF QueueInv
        <4>2. \A m \in Standard(thisDegree) : m \in Monomials
              BY DEF Standard
        <4> QED BY <4>1, <4>2, ElementsStep
      <3> QED BY <3>1, ElementsStep DEF QueueInv
    <2>1. CASE UNCHANGED <<arI, arJ, nPairs>>
          BY <2>0, <2>1 DEF MachineInv
    <2>2. CASE ProcessSpair
          BY <2>0, <2>2 DEF ProcessSpair, loops, MachineInv
    <2>3. CASE BeginDegree
      <3>1. gb' = gb /\ nPairs' = nPairs
            BY <2>3 DEF BeginDegree
      <3>2. (arI' = arI /\ arJ' = arJ) \/ (arI' = Len(gb) /\ arJ' = Len(gb) + 1)
            BY <2>3 DEF BeginDegree, PrepareDegree
      <3> QED BY <3>1, <3>2, <2>0 DEF MachineInv
    <2>4. CASE ResumeDegree
          BY <2>0, <2>4 DEF ResumeDegree, MachineInv
    <2>5. CASE AutoReduce
      <3>1. gb' = gb /\ nPairs' = nPairs /\ arI < Len(gb)
            BY <2>5 DEF AutoReduce
      <3>2. \/ arI' = arI /\ arJ' = arJ
            \/ arI' = arI /\ arJ' = arJ + 1
            \/ arI' = arI + 1 /\ arJ' = arI + 2
            BY <2>5 DEF AutoReduce
      <3> QED BY <3>1, <3>2, <2>0 DEF MachineInv
    <2>6. CASE MakePairs \/ MakePairsInterrupted \/ MakePairsDone \/ Hilb \/ Done
               \/ DegreeDone \/ AutoReduceDone
          BY <2>1, <2>6 DEF MakePairs, MakePairsInterrupted, MakePairsDone, Hilb, Done,
                      DegreeDone, AutoReduceDone, loops
    <2>7. CASE (\E s \in StopChoices : Start(s)) \/ UNCHANGED vars
          BY <2>1, <2>7 DEF Start, loops, vars
    <2> QED BY <2>2, <2>3, <2>4, <2>5, <2>6, <2>7 DEF Next, Compute
  <1> QED BY <1>1, <1>2, <1>3, <1>4, <1>5 DEF MachineInv

\* The machine starts well.
LEMMA MachineInit == Init => MachineInv
  <1> SUFFICES ASSUME Init PROVE MachineInv
      OBVIOUS
  <1>1. call = [running |-> FALSE, stop |-> [kind |-> "none", n |-> 0], status |-> "not started"]
        BY DEF Init
  <1>2. call \in Calls
        BY <1>1 DEF Calls, StopConditions, Statuses
  <1>3. state \in States /\ hint \in BOOLEAN /\ nPairs = 0
        BY DEF Init, States
  <1>4. gb = << >> /\ arI = 0 /\ arJ = 1 /\ stops = 0 /\ MaxStops \in Nat
        BY BoundAssumption DEF Init
  <1>5. Len(gb) = 0
        BY <1>4
  <1>6. arI \in 0..Len(gb) /\ arJ \in Nat /\ stops \in 0..MaxStops
        BY <1>4, <1>5
  <1>7. thisDegree = 0 /\ completeThru = 0
        BY DEF Init
  <1> QED BY <1>2, <1>3, <1>6, <1>7 DEF MachineInv

\* Every variable has its type in every reachable state.
THEOREM TypeCorrect == Spec => []TypeOK
  <1>1. Init => MachineInv
        BY MachineInit
  <1>2. GBInv /\ MachineInv /\ [Next]_vars => MachineInv'
        BY MachineStep DEF GBInv
  <1>3. GBInv /\ MachineInv => TypeOK
    <2> SUFFICES ASSUME GBInv, MachineInv PROVE TypeOK
        OBVIOUS
    <2>1. gb \in Seq(Monomials) /\ npI \in 0..Len(gb) /\ Listed \subseteq Items
          BY DEF GBInv, QueueInv, Sorted, Queues, Listed
    <2>2. \A p \in Pending \cup handled : ~IsGen(p) => p[1] <= Len(gb)
      <3> SUFFICES ASSUME NEW p \in Pending \cup handled, ~IsGen(p)
                   PROVE  p[1] <= Len(gb)
          OBVIOUS
      <3>1. p \in Items /\ p[1] <= npI
            BY <2>1 DEF GBInv, QueueInv, Pending
      <3>2. p[1] \in Nat
            BY <3>1 DEF Items
      <3> QED BY <3>1, <3>2, <2>1
    <2>3. nInDegree \in Nat /\ nGensLeft \in Nat
      <3>1. IsFiniteSet(Listed) /\ IsFiniteSet(GensIn(Pending))
        <4>1. IsFiniteSet(Listed) /\ IsFiniteSet(Pending)
              BY FS_Union DEF GBInv, QueueInv, Pending
        <4> QED BY <4>1, FS_Subset DEF GensIn
      <3> QED BY <3>1, FS_CardinalityType DEF GBInv, QueueInv
    <2>4. due \in Nat /\ hilb \in [use : BOOLEAN, new : BOOLEAN, n : Int]
          BY DEF GBInv, DueInv
    <2>5. heap \cup Listed \cup handled \cup delayed \subseteq Items
          BY <2>1 DEF GBInv, QueueInv
    <2> QED BY <2>1, <2>2, <2>3, <2>4, <2>5 DEF MachineInv, Calls, States, Statuses, TypeOK
  <1> QED BY <1>1, <1>2, <1>3, QueueCorrect, PTL DEF Spec

-----------------------------------------------------------------------------
(* The end of the computation *)

\* Pairs have been made of all elements when a degree may begin; a finished
\* computation has an empty queue; the Hilbert function is given before any
\* element is found.
EndInv ==
    /\ state \in {"hilb", "newdegree", "done"} => npI = Len(gb)
    /\ call.status = "done" => ~call.running /\ Pending = {} /\ due = 0 /\ npI = Len(gb)
    /\ hint /\ ~hilb.use => gb = << >> /\ ~call.running

\* Once the Hilbert function is used it is used for good.
LEMMA HilbKept ==
    ASSUME DueInv, [Next]_vars
    PROVE  hilb.use => hilb'.use
  <1>1. hilb \in [use : BOOLEAN, new : BOOLEAN, n : Int]
        BY DEF DueInv
  <1>2. CASE UNCHANGED hilb
        BY <1>2
  <1>3. CASE BeginDegree
    <2>1. PICK d \in {PairDegree(p) : p \in heap}, found \in 0..MaxElements : PrepareDegree(d, found)
          BY <1>3 DEF BeginDegree
    <2>2. hilb' = hilb \/ hilb' = [hilb EXCEPT !.n = IF hilb.use THEN found ELSE @]
          BY <2>1 DEF PrepareDegree
    <2> QED BY <1>1, <2>2
  <1>4. CASE ProcessSpair
    <2>1. hilb' = hilb \/ hilb' = [hilb EXCEPT !.new = TRUE, !.n = @ - 1]
          BY <1>4 DEF ProcessSpair, Defer, ReduceToZero, InsertGB
    <2> QED BY <1>1, <2>1
  <1>5. CASE Hilb
        BY <1>1, <1>5 DEF Hilb
  <1>6. CASE \E s \in StopChoices : Start(s)
        BY <1>1, <1>6 DEF Start, SetHilbertFunction
  <1>7. CASE MakePairs \/ MakePairsInterrupted \/ MakePairsDone \/ Done \/ ResumeDegree
             \/ DegreeDone \/ AutoReduce \/ AutoReduceDone \/ UNCHANGED vars
        BY <1>2, <1>7 DEF MakePairs, MakePairsInterrupted, MakePairsDone, Done, ResumeDegree,
                    DegreeDone, AutoReduce, AutoReduceDone, vars
  <1> QED BY <1>3, <1>4, <1>5, <1>6, <1>7 DEF Next, Compute

\* Every step keeps EndInv when the Hilbert function is not given again.
LEMMA EndStep ==
    ASSUME ~Rehint, GBInv, MachineInv, EndInv, [Next]_vars
    PROVE  EndInv'
  <1>1. /\ gb \in Seq(Monomials) /\ npI \in 0..Len(gb) /\ Len(gb) \in Nat /\ call \in Calls
        /\ hilb \in [use : BOOLEAN, new : BOOLEAN, n : Int] /\ due \in Nat /\ due <= nInDegree
        /\ stops \in 0..MaxStops
        BY DEF GBInv, QueueInv, DueInv, MachineInv
  <1>2. hilb.use => hilb'.use
        BY HilbKept DEF GBInv
  <1>3. CASE Compute /\ ~Done
    <2>1. call.running /\ call.status # "done" /\ (hint => hilb.use) /\ hint' = hint
      <3>1. call.running
            BY <1>3 DEF Compute, MakePairs, MakePairsInterrupted, MakePairsDone, Hilb, Done,
                   BeginDegree, ResumeDegree, ProcessSpair, DegreeDone, AutoReduce,
                   AutoReduceDone, In
      <3>2. hint' = hint
            BY <1>3 DEF Compute, MakePairs, MakePairsInterrupted, MakePairsDone, Hilb, Done,
                   BeginDegree, ResumeDegree, ProcessSpair, DegreeDone, AutoReduce,
                   AutoReduceDone
      <3> QED BY <3>1, <3>2 DEF EndInv
    <2>2. call'.status # "done"
      <3>1. ~(\E s \in StopChoices : Start(s))
            BY <2>1 DEF Start
      <3> QED BY <3>1, <2>1, <1>1, <1>3, CallStep DEF Next
    <2>3. state' \in {"hilb", "newdegree", "done"} => npI' = Len(gb')
      <3>1. CASE MakePairs \/ MakePairsInterrupted \/ ProcessSpair \/ ResumeDegree
                 \/ DegreeDone \/ AutoReduce \/ AutoReduceDone
        <4>1. state' \in {"newpairs", "spairs", "autoreduce"}
              BY <3>1 DEF MakePairs, MakePairsInterrupted, ProcessSpair, ResumeDegree,
                     DegreeDone, AutoReduce, AutoReduceDone, In
        <4> QED BY <4>1
      <3>2. CASE MakePairsDone
            BY <3>2 DEF MakePairsDone, loops
      <3>3. CASE Hilb
            BY <3>3 DEF Hilb, loops, In, EndInv
      <3>4. CASE BeginDegree
            BY <3>4 DEF BeginDegree, In, EndInv
      <3> QED BY <1>3, <3>1, <3>2, <3>3, <3>4 DEF Compute
    <2> QED BY <2>1, <2>2, <2>3, <1>2 DEF EndInv
  <1>4. CASE Done
    <2>1. /\ heap' = {} /\ lists' = EmptyLists /\ gb' = gb /\ npI' = npI /\ due' = due
          /\ nInDegree = 0 /\ state = "newdegree" /\ hint' = hint /\ call.running
          BY <1>4 DEF Done, loops, history, In
    <2>2. Pending' = {}
          BY <2>1 DEF Pending, Listed, EmptyLists
    <2>3. due' = 0 /\ npI' = Len(gb')
          BY <1>1, <2>1 DEF EndInv
    <2>4. "done" \in Statuses /\ Return("done")
          BY <1>4 DEF Done, Statuses
    <2>5. ~call'.running
          BY <1>1, <2>4, ReturnFields
    <2> QED BY <1>2, <2>1, <2>2, <2>3, <2>5 DEF EndInv
  <1>5. CASE \E s \in StopChoices : Start(s)
    <2>1. PICK s \in StopChoices : Start(s)
          BY <1>5
    <2>2. call'.status # "done"
          BY <1>1, <2>1, StartFields
    <2>3. gb' = gb /\ npI' = npI /\ hint' = hint
          BY <2>1 DEF Start, loops
    <2>4. IF hint /\ ~hilb.use THEN SetHilbertFunction ELSE UNCHANGED <<hilb, state>>
          BY <2>1 DEF Start
    <2>5. CASE hint /\ ~hilb.use
      <3>1. hilb'.use
            BY <1>1, <2>4, <2>5 DEF SetHilbertFunction
      <3>2. gb = << >> /\ Len(gb) = 0
            BY <2>5 DEF EndInv
      <3> QED BY <1>1, <2>2, <2>3, <3>1, <3>2 DEF EndInv
    <2>6. CASE ~(hint /\ ~hilb.use)
          BY <2>2, <2>3, <2>4, <2>6 DEF EndInv
    <2> QED BY <2>5, <2>6
  <1>6. CASE UNCHANGED vars
    <2>1. /\ gb' = gb /\ npI' = npI /\ hint' = hint /\ hilb' = hilb /\ state' = state
          /\ call' = call /\ due' = due /\ heap' = heap /\ lists' = lists
          BY <1>6 DEF vars, loops, history, queue
    <2>2. Pending' = Pending
          BY <2>1 DEF Pending, Listed
    <2> QED BY <2>1, <2>2 DEF EndInv
  <1> QED BY <1>3, <1>4, <1>5, <1>6 DEF Next

\* Both invariants of the machine hold throughout.
LEMMA MachineEnd == ASSUME ~Rehint PROVE Spec => [](MachineInv /\ EndInv)
  <1>1. Init => MachineInv /\ EndInv
    <2>1. Init => EndInv
      <3> SUFFICES ASSUME Init PROVE EndInv
          OBVIOUS
      <3>1. gb = << >> /\ npI = 0 /\ ~call.running /\ call.status = "not started"
            BY DEF Init
      <3> QED BY <3>1 DEF EndInv
    <2> QED BY <2>1, MachineInit
  <1>2. GBInv /\ MachineInv /\ EndInv /\ [Next]_vars => MachineInv' /\ EndInv'
        BY MachineStep, EndStep DEF GBInv
  <1> QED BY <1>1, <1>2, QueueCorrect, PTL DEF Spec

\* COMP_DONE means a Groebner basis: when the Hilbert function is given at most
\* once, a computation that says it is done has no pair and no generator pending,
\* and every two of its elements are linked by pairs that have been reduced,
\* whatever limits and interrupts its calls met.
THEOREM DoneCorrect == ASSUME ~Rehint PROVE Spec => []DoneIsGroebner
  <1>1. GBInv /\ EndInv => DoneIsGroebner
    <2> SUFFICES ASSUME GBInv, EndInv, call.status = "done"
                 PROVE  /\ Pending = {} /\ due = 0
                        /\ \A i, j \in 1..Len(gb) : Linked(i, j, Len(gb), handled)
        BY DEF DoneIsGroebner
    <2>1. Pending = {} /\ due = 0 /\ npI = Len(gb)
          BY DEF EndInv
    <2>2. Pending \cup handled = handled
          BY <2>1
    <2> QED BY <2>1, <2>2 DEF GBInv, PairsCovered
  <1> QED BY <1>1, MachineEnd, QueueCorrect, PTL

-----------------------------------------------------------------------------
(* The degrees *)

\* The heap holds what is above the current degree and the lists what is of that
\* degree; elements whose pairs have not been made are of that degree; no lead
\* divides a later one; and the degree the computation claims is below the current
\* one, but for the beginning.
DegreeInv ==
    /\ \A p \in heap : PairDegree(p) > thisDegree
    /\ \A p \in Listed : PairDegree(p) = thisDegree
    /\ \A k \in 1..Len(gb) : k > npI => Degree(gb[k]) = thisDegree
    /\ \A k, l \in 1..Len(gb) : k < l => ~Divides(gb[k], gb[l])
    /\ \/ completeThru < thisDegree
       \/ /\ thisDegree = 0 /\ completeThru = 0 /\ gb = << >>
          /\ Listed = {} /\ heap = {<<0, g>> : g \in Gens}

\* The degree of an item does not change when elements are added.
LEMMA PairDegreeKept ==
    ASSUME QueueInv, NEW p \in Pending,
           \A k \in 1..Len(gb) : gb'[k] = gb[k]
    PROVE  PairDegree(p)' = PairDegree(p)
  <1>1. p \in Items /\ (~IsGen(p) => p[1] <= npI)
        BY DEF QueueInv, Pending, Listed, Sorted, Queues
  <1>2. CASE IsGen(p)
        BY <1>2 DEF PairDegree, IsGen
  <1>3. CASE ~IsGen(p)
    <2>1. p[1] \in 1..Len(gb) /\ p[2] \in 1..Len(gb)
          BY <1>1, <1>3 DEF Items, IsGen, QueueInv
    <2> QED BY <2>1, <1>3 DEF PairDegree, PairLcm, IsGen
  <1> QED BY <1>2, <1>3

\* A step that takes items from the lists, and perhaps adds an element in standard
\* position, keeps the degrees.
LEMMA DegreeKept ==
    ASSUME QueueInv, DegreeInv,
           UNCHANGED <<heap, npI, thisDegree, completeThru>>, Listed' \subseteq Listed,
           \/ gb' = gb
           \/ Listed # {} /\ \E m \in Standard(thisDegree) : gb' = Append(gb, m)
    PROVE  DegreeInv'
  <1>1. gb \in Seq(Monomials) /\ Len(gb) \in Nat /\ npI \in 0..Len(gb)
        BY DEF QueueInv
  <1>2. \A k \in 1..Len(gb) : gb'[k] = gb[k]
        BY <1>1 DEF Standard
  <1>3. \A p \in Pending : PairDegree(p)' = PairDegree(p)
        BY <1>2, PairDegreeKept
  <1>4. /\ \A p \in heap' : PairDegree(p)' > thisDegree'
        /\ \A p \in Listed' : PairDegree(p)' = thisDegree'
        BY <1>3 DEF DegreeInv, Pending
  <1>5. CASE gb' = gb
    <2>1. /\ \A k \in 1..Len(gb)' : k > npI' => Degree(gb[k])' = thisDegree'
          /\ \A k, l \in 1..Len(gb)' : k < l => ~Divides(gb[k], gb[l])'
          BY <1>5 DEF DegreeInv, Divides
    <2>2. \/ completeThru' < thisDegree'
          \/ /\ thisDegree' = 0 /\ completeThru' = 0 /\ gb' = << >>
             /\ Listed' = {} /\ heap' = {<<0, g>> : g \in Gens}
          BY <1>5 DEF DegreeInv
    <2> QED BY <1>4, <2>1, <2>2 DEF DegreeInv
  <1>6. CASE Listed # {} /\ \E m \in Standard(thisDegree) : gb' = Append(gb, m)
    <2>1. PICK m \in Standard(thisDegree) : gb' = Append(gb, m)
          BY <1>6
    <2>2. /\ m \in Monomials /\ Degree(m) = thisDegree
          /\ \A k \in 1..Len(gb) : ~Divides(gb[k], m)
          BY DEF Standard
    <2>3. Len(gb') = Len(gb) + 1 /\ gb'[Len(gb) + 1] = m
          BY <1>1, <2>1, <2>2
    <2>4. \A k \in 1..Len(gb') : k > npI' => Degree(gb'[k]) = thisDegree'
      <3> SUFFICES ASSUME NEW k \in 1..Len(gb'), k > npI
                   PROVE  Degree(gb'[k]) = thisDegree
          OBVIOUS
      <3>1. k \in 1..Len(gb) \/ k = Len(gb) + 1
            BY <1>1, <2>3
      <3> QED BY <3>1, <1>2, <2>2, <2>3 DEF DegreeInv
    <2>5. \A k, l \in 1..Len(gb') : k < l => ~Divides(gb'[k], gb'[l])
      <3> SUFFICES ASSUME NEW k \in 1..Len(gb'), NEW l \in 1..Len(gb'), k < l
                   PROVE  ~Divides(gb'[k], gb'[l])
          OBVIOUS
      <3>1. k \in 1..Len(gb) /\ (l \in 1..Len(gb) \/ l = Len(gb) + 1)
            BY <1>1, <2>3
      <3> QED BY <3>1, <1>2, <2>2, <2>3 DEF DegreeInv
    <2>6. completeThru' < thisDegree'
          BY <1>6 DEF DegreeInv
    <2>7. /\ \A k \in (1..Len(gb))' : k > npI' => Degree(gb[k])' = thisDegree'
          /\ \A k, l \in (1..Len(gb))' : k < l => ~Divides(gb[k], gb[l])'
          BY <2>4, <2>5 DEF Divides
    <2> QED BY <1>4, <2>6, <2>7 DEF DegreeInv
  <1> QED BY <1>5, <1>6

\* Taking up an item takes it, or the rest with it, from the lists.
LEMMA ProcessSpairLists ==
    ASSUME QueueInv, ProcessSpair
    PROVE  Listed' \subseteq Listed /\ Listed # {}
  <1>1. PICK p \in Candidates : Defer(p) \/ ReduceToZero(p) \/ InsertGB(p)
        BY DEF ProcessSpair
  <1>2. Sorted(lists)
        BY DEF QueueInv
  <1>3. p \in Listed /\ AllOf(Without(p)) = Listed \ {p}
        BY <1>2, WithoutOne
  <1>4. CASE lists' = Without(p)
        BY <1>3, <1>4 DEF Listed, AllOf
  <1>5. CASE lists' = EmptyLists
        BY <1>3, <1>5 DEF Listed, EmptyLists
  <1>6. CASE Defer(p)
    <2>1. lists' = IF IsGen(p) THEN [Without(p) EXCEPT !.laterGens = @ \cup {p}]
                               ELSE [Without(p) EXCEPT !.laterPairs = @ \cup {p}]
          BY <1>6 DEF Defer
    <2> QED BY <1>2, <1>3, <2>1, DeferKeepsItems
  <1>7. CASE ReduceToZero(p)
        BY <1>4, <1>7 DEF ReduceToZero
  <1>8. CASE InsertGB(p)
        BY <1>4, <1>5, <1>8 DEF InsertGB, Flush
  <1> QED BY <1>1, <1>6, <1>7, <1>8

\* A new pair is of a higher degree than its elements.
LEMMA MakePairsDegree ==
    ASSUME QueueInv, DegreeInv, MakePairs
    PROVE  DegreeInv'
  <1> DEFINE m == npI + 1
  <1>1. /\ gb \in Seq(Monomials) /\ Len(gb) \in Nat /\ npI \in 0..Len(gb) /\ m \in 1..Len(gb)
        /\ npI' = m /\ gb' = gb /\ lists' = lists
        /\ thisDegree' = thisDegree /\ completeThru' = completeThru
        BY DEF MakePairs, QueueInv, degrees
  <1>2. heap' = {p \in heap : ~PairNotNeeded(p, m)} \cup NewPairs(m)
        BY DEF MakePairs, UpdatePairs
  <1>3. Listed' = Listed /\ Len(gb)' = Len(gb)
        BY <1>1 DEF Listed
  <1>4. \A p : PairDegree(p)' = PairDegree(p)
        BY <1>1 DEF PairDegree, PairLcm
  <1>5. \A p \in NewPairs(m) : PairDegree(p) > thisDegree
    <2> SUFFICES ASSUME NEW p \in NewPairs(m) PROVE PairDegree(p) > thisDegree
        OBVIOUS
    <2>1. ~IsGen(p) /\ p[1] = m /\ p[2] \in 1..m - 1
          BY <1>1, NewPairsFacts
    <2>2. p[2] \in 1..Len(gb) /\ p[2] < m
          BY <1>1, <2>1
    <2>3. Degree(gb[m]) = thisDegree /\ ~Divides(gb[p[2]], gb[m])
          BY <1>1, <2>2 DEF DegreeInv
    <2>4. gb[m] \in Monomials /\ gb[p[2]] \in Monomials
          BY <1>1, <2>2
    <2>5. Lcm(gb[p[2]], gb[m]) # gb[m]
          BY <2>3 DEF Divides
    <2>6. Lcm(gb[m], gb[p[2]]) = Lcm(gb[p[2]], gb[m]) /\ Lcm(gb[p[2]], gb[m]) \in Monomials
          BY <2>4, LcmAssumption
    <2>7. Degree(gb[m]) < Degree(Lcm(gb[p[2]], gb[m]))
          BY <2>4, <2>5, DegreeAssumption
    <2>8. PairDegree(p) = Degree(Lcm(gb[p[2]], gb[m]))
          BY <2>1, <2>6 DEF PairDegree, PairLcm
    <2>9. Degree(Lcm(gb[p[2]], gb[m])) \in Nat /\ Degree(gb[m]) \in Nat
          BY <2>4, <2>6, DegreeAssumption
    <2> HIDE DEF m
    <2> QED BY <2>3, <2>7, <2>8, <2>9
  <1>6. /\ \A p \in heap' : PairDegree(p)' > thisDegree'
        /\ \A p \in Listed' : PairDegree(p)' = thisDegree'
    <2>1. \A p \in heap : PairDegree(p) > thisDegree
          BY DEF DegreeInv
    <2>2. \A p \in Listed : PairDegree(p) = thisDegree
          BY DEF DegreeInv
    <2> HIDE DEF m
    <2> QED BY <1>1, <1>2, <1>3, <1>4, <1>5, <2>1, <2>2
  <1>7. /\ \A k \in 1..Len(gb)' : k > npI' => Degree(gb[k])' = thisDegree'
        /\ \A k, l \in 1..Len(gb)' : k < l => ~Divides(gb[k], gb[l])'
        BY <1>1 DEF DegreeInv, Divides
  <1>8. completeThru' < thisDegree'
    <2>1. gb # << >>
          BY <1>1
    <2> QED BY <1>1, <2>1 DEF DegreeInv
  <1> QED BY <1>6, <1>7, <1>8 DEF DegreeInv

\* The next degree is above the current one.
LEMMA BeginDegreeDegree ==
    ASSUME QueueInv, MachineInv, EndInv, DegreeInv, BeginDegree
    PROVE  DegreeInv' /\ thisDegree' >= thisDegree /\ completeThru' >= completeThru
  <1>1. PICK d \in {PairDegree(p) : p \in heap}, found \in 0..MaxElements : PrepareDegree(d, found)
        BY DEF BeginDegree
  <1>2. /\ nInDegree = 0 /\ gb' = gb /\ npI' = npI /\ npI = Len(gb)
        /\ thisDegree' = d /\ completeThru' = d - 1
        BY <1>1 DEF BeginDegree, PrepareDegree, In, EndInv
  <1>3. /\ \A p \in heap : PairDegree(p) \in Nat
        /\ d \in Nat /\ thisDegree \in Nat /\ completeThru \in Int
        BY PairDegreeNat DEF MachineInv
  <1>4. d > thisDegree
        BY <1>3 DEF DegreeInv
  <1> DEFINE here == OfDegree(d)
             L == [EmptyLists EXCEPT !.pairs = here \ GensIn(here), !.gens = GensIn(here)]
  <1>5. heap' = heap \ here /\ (lists' = EmptyLists \/ lists' = L)
        BY <1>1 DEF PrepareDegree, Flush
  <1>6. Listed' \subseteq here
    <2>1. /\ L.pairs = here \ GensIn(here) /\ L.gens = GensIn(here)
          /\ L.laterPairs = {} /\ L.laterGens = {} /\ GensIn(here) \subseteq here
          BY DEF EmptyLists, GensIn
    <2> HIDE DEF here, L
    <2> QED BY <1>5, <2>1 DEF Listed, EmptyLists
  <1>7. \A p : PairDegree(p)' = PairDegree(p)
        BY <1>2 DEF PairDegree, PairLcm
  <1>8. \A p \in heap' : PairDegree(p)' > thisDegree'
    <2> SUFFICES ASSUME NEW p \in heap' PROVE PairDegree(p) > d
        BY <1>2, <1>7
    <2>1. p \in heap /\ PairDegree(p) # d
          BY <1>5 DEF OfDegree
    <2>2. PairDegree(p) >= d
          BY <1>1, <2>1 DEF PrepareDegree, NextDegree
    <2> QED BY <2>1, <2>2, <1>3
  <1>9. \A p \in Listed' : PairDegree(p)' = thisDegree'
        BY <1>2, <1>6, <1>7 DEF OfDegree
  <1>10. /\ \A k \in 1..Len(gb)' : k > npI' => Degree(gb[k])' = thisDegree'
         /\ \A k, l \in 1..Len(gb)' : k < l => ~Divides(gb[k], gb[l])'
    <2>1. Len(gb) \in Nat
          BY DEF QueueInv
    <2> QED BY <1>2, <2>1 DEF DegreeInv, Divides
  <1>11. completeThru' < thisDegree' /\ completeThru' >= completeThru
        BY <1>2, <1>3, <1>4 DEF DegreeInv
  <1> QED BY <1>2, <1>3, <1>4, <1>8, <1>9, <1>10, <1>11 DEF DegreeInv

\* No step lowers the degrees, but for a computation of no generators at all, whose
\* end sets complete_thru to -1.
LEMMA DegreeStep ==
    ASSUME GBInv, MachineInv, EndInv, DegreeInv, [Next]_vars
    PROVE  /\ DegreeInv'
           /\ Gens # {} => thisDegree' >= thisDegree /\ completeThru' >= completeThru
  <1>1. QueueInv /\ thisDegree \in Nat /\ completeThru \in Int
        BY DEF GBInv, MachineInv
  <1>2. ASSUME UNCHANGED <<gb, heap, lists, npI, thisDegree, completeThru>>
        PROVE  DegreeInv' /\ thisDegree' >= thisDegree /\ completeThru' >= completeThru
    <2>1. Listed' = Listed
          BY <1>2 DEF Listed
    <2> QED BY <1>1, <1>2, <2>1, DegreeKept
  <1>3. CASE MakePairs
    <2>1. thisDegree' = thisDegree /\ completeThru' = completeThru
          BY <1>3 DEF MakePairs, degrees
    <2> QED BY <1>1, <1>3, <2>1, MakePairsDegree
  <1>4. CASE BeginDegree
        BY <1>1, <1>4, BeginDegreeDegree
  <1>5. CASE ProcessSpair
    <2>1. heap' = heap /\ npI' = npI /\ thisDegree' = thisDegree /\ completeThru' = completeThru
          BY <1>5 DEF ProcessSpair, loops, degrees
    <2>2. gb' = gb \/ \E m \in Standard(thisDegree) : gb' = Append(gb, m)
          BY <1>5 DEF ProcessSpair, Defer, ReduceToZero, InsertGB
    <2> QED BY <1>1, <1>5, <2>1, <2>2, ProcessSpairLists, DegreeKept
  <1>6. CASE Done
    <2>1. /\ gb' = gb /\ heap' = heap /\ heap = {} /\ lists' = EmptyLists /\ npI' = npI
          /\ thisDegree' = thisDegree /\ completeThru' = thisDegree - 1
          BY <1>6 DEF Done, loops
    <2>2. Listed' = {} /\ completeThru' < thisDegree'
          BY <1>1, <2>1 DEF Listed, EmptyLists
    <2>3. \A p \in heap' : PairDegree(p)' > thisDegree'
          BY <2>1
    <2>4. /\ \A k \in 1..Len(gb)' : k > npI' => Degree(gb[k])' = thisDegree'
          /\ \A k, l \in 1..Len(gb)' : k < l => ~Divides(gb[k], gb[l])'
          BY <2>1 DEF DegreeInv, Divides
    <2>5. DegreeInv'
          BY <2>2, <2>3, <2>4 DEF DegreeInv
    <2>6. Gens # {} => completeThru < thisDegree
          BY <2>1 DEF DegreeInv
    <2> QED BY <1>1, <2>1, <2>5, <2>6
  <1>7. CASE MakePairsInterrupted \/ MakePairsDone \/ ResumeDegree \/ DegreeDone
             \/ AutoReduce \/ AutoReduceDone
        BY <1>2, <1>7 DEF MakePairsInterrupted, MakePairsDone, ResumeDegree, DegreeDone,
                    AutoReduce, AutoReduceDone, loops, queue, degrees
  <1>8. CASE Hilb \/ \E s \in StopChoices : Start(s)
        BY <1>2, <1>8 DEF Hilb, Start, loops, queue, degrees
  <1>9. CASE UNCHANGED vars
        BY <1>2, <1>9 DEF vars, loops, queue, degrees
  <1> QED BY <1>3, <1>4, <1>5, <1>6, <1>7, <1>8, <1>9 DEF Next, Compute

\* A computation starts below every degree.
LEMMA DegreeInit == Init => DegreeInv
  <1> SUFFICES ASSUME Init PROVE DegreeInv
      OBVIOUS
  <1>1. /\ gb = << >> /\ heap = {<<0, g>> : g \in Gens} /\ lists = EmptyLists
        /\ thisDegree = 0 /\ completeThru = 0 /\ Len(gb) = 0
        BY DEF Init
  <1>2. Listed = {}
        BY <1>1 DEF Listed, EmptyLists
  <1>3. \A p \in heap : PairDegree(p) > 0
    <2> SUFFICES ASSUME NEW g \in Gens PROVE PairDegree(<<0, g>>) > 0
        BY <1>1
    <2>1. PairDegree(<<0, g>>) = GenDegree[g]
          BY DEF PairDegree, IsGen
    <2> QED BY <2>1, BoundAssumption
  <1> QED BY <1>1, <1>2, <1>3 DEF DegreeInv

\* Below the current degree, links need no pending item.
LEMMA HandledLinks ==
    ASSUME GBInv, MachineInv, DegreeInv,
           NEW i \in 1..Len(gb), NEW j \in 1..Len(gb),
           Degree(Lcm(gb[i], gb[j])) <= completeThru
    PROVE  Linked(i, j, Len(gb), handled)
  <1> DEFINE M == Lcm(gb[i], gb[j])
             K == Below(M, Len(gb))
  <1>1. /\ gb \in Seq(Monomials) /\ Len(gb) \in Nat /\ npI \in 0..Len(gb)
        /\ thisDegree \in Nat /\ completeThru \in Int
        BY DEF GBInv, QueueInv, MachineInv
  <1>2. \A k \in 1..Len(gb) : gb[k] \in Monomials /\ Degree(gb[k]) \in Nat
        BY <1>1, DegreeAssumption
  <1>3. M \in Monomials /\ Degree(M) \in Nat /\ Degree(M) < thisDegree
    <2>1. M \in Monomials /\ Degree(M) \in Nat
          BY <1>2, LcmAssumption, DegreeAssumption
    <2>2. gb # << >>
          BY <1>1
    <2> QED BY <1>1, <2>1, <2>2 DEF DegreeInv
  <1> HIDE DEF M
  <1>4. \A x \in Monomials : Divides(x, M) => Degree(x) <= Degree(M)
    <2> SUFFICES ASSUME NEW x \in Monomials, Divides(x, M) PROVE Degree(x) <= Degree(M)
        OBVIOUS
    <2>1. Degree(x) < Degree(M) \/ x = M
          BY <1>3, DividesFacts
    <2> QED BY <2>1, <1>3, DegreeAssumption
  <1>5. \A k \in K : k \in 1..npI /\ gb[k] \in Monomials /\ Divides(gb[k], M)
    <2> SUFFICES ASSUME NEW k \in K
                 PROVE  k \in 1..npI /\ gb[k] \in Monomials /\ Divides(gb[k], M)
        OBVIOUS
    <2>1. k \in 1..Len(gb) /\ Divides(gb[k], M)
          BY DEF Below
    <2>2. Degree(gb[k]) <= Degree(M) /\ Degree(gb[k]) \in Nat
          BY <1>2, <1>4, <2>1
    <2>3. ~(k > npI)
          BY <1>3, <1>1, <2>1, <2>2 DEF DegreeInv
    <2> QED BY <1>1, <1>2, <2>1, <2>3
  <1>6. i \in K /\ j \in K
        BY <1>2, DividesFacts DEF Below, M
  <1>7. K = Below(M, npI)
    <2>1. K \subseteq Below(M, npI)
          BY <1>5 DEF Below
    <2>2. Below(M, npI) \subseteq K
          BY <1>1 DEF Below
    <2> QED BY <2>1, <2>2
  <1>8. Linked(i, j, npI, Pending \cup handled)
        BY <1>5, <1>6 DEF GBInv, PairsCovered
  <1>9. ASSUME NEW a \in K, NEW b \in K, <<a, b>> \in Pending
        PROVE  FALSE
    <2>1. /\ a \in 1..npI /\ gb[a] \in Monomials /\ Divides(gb[a], M)
          /\ gb[b] \in Monomials /\ Divides(gb[b], M)
          BY <1>5
    <2>2. PairDegree(<<a, b>>) = Degree(Lcm(gb[a], gb[b]))
          BY <1>1, <2>1 DEF PairDegree, PairLcm, IsGen
    <2>3. Divides(Lcm(gb[a], gb[b]), M) /\ Lcm(gb[a], gb[b]) \in Monomials
          BY <1>3, <2>1, DividesFacts, LcmAssumption
    <2>4. Degree(Lcm(gb[a], gb[b])) <= Degree(M) /\ Degree(Lcm(gb[a], gb[b])) \in Nat
          BY <1>4, <2>3, DegreeAssumption
    <2>5. PairDegree(<<a, b>>) >= thisDegree
          BY <1>9, <1>1, <2>2, <2>4 DEF DegreeInv, Pending
    <2> QED BY <2>2, <2>4, <2>5, <1>3, <1>1
  <1>10. SUFFICES ASSUME NEW A \in SUBSET K, i \in A, j \notin A
                  PROVE  \E a \in A, b \in K \ A : Adjacent(a, b, handled)
         BY DEF Linked, M
  <1>11. PICK a \in A, b \in K \ A : Adjacent(a, b, Pending \cup handled)
         BY <1>7, <1>8, <1>10 DEF Linked, M
  <1>12. Adjacent(a, b, handled)
         BY <1>9, <1>11 DEF Adjacent
  <1> QED BY <1>11, <1>12

\* The computation is complete through the degree it claims, whatever limits and
\* interrupts its calls met: below that degree every two elements are linked by
\* pairs that have been reduced, and nothing of such a degree is pending.
THEOREM CompleteThruCorrect == ASSUME ~Rehint PROVE Spec => []CompleteThruDegree
  <1> DEFINE Inv == GBInv /\ MachineInv /\ EndInv /\ DegreeInv
  <1>1. Inv => CompleteThruDegree
    <2> SUFFICES ASSUME GBInv, MachineInv, EndInv, DegreeInv PROVE CompleteThruDegree
        OBVIOUS
    <2>1. \A p \in Pending : PairDegree(p) > completeThru
      <3>1. thisDegree \in Nat /\ completeThru \in Int
            BY DEF MachineInv
      <3>2. \A p \in heap : PairDegree(p) \in Nat
            BY PairDegreeNat DEF GBInv
      <3> QED BY <3>1, <3>2 DEF DegreeInv, Pending
    <2> QED BY <2>1, HandledLinks DEF CompleteThruDegree
  <1>2. Init => DegreeInv
        BY DegreeInit
  <1>3. GBInv /\ MachineInv /\ EndInv /\ DegreeInv /\ [Next]_vars => DegreeInv'
        BY DegreeStep
  <1> QED BY <1>1, <1>2, <1>3, MachineEnd, QueueCorrect, PTL DEF Spec

\* The degrees never fall when there is a generator.  (The end of a computation of
\* none sets complete_thru to -1.)
THEOREM DegreesRise == ASSUME ~Rehint, Gens # {} PROVE Spec => DegreeNeverFalls
  <1>1. Init => DegreeInv
        BY DegreeInit
  <1>2. GBInv /\ MachineInv /\ EndInv /\ DegreeInv /\ [Next]_vars
            => DegreeInv' /\ [thisDegree' >= thisDegree /\ completeThru' >= completeThru]_vars
        BY DegreeStep
  <1> QED BY <1>1, <1>2, MachineEnd, QueueCorrect, PTL DEF Spec, DegreeNeverFalls
=============================================================================
