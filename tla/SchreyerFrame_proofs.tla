-------------------------- MODULE SchreyerFrame_proofs --------------------------
(***************************************************************************)
(* Proofs about resolutions, for frames, degrees, levels and limits of any *)
(* size, in the serial loops and in the flow graph.                        *)
(***************************************************************************)
EXTENDS SchreyerFrame, WellFoundedInduction, SequenceTheorems, FiniteSetTheorems, TLAPS

-----------------------------------------------------------------------------
(* Least elements                                                          *)

\* A set of natural numbers has a least element: what stands for induction here.
LEMMA Least ==
    ASSUME NEW T \in SUBSET Nat, T # {}
    PROVE  \E x \in T : \A y \in T : x <= y
<1> DEFINE R == {p \in Nat \X Nat : p[1] < p[2]}
<1>1. OpToRel(<, Nat) = R
  BY DEF OpToRel
<1>2. IsWellFoundedOn(R, Nat)
  BY <1>1, NatLessThanWellFounded
<1>3. \E x \in T : \A y \in T : ~(<<y, x>> \in R)
  <2> HIDE DEF R
  <2>1. QED
    BY <1>2, WFMin
<1>4. PICK x \in T : \A y \in T : ~(<<y, x>> \in R)
  BY <1>3
<1>5. ASSUME NEW y \in T PROVE x <= y
  <2>1. x \in Nat /\ y \in Nat
    OBVIOUS
  <2>2. ~(y < x)
    BY <1>4, <2>1
  <2>3. QED
    BY <2>1, <2>2
<1>6. QED
  BY <1>4, <1>5

\* And a set of integers bounded below.
LEMMA LeastInt ==
    ASSUME NEW b \in Int, NEW T \in SUBSET Int, T # {}, \A x \in T : b <= x
    PROVE  \E x \in T : \A y \in T : x <= y
<1> DEFINE U == {x - b : x \in T}
<1>1. U \in SUBSET Nat /\ U # {}
  <2>1. \A x \in T : x - b \in Nat
    OBVIOUS
  <2>2. PICK x \in T : TRUE
    OBVIOUS
  <2>3. x - b \in U
    OBVIOUS
  <2>4. QED
    BY <2>1, <2>3
<1>2. PICK u \in U : \A y \in U : u <= y
  BY <1>1, Least
<1>3. PICK x \in T : u = x - b
  BY <1>2
<1>4. ASSUME NEW y \in T PROVE x <= y
  <2>1. u <= y - b
    BY <1>2
  <2>2. QED
    BY <1>3, <2>1
<1>5. QED
  BY <1>4

\* The larger of two integers.
LEMMA MaxPair ==
    ASSUME NEW a \in Int, NEW b \in Int
    PROVE  Max({a, b}) = IF a >= b THEN a ELSE b
<1> DEFINE m == IF a >= b THEN a ELSE b
<1>1. m \in {a, b} /\ \A y \in {a, b} : m >= y
  OBVIOUS
<1>2. \A x \in {a, b} : (\A y \in {a, b} : x >= y) => x = m
  OBVIOUS
<1>3. QED
  BY <1>1, <1>2 DEF Max

-----------------------------------------------------------------------------
(* Places of vertices                                                      *)

Lev(v, n) == v % n
Deg(v, n) == v \div n

\* Rows of n places do not overlap.
LEMMA Times ==
    ASSUME NEW n \in Nat \ {0}, NEW s \in Int, NEW t \in Int, s < t
    PROVE  s * n + n <= t * n
<1>1. (t - s) * n >= n
  <2>1. (t - s - 1) \in Nat
    OBVIOUS
  <2>2. (t - s - 1) * n >= 0
    BY <2>1
  <2>3. QED
    BY <2>2
<1>2. QED
  BY <1>1

\* A vertex number has one level and one degree,
LEMMA Place ==
    ASSUME NEW n \in Nat \ {0}, NEW v \in Nat
    PROVE  /\ Lev(v, n) \in 0..n-1 /\ Deg(v, n) \in Nat
           /\ v = Lev(v, n) + Deg(v, n) * n
  BY DEF Lev, Deg

\* and a level and a degree have one vertex number.
LEMMA SamePlace ==
    ASSUME NEW n \in Nat \ {0}, NEW l \in 0..n-1, NEW m \in 0..n-1, NEW s \in Int, NEW t \in Int,
           l + s * n = m + t * n
    PROVE  l = m /\ s = t
<1>1. s * n \in Int /\ t * n \in Int
  OBVIOUS
<1>2. ~(s < t)
  <2>1. ASSUME s < t PROVE FALSE
    <3>1. s * n + n <= t * n
      BY <2>1, Times
    <3>2. QED
      BY <1>1, <3>1
  <2>2. QED
    BY <2>1
<1>3. ~(t < s)
  <2>1. ASSUME t < s PROVE FALSE
    <3>1. t * n + n <= s * n
      BY <2>1, Times
    <3>2. QED
      BY <1>1, <3>1
  <2>2. QED
    BY <2>1
<1>4. s = t
  BY <1>2, <1>3
<1>5. QED
  BY <1>1, <1>4

\* getIndex is a bijection between the cells of a table and the vertices.
LEMMA IndexPlace ==
    ASSUME NEW n \in Nat \ {0}, NEW l \in 0..n-1, NEW s \in Nat
    PROVE  /\ getIndex(l, s, n) \in Nat
           /\ Lev(getIndex(l, s, n), n) = l /\ Deg(getIndex(l, s, n), n) = s
<1> DEFINE v == l + s * n
<1>1. v \in Nat
  <2>1. s * n \in Nat
    OBVIOUS
  <2>2. QED
    BY <2>1
<1> HIDE DEF v
<1>2. Lev(v, n) \in 0..n-1 /\ Deg(v, n) \in Nat /\ v = Lev(v, n) + Deg(v, n) * n
  BY <1>1, Place
<1>3. Lev(v, n) = l /\ Deg(v, n) = s
  BY <1>2, SamePlace DEF v
<1>4. QED
  BY <1>1, <1>3 DEF v, getIndex

\* The table's vertices are those of the degrees it has.
LEMMA PlaceInTable ==
    ASSUME NEW n \in Nat \ {0}, NEW d \in Nat, NEW v \in Nat
    PROVE  v < n * d <=> Deg(v, n) < d
<1>1. Lev(v, n) \in 0..n-1 /\ Deg(v, n) \in Nat /\ v = Lev(v, n) + Deg(v, n) * n
  BY Place
<1>2. n * d = d * n /\ d * n \in Nat /\ Deg(v, n) * n \in Nat
  BY <1>1
<1>3. ASSUME Deg(v, n) < d PROVE v < n * d
  <2>1. Deg(v, n) * n + n <= d * n
    BY <1>1, <1>3, Times
  <2>2. QED
    BY <1>1, <1>2, <2>1
<1>4. ASSUME d <= Deg(v, n) PROVE n * d <= v
  <2>1. d * n <= Deg(v, n) * n
    <3>1. CASE d < Deg(v, n)
      <4>1. d * n + n <= Deg(v, n) * n
        BY <1>1, <3>1, Times
      <4>2. QED
        BY <1>2, <4>1
    <3>2. CASE d = Deg(v, n)
      BY <3>2
    <3>3. QED
      BY <1>1, <1>4, <3>1, <3>2
  <2>2. QED
    BY <1>1, <1>2, <2>1
<1>5. QED
  BY <1>1, <1>2, <1>3, <1>4

\* The vertex of the level before, and of the degree before.
LEMMA Neighbours ==
    ASSUME NEW n \in Nat \ {0}, NEW v \in Nat
    PROVE  /\ Lev(v, n) >= 1 => /\ v - 1 \in Nat
                                /\ Lev(v - 1, n) = Lev(v, n) - 1 /\ Deg(v - 1, n) = Deg(v, n)
           /\ Deg(v, n) >= 1 => /\ v - n \in Nat
                                /\ Lev(v - n, n) = Lev(v, n) /\ Deg(v - n, n) = Deg(v, n) - 1
<1> DEFINE l == Lev(v, n)
           s == Deg(v, n)
<1>1. l \in 0..n-1 /\ s \in Nat /\ v = l + s * n /\ s * n \in Nat
  BY Place
<1> HIDE DEF l, s
<1>2. ASSUME l >= 1
      PROVE  v - 1 \in Nat /\ Lev(v - 1, n) = l - 1 /\ Deg(v - 1, n) = s
  <2>1. l - 1 \in 0..n-1 /\ getIndex(l - 1, s, n) = v - 1
    BY <1>1, <1>2 DEF getIndex
  <2>2. QED
    BY <1>1, <2>1, IndexPlace
<1>3. ASSUME s >= 1
      PROVE  v - n \in Nat /\ Lev(v - n, n) = l /\ Deg(v - n, n) = s - 1
  <2>1. (s - 1) * n = s * n - n
    BY <1>1
  <2>2. s - 1 \in Nat /\ getIndex(l, s - 1, n) = v - n
    BY <1>1, <1>3, <2>1 DEF getIndex
  <2>3. QED
    BY <1>1, <2>2, IndexPlace
<1>4. QED
  BY <1>2, <1>3 DEF l, s

-----------------------------------------------------------------------------
(* The invariant                                                           *)

\* What the theorems assume of the constants: in parallel the lowest degree is 0 and
\* the graph is made once, and no limit is below the lowest degree.
Modest == ParallelLos \subseteq {0} /\ Limits \subseteq Nat /\ Graphs <= 1

FrameInv ==
    /\ parallel \in BOOLEAN /\ lo \in Int /\ (parallel => lo = 0)
    /\ full \subseteq Cells /\ full # {}

\* The syzygies of the level before are there.
Pre(c) == \A i \in lo..c[1] : status[<<i, c[2] - 1>>] # 1

StatusInv ==
    /\ status \in [Cells -> 0..3]
    /\ \A c \in Cells :
         /\ status[c] = 0 <=> c \notin full
         /\ status[c] = 1 => c[2] >= 2
         /\ c[2] >= 2 /\ status[c] > 1 => Pre(c)

\* The ranks that have been subtracted.
Done(c) == IF c \in Cells /\ status[c] = 3 THEN Rank(c) ELSE 0
Up(c) == <<c[1] - 1, c[2] + 1>>

MinimalInv ==
    /\ minimal \in [Cells -> Int]
    /\ \A c \in Cells : minimal[c] = Elements(c) - Done(c) - Done(Up(c))

Needed(top, len) == Upto(top - 1, 1, len + 1) \cup Upto(top, 1, len)

CallInv ==
    /\ todo \subseteq Cells
    /\ \A c \in todo : /\ c[2] >= 1
                       /\ c[2] >= 2 => \A i \in lo..c[1] :
                             <<i, c[2] - 1>> \in todo \/ status[<<i, c[2] - 1>>] # 1
    /\ call.kind = "syzygies" /\ ~parallel =>
         \A c \in Upto(call.top, 2, MaxLength) : c \notin todo => status[c] # 1
    /\ call.kind = "betti" =>
         /\ call.top \in Int /\ call.len \in Int
         /\ \A c \in Needed(call.top, call.len) : c \notin todo => Done(c) = Rank(c)

\* A graph of n levels and d degrees; whatever has run has found its predecessors
\* done, so everything below it in its level is done too.
Vertices(n, d) == 0..(n * d - 1)
Fits(n, d) == n \in 1..MaxLevel + 1 /\ d \in 1..Height
Edges(n, d) ==
    /\ \A v \in Vertices(n, d) : /\ Lev(v, n) >= 1 => <<v - 1, v>> \in edges
                                 /\ Deg(v, n) >= 1 => <<v - n, v>> \in edges
    /\ \A u, v : <<u, v>> \in edges => u \in Vertices(n, d) /\ u < v
    /\ edges \subseteq Nat \X Nat
Table(n, d) ==
    /\ vertices \in Seq(Int \X Int) /\ Len(vertices) = n * d
    /\ \A v \in Vertices(n, d) : Label(v) = <<Deg(v, n), Lev(v, n)>>
Running(n, d) ==
    /\ fired \subseteq Vertices(n, d) /\ running \subseteq Vertices(n, d)
    /\ running \cap fired = {}
    /\ \A v \in fired \cup running : /\ Lev(v, n) >= 1 => v - 1 \in fired
                                     /\ Deg(v, n) >= 1 => v - n \in fired
    /\ \A v \in fired : \A u \in 0..v : Lev(u, n) = Lev(v, n) => u \in fired
    /\ \A v \in fired : status[<<Deg(v, n), Lev(v, n)>>] # 1
    /\ \A v \in running : status[<<Deg(v, n), Lev(v, n)>>] = 1
Graph(n, d) == Fits(n, d) /\ Edges(n, d) /\ Table(n, d) /\ Running(n, d)

NoGraph == vertices = << >> /\ edges = {} /\ fired = {} /\ running = {}

SomeGraph == parallel /\ graphs >= 1 /\ \E n, d \in Nat : Graph(n, d)

GraphInv ==
    /\ exited = FALSE /\ graphs \in Nat
    /\ NoGraph \/ SomeGraph
    /\ parallel /\ call.kind = "syzygies" =>
         call.top \in Int /\ Graph(MaxLength + 1, call.top - lo + 1)

ResInv == FrameInv /\ StatusInv /\ MinimalInv /\ CallInv /\ GraphInv

-----------------------------------------------------------------------------
(* Cells                                                                   *)

\* A cell is a degree and a level; one level down, the smaller degrees are cells too.
LEMMA CellFacts ==
    ASSUME lo \in Int, NEW c \in Cells
    PROVE  /\ c = <<c[1], c[2]>> /\ c[1] \in lo..hi /\ c[2] \in 0..MaxLevel
           /\ hi \in Int /\ hi = lo + Height - 1
           /\ c[2] >= 1 => \A i \in lo..c[1] : <<i, c[2] - 1>> \in Cells
<1>1. hi = lo + Height - 1 /\ hi \in Int /\ MaxLevel \in Nat
  BY FrameAssumption DEF hi
<1>2. c = <<c[1], c[2]>> /\ c[1] \in lo..hi /\ c[2] \in 0..MaxLevel
  BY DEF Cells, Degrees, Levels
<1>3. ASSUME c[2] >= 1, NEW i \in lo..c[1] PROVE <<i, c[2] - 1>> \in Cells
  <2>1. i \in lo..hi /\ c[2] - 1 \in 0..MaxLevel
    BY <1>1, <1>2, <1>3
  <2>2. QED
    BY <2>1 DEF Cells, Degrees, Levels
<1>4. QED
  BY <1>1, <1>2, <1>3

\* No element is above the highest level of the frame.
LEMMA MaxLengthFacts ==
    ASSUME FrameInv
    PROVE  MaxLength \in Levels /\ \A c \in full : c[2] <= MaxLength
<1> DEFINE T == {MaxLevel - c[2] : c \in full}
<1>1. \A c \in full : c[2] \in 0..MaxLevel
  BY CellFacts DEF FrameInv
<1>2. MaxLevel \in Nat
  BY FrameAssumption
<1>3. T \in SUBSET Nat
  <2>1. \A c \in full : MaxLevel - c[2] \in Nat
    BY <1>1, <1>2
  <2>2. QED
    BY <2>1
<1>4. T # {}
  BY DEF FrameInv
<1>5. PICK x \in T : \A y \in T : x <= y
  BY <1>3, <1>4, Least
<1>6. PICK c \in full : x = MaxLevel - c[2]
  BY <1>5
<1>7. \A e \in full : e[2] <= c[2]
  <2>1. ASSUME NEW e \in full PROVE e[2] <= c[2]
    <3>1. x <= MaxLevel - e[2]
      BY <1>5
    <3>2. QED
      BY <1>1, <1>2, <1>6, <3>1
  <2>2. QED
    BY <2>1
<1> DEFINE Top(l) == (\E e \in full : e[2] = l) /\ \A e \in full : e[2] <= l
<1>8. c[2] \in Levels /\ Top(c[2])
  BY <1>1, <1>7 DEF Levels
<1>9. MaxLength = CHOOSE l \in Levels : Top(l)
  BY DEF MaxLength, Length
<1> HIDE DEF Top, T
<1>10. MaxLength \in Levels /\ Top(MaxLength)
  BY <1>8, <1>9
<1>11. QED
  BY <1>10 DEF Top

\* The serial loop visits a cell after everything before it.
LEMMA FirstFacts ==
    ASSUME lo \in Int, todo \subseteq Cells, todo # {}
    PROVE  First \in todo /\ \A d \in todo \ {First} : Before(First, d)
<1>1. \A c \in todo : c = <<c[1], c[2]>> /\ c[1] \in Int /\ lo <= c[1] /\ c[2] \in Nat
  BY CellFacts
<1> DEFINE D == {c[1] : c \in todo}
<1>2. D \in SUBSET Int /\ D # {} /\ \A x \in D : lo <= x
  BY <1>1
<1>3. PICK s \in D : \A y \in D : s <= y
  <2> HIDE DEF D
  <2>1. QED
    BY <1>2, LeastInt
<1> DEFINE L == {c[2] : c \in {e \in todo : e[1] = s}}
<1>4. L \in SUBSET Nat /\ L # {}
  BY <1>1, <1>3
<1>5. PICK l \in L : \A y \in L : l <= y
  <2> HIDE DEF L
  <2>1. QED
    BY <1>4, Least
<1>6. PICK c \in todo : c[1] = s /\ c[2] = l
  BY <1>5
<1>7. ASSUME NEW e \in todo \ {c} PROVE Before(c, e)
  <2>1. s <= e[1] /\ (e[1] = s => l <= e[2])
    BY <1>3, <1>5
  <2>2. ~(e[1] = s /\ e[2] = l)
    BY <1>1, <1>6
  <2>3. e[1] \in Int /\ e[2] \in Int /\ c[1] \in Int /\ c[2] \in Int
    BY <1>1
  <2>4. QED
    BY <1>6, <2>1, <2>2, <2>3 DEF Before
<1>8. \E x \in todo : \A d \in todo \ {x} : Before(x, d)
  BY <1>7
<1>9. QED
  BY <1>8 DEF First

\* A matrix has rank 0 or 1, 0 if its cell is not full or is at level 0.
LEMMA RankFacts ==
    ASSUME FrameInv, NEW c
    PROVE  /\ Rank(c) \in 0..1 /\ (c \notin full => Rank(c) = 0)
           /\ c \in Cells /\ c[2] = 0 => Rank(c) = 0
<1>1. ASSUME c \in Cells, c[2] = 0 PROVE Rank(c) = 0
  <2>1. <<c[1] + 1, c[2] - 1>> \notin Cells
    BY <1>1, FrameAssumption DEF Cells, Levels
  <2>2. QED
    BY <2>1 DEF Rank, FrameInv
<1>2. QED
  BY <1>1 DEF Rank

-----------------------------------------------------------------------------
(* One cell changes its status                                             *)

\* A cell is constructed, after its prerequisites, or its rank is found.
Marks(x, k) ==
    /\ x \in full /\ k \in {2, 3} /\ status' = [status EXCEPT ![x] = k]
    /\ status[x] # 3 /\ (x[2] >= 2 => Pre(x))

\* Marking a cell changes the status of that cell only.
LEMMA MarkStep ==
    ASSUME FrameInv, StatusInv, UNCHANGED frame, NEW x, NEW k, Marks(x, k)
    PROVE  /\ StatusInv'
           /\ \A c \in Cells : status[c] # 1 => status'[c] # 1
           /\ \A c \in Cells : c # x => status'[c] = status[c]
           /\ status'[x] = k /\ x \in Cells
<1>1. Cells' = Cells /\ lo' = lo /\ full' = full
  BY DEF Cells, Degrees, Levels, hi, frame
<1>2. x \in Cells /\ full \subseteq Cells /\ lo \in Int
  BY DEF FrameInv, Marks
<1>3. status \in [Cells -> 0..3] /\ status' = [status EXCEPT ![x] = k] /\ k \in {2, 3}
  BY DEF StatusInv, Marks
<1>4. /\ status'[x] = k /\ \A c \in Cells : c # x => status'[c] = status[c]
      /\ status' \in [Cells -> 0..3]
  BY <1>2, <1>3
<1>5. \A c \in Cells : status[c] # 1 => status'[c] # 1
  BY <1>3, <1>4
<1>6. ASSUME NEW c \in Cells, c[2] >= 2, Pre(c) PROVE Pre(c)'
  <2>1. \A i \in lo..c[1] : <<i, c[2] - 1>> \in Cells
    BY <1>2, <1>6, CellFacts
  <2>2. \A i \in lo..c[1] : status'[<<i, c[2] - 1>>] # 1
    BY <1>5, <1>6, <2>1 DEF Pre
  <2>3. QED
    BY <1>1, <2>2 DEF Pre
<1>7. ASSUME NEW c \in Cells
      PROVE  /\ status'[c] = 0 <=> c \notin full
             /\ status'[c] = 1 => c[2] >= 2
             /\ c[2] >= 2 /\ status'[c] > 1 => Pre(c)'
  <2>1. CASE c = x
    <3>1. status'[c] \in {2, 3} /\ x \in full /\ (x[2] >= 2 => Pre(x))
      BY <1>3, <1>4, <2>1 DEF Marks
    <3>2. status'[c] # 0 /\ status'[c] # 1 /\ (c[2] >= 2 => Pre(c)')
      BY <1>6, <2>1, <3>1
    <3>3. QED
      BY <2>1, <3>1, <3>2
  <2>2. CASE c # x
    <3>1. status'[c] = status[c]
      BY <1>4, <2>2
    <3>2. QED
      BY <1>6, <3>1 DEF StatusInv
  <2>3. QED
    BY <2>1, <2>2
<1>8. QED
  BY <1>1, <1>2, <1>4, <1>5, <1>7 DEF StatusInv

\* Nothing is cancelled while cells are constructed.
LEMMA MinimalStays ==
    ASSUME FrameInv, MinimalInv, UNCHANGED frame, UNCHANGED minimal,
           \A c \in Cells : status'[c] = 3 <=> status[c] = 3
    PROVE  MinimalInv' /\ \A c : Done(c)' = Done(c)
<1>1. Cells' = Cells /\ \A c : Rank(c)' = Rank(c) /\ Elements(c)' = Elements(c) /\ Up(c)' = Up(c)
  BY DEF Cells, Degrees, Levels, hi, frame, Rank, Elements, Up
<1>2. \A c : Done(c)' = Done(c)
  BY <1>1 DEF Done
<1>3. QED
  BY <1>1, <1>2 DEF MinimalInv

-----------------------------------------------------------------------------
(* The calls                                                               *)

FrameStays == Cells' = Cells /\ lo' = lo /\ full' = full /\ hi' = hi
              /\ parallel' = parallel /\ MaxLength' = MaxLength

\* What is computed from the frame stays while the frame stays.
LEMMA FrameFacts ==
    ASSUME UNCHANGED frame
    PROVE  /\ FrameStays
           /\ \A c : Rank(c)' = Rank(c) /\ Elements(c)' = Elements(c) /\ Up(c)' = Up(c)
           /\ \A top, from, len : Upto(top, from, len)' = Upto(top, from, len)
           /\ FrameInv => FrameInv'
<1>1. /\ lo' = lo /\ full' = full /\ parallel' = parallel /\ hi' = hi
  BY DEF frame, hi
<1>2. Cells' = Cells
  BY <1>1 DEF Cells, Degrees, Levels
<1>3. MaxLength' = MaxLength
  BY <1>1 DEF MaxLength
<1>4. \A c : Rank(c)' = Rank(c) /\ Elements(c)' = Elements(c) /\ Up(c)' = Up(c)
  BY <1>1 DEF Rank, Elements, Up
<1>5. \A top, from, len : Upto(top, from, len)' = Upto(top, from, len)
  BY <1>2 DEF Upto
<1>6. FrameInv => FrameInv'
  BY <1>1, <1>2 DEF FrameInv
<1>7. QED
  BY <1>1, <1>2, <1>3, <1>4, <1>5, <1>6 DEF FrameStays

\* Prerequisites of cells to be visited are to be visited, or there.
TodoInv ==
    /\ todo \subseteq Cells
    /\ \A c \in todo : /\ c[2] >= 1
                       /\ c[2] >= 2 => \A i \in lo..c[1] :
                             <<i, c[2] - 1>> \in todo \/ status[<<i, c[2] - 1>>] # 1

Lower == \A c \in Cells : status[c] # 1 => status'[c] # 1

\* The loop's work list keeps the cells that are not filled.
LEMMA TodoStays ==
    ASSUME FrameInv, TodoInv, UNCHANGED frame, Lower,
           UNCHANGED todo \/ (todo' = todo \ {First} /\ todo # {} /\ status'[First] # 1)
    PROVE  TodoInv'
<1>1. Cells' = Cells /\ lo' = lo /\ lo \in Int
  BY FrameFacts DEF FrameStays, FrameInv
<1>2. todo' \subseteq todo /\ \A e \in todo \ todo' : status'[e] # 1
  OBVIOUS
<1>3. ASSUME NEW c \in todo', c[2] >= 2, NEW i \in lo..c[1]
      PROVE  <<i, c[2] - 1>> \in todo' \/ status'[<<i, c[2] - 1>>] # 1
  <2>1. c \in todo /\ c \in Cells
    BY <1>2, <1>3 DEF TodoInv
  <2>2. <<i, c[2] - 1>> \in Cells
    BY <1>1, <1>3, <2>1, CellFacts
  <2>3. <<i, c[2] - 1>> \in todo \/ status[<<i, c[2] - 1>>] # 1
    BY <1>3, <2>1 DEF TodoInv
  <2>4. QED
    BY <1>2, <2>2, <2>3 DEF Lower
<1>4. QED
  BY <1>1, <1>2, <1>3 DEF TodoInv

\* Whatever the loop visits has its prerequisites.
LEMMA FirstIsReady ==
    ASSUME FrameInv, TodoInv, todo # {}, First[2] >= 2
    PROVE  Pre(First)
<1>1. lo \in Int /\ todo \subseteq Cells
  BY DEF FrameInv, TodoInv
<1>2. First \in todo /\ \A d \in todo \ {First} : Before(First, d)
  BY <1>1, FirstFacts
<1>3. First[1] \in Int /\ First[2] \in Int
  BY <1>1, <1>2, CellFacts
<1>4. ASSUME NEW i \in lo..First[1] PROVE <<i, First[2] - 1>> \notin todo
  <2>1. ~Before(First, <<i, First[2] - 1>>) /\ <<i, First[2] - 1>> # First
    BY <1>1, <1>3, <1>4 DEF Before
  <2>2. QED
    BY <1>2, <2>1
<1>5. QED
  BY <1>2, <1>4 DEF Pre, TodoInv

AnswerInv ==
    /\ call.kind = "syzygies" /\ ~parallel =>
         \A c \in Upto(call.top, 2, MaxLength) : c \notin todo => status[c] # 1
    /\ call.kind = "betti" =>
         /\ call.top \in Int /\ call.len \in Int
         /\ \A c \in Needed(call.top, call.len) : c \notin todo => Done(c) = Rank(c)

\* The invariant of a call is that of its work list and that of its answer.
LEMMA CallParts == CallInv <=> TodoInv /\ AnswerInv
  BY DEF CallInv, TodoInv, AnswerInv

\* A step that keeps the finished cells finished keeps the invariant of the answer.
LEMMA AnswerStays ==
    ASSUME FrameInv, AnswerInv, UNCHANGED frame, UNCHANGED call, Lower,
           \A c \in Cells : c \in todo => c \in todo' \/ status'[c] # 1,
           \A c \in Cells : c \in todo /\ call.kind = "betti" =>
                              c \in todo' \/ Done(c)' = Rank(c),
           \A c \in Cells : Done(c) = Rank(c) => Done(c)' = Rank(c)
    PROVE  AnswerInv'
<1>1. /\ FrameStays /\ \A c : Rank(c)' = Rank(c)
      /\ \A top, from, len : Upto(top, from, len)' = Upto(top, from, len)
  BY FrameFacts
<1>2. \A top, from, len : Upto(top, from, len) \subseteq Cells
  BY DEF Upto
<1>3. ASSUME call.kind = "syzygies", ~parallel, NEW c \in Upto(call.top, 2, MaxLength), c \notin todo'
      PROVE  status'[c] # 1
  BY <1>2, <1>3 DEF AnswerInv, Lower
<1>4. ASSUME call.kind = "betti", NEW c \in Needed(call.top, call.len), c \notin todo'
      PROVE  Done(c)' = Rank(c)
  BY <1>2, <1>4 DEF AnswerInv, Needed
<1>5. \A top, len : Needed(top, len)' = Needed(top, len)
  BY <1>1 DEF Needed
<1>6. call.kind = "syzygies" /\ ~parallel =>
         \A c \in Upto(call.top, 2, MaxLength) : c \notin todo' => status'[c] # 1
  BY <1>3
<1>7. call.kind = "betti" =>
         /\ call.top \in Int /\ call.len \in Int
         /\ \A c \in Needed(call.top, call.len) : c \notin todo' => Done(c)' = Rank(c)
  BY <1>4 DEF AnswerInv
<1>8. QED
  BY <1>1, <1>5, <1>6, <1>7 DEF AnswerInv, FrameStays

-----------------------------------------------------------------------------
(* The graph                                                               *)

\* The vertices of a table that fits are cells of the frame.
LEMMA VertexFacts ==
    ASSUME NEW n \in Nat, NEW d \in Nat, Fits(n, d), NEW v \in Vertices(n, d)
    PROVE  /\ n \in Nat \ {0} /\ v \in Nat
           /\ Deg(v, n) \in 0..d-1 /\ Lev(v, n) \in 0..n-1
           /\ FrameInv /\ parallel => <<Deg(v, n), Lev(v, n)>> \in Cells
<1>1. n \in Nat \ {0} /\ n * d \in Nat
  BY FrameAssumption DEF Fits
<1>2. v \in Nat /\ v < n * d
  BY <1>1 DEF Vertices
<1>3. Deg(v, n) \in Nat /\ Deg(v, n) < d /\ Lev(v, n) \in 0..n-1
  BY <1>1, <1>2, Place, PlaceInTable
<1>4. ASSUME FrameInv, parallel PROVE <<Deg(v, n), Lev(v, n)>> \in Cells
  <2>1. lo = 0 /\ Height \in Nat /\ MaxLevel \in Nat /\ d <= Height /\ n <= MaxLevel + 1
    BY <1>4, FrameAssumption DEF FrameInv, Fits
  <2>2. hi = Height - 1
    BY <2>1 DEF hi
  <2>3. Deg(v, n) \in lo..hi /\ Lev(v, n) \in 0..MaxLevel
    BY <1>1, <1>3, <2>1, <2>2
  <2>4. QED
    BY <2>3 DEF Cells, Degrees, Levels
<1>5. QED
  BY <1>1, <1>2, <1>3, <1>4

\* Vertices of the same level are whole rows apart.
LEMMA RowBefore ==
    ASSUME NEW n \in Nat \ {0}, NEW v \in Nat, NEW u \in 0..v, u # v, Lev(u, n) = Lev(v, n)
    PROVE  Deg(v, n) >= 1 /\ u \in 0..(v - n)
<1> DEFINE s == Deg(u, n)
           t == Deg(v, n)
           l == Lev(v, n)
<1>1. s \in Nat /\ t \in Nat /\ l \in 0..n-1 /\ u = l + s * n /\ v = l + t * n
  BY Place
<1> HIDE DEF s, t, l
<1>2. s * n \in Nat /\ t * n \in Nat
  BY <1>1
<1>3. s < t
  <2>1. ASSUME t < s PROVE FALSE
    <3>1. t * n + n <= s * n
      BY <1>1, <2>1, Times
    <3>2. QED
      BY <1>1, <1>2, <3>1
  <2>2. s # t
    BY <1>1
  <2>3. QED
    BY <1>1, <2>1, <2>2
<1>4. s * n + n <= t * n
  BY <1>1, <1>3, Times
<1>5. QED
  BY <1>1, <1>2, <1>3, <1>4 DEF t

\* A vertex that runs or has run has its prerequisites.
LEMMA VertexIsReady ==
    ASSUME FrameInv, NEW n \in Nat, NEW d \in Nat, Graph(n, d),
           NEW v \in fired \cup running, Lev(v, n) >= 1
    PROVE  \A i \in 0..Deg(v, n) : status[<<i, Lev(v, n) - 1>>] # 1
<1>1. Running(n, d) /\ Fits(n, d) /\ v \in Vertices(n, d)
  BY DEF Graph, Running
<1>2. n \in Nat \ {0} /\ v \in Nat /\ Deg(v, n) \in 0..d-1 /\ Lev(v, n) \in 0..n-1
  BY <1>1, VertexFacts
<1>3. v - 1 \in fired /\ v - 1 \in Nat /\ Lev(v - 1, n) = Lev(v, n) - 1 /\ Deg(v - 1, n) = Deg(v, n)
  BY <1>1, <1>2, Neighbours DEF Running
<1>4. ASSUME NEW i \in 0..Deg(v, n) PROVE status[<<i, Lev(v, n) - 1>>] # 1
  <2> DEFINE l == Lev(v, n) - 1
             u == getIndex(l, i, n)
  <2>1. l \in 0..n-1 /\ i \in Nat
    BY <1>2
  <2>2. u \in Nat /\ Lev(u, n) = l /\ Deg(u, n) = i
    BY <1>2, <2>1, IndexPlace
  <2>3. u <= v - 1
    <3>1. v - 1 = l + Deg(v, n) * n
      BY <1>2, <1>3, Place
    <3>2. u = l + i * n /\ i * n \in Nat /\ Deg(v, n) * n \in Nat
      BY <1>2, <2>1 DEF getIndex
    <3>3. i * n <= Deg(v, n) * n
      <4>1. CASE i = Deg(v, n)
        BY <4>1, <3>2
      <4>2. CASE i < Deg(v, n)
        <5>1. i * n + n <= Deg(v, n) * n
          BY <1>2, <2>1, <4>2, Times
        <5>2. QED
          BY <1>2, <3>2, <5>1
      <4>3. QED
        BY <1>2, <4>1, <4>2
    <3>4. QED
      BY <2>1, <3>1, <3>2, <3>3
  <2>4. u \in 0..(v - 1)
    BY <1>3, <2>2, <2>3
  <2> HIDE DEF u, l
  <2>5. u \in fired
    BY <1>1, <1>3, <2>2, <2>4 DEF Running, l
  <2>6. status[<<Deg(u, n), Lev(u, n)>>] # 1
    BY <1>1, <2>5 DEF Running
  <2>7. QED
    BY <2>2, <2>6 DEF l
<1>5. QED
  BY <1>4

\* A step that leaves the graph alone keeps it, when nothing runs.
LEMMA GraphStays ==
    ASSUME FrameInv, GraphInv, running = {} \/ UNCHANGED status, UNCHANGED frame,
           UNCHANGED <<graph, graphs, exited>>,
           Lower, UNCHANGED call \/ (call'.kind = "betti") \/ (call'.kind = "none")
    PROVE  GraphInv'
<1>1. FrameStays /\ UNCHANGED <<vertices, edges, fired, running, graphs, exited>>
  BY FrameFacts DEF graph
<1>2. ASSUME NEW n \in Nat, NEW d \in Nat, parallel, Graph(n, d) PROVE Graph(n, d)'
  <2>1. Fits(n, d)' /\ Edges(n, d)'
    BY <1>1, <1>2 DEF Graph, Fits, Edges, Vertices, Lev, Deg
  <2>2. Table(n, d)'
    BY <1>1, <1>2 DEF Graph, Table, Label, Vertices, Lev, Deg
  <2>3. Running(n, d)'
    <3>1. \A v \in fired : status'[<<Deg(v, n), Lev(v, n)>>] # 1
      <4>1. ASSUME NEW v \in fired PROVE status'[<<Deg(v, n), Lev(v, n)>>] # 1
        <5>1. v \in Vertices(n, d) /\ status[<<Deg(v, n), Lev(v, n)>>] # 1
          BY <1>2 DEF Graph, Running
        <5>2. <<Deg(v, n), Lev(v, n)>> \in Cells
          BY <1>2, <5>1, VertexFacts DEF Graph
        <5>3. QED
          BY <5>1, <5>2 DEF Lower
      <4>2. QED
        BY <4>1
    <3>2. \A v \in running : status'[<<Deg(v, n), Lev(v, n)>>] = 1
      BY <1>2 DEF Graph, Running
    <3>3. fired' = fired /\ running' = running /\ Running(n, d)
      BY <1>1, <1>2 DEF Graph
    <3>4. Vertices(n, d)' = Vertices(n, d) /\ \A v : Lev(v, n)' = Lev(v, n) /\ Deg(v, n)' = Deg(v, n)
      BY DEF Vertices, Lev, Deg
    <3>5. QED
      BY <3>1, <3>2, <3>3, <3>4 DEF Running
  <2>4. QED
    BY <2>1, <2>2, <2>3 DEF Graph
<1>3. NoGraph' \/ SomeGraph'
  <2>1. CASE NoGraph
    <3>1. NoGraph'
      BY <1>1, <2>1 DEF NoGraph
    <3>2. QED
      BY <3>1
  <2>2. CASE SomeGraph
    <3>1. PICK n \in Nat, d \in Nat : Graph(n, d)
      BY <2>2 DEF SomeGraph
    <3>2. Graph(n, d)'
      BY <1>2, <2>2, <3>1 DEF SomeGraph
    <3>3. SomeGraph'
      BY <1>1, <2>2, <3>2 DEF FrameStays, SomeGraph
    <3>4. QED
      BY <3>3
  <2>3. QED
    BY <2>1, <2>2 DEF GraphInv
<1>4. ASSUME parallel, call.kind = "syzygies", UNCHANGED call
      PROVE  Graph(MaxLength + 1, call.top - lo + 1)'
  <2>1. Graph(MaxLength + 1, call.top - lo + 1)
    BY <1>4 DEF GraphInv
  <2>2. MaxLength + 1 \in Nat /\ call.top - lo + 1 \in Nat
    BY <2>1, FrameAssumption DEF Graph, Fits
  <2> DEFINE n == MaxLength + 1
             d == call.top - lo + 1
  <2>3. n' = n /\ d' = d
    BY <1>1, <1>4 DEF FrameStays
  <2>4. Graph(n, d)
    BY <2>1
  <2> HIDE DEF n, d
  <2>5. PICK a \in Nat, b \in Nat : a = n /\ b = d
    BY <2>2 DEF n, d
  <2>6. Graph(a, b)'
    BY <1>2, <1>4, <2>4, <2>5
  <2>7. QED
    BY <2>3, <2>5, <2>6 DEF n, d
<1>5. QED
  BY <1>1, <1>3, <1>4 DEF GraphInv, FrameStays

-----------------------------------------------------------------------------
(* Steps of the serial loops                                               *)

\* While the loop runs, no task of the graph does.
LEMMA LoopIsAlone ==
    ASSUME GraphInv, InLoop, call.kind # "none"
    PROVE  running = {} /\ todo # {}
<1>1. CASE NoGraph
  BY <1>1 DEF NoGraph, InLoop
<1>2. CASE SomeGraph
  <2>1. call # Idle
    BY DEF Idle
  <2>2. InGraph
    BY <1>2, <2>1 DEF InGraph, SomeGraph, InLoop
  <2>3. QED
    BY <2>2 DEF InLoop, Waiting
<1>3. QED
  BY <1>1, <1>2 DEF GraphInv

\* The loop fills the matrix of its first cell.
LEMMA FillStep ==
    ASSUME ResInv, fillinSyzygies PROVE ResInv'
<1>1. FrameInv /\ StatusInv /\ MinimalInv /\ TodoInv /\ AnswerInv /\ GraphInv
  BY CallParts DEF ResInv
<1>2. /\ InLoop /\ call.kind = "syzygies" /\ todo' = todo \ {First}
      /\ status' = [status EXCEPT ![First] = IF @ = 1 THEN 2 ELSE @]
      /\ UNCHANGED <<frame, minimal, graph, call, graphs, exited>>
  BY DEF fillinSyzygies
<1>3. running = {} /\ todo # {}
  BY <1>1, <1>2, LoopIsAlone
<1>4. First \in todo /\ First \in Cells /\ lo \in Int
  BY <1>1, <1>3, FirstFacts DEF TodoInv, FrameInv
<1>5. status \in [Cells -> 0..3]
  BY <1>1 DEF StatusInv
<1>6. /\ StatusInv' /\ Lower /\ status'[First] # 1
      /\ \A c \in Cells : status'[c] = 3 <=> status[c] = 3
  <2>1. CASE status[First] = 1
    <3>1. status' = [status EXCEPT ![First] = 2]
      BY <1>2, <1>4, <1>5, <2>1
    <3>2. First \in full /\ First[2] >= 2
      BY <1>1, <1>4, <2>1 DEF StatusInv
    <3>3. Marks(First, 2)
      BY <1>1, <1>3, <2>1, <3>1, <3>2, FirstIsReady DEF Marks
    <3>4. /\ StatusInv' /\ status'[First] = 2 /\ \A c \in Cells : status[c] # 1 => status'[c] # 1
          /\ \A c \in Cells : c # First => status'[c] = status[c]
      BY <1>1, <1>2, <3>3, MarkStep
    <3>5. QED
      BY <2>1, <3>4 DEF Lower
  <2>2. CASE status[First] # 1
    <3>1. status' = status
      BY <1>2, <1>4, <1>5, <2>2
    <3>2. StatusInv'
      BY <1>1, <1>2, <3>1, FrameFacts DEF StatusInv, Pre, FrameStays
    <3>3. QED
      BY <2>2, <3>1, <3>2 DEF Lower
  <2>3. QED
    BY <2>1, <2>2
<1>7. MinimalInv' /\ \A c : Done(c)' = Done(c)
  BY <1>1, <1>2, <1>6, MinimalStays
<1>8. TodoInv'
  BY <1>1, <1>2, <1>3, <1>6, TodoStays
<1>9. AnswerInv'
  BY <1>1, <1>2, <1>6, <1>7, AnswerStays
<1>10. GraphInv'
  BY <1>1, <1>2, <1>3, <1>6, GraphStays
<1>11. QED
  BY <1>1, <1>2, <1>6, <1>7, <1>8, <1>9, <1>10, FrameFacts DEF ResInv, CallInv, TodoInv, AnswerInv

\* A rank is subtracted from its two cells when the cell is marked.
LEMMA RankedOnce ==
    ASSUME FrameInv, MinimalInv, UNCHANGED frame, NEW x \in full, status[x] # 3,
           status'[x] = 3, \A c \in Cells : c # x => status'[c] = status[c],
           minimal' = [c \in Cells |->
                         IF c = x \/ c = <<x[1] + 1, x[2] - 1>>
                           THEN minimal[c] - Rank(x) ELSE minimal[c]]
    PROVE  MinimalInv' /\ Done(x)' = Rank(x) /\ \A c : c # x => Done(c)' = Done(c)
<1>1. /\ FrameStays
      /\ \A c : Rank(c)' = Rank(c) /\ Elements(c)' = Elements(c) /\ Up(c)' = Up(c)
  BY FrameFacts
<1>2. x \in Cells /\ lo \in Int
  BY DEF FrameInv
<1>3. Done(x)' = Rank(x) /\ Done(x) = 0 /\ \A c : c # x => Done(c)' = Done(c)
  BY <1>1, <1>2 DEF Done, FrameStays
<1>4. Rank(x) \in Int /\ \A c : Done(c) \in Int /\ Elements(c) \in Int
  BY RankFacts DEF Done, Elements
<1>5. ASSUME NEW c \in Cells
      PROVE  minimal'[c] \in Int /\ minimal'[c] = Elements(c) - Done(c)' - Done(Up(c))'
  <2>1. minimal[c] \in Int /\ minimal[c] = Elements(c) - Done(c) - Done(Up(c))
    BY DEF MinimalInv
  <2>2. c = <<c[1], c[2]>> /\ c[1] \in Int /\ c[2] \in Int
        /\ x = <<x[1], x[2]>> /\ x[1] \in Int /\ x[2] \in Int
    BY <1>2, CellFacts
  <2>3. Up(c) = x <=> c = <<x[1] + 1, x[2] - 1>>
    <3>1. Up(c) = x <=> c[1] - 1 = x[1] /\ c[2] + 1 = x[2]
      BY <2>2 DEF Up
    <3>2. c = <<x[1] + 1, x[2] - 1>> <=> c[1] = x[1] + 1 /\ c[2] = x[2] - 1
      BY <2>2
    <3>3. QED
      BY <2>2, <3>1, <3>2
  <2>4. c # Up(c)
    BY <2>2 DEF Up
  <2>5. minimal'[c] = IF c = x \/ Up(c) = x THEN minimal[c] - Rank(x) ELSE minimal[c]
    BY <2>3
  <2>6. CASE c = x
    <3>1. Done(c)' = Rank(x) /\ Done(c) = 0 /\ Done(Up(c))' = Done(Up(c))
      BY <1>1, <1>3, <2>4, <2>6
    <3>2. QED
      BY <1>4, <2>1, <2>5, <2>6, <3>1
  <2>7. CASE Up(c) = x
    <3>1. Done(c)' = Done(c) /\ Done(Up(c)) = 0 /\ Done(Up(c))' = Rank(x)
      BY <1>1, <1>3, <2>4, <2>7
    <3>2. QED
      BY <1>4, <2>1, <2>5, <2>7, <3>1
  <2>8. CASE c # x /\ Up(c) # x
    <3>1. Done(c)' = Done(c) /\ Done(Up(c))' = Done(Up(c))
      BY <1>1, <1>3, <2>8
    <3>2. QED
      BY <2>1, <2>5, <2>8, <3>1
  <2>9. QED
    BY <2>6, <2>7, <2>8
<1>6. minimal' \in [Cells -> Int]
  <2>1. \A c \in Cells : minimal'[c] \in Int
    BY <1>5
  <2>2. QED
    BY <2>1
<1>7. MinimalInv'
  BY <1>1, <1>5, <1>6 DEF MinimalInv, FrameStays
<1>8. QED
  BY <1>3, <1>7

\* The loop computes the rank of its first cell.
LEMMA RankStep ==
    ASSUME ResInv, computeRank PROVE ResInv'
<1>1. FrameInv /\ StatusInv /\ MinimalInv /\ TodoInv /\ AnswerInv /\ GraphInv
  BY CallParts DEF ResInv
<1>2. /\ InLoop /\ call.kind = "betti" /\ todo' = todo \ {First}
      /\ UNCHANGED <<frame, graph, call, graphs, exited>>
  BY DEF computeRank
<1>3. running = {} /\ todo # {}
  BY <1>1, <1>2, LoopIsAlone
<1>4. First \in todo /\ First \in Cells /\ lo \in Int
  BY <1>1, <1>3, FirstFacts DEF TodoInv, FrameInv
<1>0. PICK x : x = First
  OBVIOUS
<1>5. /\ StatusInv' /\ Lower /\ status'[First] # 1 /\ MinimalInv'
      /\ Done(x)' = Rank(x) /\ \A c : c # x => Done(c)' = Done(c)
  <2>1. CASE status[First] \in {0, 3}
    <3>1. UNCHANGED <<status, minimal>>
      BY <2>1 DEF computeRank
    <3>2. StatusInv'
      BY <1>1, <1>2, <3>1, FrameFacts DEF StatusInv, Pre, FrameStays
    <3>3. MinimalInv' /\ \A c : Done(c)' = Done(c)
      BY <1>1, <1>2, <3>1, MinimalStays
    <3>4. Done(x) = Rank(x)
      <4>1. CASE status[First] = 3
        BY <1>4, <1>0, <4>1 DEF Done
      <4>2. CASE status[First] = 0
        BY <1>1, <1>4, <1>0, <4>2, RankFacts DEF Done, StatusInv
      <4>3. QED
        BY <2>1, <4>1, <4>2
    <3>5. QED
      BY <1>0, <2>1, <3>1, <3>2, <3>3, <3>4 DEF Lower
  <2>2. CASE status[First] \notin {0, 3}
    <3>1. /\ minimal' = [c \in Cells |->
                    IF c = First \/ c = <<First[1] + 1, First[2] - 1>>
                      THEN minimal[c] - Rank(First) ELSE minimal[c]]
          /\ status' = [status EXCEPT ![First] = 3]
      BY <2>2 DEF computeRank
    <3>2. First \in full
      BY <1>1, <1>4, <2>2 DEF StatusInv
    <3>3. Marks(First, 3)
      BY <1>1, <1>3, <2>2, <3>1, <3>2, FirstIsReady DEF Marks
    <3>4. /\ StatusInv' /\ status'[First] = 3 /\ \A c \in Cells : status[c] # 1 => status'[c] # 1
          /\ \A c \in Cells : c # x => status'[c] = status[c]
      BY <1>1, <1>2, <1>0, <3>3, MarkStep
    <3>5. MinimalInv' /\ Done(x)' = Rank(x) /\ \A c : c # x => Done(c)' = Done(c)
      <4>1. minimal' = [c \in Cells |->
                    IF c = x \/ c = <<x[1] + 1, x[2] - 1>>
                      THEN minimal[c] - Rank(x) ELSE minimal[c]]
        BY <1>0, <3>1
      <4>2. QED
        BY <1>1, <1>2, <1>0, <2>2, <3>2, <3>4, <4>1, RankedOnce
    <3>6. QED
      BY <1>0, <3>4, <3>5 DEF Lower
  <2>3. QED
    BY <2>1, <2>2
<1>6. TodoInv'
  BY <1>1, <1>2, <1>3, <1>5, TodoStays
<1>7. AnswerInv'
  <2>1. \A c \in Cells : Done(c) = Rank(c) => Done(c)' = Rank(c)
    BY <1>5
  <2>2. \A c \in Cells : c \in todo => c \in todo' \/ c = x
    BY <1>2, <1>0
  <2>3. QED
    BY <1>1, <1>2, <1>5, <1>0, <2>1, <2>2, AnswerStays
<1>8. GraphInv'
  BY <1>1, <1>2, <1>3, <1>5, GraphStays
<1>9. QED
  BY <1>1, <1>2, <1>5, <1>6, <1>7, <1>8, FrameFacts DEF ResInv, CallInv, TodoInv, AnswerInv

\* The loop or the graph is done, and the call returns.
LEMMA ReturnStep ==
    ASSUME ResInv, Return PROVE ResInv'
<1>1. FrameInv /\ StatusInv /\ MinimalInv /\ TodoInv /\ GraphInv
  BY CallParts DEF ResInv
<1>2. call' = Idle /\ UNCHANGED <<frame, status, minimal, graph, todo, graphs, exited>>
  BY DEF Return
<1>3. call'.kind = "none"
  BY <1>2 DEF Idle
<1>4. Lower
  BY <1>2 DEF Lower
<1>5. StatusInv'
  BY <1>1, <1>2, FrameFacts DEF StatusInv, Pre, FrameStays
<1>6. MinimalInv'
  BY <1>1, <1>2, MinimalStays
<1>7. TodoInv'
  BY <1>1, <1>2, <1>4, TodoStays
<1>8. AnswerInv'
  BY <1>3 DEF AnswerInv
<1>9. GraphInv'
  BY <1>1, <1>2, <1>3, <1>4, GraphStays
<1>10. QED
  BY <1>1, <1>2, <1>5, <1>6, <1>7, <1>8, <1>9, FrameFacts DEF ResInv, CallInv, TodoInv, AnswerInv

-----------------------------------------------------------------------------
(* Steps of the graph                                                      *)

\* A vertex that is told to run exists, and its predecessors have run.
LEMMA ReadyFacts ==
    ASSUME FrameInv, GraphInv, NEW v \in Ready
    PROVE  /\ SomeGraph /\ lo = 0
           /\ \A n, d \in Nat : Graph(n, d) =>
                /\ n \in Nat \ {0} /\ v \in Vertices(n, d) /\ v \notin fired \cup running
                /\ Label(v) = <<Deg(v, n), Lev(v, n)>> /\ Label(v) \in Cells
                /\ Lev(v, n) >= 1 => v - 1 \in fired
                /\ Deg(v, n) >= 1 => v - n \in fired
<1>1. v \in 0..Len(vertices) - 1 /\ Told(v) /\ v \notin fired \cup running
  BY DEF Ready
<1>2. vertices # << >>
  BY <1>1
<1>3. SomeGraph /\ lo = 0 /\ parallel
  BY <1>2 DEF GraphInv, NoGraph, SomeGraph, FrameInv
<1>4. ASSUME NEW n \in Nat, NEW d \in Nat, Graph(n, d)
      PROVE  /\ n \in Nat \ {0} /\ v \in Vertices(n, d)
             /\ Label(v) = <<Deg(v, n), Lev(v, n)>> /\ Label(v) \in Cells
             /\ Lev(v, n) >= 1 => v - 1 \in fired
             /\ Deg(v, n) >= 1 => v - n \in fired
  <2>1. Fits(n, d) /\ Edges(n, d) /\ Table(n, d)
    BY <1>4 DEF Graph
  <2>2. v \in Vertices(n, d)
    BY <1>1, <2>1 DEF Table, Vertices
  <2>3. /\ n \in Nat \ {0} /\ v \in Nat /\ Deg(v, n) \in 0..d-1 /\ Lev(v, n) \in 0..n-1
        /\ <<Deg(v, n), Lev(v, n)>> \in Cells
    BY <1>3, <2>1, <2>2, VertexFacts
  <2>4. \A u : <<u, v>> \in edges => u \in fired
    <3>1. ASSUME NEW u, <<u, v>> \in edges PROVE u \in fired
      <4>1. u \in Predecessors(v)
        <5>1. <<u, v>> \in {f \in edges : f[2] = v}
          BY <3>1
        <5>2. <<u, v>>[1] = u
          OBVIOUS
        <5>3. QED
          BY <5>1, <5>2 DEF Predecessors
      <4>2. v # 0
        BY <2>1, <2>3, <3>1 DEF Edges, Vertices
      <4>3. QED
        BY <1>1, <4>1, <4>2 DEF Told
    <3>2. QED
      BY <3>1
  <2>5. (Lev(v, n) >= 1 => v - 1 \in fired) /\ (Deg(v, n) >= 1 => v - n \in fired)
    BY <2>1, <2>2, <2>4 DEF Edges
  <2>6. QED
    BY <2>1, <2>2, <2>3, <2>5 DEF Table
<1>5. QED
  BY <1>1, <1>3, <1>4

\* What keeps the shape of the graph.
LEMMA ShapeStays ==
    ASSUME UNCHANGED <<vertices, edges>>, NEW n, NEW d
    PROVE  /\ Fits(n, d) => Fits(n, d)' /\ (Edges(n, d) => Edges(n, d)')
           /\ Table(n, d) => Table(n, d)'
           /\ Vertices(n, d)' = Vertices(n, d)
           /\ \A v : Lev(v, n)' = Lev(v, n) /\ Deg(v, n)' = Deg(v, n)
  BY DEF Fits, Edges, Table, Label, Vertices, Lev, Deg

\* A vertex joins those that have run: so have all below it in its level.
LEMMA FiredRow ==
    ASSUME NEW n \in Nat, NEW d \in Nat, Fits(n, d), Running(n, d), NEW v \in Vertices(n, d),
           Deg(v, n) >= 1 => v - n \in fired
    PROVE  \A u \in 0..v : Lev(u, n) = Lev(v, n) => u \in fired \cup {v}
<1>1. n \in Nat \ {0} /\ v \in Nat
  BY VertexFacts
<1>2. ASSUME NEW u \in 0..v, Lev(u, n) = Lev(v, n), u # v PROVE u \in fired
  <2>1. Deg(v, n) >= 1 /\ u \in 0..(v - n)
    BY <1>1, <1>2, RowBefore
  <2>2. v - n \in fired /\ Lev(v - n, n) = Lev(v, n)
    BY <1>1, <2>1, Neighbours
  <2>3. QED
    BY <1>2, <2>1, <2>2 DEF Running
<1>3. QED
  BY <1>2

\* A task of the graph looks at what is known of its cell.
LEMMA AskStep ==
    ASSUME ResInv, NEW v \in 0..Len(vertices) - 1, NodeAsks(v) PROVE ResInv'
<1>1. FrameInv /\ StatusInv /\ MinimalInv /\ TodoInv /\ AnswerInv /\ GraphInv
  BY CallParts DEF ResInv
<1>2. v \in Ready /\ UNCHANGED <<frame, status, minimal, vertices, edges, todo, call, graphs>>
  BY DEF NodeAsks
<1>3. Lower /\ FrameStays
  BY <1>2, FrameFacts DEF Lower
<1>4. SomeGraph /\ Label(v) \in Cells
  <2>1. SomeGraph
    BY <1>1, <1>2, ReadyFacts
  <2>2. QED
    BY <1>1, <1>2, <2>1, ReadyFacts DEF SomeGraph
<1>5. /\ exited' = exited
      /\ \/ status[Label(v)] = 1 /\ running' = running \cup {v} /\ fired' = fired
         \/ status[Label(v)] # 1 /\ fired' = fired \cup {v} /\ running' = running
  BY <1>4 DEF NodeAsks
<1>6. ASSUME NEW n \in Nat, NEW d \in Nat, Graph(n, d) PROVE Graph(n, d)'
  <2>1. Fits(n, d) /\ Edges(n, d) /\ Table(n, d) /\ Running(n, d)
    BY <1>6 DEF Graph
  <2>2. Fits(n, d)' /\ Edges(n, d)' /\ Table(n, d)' /\ Vertices(n, d)' = Vertices(n, d)
        /\ \A u : Lev(u, n)' = Lev(u, n) /\ Deg(u, n)' = Deg(u, n)
    BY <1>2, <2>1, ShapeStays
  <2>3. /\ v \in Vertices(n, d) /\ v \notin fired \cup running
        /\ Label(v) = <<Deg(v, n), Lev(v, n)>>
        /\ Lev(v, n) >= 1 => v - 1 \in fired
        /\ Deg(v, n) >= 1 => v - n \in fired
    BY <1>1, <1>2, <1>6, ReadyFacts
  <2>4. \A u \in 0..v : Lev(u, n) = Lev(v, n) => u \in fired \cup {v}
    BY <2>1, <2>3, FiredRow
  <2>5. Running(n, d)'
    <3>1. CASE status[Label(v)] = 1 /\ running' = running \cup {v} /\ fired' = fired
      BY <1>2, <2>1, <2>2, <2>3, <3>1 DEF Running
    <3>2. CASE status[Label(v)] # 1 /\ fired' = fired \cup {v} /\ running' = running
      <4>1. \A w \in fired' : \A u \in 0..w : Lev(u, n) = Lev(w, n) => u \in fired'
        BY <2>1, <2>4, <3>2 DEF Running
      <4>2. \A w \in fired' \cup running' : /\ Lev(w, n) >= 1 => w - 1 \in fired'
                                            /\ Deg(w, n) >= 1 => w - n \in fired'
        BY <2>1, <2>3, <3>2 DEF Running
      <4>3. /\ fired' \subseteq Vertices(n, d) /\ running' \subseteq Vertices(n, d)
            /\ running' \cap fired' = {}
        BY <2>1, <2>3, <3>2 DEF Running
      <4>4. /\ \A w \in fired' : status'[<<Deg(w, n), Lev(w, n)>>] # 1
            /\ \A w \in running' : status'[<<Deg(w, n), Lev(w, n)>>] = 1
        BY <1>2, <2>1, <2>3, <3>2 DEF Running
      <4>5. QED
        BY <2>2, <4>1, <4>2, <4>3, <4>4 DEF Running
    <3>3. QED
      BY <1>5, <3>1, <3>2
  <2>6. QED
    BY <2>2, <2>5 DEF Graph
<1>7. SomeGraph'
  BY <1>2, <1>3, <1>4, <1>6 DEF SomeGraph, FrameStays
<1>8. ASSUME parallel, call.kind = "syzygies" PROVE Graph(MaxLength + 1, call.top - lo + 1)'
  <2>1. Graph(MaxLength + 1, call.top - lo + 1)
    BY <1>1, <1>8 DEF GraphInv
  <2> DEFINE n == MaxLength + 1
             d == call.top - lo + 1
  <2>2. n \in Nat /\ d \in Nat /\ n' = n /\ d' = d
    BY <1>2, <1>3, <2>1, FrameAssumption DEF Graph, Fits, FrameStays
  <2>3. Graph(n, d)
    BY <2>1
  <2> HIDE DEF n, d
  <2>4. PICK a \in Nat, b \in Nat : a = n /\ b = d
    BY <2>2
  <2>5. Graph(a, b)'
    BY <1>6, <2>3, <2>4
  <2>6. QED
    BY <2>2, <2>4, <2>5 DEF n, d
<1>9. GraphInv'
  BY <1>1, <1>2, <1>3, <1>5, <1>7, <1>8 DEF GraphInv, FrameStays
<1>10. StatusInv'
  BY <1>1, <1>2, <1>3 DEF StatusInv, Pre, FrameStays
<1>11. MinimalInv' /\ \A c : Done(c)' = Done(c)
  BY <1>1, <1>2, MinimalStays
<1>12. TodoInv'
  BY <1>1, <1>2, <1>3, TodoStays
<1>13. AnswerInv'
  BY <1>1, <1>2, <1>3, <1>11, AnswerStays
<1>14. QED
  BY <1>1, <1>2, <1>9, <1>10, <1>11, <1>12, <1>13, FrameFacts
     DEF ResInv, CallInv, TodoInv, AnswerInv

\* A task of the graph fills the matrix of its cell.
LEMMA ConstructStep ==
    ASSUME ResInv, NEW v \in 0..Len(vertices) - 1, NodeConstructs(v) PROVE ResInv'
<1>1. FrameInv /\ StatusInv /\ MinimalInv /\ TodoInv /\ AnswerInv /\ GraphInv
  BY CallParts DEF ResInv
<1>2. /\ v \in running /\ status' = [status EXCEPT ![Label(v)] = 2]
      /\ running' = running \ {v} /\ fired' = fired \cup {v}
      /\ UNCHANGED <<frame, minimal, vertices, edges, todo, call, graphs, exited>>
  BY DEF NodeConstructs
<1>3. SomeGraph /\ parallel /\ lo = 0
  BY <1>1, <1>2 DEF GraphInv, NoGraph, SomeGraph, FrameInv
<1>4. ASSUME NEW n \in Nat, NEW d \in Nat, Graph(n, d)
      PROVE  /\ n \in Nat \ {0} /\ v \in Vertices(n, d) /\ Label(v) = <<Deg(v, n), Lev(v, n)>>
             /\ Label(v) \in Cells /\ status[Label(v)] = 1
             /\ Marks(Label(v), 2)
  <2>1. Fits(n, d) /\ Table(n, d) /\ Running(n, d)
    BY <1>4 DEF Graph
  <2>2. v \in Vertices(n, d)
    BY <1>2, <2>1 DEF Running
  <2>3. /\ n \in Nat \ {0} /\ v \in Nat /\ Deg(v, n) \in 0..d-1 /\ Lev(v, n) \in 0..n-1
        /\ <<Deg(v, n), Lev(v, n)>> \in Cells
    BY <1>1, <1>3, <2>1, <2>2, VertexFacts
  <2>4. Label(v) = <<Deg(v, n), Lev(v, n)>> /\ status[Label(v)] = 1
    BY <1>2, <2>1, <2>2 DEF Table, Running
  <2>5. Label(v) \in full /\ Label(v)[2] >= 2
    BY <1>1, <2>3, <2>4 DEF StatusInv
  <2>6. Lev(v, n) >= 2
    BY <2>4, <2>5
  <2>7. \A i \in 0..Deg(v, n) : status[<<i, Lev(v, n) - 1>>] # 1
    BY <1>1, <1>2, <1>4, <2>3, <2>6, VertexIsReady
  <2>8. Pre(Label(v))
    BY <1>3, <2>4, <2>7 DEF Pre
  <2>9. Marks(Label(v), 2)
    BY <1>2, <2>4, <2>5, <2>8 DEF Marks
  <2>10. QED
    BY <2>2, <2>3, <2>4, <2>9
<1>5. Marks(Label(v), 2) /\ Label(v) \in Cells
  BY <1>3, <1>4 DEF SomeGraph
<1>6. /\ StatusInv' /\ Lower /\ status'[Label(v)] = 2
      /\ \A c \in Cells : c # Label(v) => status'[c] = status[c]
  BY <1>1, <1>2, <1>5, MarkStep DEF Lower
<1>7. \A c \in Cells : status'[c] = 3 <=> status[c] = 3
  BY <1>5, <1>6 DEF Marks
<1>8. ASSUME NEW n \in Nat, NEW d \in Nat, Graph(n, d) PROVE Graph(n, d)'
  <2>1. Fits(n, d) /\ Edges(n, d) /\ Table(n, d) /\ Running(n, d)
    BY <1>8 DEF Graph
  <2>2. Fits(n, d)' /\ Edges(n, d)' /\ Table(n, d)' /\ Vertices(n, d)' = Vertices(n, d)
        /\ \A u : Lev(u, n)' = Lev(u, n) /\ Deg(u, n)' = Deg(u, n)
    BY <1>2, <2>1, ShapeStays
  <2>3. n \in Nat \ {0} /\ v \in Vertices(n, d) /\ Label(v) = <<Deg(v, n), Lev(v, n)>>
    BY <1>4, <1>8
  <2>4. \A u \in 0..v : Lev(u, n) = Lev(v, n) => u \in fired \cup {v}
    BY <1>2, <2>1, <2>3, FiredRow DEF Running
  <2>5. \A w \in fired' : \A u \in 0..w : Lev(u, n) = Lev(w, n) => u \in fired'
    BY <1>2, <2>1, <2>4 DEF Running
  <2>6. \A w \in fired' \cup running' : /\ Lev(w, n) >= 1 => w - 1 \in fired'
                                        /\ Deg(w, n) >= 1 => w - n \in fired'
    BY <1>2, <2>1 DEF Running
  <2>7. /\ fired' \subseteq Vertices(n, d) /\ running' \subseteq Vertices(n, d)
        /\ running' \cap fired' = {}
    BY <1>2, <2>1, <2>3 DEF Running
  <2>8. \A w \in fired' : status'[<<Deg(w, n), Lev(w, n)>>] # 1
    <3>1. ASSUME NEW w \in fired PROVE status'[<<Deg(w, n), Lev(w, n)>>] # 1
      <4>1. w \in Vertices(n, d) /\ status[<<Deg(w, n), Lev(w, n)>>] # 1
        BY <2>1, <3>1 DEF Running
      <4>2. <<Deg(w, n), Lev(w, n)>> \in Cells
        BY <1>1, <1>3, <2>1, <4>1, VertexFacts
      <4>3. QED
        BY <1>6, <4>1, <4>2 DEF Lower
    <3>2. QED
      BY <1>2, <1>6, <2>3, <3>1
  <2>9. \A w \in running' : status'[<<Deg(w, n), Lev(w, n)>>] = 1
    <3>1. ASSUME NEW w \in running, w # v PROVE status'[<<Deg(w, n), Lev(w, n)>>] = 1
      <4>1. w \in Vertices(n, d) /\ status[<<Deg(w, n), Lev(w, n)>>] = 1
        BY <2>1, <3>1 DEF Running
      <4>2. <<Deg(w, n), Lev(w, n)>> \in Cells /\ w \in Nat /\ v \in Nat
        BY <1>1, <1>3, <2>1, <2>3, <4>1, VertexFacts
      <4>3. <<Deg(w, n), Lev(w, n)>> # Label(v)
        <5>1. w = Lev(w, n) + Deg(w, n) * n /\ v = Lev(v, n) + Deg(v, n) * n
          BY <2>3, <4>2, Place
        <5>2. ~(Deg(w, n) = Deg(v, n) /\ Lev(w, n) = Lev(v, n))
          BY <3>1, <5>1
        <5>3. QED
          BY <2>3, <5>2
      <4>4. QED
        BY <1>6, <4>1, <4>2, <4>3
    <3>2. QED
      BY <1>2, <3>1
  <2>10. Running(n, d)'
    BY <2>2, <2>5, <2>6, <2>7, <2>8, <2>9 DEF Running
  <2>11. QED
    BY <2>2, <2>10 DEF Graph
<1>9. FrameStays
  BY <1>2, FrameFacts
<1>10. SomeGraph'
  BY <1>2, <1>3, <1>8, <1>9 DEF SomeGraph, FrameStays
<1>11. ASSUME parallel, call.kind = "syzygies" PROVE Graph(MaxLength + 1, call.top - lo + 1)'
  <2>1. Graph(MaxLength + 1, call.top - lo + 1)
    BY <1>1, <1>11 DEF GraphInv
  <2> DEFINE n == MaxLength + 1
             d == call.top - lo + 1
  <2>2. n \in Nat /\ d \in Nat /\ n' = n /\ d' = d
    BY <1>2, <1>9, <2>1, FrameAssumption DEF Graph, Fits, FrameStays
  <2>3. Graph(n, d)
    BY <2>1
  <2> HIDE DEF n, d
  <2>4. PICK a \in Nat, b \in Nat : a = n /\ b = d
    BY <2>2
  <2>5. Graph(a, b)'
    BY <1>8, <2>3, <2>4
  <2>6. QED
    BY <2>2, <2>4, <2>5 DEF n, d
<1>12. GraphInv'
  BY <1>1, <1>2, <1>9, <1>10, <1>11 DEF GraphInv, FrameStays
<1>13. MinimalInv' /\ \A c : Done(c)' = Done(c)
  BY <1>1, <1>2, <1>7, MinimalStays
<1>14. TodoInv'
  BY <1>1, <1>2, <1>6, TodoStays
<1>15. AnswerInv'
  BY <1>1, <1>2, <1>6, <1>13, AnswerStays
<1>16. QED
  BY <1>1, <1>2, <1>6, <1>12, <1>13, <1>14, <1>15, FrameFacts
     DEF ResInv, CallInv, TodoInv, AnswerInv

-----------------------------------------------------------------------------
(* Making the graph                                                        *)

\* The vertices of a graph are numbered by level and degree.
LEMMA TableMade ==
    ASSUME NEW n \in Nat \ {0}, NEW d \in Nat \ {0}, vertices = << >>, addVertices(n, d)
    PROVE  Table(n, d)' /\ vertices' # << >> /\ n * d \in Nat \ {0}
<1> DEFINE f == [k \in 1..n * d |-> <<(k - 1) \div n, (k - 1) % n>>]
<1>1. n * d \in Nat \ {0}
  OBVIOUS
<1>2. PICK N \in Nat \ {0} : N = n * d
  BY <1>1
<1>3. \A k \in 1..N : (k - 1) \div n \in Int /\ (k - 1) % n \in Int
  OBVIOUS
<1>4. f \in Seq(Int \X Int) /\ Len(f) = N /\ \A k \in 1..N : f[k] = <<(k - 1) \div n, (k - 1) % n>>
  BY <1>2, <1>3
<1>5. vertices' = << >> \o f
  BY DEF addVertices
<1> HIDE DEF f
<1>6. vertices' = f
  BY <1>4, <1>5, ConcatEmptySeq
<1>7. \A v \in 0..N-1 : f[v + 1] = <<Deg(v, n), Lev(v, n)>>
  <2>1. ASSUME NEW v \in 0..N-1 PROVE f[v + 1] = <<Deg(v, n), Lev(v, n)>>
    <3>1. v + 1 \in 1..N /\ v + 1 - 1 = v
      BY <1>2
    <3>2. QED
      BY <1>4, <3>1 DEF Deg, Lev
  <2>2. QED
    BY <2>1
<1>8. Table(n, d)'
  BY <1>2, <1>4, <1>6, <1>7 DEF Table, Label, Vertices, Deg, Lev
<1>9. vertices' # << >>
  BY <1>2, <1>4, <1>6
<1>10. QED
  BY <1>1, <1>8, <1>9

\* The edges of a graph join a cell to those that need it.
LEMMA EdgesMade ==
    ASSUME NEW n \in Nat \ {0}, NEW d \in Nat \ {0}, edges = {}, addFillMatrixEdges(n, d)
    PROVE  Edges(n, d)'
<1> DEFINE A == {<<getIndex(l - 1, s, n), getIndex(l, s, n)>> : l \in 1..n - 1, s \in 0..d - 1}
           B == {<<getIndex(l, s - 1, n), getIndex(l, s, n)>> : l \in 0..n - 1, s \in 1..d - 1}
<1>1. edges' = A \cup B
  BY DEF addFillMatrixEdges
<1>2. n * d \in Nat
  OBVIOUS
<1>3. ASSUME NEW v \in Vertices(n, d), Lev(v, n) >= 1 PROVE <<v - 1, v>> \in edges'
  <2>1. v \in Nat /\ v < n * d
    BY <1>2 DEF Vertices
  <2>2. Lev(v, n) \in 0..n-1 /\ Deg(v, n) \in 0..d-1 /\ v = Lev(v, n) + Deg(v, n) * n
    BY <2>1, Place, PlaceInTable
  <2>3. PICK l \in Int, s \in Int : l = Lev(v, n) /\ s = Deg(v, n)
    BY <2>2
  <2>4. l \in 1..n-1 /\ s \in 0..d-1 /\ v = l + s * n /\ s * n \in Int
    BY <1>3, <2>2, <2>3
  <2>6. getIndex(l - 1, s, n) = v - 1 /\ getIndex(l, s, n) = v
    BY <2>4 DEF getIndex
  <2>7. <<getIndex(l - 1, s, n), getIndex(l, s, n)>> \in A
    BY <2>4
  <2>8. QED
    BY <1>1, <2>6, <2>7
<1>4. ASSUME NEW v \in Vertices(n, d), Deg(v, n) >= 1 PROVE <<v - n, v>> \in edges'
  <2>1. v \in Nat /\ v < n * d
    BY <1>2 DEF Vertices
  <2>2. Lev(v, n) \in 0..n-1 /\ Deg(v, n) \in 0..d-1 /\ v = Lev(v, n) + Deg(v, n) * n
    BY <2>1, Place, PlaceInTable
  <2>3. PICK l \in Int, s \in Int : l = Lev(v, n) /\ s = Deg(v, n)
    BY <2>2
  <2>4. l \in 0..n-1 /\ s \in 1..d-1 /\ v = l + s * n
    BY <1>4, <2>2, <2>3
  <2>5. (s - 1) * n = s * n - n /\ s * n \in Int
    OBVIOUS
  <2>6. getIndex(l, s - 1, n) = v - n /\ getIndex(l, s, n) = v
    BY <2>4, <2>5 DEF getIndex
  <2>7. <<getIndex(l, s - 1, n), getIndex(l, s, n)>> \in B
    BY <2>4
  <2>8. QED
    BY <1>1, <2>6, <2>7
<1>5. ASSUME NEW u, NEW v, <<u, v>> \in edges'
      PROVE  u \in Vertices(n, d) /\ u < v /\ u \in Nat /\ v \in Nat
  <2>1. CASE <<u, v>> \in A
    <3>1. PICK l \in 1..n-1, s \in 0..d-1 : u = getIndex(l - 1, s, n) /\ v = getIndex(l, s, n)
      BY <2>1
    <3>2. u \in Nat /\ v \in Nat /\ Deg(u, n) = s
      BY <3>1, IndexPlace
    <3>3. u < n * d
      BY <3>2, PlaceInTable
    <3>4. u < v
      <4>1. s * n \in Nat
        OBVIOUS
      <4>2. QED
        BY <3>1, <4>1 DEF getIndex
    <3>5. u \in Vertices(n, d)
      <4>1. PICK N \in Nat : N = n * d
        BY <1>2
      <4>2. u \in 0..(N - 1)
        BY <3>2, <3>3, <4>1
      <4>3. QED
        BY <4>1, <4>2 DEF Vertices
    <3>6. QED
      BY <3>2, <3>4, <3>5
  <2>2. CASE <<u, v>> \in B
    <3>0. PICK l \in 0..n-1, s \in 1..d-1 : <<u, v>> = <<getIndex(l, s - 1, n), getIndex(l, s, n)>>
      BY <2>2
    <3>1. u = getIndex(l, s - 1, n) /\ v = getIndex(l, s, n)
      BY <3>0
    <3>2. u \in Nat /\ v \in Nat /\ Deg(u, n) = s - 1
      BY <3>1, IndexPlace
    <3>3. u < n * d
      BY <3>2, PlaceInTable
    <3>4. u < v
      <4>1. s * n \in Nat /\ (s - 1) * n = s * n - n
        OBVIOUS
      <4>2. QED
        BY <3>1, <4>1 DEF getIndex
    <3>5. u \in Vertices(n, d)
      <4>1. PICK N \in Nat : N = n * d
        BY <1>2
      <4>2. u \in 0..(N - 1)
        BY <3>2, <3>3, <4>1
      <4>3. QED
        BY <4>1, <4>2 DEF Vertices
    <3>6. QED
      BY <3>2, <3>4, <3>5
  <2>3. QED
    BY <1>1, <1>5, <2>1, <2>2
<1>6. edges' \subseteq Nat \X Nat
  <2>1. \A e \in A \cup B : e = <<e[1], e[2]>>
    OBVIOUS
  <2>2. QED
    BY <1>1, <1>5, <2>1
<1> HIDE DEF A, B
<1>7. QED
  BY <1>3, <1>4, <1>5, <1>6 DEF Edges, Vertices, Lev, Deg

\* A graph is made whole: its table and its edges.
LEMMA GraphMade ==
    ASSUME NoGraph, NEW n \in Nat, NEW d \in Nat, Fits(n, d), makeDependencyGraph(n, d)
    PROVE  Graph(n, d)' /\ exited' = FALSE /\ graphs' = graphs + 1
<1>1. n \in Nat \ {0} /\ d \in Nat \ {0}
  BY DEF Fits
<1>2. /\ addVertices(n, d) /\ addFillMatrixEdges(n, d) /\ fired' = {} /\ running' = {}
      /\ graphs' = graphs + 1 /\ exited' = (vertices' = << >>)
  BY DEF makeDependencyGraph
<1>3. Table(n, d)' /\ vertices' # << >>
  BY <1>1, <1>2, TableMade DEF NoGraph
<1>4. Edges(n, d)'
  BY <1>1, <1>2, EdgesMade DEF NoGraph
<1>5. Running(n, d)'
  BY <1>2 DEF Running
<1>6. QED
  BY <1>2, <1>3, <1>4, <1>5 DEF Graph, Fits

-----------------------------------------------------------------------------
(* The calls begin                                                         *)

\* A call that begins leaves the frame and the status of the cells alone.
LEMMA BeginFacts ==
    ASSUME ResInv, NEW kind, NEW top, NEW len, Begin(kind, top, len)
    PROVE  /\ FrameInv' /\ StatusInv' /\ MinimalInv' /\ FrameStays /\ Lower
           /\ UNCHANGED frame /\ status' = status
           /\ \A c : Rank(c)' = Rank(c) /\ Done(c)' = Done(c)
           /\ \A t, f, l : Upto(t, f, l)' = Upto(t, f, l)
           /\ call.kind = "none"
           /\ call'.kind = kind /\ call'.top = top /\ call'.len = len
<1>1. FrameInv /\ StatusInv /\ MinimalInv
  BY DEF ResInv
<1>2. /\ UNCHANGED <<frame, status, minimal>> /\ call = Idle
      /\ call' = [kind |-> kind, top |-> top, len |-> len]
  BY DEF Begin
<1>3. /\ FrameStays /\ FrameInv' /\ \A c : Rank(c)' = Rank(c)
      /\ \A t, f, l : Upto(t, f, l)' = Upto(t, f, l)
  BY <1>1, <1>2, FrameFacts
<1>4. Lower
  BY <1>2 DEF Lower
<1>5. StatusInv'
  BY <1>1, <1>2, <1>3 DEF StatusInv, Pre, FrameStays
<1>6. MinimalInv' /\ \A c : Done(c)' = Done(c)
  BY <1>1, <1>2, MinimalStays
<1>7. call.kind = "none" /\ call'.kind = kind /\ call'.top = top /\ call'.len = len
  BY <1>2 DEF Idle
<1>8. QED
  BY <1>2, <1>3, <1>4, <1>5, <1>6, <1>7

\* The cells of a call are to be visited with all that is above level 1 below them.
LEMMA NewTodo ==
    ASSUME FrameInv, StatusInv, UNCHANGED <<frame, status>>, todo' \subseteq Cells,
           \A c \in todo' : /\ c[2] >= 1
                            /\ c[2] >= 2 => \A i \in lo..c[1] :
                                  <<i, c[2] - 1>> \in Cells =>
                                     <<i, c[2] - 1>> \in todo' \/ c[2] - 1 = 1
    PROVE  TodoInv'
<1>1. Cells' = Cells /\ lo' = lo /\ lo \in Int /\ status' = status
  BY FrameFacts DEF FrameStays, FrameInv
<1>2. ASSUME NEW c \in todo', c[2] >= 2, NEW i \in lo..c[1]
      PROVE  <<i, c[2] - 1>> \in todo' \/ status[<<i, c[2] - 1>>] # 1
  <2>1. <<i, c[2] - 1>> \in Cells
    BY <1>1, <1>2, CellFacts
  <2>2. CASE <<i, c[2] - 1>> \in todo'
    BY <2>2
  <2>3. CASE c[2] - 1 = 1
    <3>1. ~(<<i, c[2] - 1>>[2] >= 2)
      BY <2>3
    <3>2. QED
      BY <2>1, <3>1 DEF StatusInv
  <2>4. QED
    BY <1>2, <2>1, <2>2, <2>3
<1>3. QED
  BY <1>1, <1>2 DEF TodoInv

\* Cells in a range of degrees and levels.
LEMMA UptoFacts ==
    ASSUME lo \in Int, NEW top \in Int, NEW from \in Int, NEW len \in Int
    PROVE  /\ Upto(top, from, len) \subseteq Cells
           /\ \A c \in Cells : c \in Upto(top, from, len)
                 <=> c[1] <= top /\ from <= c[2] /\ c[2] <= len
<1>1. \A c \in Cells : c[2] \in Int
  BY CellFacts
<1>2. QED
  BY <1>1 DEF Upto

\* The graph is made once.
LEMMA GraphBegins ==
    ASSUME Modest, FrameInv, GraphInv, UNCHANGED frame, parallel, NEW n \in Nat, NEW d \in Nat,
           Fits(n, d), makeDependencyGraph(n, d),
           call'.kind = "syzygies" =>
              call'.top \in Int /\ n = MaxLength + 1 /\ d = call'.top - lo + 1
    PROVE  GraphInv'
<1>1. FrameStays
  BY FrameFacts
<1>2. graphs \in Nat /\ graphs < Graphs /\ Graphs <= 1
  BY DEF Modest, GraphInv, makeDependencyGraph
<1>3. ~(graphs >= 1)
  BY <1>2, FrameAssumption
<1>4. NoGraph
  BY <1>3 DEF GraphInv, SomeGraph
<1>5. Graph(n, d)' /\ exited' = FALSE /\ graphs' = graphs + 1
  BY <1>4, GraphMade
<1>6. graphs' \in Nat /\ graphs' >= 1
  BY <1>2, <1>5
<1>7. SomeGraph'
  BY <1>1, <1>5, <1>6 DEF SomeGraph, FrameStays
<1>8. ASSUME call'.kind = "syzygies" PROVE Graph(MaxLength + 1, call.top - lo + 1)'
  <2>1. n = (MaxLength + 1)' /\ d = (call.top - lo + 1)'
    BY <1>1, <1>8 DEF FrameStays
  <2>2. QED
    BY <1>5, <2>1
<1>9. QED
  BY <1>5, <1>6, <1>7, <1>8 DEF GraphInv

\* The bounds of the frame.
LEMMA BoundsFacts ==
    ASSUME FrameInv
    PROVE  /\ lo \in Int /\ hi \in Int /\ hi = lo + Height - 1 /\ lo <= hi
           /\ MaxLength \in 0..MaxLevel /\ MaxLevel \in Nat /\ MaxLevel >= 2
           /\ Height \in Nat \ {0}
<1>1. lo \in Int /\ hi = lo + Height - 1 /\ Height \in Nat \ {0}
  BY FrameAssumption DEF FrameInv, hi
<1>2. MaxLength \in 0..MaxLevel
  BY MaxLengthFacts DEF Levels
<1>3. QED
  BY <1>1, <1>2, FrameAssumption

\* A resolution is computed up to a limit.
LEMMA StartStep ==
    ASSUME Modest, ResInv, NEW k \in Limits, start_computation(lo + k) PROVE ResInv'
<1> DEFINE limit == lo + k
           top == IF hi > limit THEN limit ELSE hi
<1>1. FrameInv /\ StatusInv /\ GraphInv
  BY DEF ResInv
<1>2. /\ Begin("syzygies", top, MaxLength)
      /\ IF parallel
         THEN makeDependencyGraph(MaxLength + 1, Max({0, top - lo + 1})) /\ todo' = {}
         ELSE todo' = Upto(top, 2, MaxLength) /\ UNCHANGED <<graph, graphs, exited>>
  BY DEF start_computation
<1>3. /\ lo \in Int /\ hi \in Int /\ hi = lo + Height - 1 /\ lo <= hi
      /\ MaxLength \in 0..MaxLevel /\ MaxLevel \in Nat /\ Height \in Nat
  BY <1>1, BoundsFacts
<1>4. k \in Nat
  BY DEF Modest
<1>5. top \in Int /\ lo <= top /\ top <= hi
  BY <1>3, <1>4
<1> HIDE DEF top
<1>6. /\ FrameInv' /\ StatusInv' /\ MinimalInv' /\ FrameStays /\ Lower
      /\ UNCHANGED frame /\ status' = status
      /\ \A t, f, l : Upto(t, f, l)' = Upto(t, f, l)
      /\ call'.kind = "syzygies" /\ call'.top = top
  BY <1>2, BeginFacts
<1>7. CASE parallel
  <2>1. makeDependencyGraph(MaxLength + 1, Max({0, top - lo + 1})) /\ todo' = {}
    BY <1>2, <1>7
  <2>2. Max({0, top - lo + 1}) = top - lo + 1
    <3>1. top - lo + 1 \in Int /\ ~(0 >= top - lo + 1)
      BY <1>3, <1>5
    <3>2. QED
      BY <3>1, MaxPair
  <2>3. PICK n \in Nat, d \in Nat : n = MaxLength + 1 /\ d = top - lo + 1
    BY <1>3, <1>5
  <2>4. n \in 1..MaxLevel + 1 /\ d \in 1..Height
    BY <1>3, <1>5, <2>3
  <2>5. Fits(n, d) /\ makeDependencyGraph(n, d)
    BY <2>1, <2>2, <2>3, <2>4 DEF Fits
  <2>6. GraphInv'
    BY <1>1, <1>5, <1>6, <1>7, <2>3, <2>5, GraphBegins
  <2>7. TodoInv'
    BY <2>1 DEF TodoInv
  <2>8. AnswerInv'
    BY <1>6, <1>7 DEF AnswerInv, FrameStays
  <2>9. QED
    BY <1>6, <2>6, <2>7, <2>8 DEF ResInv, CallInv, TodoInv, AnswerInv
<1>8. CASE ~parallel
  <2>1. todo' = Upto(top, 2, MaxLength) /\ UNCHANGED <<graph, graphs, exited>>
    BY <1>2, <1>8
  <2>2. /\ todo' \subseteq Cells
        /\ \A c \in Cells : c \in todo' <=> c[1] <= top /\ 2 <= c[2] /\ c[2] <= MaxLength
    BY <1>3, <1>5, <2>1, UptoFacts
  <2>3. \A c \in Cells : c[1] \in Int /\ c[2] \in Int /\ c = <<c[1], c[2]>>
    BY <1>3, CellFacts
  <2>4. ASSUME NEW c \in todo', c[2] >= 2, NEW i \in lo..c[1], <<i, c[2] - 1>> \in Cells
        PROVE  <<i, c[2] - 1>> \in todo' \/ c[2] - 1 = 1
    <3>1. c[1] <= top /\ c[2] <= MaxLength /\ c[1] \in Int /\ c[2] \in Int
      BY <2>2, <2>3
    <3>2. i <= top /\ c[2] - 1 <= MaxLength /\ (2 <= c[2] - 1 \/ c[2] - 1 = 1)
      BY <1>3, <1>5, <2>4, <3>1
    <3>3. QED
      BY <2>2, <2>4, <3>2
  <2>5. \A c \in todo' : c[2] >= 1
    BY <2>2, <2>3
  <2>6. TodoInv'
    BY <1>1, <1>6, <2>2, <2>4, <2>5, NewTodo
  <2>7. AnswerInv'
    BY <1>6, <2>1 DEF AnswerInv, FrameStays
  <2>8. NoGraph'
    BY <1>1, <1>8, <2>1 DEF GraphInv, NoGraph, SomeGraph, graph
  <2>9. GraphInv'
    BY <1>1, <1>6, <1>8, <2>1, <2>8 DEF GraphInv, FrameStays
  <2>10. QED
    BY <1>6, <2>6, <2>7, <2>9 DEF ResInv, CallInv, TodoInv, AnswerInv
<1>9. QED
  BY <1>7, <1>8

\* Minimal Betti numbers are asked for.
LEMMA BettiStep ==
    ASSUME Modest, ResInv, NEW k \in Limits, NEW l \in 0..MaxLevel,
           minimalBettiNumbers(lo + k, l)
    PROVE  ResInv'
<1> DEFINE limit == lo + k
           top == Max({lo, IF limit < hi THEN limit ELSE hi})
           len == IF l >= MaxLevel THEN MaxLevel - 1 ELSE l
<1>1. FrameInv /\ StatusInv /\ GraphInv
  BY DEF ResInv
<1>2. /\ Begin("betti", top, len) /\ todo' = RanksNeeded(top, len)
      /\ IF parallel THEN makeDependencyGraph(len + 1, top - lo + 1)
                     ELSE UNCHANGED <<graph, graphs, exited>>
  BY DEF minimalBettiNumbers
<1>3. /\ lo \in Int /\ hi \in Int /\ hi = lo + Height - 1 /\ lo <= hi
      /\ MaxLevel \in Nat /\ MaxLevel >= 2 /\ Height \in Nat
  BY <1>1, BoundsFacts
<1>4. k \in Nat
  BY DEF Modest
<1>5. top \in Int /\ lo <= top /\ top <= hi
  <2>1. PICK m \in Int : m = IF limit < hi THEN limit ELSE hi
    BY <1>3, <1>4
  <2>2. top = IF lo >= m THEN lo ELSE m
    BY <1>3, <2>1, MaxPair
  <2>3. m <= hi
    BY <1>3, <1>4, <2>1
  <2> HIDE DEF top
  <2>4. QED
    BY <1>3, <2>1, <2>2, <2>3
<1>6. len \in Int /\ 0 <= len /\ len <= MaxLevel - 1
  BY <1>3
<1> HIDE DEF top, len
<1>7. /\ FrameInv' /\ StatusInv' /\ MinimalInv' /\ FrameStays /\ Lower
      /\ UNCHANGED frame /\ status' = status
      /\ \A t, f, m : Upto(t, f, m)' = Upto(t, f, m)
      /\ call'.kind = "betti" /\ call'.top = top /\ call'.len = len
  BY <1>2, BeginFacts
<1>8. /\ todo' \subseteq Cells
      /\ \A c \in Cells : c \in todo' <=> \/ c[1] <= top - 1 /\ 1 <= c[2] /\ c[2] <= len + 1
                                          \/ c[1] <= top /\ 1 <= c[2] /\ c[2] <= len
  <2>1. todo' = Upto(top - 1, 1, len + 1) \cup Upto(top, 1, len)
    BY <1>2 DEF RanksNeeded
  <2>2. top - 1 \in Int /\ len + 1 \in Int
    BY <1>5, <1>6
  <2>3. /\ Upto(top - 1, 1, len + 1) \subseteq Cells
        /\ \A c \in Cells : c \in Upto(top - 1, 1, len + 1)
              <=> c[1] <= top - 1 /\ 1 <= c[2] /\ c[2] <= len + 1
    BY <1>3, <2>2, UptoFacts
  <2>4. /\ Upto(top, 1, len) \subseteq Cells
        /\ \A c \in Cells : c \in Upto(top, 1, len)
              <=> c[1] <= top /\ 1 <= c[2] /\ c[2] <= len
    BY <1>3, <1>5, <1>6, UptoFacts
  <2>5. QED
    BY <2>1, <2>3, <2>4
<1>9. \A c \in Cells : c[1] \in Int /\ c[2] \in Int
  BY <1>3, CellFacts
<1>10. ASSUME NEW c \in todo', c[2] >= 2, NEW i \in lo..c[1], <<i, c[2] - 1>> \in Cells
       PROVE  <<i, c[2] - 1>> \in todo'
  <2>1. c[1] \in Int /\ c[2] \in Int /\ c \in Cells
    BY <1>8, <1>9
  <2>2. \/ c[1] <= top - 1 /\ c[2] <= len + 1
        \/ c[1] <= top /\ c[2] <= len
    BY <1>8, <2>1
  <2>3. i <= top /\ 1 <= c[2] - 1 /\ c[2] - 1 <= len
    BY <1>3, <1>5, <1>6, <1>10, <2>1, <2>2
  <2>4. QED
    BY <1>8, <1>10, <2>3
<1>11. \A c \in todo' : c[2] >= 1
  BY <1>8, <1>9
<1>12. TodoInv'
  BY <1>1, <1>7, <1>8, <1>10, <1>11, NewTodo
<1>13. AnswerInv'
  <2>1. Needed(call.top, call.len)' = todo'
    BY <1>2, <1>7 DEF Needed, RanksNeeded
  <2>2. QED
    BY <1>5, <1>6, <1>7, <2>1 DEF AnswerInv
<1>14. GraphInv'
  <2>1. CASE parallel
    <3>1. PICK n \in Nat, d \in Nat : n = len + 1 /\ d = top - lo + 1
      BY <1>3, <1>5, <1>6
    <3>2. n \in 1..MaxLevel + 1 /\ d \in 1..Height
      BY <1>3, <1>5, <1>6, <3>1
    <3>3. Fits(n, d) /\ makeDependencyGraph(n, d)
      BY <1>2, <2>1, <3>1, <3>2 DEF Fits
    <3>4. QED
      BY <1>1, <1>7, <2>1, <3>3, GraphBegins
  <2>2. CASE ~parallel
    <3>1. UNCHANGED <<graph, graphs, exited>>
      BY <1>2, <2>2
    <3>2. QED
      BY <1>1, <1>7, <3>1, GraphStays
  <2>3. QED
    BY <2>1, <2>2
<1>15. QED
  BY <1>7, <1>12, <1>13, <1>14 DEF ResInv, CallInv, TodoInv, AnswerInv

\* The Betti numbers of the whole frame are asked for.
LEMMA GetBettiStep ==
    ASSUME Modest, ResInv, getBetti PROVE ResInv'
<1>1. FrameInv /\ StatusInv /\ GraphInv
  BY DEF ResInv
<1>2. /\ Begin("betti", hi, MaxLength) /\ todo' = Upto(hi, 1, MaxLength)
      /\ UNCHANGED <<graph, graphs, exited>>
  BY DEF getBetti
<1>3. lo \in Int /\ hi \in Int /\ MaxLength \in 0..MaxLevel /\ MaxLevel \in Nat
  BY <1>1, BoundsFacts
<1>4. /\ FrameInv' /\ StatusInv' /\ MinimalInv' /\ FrameStays /\ Lower
      /\ UNCHANGED frame /\ status' = status
      /\ \A c : Rank(c)' = Rank(c) /\ Done(c)' = Done(c)
      /\ \A t, f, m : Upto(t, f, m)' = Upto(t, f, m)
      /\ call'.kind = "betti" /\ call'.top = hi /\ call'.len = MaxLength
  BY <1>2, BeginFacts
<1>5. /\ todo' \subseteq Cells
      /\ \A c \in Cells : c \in todo' <=> c[1] <= hi /\ 1 <= c[2] /\ c[2] <= MaxLength
  BY <1>2, <1>3, UptoFacts
<1>6. \A c \in Cells : c[1] \in Int /\ c[2] \in Int /\ c[1] <= hi
  BY <1>3, CellFacts
<1>7. ASSUME NEW c \in todo', c[2] >= 2, NEW i \in lo..c[1], <<i, c[2] - 1>> \in Cells
      PROVE  <<i, c[2] - 1>> \in todo'
  <2>1. c[2] \in Int /\ c[2] <= MaxLength /\ <<i, c[2] - 1>>[1] <= hi
    BY <1>5, <1>6, <1>7
  <2>2. i <= hi /\ 1 <= c[2] - 1 /\ c[2] - 1 <= MaxLength
    BY <1>3, <1>7, <2>1
  <2>3. QED
    BY <1>5, <1>7, <2>2
<1>8. \A c \in todo' : c[2] >= 1
  BY <1>5, <1>6
<1>9. TodoInv'
  BY <1>1, <1>4, <1>5, <1>7, <1>8, NewTodo
<1>10. ASSUME NEW c \in Needed(hi, MaxLength), c \notin todo' PROVE Done(c) = Rank(c)
  <2>1. c \in Cells
    BY <1>10 DEF Needed, Upto
  <2>2. c[2] \in Int /\ 1 <= c[2]
    BY <1>3, <1>6, <1>10, <2>1 DEF Needed, Upto
  <2>3. ~(c[2] <= MaxLength)
    BY <1>5, <1>6, <1>10, <2>1, <2>2
  <2>4. c \notin full
    BY <1>1, <2>3, MaxLengthFacts
  <2>5. QED
    BY <1>1, <2>4, RankFacts DEF Done
<1>11. AnswerInv'
  <2>1. \A c \in Needed(call.top, call.len)' : c \notin todo' => Done(c)' = Rank(c)'
    <3>1. Needed(call.top, call.len)' = Needed(hi, MaxLength)
      BY <1>4 DEF Needed
    <3>2. QED
      BY <1>4, <1>10, <3>1
  <2>2. QED
    BY <1>3, <1>4, <2>1 DEF AnswerInv
<1>12. GraphInv'
  BY <1>1, <1>2, <1>4, GraphStays
<1>13. QED
  BY <1>4, <1>9, <1>11, <1>12 DEF ResInv, CallInv, TodoInv, AnswerInv

-----------------------------------------------------------------------------
(* The invariant holds                                                     *)

\* The invariant holds at first,
LEMMA InitInv ==
    ASSUME Modest, Init PROVE ResInv
<1>1. /\ parallel \in BOOLEAN /\ lo \in Int /\ (parallel => lo = 0)
  <2>1. parallel \in BOOLEAN /\ lo \in IF parallel THEN ParallelLos ELSE Los
    BY DEF Init
  <2>2. QED
    BY <2>1, FrameAssumption DEF Modest
<1>2. full \subseteq Cells /\ full # {}
  <2>1. full \in Filled /\ IsFrame(full)
    BY DEF Init
  <2>2. hi \in Int /\ lo <= hi /\ MaxLevel \in Nat
    BY <1>1, FrameAssumption DEF hi
  <2>3. <<lo, 0>> \in Cells /\ Degrees \X (1..MaxLevel) \subseteq Cells
    BY <1>1, <2>2 DEF Cells, Degrees, Levels
  <2>4. full \subseteq Cells
    BY <2>1, <2>3 DEF Filled
  <2>5. QED
    BY <2>1, <2>4 DEF IsFrame
<1>3. FrameInv
  BY <1>1, <1>2 DEF FrameInv
<1>4. \A c \in Cells : c[2] \in Nat
  BY <1>1, CellFacts
<1>5. \A c \in Cells : /\ FirstStatus(c) \in 0..3
                       /\ FirstStatus(c) = 0 <=> c \notin full
                       /\ FirstStatus(c) = 1 => c[2] >= 2
                       /\ c[2] >= 2 => FirstStatus(c) \in {0, 1}
                       /\ FirstStatus(c) = 3 => c[2] = 0
  BY <1>4 DEF FirstStatus
<1>6. status = [c \in Cells |-> FirstStatus(c)] /\ minimal = [c \in Cells |-> Elements(c)]
  BY DEF Init
<1>7. StatusInv
  BY <1>5, <1>6 DEF StatusInv
<1>8. \A c : Done(c) = 0
  BY <1>3, <1>5, <1>6, RankFacts DEF Done
<1>9. MinimalInv
  BY <1>6, <1>8 DEF MinimalInv, Elements
<1>10. todo = {} /\ call.kind = "none" /\ exited = FALSE /\ graphs = 0 /\ NoGraph
  BY DEF Init, Idle, NoGraph
<1>11. CallInv
  BY <1>10 DEF CallInv
<1>12. GraphInv
  BY <1>10 DEF GraphInv
<1>13. QED
  BY <1>3, <1>7, <1>9, <1>11, <1>12 DEF ResInv

\* is kept when nothing happens,
LEMMA StutterInv ==
    ASSUME ResInv, UNCHANGED vars PROVE ResInv'
<1>1. FrameInv /\ StatusInv /\ MinimalInv /\ TodoInv /\ AnswerInv /\ GraphInv
  BY CallParts DEF ResInv
<1>2. UNCHANGED <<frame, status, minimal, graph, todo, call, graphs, exited>>
  BY DEF vars
<1>3. Lower
  BY <1>2 DEF Lower
<1>4. StatusInv'
  BY <1>1, <1>2, FrameFacts DEF StatusInv, Pre, FrameStays
<1>5. MinimalInv' /\ \A c : Done(c)' = Done(c)
  BY <1>1, <1>2, MinimalStays
<1>6. TodoInv'
  BY <1>1, <1>2, <1>3, TodoStays
<1>7. AnswerInv'
  BY <1>1, <1>2, <1>3, <1>5, AnswerStays
<1>8. GraphInv'
  BY <1>1, <1>2, <1>3, GraphStays
<1>9. QED
  BY <1>1, <1>2, <1>4, <1>5, <1>6, <1>7, <1>8, FrameFacts DEF ResInv, CallInv, TodoInv, AnswerInv

\* and is kept by every step.
LEMMA NextInv ==
    ASSUME Modest, ResInv, [Next]_vars PROVE ResInv'
<1>1. ASSUME NEW n \in Limits, start_computation(lo + n) PROVE ResInv'
  BY <1>1, StartStep
<1>2. ASSUME NEW n \in Limits, NEW len \in 0..MaxLevel, minimalBettiNumbers(lo + n, len)
      PROVE  ResInv'
  BY <1>2, BettiStep
<1>3. CASE getBetti
  BY <1>3, GetBettiStep
<1>4. ASSUME NEW v \in 0..Len(vertices) - 1, NodeAsks(v) PROVE ResInv'
  BY <1>4, AskStep
<1>5. ASSUME NEW v \in 0..Len(vertices) - 1, NodeConstructs(v) PROVE ResInv'
  BY <1>5, ConstructStep
<1>6. CASE fillinSyzygies
  BY <1>6, FillStep
<1>7. CASE computeRank
  BY <1>7, RankStep
<1>8. CASE Return
  BY <1>8, ReturnStep
<1>9. CASE UNCHANGED vars
  BY <1>9, StutterInv
<1>10. QED
  BY <1>1, <1>2, <1>3, <1>4, <1>5, <1>6, <1>7, <1>8, <1>9 DEF Next, Begins, Steps, Node

\* Every rank that has been subtracted has been subtracted from both its cells and is
\* remembered; what has been constructed, or has run in the graph, has its prerequisites
\* (the statuses that SchreyerFrame keeps from call to call).
THEOREM Invariance ==
    ASSUME Modest PROVE Spec => []ResInv
<1>1. Init => ResInv
  BY InitInv
<1>2. ResInv /\ [Next]_vars => ResInv'
  BY NextInv
<1>3. QED
  BY <1>1, <1>2, PTL DEF Spec

-----------------------------------------------------------------------------
(* What it is for                                                          *)

\* It implies that what a cell needs is there first,
LEMMA PrereqsFollow ==
    ASSUME ResInv PROVE Prereqs
<1>1. FrameInv /\ StatusInv /\ GraphInv
  BY DEF ResInv
<1>2. ASSUME NEW c \in full, c[2] >= 2, status[c] > 1 PROVE Pre(c)
  BY <1>1, <1>2 DEF FrameInv, StatusInv
<1>3. ASSUME NEW c \in Constructing PROVE Pre(c)
  <2>1. PICK v \in running : c = Label(v)
    BY <1>3 DEF Constructing
  <2>2. SomeGraph /\ lo = 0
    BY <1>1, <2>1 DEF GraphInv, NoGraph, SomeGraph, FrameInv
  <2>3. PICK n \in Nat, d \in Nat : Graph(n, d)
    BY <2>2 DEF SomeGraph
  <2>4. Fits(n, d) /\ Table(n, d) /\ Running(n, d) /\ v \in Vertices(n, d)
    BY <2>1, <2>3 DEF Graph, Running
  <2>5. /\ Deg(v, n) \in 0..d-1 /\ Lev(v, n) \in 0..n-1
        /\ <<Deg(v, n), Lev(v, n)>> \in Cells
    BY <1>1, <2>2, <2>4, VertexFacts DEF SomeGraph
  <2>6. c = <<Deg(v, n), Lev(v, n)>> /\ status[c] = 1
    BY <2>1, <2>4 DEF Table, Running
  <2>7. c[2] >= 2
    BY <1>1, <2>5, <2>6 DEF StatusInv
  <2>8. Lev(v, n) >= 1
    BY <2>5, <2>6, <2>7
  <2>9. \A i \in 0..Deg(v, n) : status[<<i, Lev(v, n) - 1>>] # 1
    BY <1>1, <2>1, <2>3, <2>8, VertexIsReady
  <2>10. QED
    BY <2>2, <2>6, <2>9 DEF Pre
<1>4. QED
  BY <1>2, <1>3 DEF Prereqs, Pre

\* When no vertex runs or has to, every vertex has run: the first that has not would
\* have been told to.
LEMMA AllFired ==
    ASSUME FrameInv, GraphInv, NEW n \in Nat, NEW d \in Nat, Graph(n, d), ~Waiting
    PROVE  Vertices(n, d) \subseteq fired
<1>1. Fits(n, d) /\ Edges(n, d) /\ Table(n, d) /\ Ready = {} /\ running = {}
  BY DEF Graph, Waiting
<1> DEFINE T == Vertices(n, d) \ fired
<1>2. SUFFICES ASSUME T # {} PROVE FALSE
  OBVIOUS
<1>3. \A v \in Vertices(n, d) : v \in Nat
  BY <1>1, VertexFacts
<1>4. PICK v \in T : \A y \in T : v <= y
  <2>1. T \in SUBSET Nat
    BY <1>3
  <2> HIDE DEF T
  <2>2. QED
    BY <1>2, <2>1, Least
<1>5. /\ n \in Nat \ {0} /\ v \in Nat /\ v \in Vertices(n, d)
      /\ Deg(v, n) \in 0..d-1 /\ Lev(v, n) \in 0..n-1
  BY <1>1, <1>4, VertexFacts
<1>6. Predecessors(v) \subseteq fired
  <2>1. ASSUME NEW u \in Predecessors(v) PROVE u \in fired
    <3>1. PICK e \in edges : e[2] = v /\ e[1] = u
      BY <2>1 DEF Predecessors
    <3>2. <<u, v>> \in edges
      <4>1. e = <<e[1], e[2]>>
        BY <1>1 DEF Edges
      <4>2. QED
        BY <3>1, <4>1
    <3>3. u \in Vertices(n, d) /\ u < v
      BY <1>1, <3>2 DEF Edges
    <3>4. u \in Nat /\ ~(v <= u)
      BY <1>3, <1>5, <3>3
    <3>5. QED
      BY <1>4, <3>3, <3>4
  <2>2. QED
    BY <2>1
<1>7. v # 0 => Predecessors(v) # {}
  <2>1. ASSUME v # 0 PROVE Predecessors(v) # {}
    <3>1. v = Lev(v, n) + Deg(v, n) * n
      BY <1>5, Place
    <3>2. Lev(v, n) >= 1 \/ Deg(v, n) >= 1
      BY <1>5, <2>1, <3>1
    <3>3. PICK u : <<u, v>> \in edges
      BY <1>1, <1>5, <3>2 DEF Edges
    <3>4. <<u, v>>[2] = v /\ <<u, v>>[1] = u
      OBVIOUS
    <3>5. QED
      BY <3>3, <3>4 DEF Predecessors
  <2>2. QED
    BY <2>1
<1>8. v \in Ready
  <2>1. v \in 0..Len(vertices) - 1
    BY <1>1, <1>5 DEF Table, Vertices
  <2>2. v \notin fired \cup running
    BY <1>1, <1>4
  <2>3. QED
    BY <1>6, <1>7, <2>1, <2>2 DEF Ready, Told
<1>9. QED
  BY <1>1, <1>8

\* that what was asked for is constructed,
LEMMA ConstructedFollows ==
    ASSUME ResInv PROVE Constructed
<1>1. FrameInv /\ StatusInv /\ AnswerInv /\ GraphInv
  BY CallParts DEF ResInv
<1>2. exited = FALSE
  BY <1>1 DEF GraphInv
<1>3. ASSUME Returning, call.kind = "syzygies", NEW c \in Upto(call.top, 2, MaxLength)
      PROVE  status[c] # 1
  <2>1. call # Idle /\ todo = {} /\ ~(InGraph /\ Waiting)
    BY <1>3 DEF Returning
  <2>2. CASE ~parallel
    BY <1>1, <1>3, <2>1, <2>2 DEF AnswerInv
  <2>3. CASE parallel
    <3>1. Graph(MaxLength + 1, call.top - lo + 1) /\ lo = 0
      BY <1>1, <1>3, <2>3 DEF GraphInv, FrameInv
    <3>2. MaxLength + 1 \in Nat /\ call.top - lo + 1 \in Nat
      BY <3>1, FrameAssumption DEF Graph, Fits
    <3>3. PICK n \in Nat, d \in Nat : n = MaxLength + 1 /\ d = call.top - lo + 1
      BY <3>2
    <3>4. Graph(n, d) /\ ~Waiting
      BY <1>2, <2>1, <2>3, <3>1, <3>3 DEF InGraph
    <3>5. Vertices(n, d) \subseteq fired
      BY <1>1, <3>4, AllFired
    <3>6. Fits(n, d) /\ Running(n, d) /\ n \in Nat \ {0}
      BY <3>4 DEF Graph, Fits
    <3>7. MaxLength \in Int /\ lo \in Int
      BY <1>1, BoundsFacts
    <3>8. c \in Cells /\ c = <<c[1], c[2]>> /\ c[1] \in Int /\ c[2] \in Int /\ c[1] >= lo
      BY <1>3, <3>7, CellFacts DEF Upto
    <3>9. c[1] <= call.top /\ 2 <= c[2] /\ c[2] <= MaxLength
      BY <1>3, <3>7, <3>8 DEF Upto
    <3>10. c[1] \in 0..d-1 /\ c[2] \in 0..n-1
      <4>1. call.top + 1 = d /\ call.top \in Int /\ lo = 0
        BY <1>1, <1>3, <2>3, <3>1, <3>3 DEF GraphInv
      <4>2. c[2] \in 0..n-1
        BY <3>3, <3>7, <3>8, <3>9
      <4>3. QED
        BY <3>8, <3>9, <4>1, <4>2
    <3>11. PICK v \in Nat : v = getIndex(c[2], c[1], n)
      BY <3>6, <3>10, IndexPlace
    <3>12. Lev(v, n) = c[2] /\ Deg(v, n) = c[1]
      BY <3>6, <3>10, <3>11, IndexPlace
    <3>13. v \in Vertices(n, d)
      <4>1. PICK N \in Nat : N = n * d
        OBVIOUS
      <4>2. v < N
        BY <3>6, <3>10, <3>12, <4>1, PlaceInTable
      <4>3. v \in 0..(N - 1)
        BY <4>2
      <4>4. QED
        BY <4>1, <4>3 DEF Vertices
    <3>14. status[<<Deg(v, n), Lev(v, n)>>] # 1
      BY <3>5, <3>6, <3>13 DEF Running
    <3>15. QED
      BY <3>8, <3>12, <3>14
  <2>4. QED
    BY <2>2, <2>3
<1>4. QED
  BY <1>2, <1>3 DEF Constructed

\* and that the answers are exact.
LEMMA AnswerFollows ==
    ASSUME ResInv PROVE AnswerExact
<1>1. FrameInv /\ MinimalInv /\ AnswerInv
  BY CallParts DEF ResInv
<1>2. ASSUME Returning, call.kind = "betti", NEW c \in Upto(call.top, 0, call.len)
      PROVE  minimal[c] = Elements(c) - Rank(c) - Rank(<<c[1] - 1, c[2] + 1>>)
  <2>1. todo = {} /\ call.top \in Int /\ call.len \in Int
    BY <1>1, <1>2 DEF Returning, AnswerInv
  <2>2. \A e \in Needed(call.top, call.len) : Done(e) = Rank(e)
    BY <1>1, <1>2, <2>1 DEF AnswerInv
  <2>3. PICK top \in Int, len \in Int : top = call.top /\ len = call.len
    BY <2>1
  <2>4. lo \in Int /\ top - 1 \in Int /\ len + 1 \in Int
    BY <1>1, <2>3 DEF FrameInv
  <2>5. c \in Cells /\ c[1] \in Int /\ c[2] \in Nat
    BY <1>1, <1>2, CellFacts DEF FrameInv, Upto
  <2>6. c[1] <= top /\ c[2] <= len
    BY <1>2, <2>3, <2>5 DEF Upto
  <2>7. Done(c) = Rank(c)
    <3>1. CASE c[2] = 0
      BY <1>1, <2>5, <3>1, RankFacts DEF Done
    <3>2. CASE c[2] # 0
      <4>1. c \in Upto(top, 1, len)
        BY <2>5, <2>6, <3>2 DEF Upto
      <4>2. QED
        BY <2>2, <2>3, <4>1 DEF Needed
    <3>3. QED
      BY <3>1, <3>2
  <2>8. Done(Up(c)) = Rank(Up(c))
    <3>1. CASE Up(c) \in Cells
      <4>1. Up(c)[1] <= top - 1 /\ Up(c)[2] \in 1..(len + 1)
        BY <2>5, <2>6 DEF Up
      <4>2. Up(c) \in Upto(top - 1, 1, len + 1)
        BY <3>1, <4>1 DEF Upto
      <4>3. QED
        BY <2>2, <2>3, <4>2 DEF Needed
    <3>2. CASE Up(c) \notin Cells
      BY <1>1, <3>2, RankFacts DEF Done, FrameInv
    <3>3. QED
      BY <3>1, <3>2
  <2>9. minimal[c] = Elements(c) - Done(c) - Done(Up(c))
    BY <1>1, <2>5 DEF MinimalInv
  <2>10. QED
    BY <2>7, <2>8, <2>9 DEF Up
<1>3. QED
  BY <1>2 DEF AnswerExact

\* Whichever calls did it, serial or parallel, the syzygies of a cell come after those
\* of the level before up to its degree.
THEOREM PrerequisitesFirst ==
    ASSUME Modest PROVE Spec => []Prereqs
<1>1. ResInv => Prereqs
  BY PrereqsFollow
<1>2. QED
  BY <1>1, Invariance, PTL

\* start_computation constructs every cell up to its degree limit.
THEOREM AllConstructed ==
    ASSUME Modest PROVE Spec => []Constructed
<1>1. ResInv => Constructed
  BY ConstructedFollows
<1>2. QED
  BY <1>1, Invariance, PTL

\* The Betti numbers a call answers with are minimal, whatever calls came before it.
THEOREM AnswersExact ==
    ASSUME Modest PROVE Spec => []AnswerExact
<1>1. ResInv => AnswerExact
  BY AnswerFollows
<1>2. QED
  BY <1>1, Invariance, PTL

-----------------------------------------------------------------------------
(* Calls are finite                                                        *)

\* What is left of a call: the vertices that have not run, those of them that have
\* not begun to, the cells on the work list, and the return.
Unfired == (0..Len(vertices) - 1) \ fired
Left == (Cardinality(Unfired) + Cardinality(Unfired \ running))
            + (Cardinality(todo) + (IF call = Idle THEN 0 ELSE 1))

\* Every step of a call takes something off what is left of it.
Descent == Steps => Left' < Left

\* What is left is finite.
LEMMA LeftFinite ==
    ASSUME ResInv
    PROVE  /\ IsFiniteSet(Unfired) /\ IsFiniteSet(Unfired \ running) /\ IsFiniteSet(todo)
           /\ Left \in Nat
<1>1. Len(vertices) \in Nat
  <2>1. CASE NoGraph
    BY <2>1 DEF NoGraph
  <2>2. CASE SomeGraph
    BY <2>2 DEF SomeGraph, Graph, Table
  <2>3. QED
    BY <2>1, <2>2 DEF ResInv, GraphInv
<1>2. IsFiniteSet(0..Len(vertices) - 1)
  BY <1>1, FS_Interval
<1>3. IsFiniteSet(Unfired)
  BY <1>2, FS_Difference DEF Unfired
<1>4. IsFiniteSet(Unfired \ running)
  BY <1>3, FS_Difference
<1>5. IsFiniteSet(Cells)
  <2>1. lo \in Int /\ hi \in Int /\ MaxLevel \in Int
    BY BoundsFacts DEF ResInv
  <2>2. IsFiniteSet(lo..hi) /\ IsFiniteSet(0..MaxLevel)
    BY <2>1, FS_Interval
  <2>3. QED
    BY <2>2, FS_Product DEF Cells, Degrees, Levels
<1>6. IsFiniteSet(todo)
  <2>1. todo \in SUBSET Cells
    BY DEF ResInv, CallInv
  <2>2. QED
    BY <1>5, <2>1, FS_Subset
<1>7. /\ Cardinality(Unfired) \in Nat /\ Cardinality(Unfired \ running) \in Nat
      /\ Cardinality(todo) \in Nat
  BY <1>3, <1>4, <1>6, FS_CardinalityType
<1>8. QED
  BY <1>3, <1>4, <1>6, <1>7 DEF Left

\* One element less is counted as one less.
LEMMA OneLess ==
    ASSUME NEW S, IsFiniteSet(S), NEW x \in S
    PROVE  /\ Cardinality(S) \in Nat /\ Cardinality(S \ {x}) \in Nat
           /\ Cardinality(S \ {x}) < Cardinality(S)
<1>1. IsFiniteSet(S \ {x}) /\ Cardinality(S \ {x}) = Cardinality(S) - 1
  BY FS_RemoveElement
<1>2. Cardinality(S) \in Nat /\ Cardinality(S \ {x}) \in Nat
  BY <1>1, FS_CardinalityType
<1>3. QED
  BY <1>1, <1>2

\* A vertex that runs, or begins to, is one of those that have not run.
LEMMA NodeDescends ==
    ASSUME ResInv, NEW v \in 0..Len(vertices) - 1, NodeAsks(v) \/ NodeConstructs(v),
           exited' = FALSE
    PROVE  Left' < Left
<1> DEFINE a == Cardinality(Unfired)
           b == Cardinality(Unfired \ running)
           r == Cardinality(todo) + (IF call = Idle THEN 0 ELSE 1)
<1>1. /\ IsFiniteSet(Unfired) /\ IsFiniteSet(Unfired \ running) /\ IsFiniteSet(todo)
      /\ a \in Nat /\ b \in Nat /\ r \in Nat
  BY LeftFinite, FS_CardinalityType
<1>2. UNCHANGED <<vertices, todo, call>>
  BY DEF NodeAsks, NodeConstructs
<1>3. Left = (a + b) + r /\ Left' = (a' + b') + r
  BY <1>1, <1>2 DEF Left, Idle
<1>4. CASE NodeAsks(v)
  <2>1. v \in Unfired /\ v \in Unfired \ running
    BY <1>4 DEF NodeAsks, Ready, Unfired
  <2>2. \/ running' = running \cup {v} /\ UNCHANGED fired
        \/ fired' = fired \cup {v} /\ UNCHANGED running
    BY <1>4 DEF NodeAsks
  <2>3. (Unfired \ running)' = (Unfired \ running) \ {v}
    BY <1>2, <2>2 DEF Unfired
  <2>4. b' \in Nat /\ b' < b
    BY <1>1, <2>1, <2>3, OneLess
  <2>5. a' \in Nat /\ a' <= a
    <3>1. CASE UNCHANGED fired
      BY <1>1, <1>2, <3>1 DEF Unfired
    <3>2. CASE fired' = fired \cup {v}
      <4>1. Unfired' = Unfired \ {v}
        BY <1>2, <3>2 DEF Unfired
      <4>2. QED
        BY <1>1, <2>1, <4>1, OneLess
    <3>3. QED
      BY <2>2, <3>1, <3>2
  <2>6. QED
    BY <1>1, <1>3, <2>4, <2>5
<1>5. CASE NodeConstructs(v)
  <2>1. v \in running /\ running' = running \ {v} /\ fired' = fired \cup {v}
    BY <1>5 DEF NodeConstructs
  <2>2. v \notin fired
    <3>1. ~NoGraph
      BY <2>1 DEF NoGraph
    <3>2. QED
      BY <2>1, <3>1 DEF ResInv, GraphInv, SomeGraph, Graph, Running
  <2>3. v \in Unfired /\ Unfired' = Unfired \ {v}
    BY <1>2, <2>1, <2>2 DEF Unfired
  <2>4. (Unfired \ running)' = Unfired \ running
    BY <2>1, <2>3
  <2>5. a' \in Nat /\ a' < a /\ b' = b
    BY <1>1, <2>3, <2>4, OneLess
  <2>6. QED
    BY <1>1, <1>3, <2>5
<1>6. QED
  BY <1>4, <1>5

\* A turn of the loop takes its cell off the list, and the return ends the call.
LEMMA LoopDescends ==
    ASSUME ResInv, fillinSyzygies \/ computeRank \/ Return
    PROVE  Left' < Left
<1> DEFINE g == Cardinality(Unfired) + Cardinality(Unfired \ running)
           n == Cardinality(todo)
           k == IF call = Idle THEN 0 ELSE 1
<1>1. IsFiniteSet(todo) /\ g \in Nat /\ n \in Nat /\ k \in Nat
  BY LeftFinite, FS_CardinalityType
<1>2. UNCHANGED <<vertices, fired, running>>
  BY DEF fillinSyzygies, computeRank, Return, graph
<1>3. Left = g + (n + k) /\ Left' = g + (n' + k')
  BY <1>1, <1>2 DEF Left, Unfired
<1>4. CASE fillinSyzygies \/ computeRank
  <2>1. todo # {} /\ todo' = todo \ {First} /\ UNCHANGED call
    BY <1>4 DEF fillinSyzygies, computeRank, InLoop
  <2>2. First \in todo
    BY <2>1, FirstFacts DEF ResInv, FrameInv, CallInv
  <2>3. n' \in Nat /\ n' < n /\ k' = k
    BY <1>1, <2>1, <2>2, OneLess DEF Idle
  <2>4. QED
    BY <1>1, <1>3, <2>3
<1>5. CASE Return
  <2>1. call # Idle /\ call' = Idle /\ Idle' = Idle /\ UNCHANGED todo
    BY <1>5 DEF Return, Returning, Idle
  <2>2. k = 1 /\ k' = 0 /\ n' = n
    BY <2>1
  <2>3. QED
    BY <1>1, <1>3, <2>2
<1>6. QED
  BY <1>4, <1>5

\* A call takes at most as many steps as were left of it when it began: neither the
\* loops nor the flow graph do a cell over, whatever calls came before.
THEOREM CallsAreFinite ==
    ASSUME Modest PROVE Spec => [](Left \in Nat) /\ [][Descent]_vars
<1>1. ResInv => Left \in Nat
  BY LeftFinite
<1>2. ResInv /\ ResInv' /\ [Next]_vars => [Descent]_vars
  <2> SUFFICES ASSUME ResInv, ResInv', Steps PROVE Left' < Left
      BY DEF Descent
  <2>1. exited' = FALSE
    BY DEF ResInv, GraphInv
  <2>2. CASE Node
    BY <2>1, <2>2, NodeDescends DEF Node
  <2>3. CASE fillinSyzygies \/ computeRank \/ Return
    BY <2>3, LoopDescends
  <2>4. QED
    BY <2>2, <2>3 DEF Steps
<1>3. QED
  BY <1>1, <1>2, Invariance, PTL DEF Spec

=============================================================================
