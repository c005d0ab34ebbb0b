--------------------------- MODULE HashTable_proofs ---------------------------
(***************************************************************************)
(* Proofs about hash tables, for any keys, hash codes and operations.      *)
(***************************************************************************)
EXTENDS HashTable, FiniteSetTheorems, TLAPS

-----------------------------------------------------------------------------
(* Lengths                                                                 *)

Doubling(S) == 4 \in S /\ \A x \in S : 2 * x \in S

\* Four and what doubling makes of it.
Lengths == {l \in Nat : \A S \in SUBSET Nat : Doubling(S) => l \in S}

\* Four is a length, and twice a length is.
LEMMA LengthsDouble == 4 \in Lengths /\ \A l \in Lengths : 2 * l \in Lengths
BY DEF Lengths, Doubling

\* A length but four is twice a length.
LEMMA LengthsHalve ==
    ASSUME NEW l \in Lengths, l # 4
    PROVE  \E h \in Lengths : l = 2 * h
<1> DEFINE T == {4} \cup {2 * h : h \in Lengths}
<1>1. T \in SUBSET Nat
  BY DEF Lengths
<1>2. Doubling(T)
  BY LengthsDouble DEF Doubling
<1>3. l \in T
  BY <1>1, <1>2 DEF Lengths
<1>4. QED
  BY <1>3

\* A length is a multiple of four.
LEMMA LengthsByFour ==
    ASSUME NEW l \in Lengths
    PROVE  \E q \in Nat : q > 0 /\ l = 4 * q
<1> DEFINE T == {x \in Nat : \E q \in Nat : q > 0 /\ x = 4 * q}
<1>1. T \in SUBSET Nat
  OBVIOUS
<1>2. 4 \in T
  <2>1. 1 \in Nat /\ 1 > 0 /\ 4 = 4 * 1
    OBVIOUS
  <2>2. QED
    BY <2>1
<1>3. ASSUME NEW x \in T PROVE 2 * x \in T
  <2>1. PICK q \in Nat : q > 0 /\ x = 4 * q
    OBVIOUS
  <2>2. 2 * q \in Nat /\ 2 * q > 0 /\ 2 * x = 4 * (2 * q) /\ 2 * x \in Nat
    BY <2>1
  <2>3. QED
    BY <2>2
<1>4. Doubling(T)
  BY <1>2, <1>3 DEF Doubling
<1>5. l \in T
  BY <1>1, <1>4 DEF Lengths
<1>6. QED
  BY <1>5

\* The next length after l is 2*l.
LEMMA LengthsApart ==
    ASSUME NEW l \in Lengths, NEW m \in Lengths, l < m
    PROVE  2 * l <= m
<1> DEFINE T == {x \in Lengths : \A y \in Lengths : y < x => 2 * y <= x}
<1>1. T \in SUBSET Nat
  BY DEF Lengths
<1>2. 4 \in T
  <2>1. ASSUME NEW y \in Lengths PROVE ~(y < 4)
    BY LengthsByFour
  <2>2. QED
    BY <2>1, LengthsDouble
<1>3. ASSUME NEW x \in T PROVE 2 * x \in T
  <2>1. x \in Lengths /\ 2 * x \in Lengths /\ x \in Nat
    BY LengthsDouble DEF Lengths
  <2>2. ASSUME NEW y \in Lengths, y < 2 * x PROVE 2 * y <= 2 * x
    <3>1. CASE y = 4
      <4>1. PICK q \in Nat : q > 0 /\ x = 4 * q
        BY <2>1, LengthsByFour
      <4>2. QED
        BY <3>1, <4>1
    <3>2. CASE y # 4
      <4>1. PICK h \in Lengths : y = 2 * h
        BY <3>2, LengthsHalve
      <4>2. h \in Nat /\ h < x
        BY <2>1, <2>2, <4>1 DEF Lengths
      <4>3. 2 * h <= x
        BY <4>2
      <4>4. QED
        BY <2>1, <4>1, <4>2, <4>3
    <3>3. QED
      BY <3>1, <3>2
  <2>3. QED
    BY <2>1, <2>2
<1>4. Doubling(T)
  BY <1>2, <1>3 DEF Doubling
<1>5. m \in T
  BY <1>1, <1>4 DEF Lengths
<1>6. QED
  BY <1>5

\* What the thresholds of enlarge and shrink keep between entries and length.
Fits(c, l) == 4 * c <= 3 * l /\ (l > 4 => 8 * c > 3 * l)

\* The number of entries determines the length.
LEMMA OneLength ==
    ASSUME NEW c \in Int, NEW l \in Lengths, NEW m \in Lengths, Fits(c, l), Fits(c, m)
    PROVE  l = m
<1>1. ASSUME NEW x \in Lengths, NEW y \in Lengths, Fits(c, x), Fits(c, y), x < y PROVE FALSE
  <2>1. x \in Nat /\ y \in Nat /\ 2 * x <= y
    BY <1>1, LengthsApart DEF Lengths
  <2>2. x >= 4
    BY LengthsByFour
  <2>3. QED
    BY <1>1, <2>1, <2>2 DEF Fits
<1>2. l \in Nat /\ m \in Nat
  BY DEF Lengths
<1>3. QED
  BY <1>1, <1>2

\* After an entry is added.
LEMMA FitsMore ==
    ASSUME NEW c \in Int, NEW l \in Lengths, Fits(c, l)
    PROVE  LET m == IF 4 * c = 3 * l THEN 2 * l ELSE l
           IN  m \in Lengths /\ Fits(c + 1, m)
<1>1. PICK q \in Nat : q > 0 /\ l = 4 * q
  BY LengthsByFour
<1>2. CASE 4 * c = 3 * l
  BY <1>1, <1>2, LengthsDouble DEF Fits
<1>3. CASE 4 * c # 3 * l
  <2>1. c < 3 * q
    BY <1>1, <1>3 DEF Fits
  <2>2. QED
    BY <1>1, <1>3, <2>1 DEF Fits
<1>4. QED
  BY <1>2, <1>3

\* After an entry is removed.
LEMMA FitsLess ==
    ASSUME NEW c \in Int, NEW l \in Lengths, Fits(c, l)
    PROVE  LET m == IF 8 * (c - 1) = 3 * l /\ l > 4 THEN l \div 2 ELSE l
           IN  m \in Lengths /\ Fits(c - 1, m)
<1>1. CASE l = 4
  BY <1>1 DEF Fits
<1>2. CASE l # 4
  <2>1. PICK h \in Lengths : l = 2 * h
    BY <1>2, LengthsHalve
  <2>2. PICK q \in Nat : q > 0 /\ h = 4 * q
    BY <2>1, LengthsByFour
  <2>3. l \div 2 = h
    BY <2>1, <2>2
  <2>4. l > 4
    BY <2>1, <2>2
  <2>5. CASE 8 * (c - 1) = 3 * l
    BY <2>1, <2>2, <2>3, <2>4, <2>5 DEF Fits
  <2>6. CASE 8 * (c - 1) # 3 * l
    <3>1. c > 3 * q /\ c - 1 # 3 * q
      BY <2>1, <2>2, <2>4, <2>6 DEF Fits
    <3>2. QED
      BY <2>1, <2>2, <2>4, <2>6, <3>1 DEF Fits
  <2>7. QED
    BY <2>5, <2>6
<1>3. QED
  BY <1>1, <1>2
-----------------------------------------------------------------------------
(* Arrays of buckets                                                       *)

Cells == Keys \X Values

\* Every cell is in the bucket of its hash code, and no key has two.
Sorted(t, I, l) ==
    \A i \in I : \A e, f \in t[i] : Bucket(e[1], l) = i /\ (e[1] = f[1] => e = f)
Proper(t, l) == t \in [0..l-1 -> SUBSET Cells] /\ Sorted(t, 0..l-1, l)

Found(t, l, k) == {e \in t[Bucket(k, l)] : e[1] = k}

\* A length is positive.
LEMMA LengthsPositive == \A l \in Lengths : l \in Nat /\ l > 0 /\ l >= 4
BY LengthsByFour

\* A bucket is within the array.
LEMMA BucketRange ==
    ASSUME NEW l \in Lengths, NEW k \in Keys
    PROVE  Bucket(k, l) \in 0..l-1
<1>1. Hash[k] \in Nat /\ l \in Nat /\ l > 0
  BY LengthsPositive, HashTableAssumption
<1>2. QED
  BY <1>1 DEF Bucket

\* Cells are pairs.
LEMMA CellPairs ==
    ASSUME NEW e \in Cells
    PROVE  e[1] \in Keys /\ e[2] \in Values /\ e = <<e[1], e[2]>>
BY DEF Cells

\* enlarge and shrink lose and double no cell.
LEMMA RehashedProper ==
    ASSUME NEW l \in Lengths, NEW m \in Lengths, NEW t, Proper(t, l),
           NEW r, r = Rehashed(UNION {t[i] : i \in 0..l-1}, m)
    PROVE  Proper(r, m) /\ \A k \in Keys : Found(r, m, k) = Found(t, l, k)
<1> DEFINE E == UNION {t[i] : i \in 0..l-1}
<1>1. E \in SUBSET Cells
  BY DEF Proper
<1>2. ASSUME NEW e \in E
      PROVE  /\ e \in t[Bucket(e[1], l)] /\ e[1] \in Keys
             /\ Bucket(e[1], l) \in 0..l-1
  <2>1. PICK i \in 0..l-1 : e \in t[i]
    OBVIOUS
  <2>2. Bucket(e[1], l) = i
    BY <2>1 DEF Proper, Sorted
  <2>3. QED
    BY <1>1, <2>1, <2>2, CellPairs
<1>3. ASSUME NEW e \in E, NEW f \in E, e[1] = f[1] PROVE e = f
  BY <1>2, <1>3 DEF Proper, Sorted
<1>4. r \in [0..m-1 -> SUBSET Cells]
  BY <1>1 DEF Rehashed
<1>5. \A i \in 0..m-1 : r[i] = {e \in E : Bucket(e[1], m) = i}
  BY DEF Rehashed
<1>6. Proper(r, m)
  BY <1>3, <1>4, <1>5 DEF Proper, Sorted
<1>7. ASSUME NEW k \in Keys PROVE Found(r, m, k) = Found(t, l, k)
  <2>1. Bucket(k, l) \in 0..l-1 /\ Bucket(k, m) \in 0..m-1
    BY BucketRange
  <2>2. Found(r, m, k) = {e \in E : e[1] = k}
    BY <1>5, <2>1 DEF Found
  <2>3. Found(t, l, k) = {e \in E : e[1] = k}
    BY <1>2, <2>1 DEF Found
  <2>4. QED
    BY <2>2, <2>3
<1>8. QED
  BY <1>6, <1>7

\* One bucket is written: the cells of one key are replaced by S.
Written(t, l, k, S) == [t EXCEPT ![Bucket(k, l)] = (@ \ Found(t, l, k)) \cup S]

\* Then they are found under that key, and the others as before.
LEMMA BucketWritten ==
    ASSUME NEW l \in Lengths, NEW t, Proper(t, l), NEW k \in Keys,
           NEW S \in SUBSET ({k} \X Values), \A e, f \in S : e = f
    PROVE  /\ Proper(Written(t, l, k, S), l)
           /\ \A j \in Keys :
                Found(Written(t, l, k, S), l, j) = IF j = k THEN S ELSE Found(t, l, j)
<1> DEFINE b == Bucket(k, l)
           u == [t EXCEPT ![b] = (@ \ Found(t, l, k)) \cup S]
<1>1. b \in 0..l-1
  BY BucketRange
<1>2. t \in [0..l-1 -> SUBSET Cells]
  BY DEF Proper
<1>3. S \in SUBSET Cells /\ \A e \in S : e[1] = k
  BY DEF Cells
<1>4. /\ u \in [0..l-1 -> SUBSET Cells]
      /\ u[b] = (t[b] \ Found(t, l, k)) \cup S
      /\ \A i \in 0..l-1 : i # b => u[i] = t[i]
  BY <1>1, <1>2, <1>3
<1>5. \A e \in t[b] \ Found(t, l, k) : e[1] # k
  BY DEF Found
<1>6. Sorted(u, 0..l-1, l)
  <2> SUFFICES ASSUME NEW i \in 0..l-1, NEW e \in u[i], NEW f \in u[i]
               PROVE  Bucket(e[1], l) = i /\ (e[1] = f[1] => e = f)
      BY DEF Sorted
  <2>1. CASE i # b
    BY <1>4, <2>1 DEF Proper, Sorted
  <2>2. CASE i = b
    <3>1. e \in S \/ e \in t[b] \ Found(t, l, k)
      BY <1>4, <2>2
    <3>2. f \in S \/ f \in t[b] \ Found(t, l, k)
      BY <1>4, <2>2
    <3>3. Bucket(e[1], l) = i
      BY <1>1, <1>3, <2>2, <3>1 DEF Proper, Sorted
    <3>4. e[1] = f[1] => e = f
      BY <1>1, <1>3, <1>5, <3>1, <3>2 DEF Proper, Sorted
    <3>5. QED
      BY <3>3, <3>4
  <2>3. QED
    BY <2>1, <2>2
<1>7. ASSUME NEW j \in Keys PROVE Found(u, l, j) = IF j = k THEN S ELSE Found(t, l, j)
  <2>1. Bucket(j, l) \in 0..l-1
    BY BucketRange
  <2>2. CASE j = k
    <3>1. Found(u, l, k) = {e \in u[b] : e[1] = k}
      BY DEF Found
    <3>2. QED
      BY <1>3, <1>4, <1>5, <2>2, <3>1
  <2>3. CASE j # k
    <3>1. CASE Bucket(j, l) = b
      <4>1. Found(u, l, j) = {e \in u[b] : e[1] = j} /\ Found(t, l, j) = {e \in t[b] : e[1] = j}
        BY <3>1 DEF Found
      <4>2. \A e \in Found(t, l, k) : e[1] = k
        BY DEF Found
      <4>3. \A e : e \in u[b] /\ e[1] = j <=> e \in t[b] /\ e[1] = j
        BY <1>3, <1>4, <2>3, <4>2
      <4>4. Found(u, l, j) = Found(t, l, j)
        BY <4>1, <4>3
      <4>5. QED
        BY <2>3, <4>4
    <3>2. CASE Bucket(j, l) # b
      BY <1>4, <2>1, <2>3, <3>2 DEF Found
    <3>3. QED
      BY <3>1, <3>2
  <2>4. QED
    BY <2>2, <2>3
<1>8. QED
  BY <1>4, <1>6, <1>7 DEF Proper, Written
-----------------------------------------------------------------------------
(* One change of a table                                                   *)

Size(S) == IF S = {} THEN 0 ELSE 1

\* The cells of key k in table n become S.
Change(n, k, S, l, t, c) ==
    /\ Writable(n) /\ Write(n, l, t, c) /\ UNCHANGED mutable
    /\ l \in Lengths /\ Proper(t, l)
    /\ \A j \in Keys : Found(t, l, j) = IF j = k THEN S ELSE With(n, j)
    /\ c = count[n] + Size(S) - Size(With(n, k))
    /\ Fits(count[n], len[n]) => Fits(c, l)

\* What is stored under one key: nothing, or one cell.
Stored(k) == {{}} \cup {{<<k, v>>} : v \in Values}

TableInv ==
    /\ len \in [Tables -> Lengths] /\ count \in [Tables -> Int]
    /\ DOMAIN table = Tables /\ table = [n \in Tables |-> table[n]]
    /\ mutable \in [Tables -> BOOLEAN]
    /\ \A n \in Tables : Proper(table[n], len[n])

\* The cells of a key are one or none.
LEMMA FoundOnce ==
    ASSUME NEW l \in Lengths, NEW t, Proper(t, l), NEW k \in Keys
    PROVE  /\ \A e, f \in Found(t, l, k) : e = f
           /\ Found(t, l, k) \in Stored(k)
<1>1. Bucket(k, l) \in 0..l-1
  BY BucketRange
<1>2. \A e, f \in Found(t, l, k) : e = f
  BY <1>1 DEF Found, Proper, Sorted
<1>3. ASSUME NEW e \in Found(t, l, k) PROVE e = <<k, e[2]>> /\ e[2] \in Values
  <2>1. e \in t[Bucket(k, l)] /\ e[1] = k
    BY DEF Found
  <2>2. e \in Cells
    BY <1>1, <2>1 DEF Proper
  <2>3. QED
    BY <2>1, <2>2, CellPairs
<1>4. CASE Found(t, l, k) = {}
  BY <1>2, <1>4 DEF Stored
<1>5. CASE Found(t, l, k) # {}
  <2>1. PICK e \in Found(t, l, k) : TRUE
    BY <1>5
  <2>2. Found(t, l, k) = {e}
    BY <1>2
  <2>3. QED
    BY <1>2, <1>3, <2>2 DEF Stored
<1>6. QED
  BY <1>4, <1>5

\* The cells of a key are found where they were.
LEMMA WithFound ==
    ASSUME TableInv, NEW n \in Tables, NEW k \in Keys
    PROVE  /\ With(n, k) = Found(table[n], len[n], k)
           /\ len[n] \in Lengths /\ Proper(table[n], len[n]) /\ count[n] \in Int
           /\ DOMAIN table[n] = 0..len[n]-1
BY DEF With, Found, TableInv, Proper

\* A key that is there gets a new value.
LEMMA ReplaceChanges ==
    ASSUME TableInv, NEW n \in Tables, NEW k \in Keys, NEW v \in Values,
           Writable(n), Replace(n, k, v), UNCHANGED mutable
    PROVE  \E l, t, c : Change(n, k, {<<k, v>>}, l, t, c)
<1> DEFINE t == [table[n] EXCEPT ![Bucket(k, len[n])] = (@ \ With(n, k)) \cup {<<k, v>>}]
<1>1. Proper(t, len[n]) /\ \A j \in Keys :
          Found(t, len[n], j) = IF j = k THEN {<<k, v>>} ELSE With(n, j)
  <2>1. {<<k, v>>} \in SUBSET ({k} \X Values) /\ \A e, f \in {<<k, v>>} : e = f
    OBVIOUS
  <2>2. t = Written(table[n], len[n], k, {<<k, v>>})
    BY WithFound DEF Written
  <2>3. \A j \in Keys : With(n, j) = Found(table[n], len[n], j)
    BY WithFound
  <2> HIDE DEF t
  <2>4. QED
    BY <2>1, <2>2, <2>3, BucketWritten, WithFound
<1>2. Size({<<k, v>>}) = 1 /\ Size(With(n, k)) = 1
  BY DEF Size, Replace
<1>3. Write(n, len[n], t, count[n])
  BY DEF Replace
<1>4. count[n] = count[n] + 1 - 1
  BY WithFound
<1>5. Change(n, k, {<<k, v>>}, len[n], t, count[n])
  BY <1>1, <1>2, <1>3, <1>4, WithFound DEF Change
<1>6. QED
  BY <1>5

\* A key that is not there gets a cell, after the table is enlarged.
LEMMA InsertChanges ==
    ASSUME TableInv, NEW n \in Tables, NEW k \in Keys, NEW v \in Values,
           Writable(n), Insert(n, k, v), UNCHANGED mutable
    PROVE  \E l, t, c : Change(n, k, {<<k, v>>}, l, t, c)
<1> DEFINE S == {<<k, v>>}
           full == 4 * count[n] = 3 * len[n]
           l == IF full THEN 2 * len[n] ELSE len[n]
           t == IF full THEN Rehashed(Entries(n), l) ELSE table[n]
           u == [t EXCEPT ![Bucket(k, l)] = @ \cup S]
           c == count[n] + 1
<1>1. With(n, k) = {} /\ Write(n, l, u, c)
  BY DEF Insert
<1>2. l \in Lengths
  BY WithFound, LengthsDouble
<1>3. Proper(t, l) /\ \A j \in Keys : Found(t, l, j) = With(n, j)
  BY <1>2, RehashedProper, WithFound DEF Entries
<1>4. t[Bucket(k, l)] \cup S = (t[Bucket(k, l)] \ Found(t, l, k)) \cup S
  <2> HIDE DEF t, l
  <2>1. Found(t, l, k) = {}
    BY <1>1, <1>3
  <2>2. QED
    BY <2>1
<1>5. S \in SUBSET ({k} \X Values) /\ \A e, f \in S : e = f
  OBVIOUS
<1>6. Proper(u, l) /\ \A j \in Keys : Found(u, l, j) = IF j = k THEN S ELSE With(n, j)
  <2> HIDE DEF t, l, S
  <2>1. u = Written(t, l, k, S)
    BY <1>4 DEF Written
  <2> HIDE DEF u
  <2>2. QED
    BY <1>2, <1>3, <1>5, <2>1, BucketWritten
<1>7. c = count[n] + Size(S) - Size(With(n, k))
  <2>1. count[n] \in Int
    BY WithFound
  <2>2. Size(S) = 1 /\ Size(With(n, k)) = 0
    BY <1>1 DEF Size
  <2>3. QED
    BY <2>1, <2>2
<1>8. Fits(count[n], len[n]) => Fits(c, l)
  BY WithFound, FitsMore
<1>9. Change(n, k, S, l, u, c)
  BY <1>1, <1>2, <1>6, <1>7, <1>8 DEF Change
<1>10. QED
  BY <1>9

\* A cell goes, and then the table is shrunk.
LEMMA RemoveChanges ==
    ASSUME TableInv, NEW n \in Tables, NEW k \in Keys, Remove(n, k)
    PROVE  \E l, t, c : Change(n, k, {}, l, t, c)
<1> DEFINE c == count[n] - 1
           t == [table[n] EXCEPT ![Bucket(k, len[n])] = @ \ With(n, k)]
           sparse == 8 * c = 3 * len[n] /\ len[n] > 4
           l == IF sparse THEN len[n] \div 2 ELSE len[n]
           u == IF sparse THEN Rehashed(UNION {t[i] : i \in DOMAIN t}, l) ELSE t
<1>1. /\ Writable(n) /\ With(n, k) # {} /\ UNCHANGED mutable
      /\ Write(n, l, u, c)
  BY DEF Remove
<1>2. {} \in SUBSET ({k} \X Values) /\ \A e, f \in {} : e = f
  OBVIOUS
<1>3. t = Written(table[n], len[n], k, {})
  BY WithFound DEF Written
<1>4. Proper(t, len[n]) /\ \A j \in Keys :
          Found(t, len[n], j) = IF j = k THEN {} ELSE With(n, j)
  <2>1. \A j \in Keys : With(n, j) = Found(table[n], len[n], j)
    BY WithFound
  <2> HIDE DEF t
  <2>2. QED
    BY <1>2, <1>3, <2>1, BucketWritten, WithFound
<1>5. DOMAIN t = 0..len[n]-1
  BY <1>4 DEF Proper
<1>6. l \in Lengths
  <2>1. CASE sparse
    <3>1. len[n] # 4 /\ len[n] \in Lengths
      BY <2>1, WithFound
    <3>2. PICK h \in Lengths : len[n] = 2 * h
      BY <3>1, LengthsHalve
    <3>3. len[n] \div 2 = h
      BY <3>2 DEF Lengths
    <3>4. QED
      BY <2>1, <3>3
  <2>2. CASE ~sparse
    BY <2>2, WithFound
  <2>3. QED
    BY <2>1, <2>2
<1>7. Proper(u, l) /\ \A j \in Keys : Found(u, l, j) = IF j = k THEN {} ELSE With(n, j)
  <2> HIDE DEF t
  <2>1. CASE sparse
    <3>1. u = Rehashed(UNION {t[i] : i \in 0..len[n]-1}, l)
      BY <1>5, <2>1
    <3> HIDE DEF u, l
    <3>2. QED
      BY <1>4, <1>6, <3>1, RehashedProper, WithFound
  <2>2. CASE ~sparse
    BY <1>4, <2>2
  <2>3. QED
    BY <2>1, <2>2
<1>8. Size({}) = 0 /\ Size(With(n, k)) = 1 /\ c = count[n] + 0 - 1
  BY <1>1, WithFound DEF Size
<1>9. Fits(count[n], len[n]) => Fits(c, l)
  BY WithFound, FitsLess
<1>10. Change(n, k, {}, l, u, c)
  BY <1>1, <1>6, <1>7, <1>8, <1>9 DEF Change
<1>11. QED
  BY <1>10
\* Every operation on a table but copying and making sets is one change.
LEMMA NextChanges ==
    ASSUME TableInv, Next
    PROVE  \/ \E n \in Tables, k \in Keys : \E S \in Stored(k) : \E l, t, c : Change(n, k, S, l, t, c)
           \/ \E n \in Tables : SetHash(n)
           \/ \E n, m \in Tables : Copy(n, m) \/ SetBegin(n, m)
           \/ SetLength \/ SetArray \/ SetBucket \/ SetDone
<1> DEFINE Goal == \E n \in Tables, k \in Keys : \E S \in Stored(k) : \E l, t, c : Change(n, k, S, l, t, c)
<1>1. ASSUME NEW n \in Tables, NEW k \in Keys, NEW v \in Values,
             Writable(n), Replace(n, k, v) \/ Insert(n, k, v), UNCHANGED mutable
      PROVE  Goal
  <2>1. {<<k, v>>} \in Stored(k)
    BY DEF Stored
  <2>2. \E l, t, c : Change(n, k, {<<k, v>>}, l, t, c)
    BY <1>1, InsertChanges, ReplaceChanges
  <2>3. QED
    BY <2>1, <2>2
<1>2. ASSUME NEW n \in Tables, NEW k \in Keys, Remove(n, k) PROVE Goal
  <2>1. {} \in Stored(k)
    BY DEF Stored
  <2>2. \E l, t, c : Change(n, k, {}, l, t, c)
    BY <1>2, RemoveChanges
  <2>3. QED
    BY <2>1, <2>2
<1>3. ASSUME NEW n \in Tables, NEW o \in Offers,
             \/ Store(n, o[1], o[2]) \/ StoreNoClobber(n, o[1], o[2])
             \/ StoreMustClobber(n, o[1], o[2]) \/ StoreWithCollisionHandler(n, o[1], o[2])
      PROVE  Goal
  <2>1. o[1] \in Keys /\ o[2] \in Values
    BY HashTableAssumption
  <2>2. /\ Writable(n) /\ UNCHANGED mutable
        /\ \E v \in Values : Replace(n, o[1], v) \/ Insert(n, o[1], v)
    BY <1>3, <2>1 DEF Store, StoreNoClobber, StoreMustClobber, StoreWithCollisionHandler
  <2>3. QED
    BY <1>1, <2>1, <2>2
<1>4. QED
  BY <1>2, <1>3 DEF Next

-----------------------------------------------------------------------------
(* Tables, and the set that is being made                                  *)

Fields == {"on", "from", "to", "live", "len", "size", "pos", "old", "at", "got"}

\* When no table is resized between the two readings, makeSet reads one array, of
\* the length of the set.
SetInv ==
    /\ DOMAIN set = Fields
    /\ set.on =>
         /\ set.from \in Tables /\ set.to \in Tables /\ set.from # set.to
         /\ set.at \in Nat /\ set.got \in [0..set.at-1 -> SUBSET Cells]
         /\ set.pos = set.at /\ set.at <= set.size
         /\ set.len # 0 => set.len \in Lengths
         /\ set.size # 0 => set.size = set.len
         /\ set.size = 0 /\ set.len # 0 => set.len = len[set.from]
         /\ set.at < set.size =>
              Proper(Source, set.len) /\ (set.live => set.len = len[set.from])
         /\ Sorted(set.got, 0..set.at-1, set.len)

\* A change of one key leaves all others, and the set, right.
LEMMA ChangeKeeps ==
    ASSUME TableInv, SetInv, NEW n \in Tables, NEW k \in Keys, NEW S \in Stored(k),
           NEW l, NEW t, NEW c, Change(n, k, S, l, t, c), Steady \/ ~set.on
    PROVE  /\ TableInv' /\ SetInv'
           /\ \A m \in Tables, j \in Keys :
                With(m, j)' = IF m = n /\ j = k THEN S ELSE With(m, j)
<1>1. /\ len' = [len EXCEPT ![n] = l] /\ table' = [table EXCEPT ![n] = t]
      /\ count' = [count EXCEPT ![n] = c] /\ mutable' = mutable
  BY DEF Change, Write
<1>2. l \in Lengths /\ Proper(t, l)
  BY DEF Change
<1>3. c \in Int
  BY WithFound DEF Change, Size
<1>4. /\ len' \in [Tables -> Lengths] /\ count' \in [Tables -> Int]
      /\ mutable' \in [Tables -> BOOLEAN]
  BY <1>1, <1>2, <1>3 DEF TableInv
<1>5. DOMAIN table' = Tables /\ table' = [m \in Tables |-> table'[m]]
  BY <1>1 DEF TableInv
<1>6. /\ table'[n] = t /\ len'[n] = l
      /\ \A m \in Tables : m # n => table'[m] = table[m] /\ len'[m] = len[m]
  BY <1>1 DEF TableInv
<1>7. TableInv'
  BY <1>2, <1>4, <1>5, <1>6 DEF TableInv
<1>8. SetInv'
  <2>1. CASE set.on /\ set.from = n /\ set.pos < set.size /\ set.live /\ l # len[n]
    <3>1. set' = [set EXCEPT !.live = FALSE, !.old = table[n]]
      BY <2>1 DEF Change, Write
    <3>2. /\ DOMAIN set' = Fields /\ ~set'.live /\ set'.old = table[n]
          /\ set'.on = set.on /\ set'.from = set.from /\ set'.to = set.to /\ set'.at = set.at
          /\ set'.got = set.got /\ set'.len = set.len /\ set'.size = set.size
          /\ set'.pos = set.pos
      BY <3>1 DEF SetInv, Fields
    <3>3. Source' = Source
      BY <2>1, <3>2 DEF Source
    <3>4. set.size # 0
      BY <2>1 DEF SetInv
    <3>5. QED
      BY <2>1, <3>2, <3>3, <3>4 DEF SetInv
  <2>2. CASE ~(set.on /\ set.from = n /\ set.pos < set.size /\ set.live /\ l # len[n])
    <3>1. set' = set
      BY <2>2 DEF Change, Write
    <3>2. CASE ~set.on
      BY <3>1, <3>2 DEF SetInv
    <3>3. CASE set.on /\ set.size = 0
      <4>1. ASSUME set.len # 0 PROVE set.len = len'[set.from]
        <5>1. set.at = 0 /\ set.pos = 0 /\ set.len \in Lengths /\ set.len = len[set.from]
          BY <3>3, <4>1 DEF SetInv
        <5>2. set.at < set.len
          BY <5>1, LengthsPositive
        <5>3. QED
          BY <3>3, <5>1, <5>2 DEF Steady
      <4>2. ~(set.at < set.size)
        BY <3>3 DEF SetInv
      <4>3. QED
        BY <3>1, <3>3, <4>1, <4>2 DEF SetInv
    <3>4. CASE set.on /\ set.size # 0
      <4>1. ASSUME set.at < set.size
            PROVE  Proper(Source', set.len) /\ (set.live => set.len = len'[set.from])
        <5>1. Proper(Source, set.len) /\ (set.live => set.len = len[set.from])
          BY <3>4, <4>1 DEF SetInv
        <5>2. CASE set.live /\ set.from = n
          <6>1. Source' = t /\ set.len = l /\ len'[set.from] = l
            BY <1>6, <2>2, <3>1, <3>4, <4>1, <5>1, <5>2 DEF Source, SetInv
          <6>2. QED
            BY <1>2, <6>1
        <5>3. CASE ~(set.live /\ set.from = n)
          <6>1. Source' = Source /\ (set.live => len'[set.from] = len[set.from])
            BY <1>6, <3>1, <3>4, <5>3 DEF Source, SetInv
          <6>2. QED
            BY <5>1, <6>1
        <5>4. QED
          BY <5>2, <5>3
      <4>2. QED
        BY <3>1, <3>4, <4>1 DEF SetInv
    <3>5. QED
      BY <3>2, <3>3, <3>4
  <2>3. QED
    BY <2>1, <2>2
<1>9. ASSUME NEW m \in Tables, NEW j \in Keys
      PROVE  With(m, j)' = IF m = n /\ j = k THEN S ELSE With(m, j)
  <2>1. With(m, j)' = Found(table'[m], len'[m], j)
    BY DEF With, Found, Bucket
  <2>2. QED
    BY <1>6, <2>1, WithFound DEF Change
<1>10. QED
  BY <1>7, <1>8, <1>9

\* Empty buckets are right.
LEMMA EmptyProper ==
    /\ Proper([i \in 0..3 |-> {}], 4)
    /\ \A k \in Keys : Found([i \in 0..3 |-> {}], 4, k) = {}
<1>1. ASSUME NEW k \in Keys PROVE Bucket(k, 4) \in 0..3
  BY BucketRange, LengthsDouble
<1>2. QED
  BY <1>1 DEF Proper, Sorted, Found

\* A table becomes another.
Become(m, l, t) ==
    /\ len' = [len EXCEPT ![m] = l] /\ table' = [table EXCEPT ![m] = t]
    /\ mutable' \in [Tables -> BOOLEAN] /\ count' \in [Tables -> Int]

\* A table that becomes another proper one stays a table; the others are as before.
LEMMA BecomeKeeps ==
    ASSUME TableInv, NEW m \in Tables, NEW l \in Lengths, NEW t, Proper(t, l), Become(m, l, t)
    PROVE  /\ TableInv'
           /\ table'[m] = t /\ len'[m] = l
           /\ \A n \in Tables : n # m => table'[n] = table[n] /\ len'[n] = len[n]
           /\ \A n \in Tables, j \in Keys :
                With(n, j)' = IF n = m THEN Found(t, l, j) ELSE With(n, j)
<1>1. /\ table'[m] = t /\ len'[m] = l
      /\ \A n \in Tables : n # m => table'[n] = table[n] /\ len'[n] = len[n]
  BY DEF Become, TableInv
<1>2. /\ len' \in [Tables -> Lengths]
      /\ DOMAIN table' = Tables /\ table' = [n \in Tables |-> table'[n]]
  BY DEF Become, TableInv
<1>3. TableInv'
  BY <1>1, <1>2 DEF Become, TableInv
<1>4. ASSUME NEW n \in Tables, NEW j \in Keys
      PROVE  With(n, j)' = IF n = m THEN Found(t, l, j) ELSE With(n, j)
  <2>1. With(n, j)' = Found(table'[n], len'[n], j)
    BY DEF With, Found, Bucket
  <2>2. QED
    BY <1>1, <2>1, WithFound
<1>5. QED
  BY <1>1, <1>3, <1>4
HashInv == TableInv /\ SetInv

\* Tables begin empty.
LEMMA HashBegins == Init => HashInv
<1> SUFFICES ASSUME Init PROVE HashInv
    OBVIOUS
<1>1. TableInv
  <2>1. \A n \in Tables : len[n] = 4 /\ table[n] = [i \in 0..3 |-> {}]
    BY DEF Init
  <2>2. QED
    BY <2>1, EmptyProper, LengthsDouble DEF Init, TableInv
<1>2. SetInv
  BY DEF Init, NoSet, SetInv, Fields
<1>3. QED
  BY <1>1, <1>2 DEF HashInv

\* A copy has the cells of its original.
LEMMA CopyKeeps ==
    ASSUME HashInv, NEW n \in Tables, NEW m \in Tables, Copy(n, m)
    PROVE  /\ HashInv'
           /\ \A o \in Tables, j \in Keys : With(o, j)' = IF o = m THEN With(n, j) ELSE With(o, j)
<1>1. Become(m, len[n], table[n])
  BY DEF Copy, Become, HashInv, TableInv
<1>2. len[n] \in Lengths /\ Proper(table[n], len[n])
  BY DEF HashInv, TableInv
<1>3. TableInv' /\ \A o \in Tables, j \in Keys :
          With(o, j)' = IF o = m THEN Found(table[n], len[n], j) ELSE With(o, j)
  BY <1>1, <1>2, BecomeKeeps DEF HashInv
<1>4. SetInv'
  BY DEF Copy, HashInv, SetInv
<1>5. QED
  BY <1>3, <1>4, WithFound DEF HashInv

\* A set begins as an empty table.
LEMMA SetBeginKeeps ==
    ASSUME HashInv, NEW n \in Tables, NEW m \in Tables, SetBegin(n, m)
    PROVE  /\ HashInv'
           /\ \A o \in Tables, j \in Keys : With(o, j)' = IF o = m THEN {} ELSE With(o, j)
<1>1. Become(m, 4, [i \in 0..3 |-> {}])
  BY DEF SetBegin, Become, HashInv, TableInv
<1>2. TableInv' /\ \A o \in Tables, j \in Keys :
          With(o, j)' = IF o = m THEN Found([i \in 0..3 |-> {}], 4, j) ELSE With(o, j)
  BY <1>1, BecomeKeeps, EmptyProper, LengthsDouble DEF HashInv
<1>3. SetInv'
  <2>1. /\ DOMAIN set' = Fields /\ set'.from = n /\ set'.to = m /\ set'.len = 0
        /\ set'.size = 0 /\ set'.pos = 0 /\ set'.at = 0 /\ set'.got = NoArray
    BY DEF SetBegin, NoSet, Fields
  <2>2. NoArray \in [0..0-1 -> SUBSET Cells]
    BY DEF NoArray
  <2>3. n # m
    BY DEF SetBegin
  <2>4. Sorted(NoArray, 0..0-1, 0)
    BY DEF Sorted
  <2>5. QED
    BY <2>1, <2>2, <2>3, <2>4 DEF SetInv
<1>4. QED
  BY <1>2, <1>3, EmptyProper DEF HashInv

\* The steps of makeSet in between change no table: the length is read,
LEMMA SetLengthKeeps ==
    ASSUME HashInv, SetLength
    PROVE  HashInv'
<1>1. /\ UNCHANGED <<len, table, count, mutable>> /\ set.on /\ set.len = 0
      /\ set' = [set EXCEPT !.len = len[set.from]]
  BY DEF SetLength
<1>2. TableInv'
  BY <1>1 DEF HashInv, TableInv
<1>3. /\ DOMAIN set' = Fields /\ set'.len = len[set.from] /\ set'.size = set.size
      /\ set'.on = set.on /\ set'.from = set.from /\ set'.to = set.to /\ set'.at = set.at
      /\ set'.got = set.got /\ set'.pos = set.pos
  BY <1>1 DEF HashInv, SetInv, Fields
<1>4. set.at = 0 /\ set.size = 0 /\ set.from \in Tables
  BY <1>1 DEF HashInv, SetInv
<1>5. len[set.from] \in Lengths /\ Sorted(set.got, 0..0-1, len[set.from])
  BY <1>4 DEF HashInv, TableInv, Sorted
<1>6. SetInv'
  BY <1>1, <1>3, <1>4, <1>5 DEF HashInv, SetInv
<1>7. QED
  BY <1>2, <1>6 DEF HashInv

\* and then the array, which is of this length.
LEMMA SetArrayKeeps ==
    ASSUME HashInv, SetArray
    PROVE  HashInv'
<1>1. /\ UNCHANGED <<len, table, count, mutable>> /\ set.on /\ set.at < set.len
      /\ set.pos = set.size
      /\ set' = [set EXCEPT !.size = len[set.from], !.pos = 0, !.live = TRUE, !.old = NoArray]
  BY DEF SetArray
<1>2. TableInv'
  BY <1>1 DEF HashInv, TableInv
<1>3. /\ DOMAIN set' = Fields /\ set'.len = set.len /\ set'.size = len[set.from]
      /\ set'.on = set.on /\ set'.from = set.from /\ set'.to = set.to /\ set'.at = set.at
      /\ set'.got = set.got /\ set'.pos = 0 /\ set'.live
  BY <1>1 DEF HashInv, SetInv, Fields
<1>4. set.from \in Tables /\ set.size = 0 /\ set.at = 0 /\ set.len # 0
  BY <1>1 DEF HashInv, SetInv
<1>5. set.len \in Lengths /\ set.len = len[set.from]
  BY <1>1, <1>4 DEF HashInv, SetInv
<1>6. Source' = table[set.from] /\ Proper(table[set.from], len[set.from])
  BY <1>1, <1>3, <1>4 DEF Source, HashInv, TableInv
<1>7. 0 <= set.len
  BY <1>5, LengthsPositive
<1>8. SetInv'
  BY <1>1, <1>3, <1>4, <1>5, <1>6, <1>7 DEF HashInv, SetInv
<1>9. QED
  BY <1>2, <1>8 DEF HashInv

\* The cells of bucket i, with the value One.
Ones(B) == {<<e[1], One>> : e \in B}

\* makeSet goes on with the copy of one more bucket.
LEMMA SetBucketKeeps ==
    ASSUME HashInv, SetBucket
    PROVE  /\ HashInv'
           /\ set'.got[set.at] = Ones(Source[set.at])
           /\ \A i \in 0..set.at-1 : set'.got[i] = set.got[i]
           /\ set'.at = set.at + 1
<1> DEFINE cells == Ones(Source[set.at])
           got == [i \in 0..set.at |-> IF i = set.at THEN cells ELSE set.got[i]]
<1>1. /\ UNCHANGED <<len, table, count, mutable>> /\ set.on /\ set.at < set.len
      /\ set.pos = set.at /\ set.at < set.size
      /\ set' = [set EXCEPT !.at = @ + 1, !.pos = @ + 1, !.got = got]
  BY DEF SetBucket, HashInv, SetInv, Ones
<1>2. TableInv'
  BY <1>1 DEF HashInv, TableInv
<1> HIDE DEF got
<1>3. /\ DOMAIN set' = Fields /\ set'.at = set.at + 1 /\ set'.got = got
      /\ set'.on = set.on /\ set'.from = set.from /\ set'.to = set.to /\ set'.size = set.size
      /\ set'.pos = set.at + 1
      /\ set'.len = set.len /\ set'.live = set.live /\ set'.old = set.old
  BY <1>1 DEF HashInv, SetInv, Fields
<1>4. /\ set.at \in Nat /\ set.len \in Lengths /\ set.len \in Nat /\ set.size = set.len
      /\ Proper(Source, set.len) /\ Sorted(set.got, 0..set.at-1, set.len)
      /\ set.got \in [0..set.at-1 -> SUBSET Cells]
  BY <1>1 DEF HashInv, SetInv, Lengths
<1>5. Source' = Source
  BY <1>1, <1>3 DEF Source
<1>6. Source[set.at] \in SUBSET Cells
  BY <1>1, <1>4 DEF Proper
<1>7. cells \in SUBSET Cells
  BY <1>6, HashTableAssumption, CellPairs DEF Ones, Cells
<1>8. /\ got \in [0..set.at -> SUBSET Cells] /\ got[set.at] = cells
      /\ \A i \in 0..set.at-1 : got[i] = set.got[i]
  <2> HIDE DEF cells
  <2>1. QED
    BY <1>4, <1>7 DEF got
<1>9. 0..(set.at + 1)-1 = 0..set.at
  BY <1>4
<1>10. Sorted(got, 0..set.at, set.len)
  <2> SUFFICES ASSUME NEW i \in 0..set.at, NEW e \in got[i], NEW f \in got[i]
               PROVE  Bucket(e[1], set.len) = i /\ (e[1] = f[1] => e = f)
      BY DEF Sorted
  <2>1. CASE i = set.at
    <3>1. PICK x \in Source[set.at] : e = <<x[1], One>>
      BY <1>8, <2>1 DEF Ones
    <3>2. PICK y \in Source[set.at] : f = <<y[1], One>>
      BY <1>8, <2>1 DEF Ones
    <3>3. Bucket(x[1], set.len) = set.at
      BY <1>1, <1>4 DEF Proper, Sorted
    <3>4. QED
      BY <2>1, <3>1, <3>2, <3>3
  <2>2. CASE i # set.at
    <3>1. i \in 0..set.at-1
      BY <1>4, <2>2
    <3>2. e \in set.got[i] /\ f \in set.got[i]
      BY <1>8, <3>1
    <3>3. QED
      BY <1>4, <3>1, <3>2 DEF Sorted
  <2>3. QED
    BY <2>1, <2>2
<1>11. set.at + 1 \in Nat /\ set.at + 1 <= set.size /\ set.size # 0
  BY <1>1, <1>4
<1>12. set.from \in Tables /\ set.to \in Tables /\ set.from # set.to
       /\ (set.live => set.len = len[set.from])
  BY <1>1 DEF HashInv, SetInv
<1>13. SetInv'
  BY <1>1, <1>3, <1>4, <1>5, <1>8, <1>9, <1>10, <1>11, <1>12 DEF SetInv
<1>14. QED
  BY <1>2, <1>3, <1>8, <1>13 DEF HashInv

\* The buckets of a set that is made are right.
LEMMA SetDoneKeeps ==
    ASSUME HashInv, SetDone
    PROVE  /\ HashInv'
           /\ Proper(set.got, set.len)
           /\ table'[set.to] = set.got /\ len'[set.to] = set.len
           /\ \A o \in Tables, j \in Keys :
                With(o, j)' = IF o = set.to THEN Found(set.got, set.len, j) ELSE With(o, j)
<1>1. /\ set.on /\ set.len # 0 /\ set.at = set.len /\ set' = NoSet /\ UNCHANGED count
      /\ len' = [len EXCEPT ![set.to] = set.len]
      /\ table' = [table EXCEPT ![set.to] = set.got]
      /\ mutable' = [mutable EXCEPT ![set.to] = FALSE]
  BY DEF SetDone
<1>2. set.to \in Tables /\ set.len \in Lengths /\ Proper(set.got, set.len)
  BY <1>1 DEF HashInv, SetInv, Proper
<1>3. Become(set.to, set.len, set.got)
  BY <1>1 DEF Become, HashInv, TableInv
<1>4. TableInv' /\ table'[set.to] = set.got /\ len'[set.to] = set.len
      /\ \A o \in Tables, j \in Keys :
           With(o, j)' = IF o = set.to THEN Found(set.got, set.len, j) ELSE With(o, j)
  BY <1>2, <1>3, BecomeKeeps DEF HashInv
<1>5. SetInv'
  BY <1>1 DEF NoSet, SetInv, Fields
<1>6. QED
  BY <1>2, <1>4, <1>5 DEF HashInv

\* Freezing changes nothing else.
LEMMA SetHashKeeps ==
    ASSUME HashInv, NEW n \in Tables, SetHash(n)
    PROVE  HashInv'
<1>1. UNCHANGED <<len, table, count, set>> /\ mutable' \in [Tables -> BOOLEAN]
  BY DEF SetHash, HashInv, TableInv
<1>2. QED
  BY <1>1 DEF HashInv, TableInv, SetInv, Source

\* Cells are in the buckets of their hash codes, and no key has two, whatever tables
\* change while sets are made of them, as long as none is resized between the two
\* readings of makeSet, of its length and of its array.
THEOREM CellsAreFound == Spec /\ [][Steady]_vars => []CellsFound
<1>1. HashInv /\ [Next]_vars /\ [Steady]_vars => HashInv'
  <2> SUFFICES ASSUME HashInv, [Next]_vars, [Steady]_vars PROVE HashInv'
      OBVIOUS
  <2>1. CASE Next /\ Steady
    <3>1. ASSUME NEW n \in Tables, NEW k \in Keys, NEW S \in Stored(k),
                 NEW l, NEW t, NEW c, Change(n, k, S, l, t, c)
          PROVE  HashInv'
      BY <2>1, <3>1, ChangeKeeps DEF HashInv
    <3>2. QED
      BY <2>1, <3>1, NextChanges, CopyKeeps, SetHashKeeps, SetBeginKeeps, SetLengthKeeps,
         SetArrayKeeps, SetBucketKeeps, SetDoneKeeps DEF HashInv
  <2>2. CASE UNCHANGED vars
    BY <2>2 DEF vars, HashInv, TableInv, SetInv, Source
  <2>3. QED
    BY <2>1, <2>2
<1>2. HashInv => CellsFound
  BY DEF HashInv, TableInv, Proper, Sorted, CellsFound
<1>3. QED
  BY HashBegins, <1>1, <1>2, PTL DEF Spec
-----------------------------------------------------------------------------
(* Counts, when no table changes while a set is made                       *)

KeysIn(n) == {k \in Keys : With(n, k) # {}}

CountInv ==
    /\ \A n \in Tables :
         Whole(n) => Fits(count[n], len[n]) /\ count[n] = Cardinality(KeysIn(n))
    /\ set.on =>
         /\ set.live /\ mutable[set.to] /\ count[set.to] = count[set.from]
         /\ set.len # 0 => set.len = len[set.from]
         /\ \A i \in 0..set.at-1 : set.got[i] = Ones(table[set.from][i])

MapInv == HashInv /\ CountInv

\* Keys are finitely many.
LEMMA KeysFinite == \A n \in Tables : IsFiniteSet(KeysIn(n))
<1>1. \A n \in Tables : KeysIn(n) \subseteq Keys
  BY DEF KeysIn
<1>2. IsFiniteSet(Keys)
  BY HashTableAssumption
<1>3. QED
  BY <1>1, <1>2, FS_Subset

\* Empty tables have no keys.
LEMMA CountBegins == Init => CountInv
<1> SUFFICES ASSUME Init PROVE CountInv
    OBVIOUS
<1>1. ASSUME NEW n \in Tables
      PROVE  Fits(count[n], len[n]) /\ count[n] = Cardinality(KeysIn(n))
  <2>1. count[n] = 0 /\ len[n] = 4 /\ table[n] = [i \in 0..3 |-> {}]
    BY DEF Init
  <2>2. KeysIn(n) = {}
    BY <2>1, EmptyProper DEF KeysIn, With, Found
  <2>3. QED
    BY <2>1, <2>2, FS_EmptySet DEF Fits
<1>2. ~set.on
  BY DEF Init, NoSet
<1>3. QED
  BY <1>1, <1>2 DEF CountInv

\* A change of one key counts it.
LEMMA ChangeCounts ==
    ASSUME MapInv, ~Concurrent, NEW n \in Tables, NEW k \in Keys, NEW S \in Stored(k),
           NEW l, NEW t, NEW c, Change(n, k, S, l, t, c)
    PROVE  CountInv'
<1>1. ~set.on /\ set' = set /\ ~set'.on
  BY DEF Change, Writable, Write
<1>2. TableInv /\ SetInv
  BY DEF MapInv, HashInv
<1>3. \A m \in Tables, j \in Keys : With(m, j)' = IF m = n /\ j = k THEN S ELSE With(m, j)
  BY <1>1, <1>2, ChangeKeeps
<1>4. /\ count'[n] = c /\ len'[n] = l
      /\ \A m \in Tables : m # n => count'[m] = count[m] /\ len'[m] = len[m]
  BY <1>2 DEF Change, Write, TableInv
<1>5. \A m \in Tables : Fits(count[m], len[m]) /\ count[m] = Cardinality(KeysIn(m))
  BY <1>1 DEF MapInv, CountInv, Whole
<1>6. ASSUME NEW m \in Tables
      PROVE  Fits(count[m], len[m])' /\ (count[m] = Cardinality(KeysIn(m)))'
  <2>1. CASE m # n
    <3>1. KeysIn(m)' = KeysIn(m)
      BY <1>3, <2>1 DEF KeysIn
    <3>2. QED
      BY <1>4, <1>5, <2>1, <3>1 DEF Fits
  <2>2. CASE m = n
    <3>1. Fits(c, l) /\ c = count[n] + Size(S) - Size(With(n, k))
      BY <1>5 DEF Change
    <3>2. IsFiniteSet(KeysIn(n)) /\ Cardinality(KeysIn(n)) \in Nat
      BY KeysFinite, FS_CardinalityType
    <3>3. c = Cardinality(KeysIn(n)')
      <4>1. CASE S = {}
        <5>1. KeysIn(n)' = KeysIn(n) \ {k}
          BY <1>3, <4>1 DEF KeysIn
        <5>2. Cardinality(KeysIn(n) \ {k}) =
                IF k \in KeysIn(n) THEN Cardinality(KeysIn(n)) - 1 ELSE Cardinality(KeysIn(n))
          BY <3>2, FS_RemoveElement
        <5>3. k \in KeysIn(n) <=> With(n, k) # {}
          BY DEF KeysIn
        <5>4. QED
          BY <1>5, <3>1, <3>2, <4>1, <5>1, <5>2, <5>3 DEF Size
      <4>2. CASE S # {}
        <5>1. KeysIn(n)' = KeysIn(n) \cup {k}
          BY <1>3, <4>2 DEF KeysIn
        <5>2. Cardinality(KeysIn(n) \cup {k}) =
                IF k \in KeysIn(n) THEN Cardinality(KeysIn(n)) ELSE Cardinality(KeysIn(n)) + 1
          BY <3>2, FS_AddElement
        <5>3. k \in KeysIn(n) <=> With(n, k) # {}
          BY DEF KeysIn
        <5>4. QED
          BY <1>5, <3>1, <3>2, <4>2, <5>1, <5>2, <5>3 DEF Size
      <4>3. QED
        BY <4>1, <4>2
    <3>4. QED
      BY <1>4, <2>2, <3>1, <3>3 DEF Fits
  <2>3. QED
    BY <2>1, <2>2
<1>7. QED
  BY <1>1, <1>6 DEF CountInv

\* So does a copy.
LEMMA CopyCounts ==
    ASSUME MapInv, NEW n \in Tables, NEW m \in Tables, Copy(n, m)
    PROVE  CountInv'
<1>1. ~set.on /\ set' = set /\ ~set'.on
  BY DEF Copy
<1>2. \A o \in Tables, j \in Keys : With(o, j)' = IF o = m THEN With(n, j) ELSE With(o, j)
  BY CopyKeeps DEF MapInv
<1>3. /\ count'[m] = count[n] /\ len'[m] = len[n]
      /\ \A o \in Tables : o # m => count'[o] = count[o] /\ len'[o] = len[o]
  BY DEF Copy, MapInv, HashInv, TableInv
<1>4. \A o \in Tables : Fits(count[o], len[o]) /\ count[o] = Cardinality(KeysIn(o))
  BY <1>1 DEF MapInv, CountInv, Whole
<1>5. ASSUME NEW o \in Tables PROVE KeysIn(o)' = IF o = m THEN KeysIn(n) ELSE KeysIn(o)
  BY <1>2 DEF KeysIn
<1>6. ASSUME NEW o \in Tables
      PROVE  Fits(count[o], len[o])' /\ (count[o] = Cardinality(KeysIn(o)))'
  BY <1>3, <1>4, <1>5 DEF Fits
<1>7. QED
  BY <1>1, <1>6 DEF CountInv

\* A set takes over the count, and then the cells.
LEMMA SetBeginCounts ==
    ASSUME MapInv, NEW n \in Tables, NEW m \in Tables, SetBegin(n, m)
    PROVE  CountInv'
<1>1. /\ ~set.on /\ n # m
      /\ set'.on /\ set'.from = n /\ set'.to = m /\ set'.live /\ set'.at = 0 /\ set'.len = 0
  BY DEF SetBegin, NoSet
<1>2. \A o \in Tables, j \in Keys : With(o, j)' = IF o = m THEN {} ELSE With(o, j)
  BY SetBeginKeeps DEF MapInv
<1>3. /\ count'[m] = count[n] /\ mutable'[m]
      /\ \A o \in Tables : o # m => count'[o] = count[o] /\ len'[o] = len[o]
  BY DEF SetBegin, MapInv, HashInv, TableInv
<1>4. \A o \in Tables : Fits(count[o], len[o]) /\ count[o] = Cardinality(KeysIn(o))
  BY <1>1 DEF MapInv, CountInv, Whole
<1>5. ASSUME NEW o \in Tables, o # m PROVE KeysIn(o)' = KeysIn(o)
  BY <1>2, <1>5 DEF KeysIn
<1>6. ASSUME NEW o \in Tables, Whole(o)'
      PROVE  Fits(count[o], len[o])' /\ (count[o] = Cardinality(KeysIn(o)))'
  <2>1. o # m
    BY <1>1, <1>6 DEF Whole
  <2>2. QED
    BY <1>3, <1>4, <1>5, <2>1 DEF Fits
<1>7. 0..set'.at-1 = {}
  BY <1>1
<1>8. QED
  BY <1>1, <1>3, <1>6, <1>7 DEF CountInv

\* makeSet takes the length and the array of the table: no table changes,
LEMMA SetLengthCounts ==
    ASSUME MapInv, SetLength
    PROVE  CountInv' /\ UNCHANGED <<len, table, count, mutable>>
<1>1. /\ UNCHANGED <<len, table, count, mutable>>
      /\ set' = [set EXCEPT !.len = len[set.from]]
  BY DEF SetLength
<1>2. /\ set'.on = set.on /\ set'.from = set.from /\ set'.to = set.to /\ set'.at = set.at
      /\ set'.got = set.got /\ set'.live = set.live /\ set'.len = len[set.from]
  BY <1>1 DEF MapInv, HashInv, SetInv, Fields
<1>3. \A n \in Tables : KeysIn(n)' = KeysIn(n) /\ Whole(n)' = Whole(n)
  BY <1>1, <1>2 DEF KeysIn, With, Bucket, Whole
<1>4. QED
  BY <1>1, <1>2, <1>3 DEF MapInv, CountInv, Fits

LEMMA SetArrayCounts ==
    ASSUME MapInv, SetArray
    PROVE  CountInv' /\ UNCHANGED <<len, table, count, mutable>>
<1>1. /\ UNCHANGED <<len, table, count, mutable>>
      /\ set' = [set EXCEPT !.size = len[set.from], !.pos = 0, !.live = TRUE, !.old = NoArray]
  BY DEF SetArray
<1>2. /\ set'.on = set.on /\ set'.from = set.from /\ set'.to = set.to /\ set'.at = set.at
      /\ set'.got = set.got /\ set'.live /\ set'.len = set.len
  BY <1>1 DEF MapInv, HashInv, SetInv, Fields
<1>3. \A n \in Tables : KeysIn(n)' = KeysIn(n) /\ Whole(n)' = Whole(n)
  BY <1>1, <1>2 DEF KeysIn, With, Bucket, Whole
<1>4. QED
  BY <1>1, <1>2, <1>3 DEF MapInv, CountInv, Fits

\* nor does one while it copies the buckets.
LEMMA SetBucketCounts ==
    ASSUME MapInv, SetBucket
    PROVE  CountInv' /\ UNCHANGED <<len, table, count, mutable>>
<1>1. /\ UNCHANGED <<len, table, count, mutable>> /\ set.on
      /\ set'.on = set.on /\ set'.from = set.from /\ set'.to = set.to /\ set'.live = set.live
      /\ set'.len = set.len
  BY DEF SetBucket, MapInv, HashInv, SetInv, Fields
<1>2. /\ set'.got[set.at] = Ones(Source[set.at])
      /\ \A i \in 0..set.at-1 : set'.got[i] = set.got[i]
      /\ set'.at = set.at + 1
  BY SetBucketKeeps DEF MapInv
<1>3. \A n \in Tables : KeysIn(n)' = KeysIn(n) /\ Whole(n)' = Whole(n)
  BY <1>1 DEF KeysIn, With, Bucket, Whole
<1>4. Source = table[set.from] /\ set.at \in Nat
  BY <1>1 DEF Source, MapInv, CountInv, HashInv, SetInv
<1>5. ASSUME NEW i \in 0..set'.at-1 PROVE set'.got[i] = Ones(table'[set'.from][i])
  <2>1. i = set.at \/ i \in 0..set.at-1
    BY <1>2, <1>4
  <2>2. QED
    BY <1>1, <1>2, <1>4, <2>1 DEF MapInv, CountInv
<1>6. QED
  BY <1>1, <1>3, <1>5 DEF MapInv, CountInv, Fits

\* The set has the keys of its origin.
LEMMA SetDoneCounts ==
    ASSUME MapInv, SetDone
    PROVE  /\ CountInv' /\ set.to \in Tables /\ set.from \in Tables
           /\ \A o \in Tables, j \in Keys :
                With(o, j)' = IF o = set.to THEN Ones(With(set.from, j)) ELSE With(o, j)
<1>1. /\ set.on /\ set.len # 0 /\ set.at = set.len /\ ~set'.on /\ UNCHANGED count
      /\ len' = [len EXCEPT ![set.to] = set.len]
  BY DEF SetDone, NoSet
<1>2. /\ set.to \in Tables /\ set.from \in Tables /\ set.from # set.to
      /\ set.len = len[set.from] /\ count[set.to] = count[set.from]
      /\ \A i \in 0..set.len-1 : set.got[i] = Ones(table[set.from][i])
  BY <1>1 DEF MapInv, HashInv, SetInv, CountInv
<1>3. len[set.from] \in Lengths
  BY <1>2 DEF MapInv, HashInv, TableInv
<1>4. ASSUME NEW j \in Keys PROVE Found(set.got, set.len, j) = Ones(With(set.from, j))
  <2>1. Bucket(j, set.len) \in 0..set.len-1
    BY <1>2, <1>3, BucketRange
  <2>2. set.got[Bucket(j, set.len)] = Ones(table[set.from][Bucket(j, set.len)])
    BY <1>2, <2>1
  <2>3. QED
    BY <1>2, <2>2 DEF Found, With, Ones
<1>5. \A o \in Tables, j \in Keys :
          With(o, j)' = IF o = set.to THEN Ones(With(set.from, j)) ELSE With(o, j)
  BY <1>4, SetDoneKeeps DEF MapInv
<1>6. ASSUME NEW o \in Tables
      PROVE  KeysIn(o)' = IF o = set.to THEN KeysIn(set.from) ELSE KeysIn(o)
  <2>1. \A B : Ones(B) = {} <=> B = {}
    BY DEF Ones
  <2>2. \A j \in Keys : With(o, j)' = {} <=>
            With(IF o = set.to THEN set.from ELSE o, j) = {}
    BY <1>5, <2>1
  <2>3. QED
    BY <2>2 DEF KeysIn
<1>7. /\ len'[set.to] = len[set.from]
      /\ \A o \in Tables : o # set.to => len'[o] = len[o]
  BY <1>1, <1>2 DEF MapInv, HashInv, TableInv
<1>8. \A o \in Tables : o # set.to =>
          Fits(count[o], len[o]) /\ count[o] = Cardinality(KeysIn(o))
  BY DEF MapInv, CountInv, Whole
<1>9. ASSUME NEW o \in Tables
      PROVE  Fits(count[o], len[o])' /\ (count[o] = Cardinality(KeysIn(o)))'
  <2>1. CASE o = set.to
    BY <1>1, <1>2, <1>6, <1>7, <1>8, <2>1 DEF Fits
  <2>2. CASE o # set.to
    BY <1>1, <1>6, <1>7, <1>8, <2>2 DEF Fits
  <2>3. QED
    BY <2>1, <2>2
<1>10. QED
  BY <1>1, <1>2, <1>5, <1>9 DEF CountInv

\* A table that is made immutable keeps its entries and its count.
LEMMA SetHashCounts ==
    ASSUME MapInv, NEW n \in Tables, SetHash(n)
    PROVE  CountInv'
<1>1. UNCHANGED <<len, table, count, set>> /\ ~set.on
  BY DEF SetHash
<1>2. QED
  BY <1>1 DEF MapInv, CountInv, KeysIn, With, Bucket, Whole, Fits
\* The three invariants together.
LEMMA MapStep ==
    ASSUME MapInv, ~Concurrent, [Next]_vars
    PROVE  MapInv'
<1>1. CASE Next
  <2>1. ASSUME NEW n \in Tables, NEW k \in Keys, NEW S \in Stored(k),
               NEW l, NEW t, NEW c, Change(n, k, S, l, t, c)
        PROVE  MapInv'
    <3>1. ~set.on
      BY <2>1 DEF Change, Writable
    <3>2. QED
      BY <2>1, <3>1, ChangeKeeps, ChangeCounts DEF MapInv, HashInv
  <2>2. QED
    BY <1>1, <2>1, NextChanges, CopyKeeps, SetHashKeeps, SetBeginKeeps, SetLengthKeeps,
       SetArrayKeeps, SetBucketKeeps, SetDoneKeeps, CopyCounts, SetHashCounts, SetBeginCounts,
       SetLengthCounts, SetArrayCounts, SetBucketCounts, SetDoneCounts DEF MapInv, HashInv
<1>2. CASE UNCHANGED vars
  <2>1. UNCHANGED <<len, table, count, mutable, set>>
    BY <1>2 DEF vars
  <2>2. HashInv'
    BY <2>1 DEF MapInv, HashInv, TableInv, SetInv, Source
  <2>3. CountInv'
    <3>1. \A n \in Tables : KeysIn(n)' = KeysIn(n) /\ Whole(n)' = Whole(n)
      BY <2>1 DEF KeysIn, With, Bucket, Whole
    <3>2. QED
      BY <2>1, <3>1 DEF MapInv, CountInv, Fits
  <2>4. QED
    BY <2>2, <2>3 DEF MapInv
<1>3. QED
  BY <1>1, <1>2

\* They hold always.
LEMMA MapInvariance == ~Concurrent /\ Spec => []MapInv
<1> SUFFICES ASSUME ~Concurrent PROVE Spec => []MapInv
    OBVIOUS
<1>1. Init => MapInv
  BY HashBegins, CountBegins DEF MapInv
<1>2. MapInv /\ [Next]_vars => MapInv'
  BY MapStep
<1>3. QED
  BY <1>1, <1>2, PTL DEF Spec

\* The value stored under a key, from its cells.
Value(S) == IF S = {} THEN Missing ELSE (CHOOSE e \in S : TRUE)[2]

\* lookup finds it.
LEMMA LookupValue ==
    /\ \A n \in Tables, k \in Keys : Lookup(n, k) = Value(With(n, k))
    /\ \A k \in Keys : \A v : Value({<<k, v>>}) = v
    /\ Value({}) = Missing
<1>1. ASSUME NEW k \in Keys, NEW v PROVE Value({<<k, v>>}) = v
  <2>1. (CHOOSE e \in {<<k, v>>} : TRUE) = <<k, v>>
    OBVIOUS
  <2>2. QED
    BY <2>1 DEF Value
<1>2. QED
  BY <1>1 DEF Lookup, Value

\* A key has a value when it has a cell.
LEMMA LookupFinds ==
    ASSUME TableInv, NEW n \in Tables, NEW k \in Keys
    PROVE  Lookup(n, k) # Missing <=> With(n, k) # {}
<1>1. With(n, k) \in Stored(k)
  BY WithFound, FoundOnce
<1>2. CASE With(n, k) = {}
  BY <1>2, LookupValue
<1>3. CASE With(n, k) # {}
  <2>1. PICK v \in Values : With(n, k) = {<<k, v>>}
    BY <1>1, <1>3 DEF Stored
  <2>2. Lookup(n, k) = v
    BY <2>1, LookupValue
  <2>3. QED
    BY <1>3, <2>2, HashTableAssumption
<1>4. QED
  BY <1>2, <1>3

\* The number of entries is the number of keys, if no table changes while a set is
\* made of it.
THEOREM CountsAreExact == ~Concurrent /\ Spec => []CountExact
<1>1. MapInv => CountExact
  <2> SUFFICES ASSUME MapInv, NEW n \in Tables, Whole(n)
               PROVE  count[n] = Cardinality({k \in Keys : Lookup(n, k) # Missing})
      BY DEF CountExact
  <2>1. {k \in Keys : Lookup(n, k) # Missing} = KeysIn(n)
    BY LookupFinds DEF KeysIn, MapInv, HashInv
  <2>2. QED
    BY <2>1 DEF MapInv, CountInv
<1>2. QED
  BY MapInvariance, <1>1, PTL

\* Tables with the same number of entries have the same length: the thresholds are
\* tested with "==", and that never misses them.
THEOREM LengthsFollowCounts == ~Concurrent /\ Spec => []LengthByCount
<1>1. MapInv => LengthByCount
  <2> SUFFICES ASSUME MapInv, NEW n \in Tables, NEW m \in Tables,
                      Whole(n), Whole(m), count[n] = count[m]
               PROVE  len[n] = len[m]
      BY DEF LengthByCount
  <2>1. /\ len[n] \in Lengths /\ len[m] \in Lengths /\ count[n] \in Int
    BY DEF MapInv, HashInv, TableInv
  <2>2. Fits(count[n], len[n]) /\ Fits(count[n], len[m])
    BY DEF MapInv, CountInv
  <2>3. QED
    BY <2>1, <2>2, OneLength
<1>2. QED
  BY MapInvariance, <1>1, PTL

\* Two immutable tables are equal, bucket by bucket, when they have the same values at
\* the same keys.
THEOREM EqualityIsExtensional == ~Concurrent /\ Spec => []EqualIsExtensional
<1>1. MapInv => EqualIsExtensional
  <2> SUFFICES ASSUME MapInv, NEW n \in Tables, NEW m \in Tables, ~mutable[n], ~mutable[m]
               PROVE  Equal(n, m) <=> \A k \in Keys : Lookup(n, k) = Lookup(m, k)
      BY DEF EqualIsExtensional
  <2>1. TableInv
    BY DEF MapInv, HashInv
  <2>2. /\ len[n] \in Lengths /\ len[m] \in Lengths /\ count[n] \in Int
        /\ Proper(table[n], len[n]) /\ Proper(table[m], len[m])
    BY <2>1 DEF TableInv
  <2>3. /\ Fits(count[n], len[n]) /\ Fits(count[m], len[m])
        /\ count[n] = Cardinality(KeysIn(n)) /\ count[m] = Cardinality(KeysIn(m))
    BY DEF MapInv, CountInv, Whole
  <2>4. ASSUME Equal(n, m), NEW k \in Keys PROVE Lookup(n, k) = Lookup(m, k)
    <3>1. \A j \in Keys : With(n, j) \subseteq With(m, j)
      <4>1. ASSUME NEW j \in Keys PROVE Bucket(j, len[n]) \in 0..len[n]-1
        BY <2>2, BucketRange
      <4>2. QED
        BY <2>4, <4>1 DEF Equal, With
    <3>2. KeysIn(n) = KeysIn(m)
      <4>1. KeysIn(n) \subseteq KeysIn(m)
        BY <3>1 DEF KeysIn
      <4>2. Cardinality(KeysIn(n)) = Cardinality(KeysIn(m))
        BY <2>3, <2>4 DEF Equal
      <4>3. QED
        BY <4>1, <4>2, KeysFinite, FS_Subset
    <3>3. CASE With(m, k) = {}
      <4>1. With(n, k) = {}
        BY <3>1, <3>3
      <4>2. QED
        BY <3>3, <4>1, LookupValue
    <3>4. CASE With(m, k) # {}
      <4>1. With(n, k) # {}
        BY <3>2, <3>4 DEF KeysIn
      <4>2. \A e, f \in With(m, k) : e = f
        BY <2>1, WithFound, FoundOnce
      <4>3. With(n, k) = With(m, k)
        BY <3>1, <4>1, <4>2
      <4>4. QED
        BY <4>3, LookupValue
    <3>5. QED
      BY <3>3, <3>4
  <2>5. ASSUME \A k \in Keys : Lookup(n, k) = Lookup(m, k) PROVE Equal(n, m)
    <3>1. ASSUME NEW k \in Keys PROVE With(n, k) = With(m, k)
      <4>1. With(n, k) \in Stored(k) /\ With(m, k) \in Stored(k)
        BY <2>1, WithFound, FoundOnce
      <4>2. With(n, k) = {} <=> With(m, k) = {}
        BY <2>1, <2>5, LookupFinds
      <4>3. CASE With(n, k) # {}
        <5>1. PICK v \in Values : With(n, k) = {<<k, v>>}
          BY <4>1, <4>3 DEF Stored
        <5>2. PICK w \in Values : With(m, k) = {<<k, w>>}
          BY <4>1, <4>2, <4>3 DEF Stored
        <5>3. v = w
          <6>1. Lookup(n, k) = v
            <7>1. Lookup(n, k) = Value({<<k, v>>})
              BY <5>1, LookupValue
            <7>2. QED
              BY <7>1, LookupValue
          <6>2. Lookup(m, k) = w
            <7>1. Lookup(m, k) = Value({<<k, w>>})
              BY <5>2, LookupValue
            <7>2. QED
              BY <7>1, LookupValue
          <6>3. QED
            BY <2>5, <6>1, <6>2
        <5>4. QED
          BY <5>1, <5>2, <5>3
      <4>4. QED
        BY <4>2, <4>3
    <3>2. count[n] = count[m]
      <4>1. KeysIn(n) = KeysIn(m)
        BY <3>1 DEF KeysIn
      <4>2. QED
        BY <2>3, <4>1
    <3>3. len[n] = len[m]
      BY <2>2, <2>3, <3>2, OneLength
    <3>4. ASSUME NEW i \in 0..len[n]-1 PROVE table[n][i] = table[m][i]
      <4>1. \A e : e \in table[n][i] => e \in With(n, e[1]) /\ e[1] \in Keys
        BY <2>2, CellPairs DEF Proper, Sorted, With
      <4>2. \A e : e \in table[m][i] => e \in With(m, e[1]) /\ e[1] \in Keys
        BY <2>2, <3>3, CellPairs DEF Proper, Sorted, With
      <4>3. \A e : e \in table[n][i] => e \in table[m][i]
        <5> TAKE e
        <5> HAVE e \in table[n][i]
        <5>1. e \in With(m, e[1])
          BY <3>1, <4>1
        <5>2. Bucket(e[1], len[n]) = i
          BY <2>2 DEF Proper, Sorted
        <5>3. QED
          BY <3>3, <5>1, <5>2 DEF With
      <4>4. \A e : e \in table[m][i] => e \in table[n][i]
        <5> TAKE e
        <5> HAVE e \in table[m][i]
        <5>1. e \in With(n, e[1])
          BY <3>1, <4>2
        <5>2. Bucket(e[1], len[n]) = i
          BY <2>2, <3>3 DEF Proper, Sorted
        <5>3. QED
          BY <5>1, <5>2 DEF With
      <4>5. QED
        BY <4>3, <4>4
    <3>5. QED
      BY <3>2, <3>3, <3>4 DEF Equal
  <2>6. QED
    BY <2>4, <2>5
<1>2. QED
  BY MapInvariance, <1>1, PTL

-----------------------------------------------------------------------------
(* Tables are finite maps                                                  *)

Map == [n \in Tables |-> [k \in Keys |-> Lookup(n, k)]]
Frozen == [n \in Tables |-> ~mutable[n]]

\* A step of a table is a step of the map it stands for.
LEMMA StepMaps ==
    ASSUME MapInv, ~Concurrent, Next
    PROVE  Maps!Next \/ UNCHANGED <<Map, Frozen>>
<1> USE DEF Map, Frozen
<1>0. TableInv /\ HashInv
  BY DEF MapInv, HashInv
<1>1. ASSUME NEW n \in Tables, NEW k \in Keys, NEW S \in Stored(k),
             NEW l, NEW t, NEW c, Change(n, k, S, l, t, c)
      PROVE  Maps!Next
  <2>1. \A m \in Tables, j \in Keys : With(m, j)' = IF m = n /\ j = k THEN S ELSE With(m, j)
    BY <1>1, ChangeKeeps DEF MapInv, HashInv, Change, Writable
  <2>2. Value(S) \in Values \cup {Missing}
    BY LookupValue DEF Stored
  <2>3. \A m \in Tables, j \in Keys :
            Lookup(m, j)' = IF m = n /\ j = k THEN Value(S) ELSE Lookup(m, j)
    <3> TAKE m \in Tables, j \in Keys
    <3>1. Lookup(m, j)' = Value(With(m, j)')
      BY DEF Lookup, Value
    <3>2. QED
      BY <2>1, <3>1, LookupValue
  <2>4. Map' = [Map EXCEPT ![n][k] = Value(S)]
    BY <2>3
  <2>5. mutable[n] /\ Frozen' = Frozen
    BY <1>1 DEF Change, Writable
  <2>6. Maps!Assign(n, k, Value(S))
    BY <2>4, <2>5 DEF Maps!Assign
  <2>7. QED
    BY <2>2, <2>6 DEF Maps!Next
<1>2. ASSUME NEW m \in Tables, NEW f \in [Keys -> Values \cup {Missing}], NEW b \in BOOLEAN,
             \A o \in Tables, j \in Keys : Lookup(o, j)' = IF o = m THEN f[j] ELSE Lookup(o, j),
             mutable' = [mutable EXCEPT ![m] = ~b]
      PROVE  Maps!Become(m, f, b)
  <2>1. Map' = [Map EXCEPT ![m] = f]
    BY <1>2
  <2>2. Frozen' = [Frozen EXCEPT ![m] = b]
    BY <1>0, <1>2 DEF TableInv
  <2>3. QED
    BY <2>1, <2>2 DEF Maps!Become
<1>3. ASSUME NEW n \in Tables, NEW k \in Keys PROVE Lookup(n, k) \in Values \cup {Missing}
  <2>1. CASE With(n, k) = {}
    BY <2>1, LookupValue
  <2>2. CASE With(n, k) # {}
    <3>1. With(n, k) \in Stored(k)
      BY <1>0, WithFound, FoundOnce
    <3>2. PICK v \in Values : With(n, k) = {<<k, v>>}
      BY <2>2, <3>1 DEF Stored
    <3>3. QED
      BY <3>2, LookupValue
  <2>3. QED
    BY <2>1, <2>2
<1>4. \A n \in Tables : Map[n] = [k \in Keys |-> Lookup(n, k)]
                        /\ Map[n] \in [Keys -> Values \cup {Missing}]
  BY <1>3
<1>5. ASSUME NEW n \in Tables, SetHash(n) PROVE Maps!Next
  <2>1. UNCHANGED <<len, table>> /\ mutable' = [mutable EXCEPT ![n] = FALSE]
    BY <1>5 DEF SetHash
  <2>2. \A o \in Tables, j \in Keys : Lookup(o, j)' = IF o = n THEN Map[n][j] ELSE Lookup(o, j)
    <3>1. \A o \in Tables, j \in Keys : Lookup(o, j)' = Lookup(o, j)
      BY <2>1 DEF Lookup, With, Bucket
    <3>2. \A j \in Keys : Map[n][j] = Lookup(n, j)
      BY <1>4
    <3> HIDE DEF Map
    <3>3. QED
      BY <3>1, <3>2
  <2>3. Maps!Become(n, Map[n], TRUE)
    BY <1>2, <1>4, <2>1, <2>2
  <2>4. QED
    BY <2>3 DEF Maps!Next, Maps!Freeze
<1>6. ASSUME NEW n \in Tables, NEW m \in Tables, Copy(n, m) PROVE Maps!Next
  <2>1. mutable' = [mutable EXCEPT ![m] = TRUE]
    BY <1>6 DEF Copy
  <2>2. \A o \in Tables, j \in Keys : Lookup(o, j)' = IF o = m THEN Map[n][j] ELSE Lookup(o, j)
    <3>1. \A o \in Tables, j \in Keys : With(o, j)' = IF o = m THEN With(n, j) ELSE With(o, j)
      BY <1>0, <1>6, CopyKeeps
    <3>2. \A o \in Tables, j \in Keys : Lookup(o, j)' = Value(With(o, j)')
      BY DEF Lookup, Value
    <3>3. QED
      BY <1>4, <3>1, <3>2, LookupValue
  <2>3. Maps!Become(m, Map[n], FALSE)
    BY <1>2, <1>4, <2>1, <2>2
  <2>4. QED
    BY <2>3 DEF Maps!Next, Maps!Duplicate
<1>7. ASSUME NEW n \in Tables, NEW m \in Tables, SetBegin(n, m) PROVE Maps!Next
  <2> DEFINE f == [k \in Keys |-> Missing]
  <2>1. mutable' = [mutable EXCEPT ![m] = TRUE]
    BY <1>7 DEF SetBegin
  <2>2. \A o \in Tables, j \in Keys : Lookup(o, j)' = IF o = m THEN f[j] ELSE Lookup(o, j)
    <3>1. \A o \in Tables, j \in Keys : With(o, j)' = IF o = m THEN {} ELSE With(o, j)
      BY <1>0, <1>7, SetBeginKeeps
    <3>2. \A o \in Tables, j \in Keys : Lookup(o, j)' = Value(With(o, j)')
      BY DEF Lookup, Value
    <3>3. QED
      BY <3>1, <3>2, LookupValue
  <2>3. f \in [Keys -> Values \cup {Missing}]
    OBVIOUS
  <2>4. Maps!Become(m, f, FALSE)
    <3> HIDE DEF f
    <3>1. QED
      BY <1>2, <2>1, <2>2, <2>3
  <2>5. QED
    BY <2>4 DEF Maps!Next, Maps!Renew, Maps!Nothing
<1>8. ASSUME SetDone PROVE Maps!Next
  <2>1. PICK n \in Tables, m \in Tables : n = set.from /\ m = set.to
    BY <1>8, SetDoneCounts
  <2> DEFINE f == [k \in Keys |-> IF Map[n][k] = Missing THEN Missing ELSE One]
  <2>2. mutable' = [mutable EXCEPT ![m] = FALSE]
    BY <1>8, <2>1 DEF SetDone
  <2>3. ASSUME NEW j \in Keys PROVE Value(Ones(With(n, j))) = f[j]
    <3>1. f[j] = IF With(n, j) = {} THEN Missing ELSE One
      BY <1>0, <1>4, LookupFinds
    <3>2. CASE With(n, j) = {}
      BY <3>1, <3>2, LookupValue DEF Ones
    <3>3. CASE With(n, j) # {}
      <4>1. With(n, j) \in Stored(j)
        BY <1>0, WithFound, FoundOnce
      <4>2. PICK v \in Values : With(n, j) = {<<j, v>>}
        BY <3>3, <4>1 DEF Stored
      <4>3. Ones(With(n, j)) = {<<j, One>>}
        BY <4>2 DEF Ones
      <4>4. QED
        BY <3>1, <3>3, <4>3, LookupValue
    <3>4. QED
      BY <3>2, <3>3
  <2>4. \A o \in Tables, j \in Keys : Lookup(o, j)' = IF o = m THEN f[j] ELSE Lookup(o, j)
    <3>1. \A o \in Tables, j \in Keys :
              With(o, j)' = IF o = m THEN Ones(With(n, j)) ELSE With(o, j)
      BY <1>8, <2>1, SetDoneCounts
    <3>2. \A o \in Tables, j \in Keys : Lookup(o, j)' = Value(With(o, j)')
      BY DEF Lookup, Value
    <3> HIDE DEF f
    <3>3. QED
      BY <2>3, <3>1, <3>2, LookupValue
  <2>5. f \in [Keys -> Values \cup {Missing}]
    BY HashTableAssumption
  <2>6. Maps!Become(m, f, TRUE)
    <3> HIDE DEF f
    <3>1. QED
      BY <1>2, <2>2, <2>4, <2>5
  <2>7. QED
    BY <2>6 DEF Maps!Next, Maps!SetOf
<1>9. ASSUME SetLength \/ SetArray \/ SetBucket PROVE UNCHANGED <<Map, Frozen>>
  <2>1. UNCHANGED <<len, table, mutable>>
    BY <1>9, SetLengthCounts, SetArrayCounts, SetBucketCounts
  <2>2. \A n \in Tables, k \in Keys : Lookup(n, k)' = Lookup(n, k)
    BY <2>1 DEF Lookup, With, Bucket
  <2>3. QED
    BY <2>1, <2>2
<1>10. QED
  BY <1>0, <1>1, <1>5, <1>6, <1>7, <1>8, <1>9, NextChanges

\* Seen through lookup, the tables implement finite maps, if no table changes while
\* a set is made of it.
THEOREM TablesAreMaps == ~Concurrent /\ Spec => AreMaps
<1> SUFFICES ASSUME ~Concurrent PROVE Spec => Maps!Spec
    BY DEF AreMaps
<1>1. Init => Maps!Init
  <2> SUFFICES ASSUME Init PROVE Maps!Init
      OBVIOUS
  <2>1. ASSUME NEW n \in Tables, NEW k \in Keys PROVE Lookup(n, k) = Missing
    <3>1. len[n] = 4 /\ table[n] = [i \in 0..3 |-> {}]
      BY DEF Init
    <3>2. With(n, k) = {}
      BY <3>1, EmptyProper DEF With, Found
    <3>3. QED
      BY <3>2, LookupValue
  <2>2. \A n \in Tables : mutable[n]
    BY DEF Init
  <2>3. QED
    BY <2>1, <2>2 DEF Maps!Init, Maps!Nothing
<1>2. MapInv /\ [Next]_vars => [Maps!Next]_<<Map, Frozen>>
  <2> SUFFICES ASSUME MapInv, [Next]_vars PROVE [Maps!Next]_<<Map, Frozen>>
      OBVIOUS
  <2>1. CASE Next
    BY <2>1, StepMaps
  <2>2. CASE UNCHANGED vars
    <3>1. UNCHANGED <<len, table, mutable>>
      BY <2>2 DEF vars
    <3>2. QED
      BY <3>1 DEF Map, Frozen, Lookup, With, Bucket
  <2>3. QED
    BY <2>1, <2>2
<1>3. Spec => []MapInv
  BY MapInvariance
<1>4. QED
  BY <1>1, <1>2, <1>3, PTL DEF Spec, Maps!Spec, Map, Frozen
=============================================================================
