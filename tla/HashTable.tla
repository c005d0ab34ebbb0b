------------------------------ MODULE HashTable ------------------------------
(***************************************************************************)
(* Hash tables of the interpreter (d/hashtables.dd): an array of buckets   *)
(* whose length doubles when three quarters of it are used and halves when *)
(* three eighths are, both tested with "==".  Writers hold the write lock  *)
(* of the table or build it before anybody else has it, readers hold the   *)
(* read lock, so each operation is one step; the exception is "set", which *)
(* copies a mutable table without the lock (d/sets.dd), bucket by bucket.  *)
(*                                                                         *)
(* A bucket is a linked list with the newest cell first.  Nothing here     *)
(* depends on the order of its cells: it is a set of pairs.                *)
(***************************************************************************)
EXTENDS Integers, FiniteSets

CONSTANTS
    Tables, Keys, Values,
    Missing,       \* notfoundE
    One,           \* the value of the elements of a set
    Hash,          \* the hash code of each key
    Offers,        \* bound: the pairs that are stored
    Concurrent     \* tables change while a set is made of them

ASSUME HashTableAssumption ==
    /\ Missing \notin Values /\ One \in Values
    /\ Hash \in [Keys -> Nat]
    /\ Offers \subseteq Keys \X Values
    /\ IsFiniteSet(Keys) /\ Tables # {}
    /\ Concurrent \in BOOLEAN

VARIABLES
    len,        \* length(x.table)
    table,      \* x.table
    count,      \* x.numEntries
    mutable,    \* x.Mutable
    set         \* makeSet: from and to which table, the array it reads and the buckets it has

vars == <<len, table, count, mutable, set>>

NoArray == [i \in {} |-> {}]

\* at of len buckets are made, 0 as long as the length is not read.  The loop is at
\* pos of an array of length size, that of the table as long as it is live.
NoSet == [on |-> FALSE, from |-> CHOOSE n \in Tables : TRUE, to |-> CHOOSE n \in Tables : TRUE,
          live |-> TRUE, len |-> 0, size |-> 0, pos |-> 0, old |-> NoArray,
          at |-> 0, got |-> NoArray]

Init ==
    /\ len = [n \in Tables |-> 4]
    /\ table = [n \in Tables |-> [i \in 0..3 |-> {}]]
    /\ count = [n \in Tables |-> 0]
    /\ mutable = [n \in Tables |-> TRUE]
    /\ set = NoSet

-----------------------------------------------------------------------------
(* Buckets *)

Bucket(k, l) == Hash[k] % l
Entries(n) == UNION {table[n][i] : i \in 0..len[n]-1}
With(n, k) == {e \in table[n][Bucket(k, len[n])] : e[1] = k}

\* lookup1
Lookup(n, k) == IF With(n, k) = {} THEN Missing ELSE (CHOOSE e \in With(n, k) : TRUE)[2]

\* enlarge and shrink put every cell in the bucket of its hash code.
Rehashed(E, l) == [i \in 0..l-1 |-> {e \in E : Bucket(e[1], l) = i}]

\* The table n becomes t of length l with c entries.  A resized table is a new
\* array: a set that is being made goes on with the old one.
Write(n, l, t, c) ==
    /\ len' = [len EXCEPT ![n] = l]
    /\ table' = [table EXCEPT ![n] = t]
    /\ count' = [count EXCEPT ![n] = c]
    /\ set' = IF set.on /\ set.from = n /\ set.pos < set.size /\ set.live /\ l # len[n]
                THEN [set EXCEPT !.live = FALSE, !.old = table[n]] ELSE set

Writable(n) == mutable[n] /\ (set.on => Concurrent /\ n # set.to)

-----------------------------------------------------------------------------
(* storeInHashTable and its variants *)

\* Variant: the cell is counted again.
ReplaceCounted(n, k, v) ==
    /\ With(n, k) # {}
    /\ Write(n, len[n],
             [table[n] EXCEPT ![Bucket(k, len[n])] = (@ \ With(n, k)) \cup {<<k, v>>}],
             count[n] + 1)

Replace(n, k, v) ==
    /\ With(n, k) # {}
    /\ Write(n, len[n],
             [table[n] EXCEPT ![Bucket(k, len[n])] = (@ \ With(n, k)) \cup {<<k, v>>}],
             count[n])

\* Variant: the bucket of the old length is used after enlarge.
InsertStale(n, k, v) ==
    /\ With(n, k) = {}
    /\ LET full == 4 * count[n] = 3 * len[n]
           l == IF full THEN 2 * len[n] ELSE len[n]
           t == IF full THEN Rehashed(Entries(n), l) ELSE table[n]
       IN Write(n, l, [t EXCEPT ![Bucket(k, len[n])] = @ \cup {<<k, v>>}], count[n] + 1)

\* Variant: the entry is counted before the table is measured.
InsertCounted(n, k, v) ==
    /\ With(n, k) = {}
    /\ LET full == 4 * (count[n] + 1) = 3 * len[n]
           l == IF full THEN 2 * len[n] ELSE len[n]
           t == IF full THEN Rehashed(Entries(n), l) ELSE table[n]
       IN Write(n, l, [t EXCEPT ![Bucket(k, l)] = @ \cup {<<k, v>>}], count[n] + 1)

\* The new cell goes to the front of its bucket, after the table is enlarged.
Insert(n, k, v) ==
    /\ With(n, k) = {}
    /\ LET full == 4 * count[n] = 3 * len[n]
           l == IF full THEN 2 * len[n] ELSE len[n]
           t == IF full THEN Rehashed(Entries(n), l) ELSE table[n]
       IN Write(n, l, [t EXCEPT ![Bucket(k, l)] = @ \cup {<<k, v>>}], count[n] + 1)

Store(n, k, v) == Writable(n) /\ (Replace(n, k, v) \/ Insert(n, k, v)) /\ UNCHANGED mutable

StoreNoClobber(n, k, v) == Writable(n) /\ Insert(n, k, v) /\ UNCHANGED mutable

StoreMustClobber(n, k, v) == Writable(n) /\ Replace(n, k, v) /\ UNCHANGED mutable

\* The handler combines the old and the new value, or fails and leaves the old.
StoreWithCollisionHandler(n, k, v) ==
    /\ Writable(n)
    /\ \/ \E r \in Values : <<k, r>> \in Offers /\ Replace(n, k, r)
       \/ Insert(n, k, v)
    /\ UNCHANGED mutable

\* Variant: a table shrinks at or below the threshold, whatever its length.
RemoveEager(n, k) ==
    /\ Writable(n) /\ With(n, k) # {}
    /\ LET c == count[n] - 1
           t == [table[n] EXCEPT ![Bucket(k, len[n])] = @ \ With(n, k)]
           sparse == 8 * c <= 3 * len[n]
           l == IF sparse THEN len[n] \div 2 ELSE len[n]
       IN Write(n, l, IF sparse THEN Rehashed(UNION {t[i] : i \in DOMAIN t}, l) ELSE t, c)
    /\ UNCHANGED mutable

\* Variant: the table is measured before the entry is uncounted.
RemoveCounted(n, k) ==
    /\ Writable(n) /\ With(n, k) # {}
    /\ LET c == count[n] - 1
           t == [table[n] EXCEPT ![Bucket(k, len[n])] = @ \ With(n, k)]
           sparse == 8 * count[n] = 3 * len[n] /\ len[n] > 4
           l == IF sparse THEN len[n] \div 2 ELSE len[n]
       IN Write(n, l, IF sparse THEN Rehashed(UNION {t[i] : i \in DOMAIN t}, l) ELSE t, c)
    /\ UNCHANGED mutable

\* remove
Remove(n, k) ==
    /\ Writable(n) /\ With(n, k) # {}
    /\ LET c == count[n] - 1
           t == [table[n] EXCEPT ![Bucket(k, len[n])] = @ \ With(n, k)]
           sparse == 8 * c = 3 * len[n] /\ len[n] > 4
           l == IF sparse THEN len[n] \div 2 ELSE len[n]
       IN Write(n, l, IF sparse THEN Rehashed(UNION {t[i] : i \in DOMAIN t}, l) ELSE t, c)
    /\ UNCHANGED mutable

\* copy, and merge and override, which go on to change the copy.  (Bound: nothing
\* is copied or frozen while a set is made.)
Copy(n, m) ==
    /\ n # m /\ ~set.on
    /\ len' = [len EXCEPT ![m] = len[n]]
    /\ table' = [table EXCEPT ![m] = table[n]]
    /\ count' = [count EXCEPT ![m] = count[n]]
    /\ mutable' = [mutable EXCEPT ![m] = TRUE]
    /\ UNCHANGED set

\* sethash(x,false)
SetHash(n) ==
    /\ mutable[n] /\ ~set.on
    /\ mutable' = [mutable EXCEPT ![n] = FALSE]
    /\ UNCHANGED <<len, table, count, set>>

-----------------------------------------------------------------------------
(* makeSet(h): a new table takes numEntries, then the length of the array   *)
(* of h, and then its buckets, each by a reading of h of its own.            *)

SetBegin(n, m) ==
    /\ n # m /\ ~set.on
    /\ len' = [len EXCEPT ![m] = 4]
    /\ table' = [table EXCEPT ![m] = [i \in 0..3 |-> {}]]
    /\ count' = [count EXCEPT ![m] = count[n]]
    /\ mutable' = [mutable EXCEPT ![m] = TRUE]
    /\ set' = [NoSet EXCEPT !.on = TRUE, !.from = n, !.to = m]

\* length(h.table), before the array of the set is allocated.
SetLength ==
    /\ set.on /\ set.len = 0
    /\ set' = [set EXCEPT !.len = len[set.from]]
    /\ UNCHANGED <<len, table, count, mutable>>

\* "foreach bucket in h.table" takes the array that h has now.  "new array len"
\* repeats its body until all buckets are there: when the array is too short, the
\* loop begins again, and when it is too long, it is left.
SetArray ==
    /\ set.on /\ set.at < set.len /\ set.pos = set.size
    /\ set' = [set EXCEPT !.size = len[set.from], !.pos = 0, !.live = TRUE, !.old = NoArray]
    /\ UNCHANGED <<len, table, count, mutable>>

Source == IF set.live THEN table[set.from] ELSE set.old

\* Variant: the first bucket is not read.
SetBucketSkip ==
    /\ set.on /\ set.at < set.len /\ set.pos < set.size
    /\ LET cells == {<<e[1], One>> : e \in IF set.pos = 0 THEN {} ELSE Source[set.pos]}
       IN set' = [set EXCEPT !.at = @ + 1, !.pos = @ + 1,
                             !.got = [i \in 0..set.at |-> IF i = set.at THEN cells ELSE @[i]]]
    /\ UNCHANGED <<len, table, count, mutable>>

SetBucket ==
    /\ set.on /\ set.at < set.len /\ set.pos < set.size
    /\ LET cells == {<<e[1], One>> : e \in Source[set.pos]}
       IN set' = [set EXCEPT !.at = @ + 1, !.pos = @ + 1,
                             !.got = [i \in 0..set.at |-> IF i = set.at THEN cells ELSE @[i]]]
    /\ UNCHANGED <<len, table, count, mutable>>

SetDone ==
    /\ set.on /\ set.len # 0 /\ set.at = set.len
    /\ len' = [len EXCEPT ![set.to] = set.len]
    /\ table' = [table EXCEPT ![set.to] = set.got]
    /\ mutable' = [mutable EXCEPT ![set.to] = FALSE]
    /\ set' = NoSet
    /\ UNCHANGED count

-----------------------------------------------------------------------------
Next ==
    \/ \E n \in Tables :
         \/ \E o \in Offers :
              \/ Store(n, o[1], o[2]) \/ StoreNoClobber(n, o[1], o[2])
              \/ StoreMustClobber(n, o[1], o[2]) \/ StoreWithCollisionHandler(n, o[1], o[2])
         \/ \E k \in Keys : Remove(n, k)
         \/ SetHash(n)
    \/ \E n, m \in Tables : Copy(n, m) \/ SetBegin(n, m)
    \/ SetLength \/ SetArray \/ SetBucket \/ SetDone

Spec == Init /\ [][Next]_vars

-----------------------------------------------------------------------------
(* equal, of immutable tables: the arrays are compared bucket by bucket.     *)

Equal(n, m) ==
    /\ count[n] = count[m] /\ len[n] = len[m]
    /\ \A i \in 0..len[n]-1 :
         /\ Cardinality(table[n][i]) = Cardinality(table[m][i])
         /\ table[n][i] \subseteq table[m][i]

(* Properties *)

Whole(n) == ~(set.on /\ set.to = n)

\* Every variable has its type; the length of a table is a power of two, and
\* never less than four ("It is important ..." in expr.d).
TypeOK ==
    /\ \A n \in Tables :
         /\ \E e \in 2..len[n] : len[n] = 2^e
         /\ table[n] \in [0..len[n]-1 -> SUBSET (Keys \X Values)]
         /\ count[n] \in Nat /\ mutable[n] \in BOOLEAN
    /\ set.on => set.from # set.to /\ set.at \in 0..set.len

\* Every cell is in the bucket of its hash code and no key has two: whatever
\* was stored, removed and moved, lookup finds a key, and finds it once.  It
\* fails (MChash_array.cfg) when a table is resized while a set is made of it,
\* after its length is read and before its array is.
CellsFound ==
    \A n \in Tables : \A i \in 0..len[n]-1 : \A e, f \in table[n][i] :
        Bucket(e[1], len[n]) = i /\ (e[1] = f[1] => e = f)

\* No step resizes a table between these two readings.
Steady == set.at < set.len /\ set.pos = set.size => len'[set.from] = len[set.from]

\* numEntries, that "#", keys and pairs allocate by and that decides when a
\* table is resized, is the number of keys.
CountExact ==
    \A n \in Tables : Whole(n) => count[n] = Cardinality({k \in Keys : Lookup(n, k) # Missing})

\* equal(x,y) takes tables of different lengths for different tables.  That is
\* right only because enlarge and shrink meet their thresholds exactly, so that
\* the number of entries determines the length, in whatever order a table was
\* filled, emptied and copied.
LengthByCount ==
    \A n, m \in Tables : Whole(n) /\ Whole(m) /\ count[n] = count[m] => len[n] = len[m]

\* Two immutable tables are equal when they have the same values at the same keys.
EqualIsExtensional ==
    \A n, m \in Tables :
        ~mutable[n] /\ ~mutable[m] =>
            (Equal(n, m) <=> \A k \in Keys : Lookup(n, k) = Lookup(m, k))

\* Seen through lookup, the tables are finite maps: an operation on one key
\* changes no other key and no other table, and a frozen table does not change.
Maps == INSTANCE FiniteMap
    WITH map <- [n \in Tables |-> [k \in Keys |-> Lookup(n, k)]],
         frozen <- [n \in Tables |-> ~mutable[n]]
AreMaps == Maps!Spec
=============================================================================
