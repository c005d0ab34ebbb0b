----------------------------- MODULE M2File_proofs -----------------------------
(***************************************************************************)
(* Proofs about files, for any number of threads, nesting of brackets and  *)
(* sequence of modes.                                                      *)
(***************************************************************************)
EXTENDS M2File, FiniteSetTheorems, SequenceTheorems, TLAPS

-----------------------------------------------------------------------------
(* Brackets                                                                *)

Kinds == {"common", "own", "io"}
Places == {"run", "acquire", "acquire sleeps", "find", "release", "forget",
           "ask start", "start", "start sleeps", "ask end", "end"}
Leaving == {"leave", "clear", "leave wakes"}

\* The number of brackets of kind b in s.
Num(s, b) == Cardinality({k \in 1..Len(s) : s[k] \in {b}})

Matching(s, b) == {k \in 1..Len(s) : s[k] \in {b}}

\* The brackets of one kind are finitely many.
LEMMA NumFacts ==
    ASSUME NEW s \in Seq(Kinds), NEW b
    PROVE  /\ IsFiniteSet(Matching(s, b)) /\ Num(s, b) = Cardinality(Matching(s, b))
           /\ Num(s, b) \in Nat /\ Num(s, b) <= Len(s)
           /\ Len(s) > 0 /\ s[Len(s)] = b => Num(s, b) > 0
           /\ s = << >> => Num(s, b) = 0
<1>1. Len(s) \in Nat /\ Num(s, b) = Cardinality(Matching(s, b))
  BY DEF Num, Matching
<1>2. IsFiniteSet(1..Len(s)) /\ Cardinality(1..Len(s)) = Len(s)
  BY <1>1, FS_Interval
<1>3. Matching(s, b) \subseteq 1..Len(s)
  BY DEF Matching
<1>4. IsFiniteSet(Matching(s, b)) /\ Cardinality(Matching(s, b)) <= Len(s)
  BY <1>2, <1>3, FS_Subset
<1>5. Num(s, b) \in Nat
  BY <1>1, <1>4, FS_CardinalityType
<1>6. ASSUME Len(s) > 0, s[Len(s)] = b PROVE Num(s, b) > 0
  <2>1. Len(s) \in Matching(s, b)
    BY <1>1, <1>6 DEF Matching
  <2>2. Num(s, b) # 0
    BY <1>1, <1>4, <2>1, FS_EmptySet
  <2>3. QED
    BY <1>5, <2>2
<1>7. ASSUME s = << >> PROVE Num(s, b) = 0
  <2>1. Matching(s, b) = {}
    BY <1>7 DEF Matching
  <2>2. QED
    BY <1>1, <2>1, FS_EmptySet
<1>8. QED
  BY <1>1, <1>4, <1>5, <1>6, <1>7

\* One bracket more.
LEMMA NumAppend ==
    ASSUME NEW s \in Seq(Kinds), NEW c \in Kinds, NEW b
    PROVE  /\ Append(s, c) \in Seq(Kinds) /\ Len(Append(s, c)) = Len(s) + 1
           /\ Num(Append(s, c), b) = IF c = b THEN Num(s, b) + 1 ELSE Num(s, b)
<1> DEFINE a == Append(s, c)
           n == Len(s)
<1>1. /\ n \in Nat /\ a \in Seq(Kinds) /\ Len(a) = n + 1 /\ a[n + 1] = c
      /\ \A k \in 1..n : a[k] = s[k]
  OBVIOUS
<1> HIDE DEF a, n
<1>2. Matching(a, b) = Matching(s, b) \cup (IF c = b THEN {n + 1} ELSE {})
  <2>1. \A k : k \in 1..(n + 1) <=> k \in 1..n \/ k = n + 1
    BY <1>1
  <2>2. QED
    BY <1>1, <2>1 DEF Matching, n
<1>3. n + 1 \notin Matching(s, b)
  BY <1>1 DEF Matching, n
<1>4. Num(a, b) = IF c = b THEN Num(s, b) + 1 ELSE Num(s, b)
  <2>1. CASE c = b
    <3>1. Cardinality(Matching(s, b) \cup {n + 1}) = Cardinality(Matching(s, b)) + 1
      BY <1>3, NumFacts, FS_AddElement
    <3>2. QED
      BY <1>1, <1>2, <2>1, <3>1, NumFacts
  <2>2. CASE c # b
    BY <1>1, <1>2, <2>2, NumFacts
  <2>3. QED
    BY <2>1, <2>2
<1>5. QED
  BY <1>1, <1>4 DEF a, n

\* One bracket less.
LEMMA NumFront ==
    ASSUME NEW s \in Seq(Kinds), s # << >>, NEW b
    PROVE  LET f == SubSeq(s, 1, Len(s) - 1)
           IN  /\ f \in Seq(Kinds) /\ Len(f) = Len(s) - 1
               /\ Num(f, b) = IF s[Len(s)] = b THEN Num(s, b) - 1 ELSE Num(s, b)
<1> DEFINE f == SubSeq(s, 1, Len(s) - 1)
           c == s[Len(s)]
<1>1. Len(s) \in Nat /\ Len(s) > 0 /\ c \in Kinds /\ \A k \in 1..Len(s) : s[k] \in Kinds
  OBVIOUS
<1>2. f \in Seq(Kinds) /\ Len(f) = Len(s) - 1 /\ \A k \in 1..Len(s)-1 : f[k] = s[k]
  <2>1. PICK n \in Nat : n = Len(s) - 1
    BY <1>1
  <2>2. /\ SubSeq(s, 1, n) \in Seq(Kinds)
        /\ Len(SubSeq(s, 1, n)) = IF 1 <= n THEN n - 1 + 1 ELSE 0
        /\ \A k \in 1..n-1+1 : SubSeq(s, 1, n)[k] = s[1 + k - 1]
    <3>1. \A k \in 1..n : s[k] \in Kinds
      BY <1>1, <2>1
    <3>2. 1 \in Int /\ n \in Int
      OBVIOUS
    <3>3. QED
      BY <3>1, <3>2, SubSeqProperties
  <2>3. Len(SubSeq(s, 1, n)) = n
    BY <2>2
  <2>4. ASSUME NEW k \in 1..n PROVE SubSeq(s, 1, n)[k] = s[k]
    <3>1. k \in 1..n-1+1 /\ 1 + k - 1 = k
      OBVIOUS
    <3>2. QED
      BY <2>2, <3>1
  <2>5. QED
    BY <2>1, <2>2, <2>3, <2>4
<1> HIDE DEF f
<1>3. Matching(f, b) = Matching(s, b) \ {Len(s)}
  <2>1. \A k : k \in 1..Len(f) <=> k \in 1..Len(s) /\ k # Len(s)
    BY <1>1, <1>2
  <2>2. QED
    BY <1>2, <2>1 DEF Matching
<1>4. Len(s) \in Matching(s, b) <=> c = b
  BY <1>1 DEF Matching
<1>5. Num(f, b) = IF c = b THEN Num(s, b) - 1 ELSE Num(s, b)
  BY <1>2, <1>3, <1>4, NumFacts, FS_RemoveElement
<1>6. QED
  BY <1>2, <1>5 DEF f

-----------------------------------------------------------------------------
(* The invariant                                                           *)

TypeInv ==
    /\ mode \in 0..2 /\ owner \in Threads \cup {NONE}
    /\ recurse \in 0..Wrap-1 /\ exclusive \in 0..Wrap-1
    /\ held \in [Threads -> Seq(Kinds)] /\ DOMAIN pc = Threads

Deep(t) ==
    /\ Len(held[t]) <= MaxDepth
    /\ pc[t] \in {"acquire", "acquire sleeps", "find", "ask start", "start", "start sleeps"} =>
         Len(held[t]) < MaxDepth
DepthInv == \A t \in Threads : Deep(t)

\* Where a thread is tells the mode, and the bracket it leaves.
Placed(t) ==
    /\ pc[t] \in Places
    /\ pc[t] \in {"acquire", "acquire sleeps", "release"} => mode = 1
    /\ pc[t] \in {"find", "forget", "end"} => mode = 2
    /\ pc[t] \in {"ask start", "ask end"} => mode # 2
    /\ pc[t] \in {"start", "start sleeps"} /\ mode # 2 => held[t] = << >>
    /\ pc[t] = "end" => owner = t
    /\ pc[t] \in {"ask end", "end"} => Top(t) = "io"
    /\ pc[t] = "release" => Top(t) = "common"
    /\ pc[t] = "forget" => Top(t) = "own"
PlaceInv == \A t \in Threads : Placed(t)

\* The brackets of each mode, and which of them are counted.
BracketInv ==
    /\ mode # 2 => exclusive = 0 /\ \A t \in Threads : Num(held[t], "own") = 0
    /\ mode = 0 => owner = NONE
    /\ mode = 1 =>
         /\ owner # NONE => recurse > 0
         /\ \A t \in Threads : Num(held[t], "common") = IF t = owner THEN recurse ELSE 0
    /\ mode = 2 =>
         /\ owner # NONE
         /\ \A t \in Threads : /\ Num(held[t], "common") = 0
                               /\ Num(held[t], "io") = IF t = owner THEN exclusive ELSE 0

\* The one bracket of a thread that reads.
Reading == Append(<< >>, "io")

\* While c changes the mode, the others are outside their brackets, or waited for the
\* end of exclusive mode and may read now.
Bystander(u, c) ==
    /\ pc[u] \in {"run", "start", "start sleeps", "ask end"}
    /\ pc[u] = "run" \/ pc[c] \in {"reset"} \cup Leaving
    /\ pc[u] \in {"start", "start sleeps"} => owner # u
    /\ IF pc[u] = "ask end" THEN held[u] = Reading
                            ELSE held[u] = << >> \/ (pc[u] = "run" /\ held[u] = Reading)
    /\ held[u] # << >> => pc[c] \in Leaving
ChangingInv(c) ==
    /\ pc[c] \in Changing /\ held[c] = << >> /\ exclusive = 0
    /\ pc[c] = "reset" <=> mode = 2
    /\ \A u \in Threads \ {c} : Bystander(u, c)
    /\ pc[c] \in {"store", "enter", "leave wakes"} => owner = NONE
    /\ pc[c] = "enter mode" => owner = c
    /\ pc[c] = "reset" => owner # NONE

FileInv ==
    /\ TypeInv /\ DepthInv
    /\ (PlaceInv /\ BracketInv) \/ (\E t \in Threads : ChangingInv(t))

\* A thread that reads is in one bracket.
LEMMA ReadingFacts ==
    /\ Reading \in Seq(Kinds) /\ Len(Reading) = 1 /\ Reading[1] = "io" /\ Reading # << >>
    /\ Num(Reading, "common") = 0 /\ Num(Reading, "own") = 0
<1>1. << >> \in Seq(Kinds) /\ Len(<< >>) = 0 /\ "io" \in Kinds
  BY DEF Kinds
<1>2. Reading \in Seq(Kinds) /\ Len(Reading) = 1 /\ Reading[1] = "io"
  BY <1>1 DEF Reading
<1>3. /\ Num(Reading, "common") = Num(<< >>, "common")
      /\ Num(Reading, "own") = Num(<< >>, "own")
  BY <1>1, NumAppend DEF Reading
<1>4. Num(<< >>, "common") = 0 /\ Num(<< >>, "own") = 0
  BY <1>1, NumFacts
<1>5. QED
  BY <1>1, <1>2, <1>3, <1>4

-----------------------------------------------------------------------------
(* How a step changes brackets and places                                  *)

\* The brackets of every thread after t enters one, or leaves its last.
EnteredBy(t, b) ==
    /\ held' \in [Threads -> Seq(Kinds)]
    /\ \A u \in Threads \ {t} : held'[u] = held[u]
    /\ Len(held'[t]) = Len(held[t]) + 1
    /\ \A c : Num(held'[t], c) = IF c = b THEN Num(held[t], c) + 1 ELSE Num(held[t], c)
LeftBy(t) ==
    /\ held' \in [Threads -> Seq(Kinds)]
    /\ \A u \in Threads \ {t} : held'[u] = held[u]
    /\ Len(held'[t]) = Len(held[t]) - 1
    /\ \A c : Num(held'[t], c) = IF Top(t) = c THEN Num(held[t], c) - 1 ELSE Num(held[t], c)

\* A bracket is entered: one more of its kind, the others as before.
LEMMA Entering ==
    ASSUME TypeInv, NEW t \in Threads, NEW b \in Kinds, Enter(t, b)
    PROVE  EnteredBy(t, b)
<1>1. held \in [Threads -> Seq(Kinds)] /\ held[t] \in Seq(Kinds)
  BY DEF TypeInv
<1>2. Append(held[t], b) \in Seq(Kinds) /\ Len(Append(held[t], b)) = Len(held[t]) + 1
  BY <1>1, NumAppend
<1>3. held' = [held EXCEPT ![t] = Append(held[t], b)]
  BY DEF Enter
<1>4. held'[t] = Append(held[t], b) /\ \A u \in Threads \ {t} : held'[u] = held[u]
  BY <1>1, <1>3
<1>5. held' \in [Threads -> Seq(Kinds)]
  BY <1>1, <1>2, <1>3
<1>6. \A c : Num(held'[t], c) = IF c = b THEN Num(held[t], c) + 1 ELSE Num(held[t], c)
  BY <1>1, <1>4, NumAppend
<1>7. QED
  BY <1>2, <1>4, <1>5, <1>6 DEF EnteredBy

\* The last bracket is left: one less of its kind, the others as before.
LEMMA LeavingLast ==
    ASSUME TypeInv, NEW t \in Threads, Top(t) # "none", Leave(t)
    PROVE  /\ LeftBy(t) /\ Top(t) \in Kinds
           /\ Num(held[t], Top(t)) > 0
<1>1. held \in [Threads -> Seq(Kinds)] /\ held[t] \in Seq(Kinds)
  BY DEF TypeInv
<1>2. held[t] # << >> /\ Top(t) = held[t][Len(held[t])]
  BY DEF Top
<1> DEFINE f == SubSeq(held[t], 1, Len(held[t]) - 1)
<1>3. f \in Seq(Kinds) /\ Len(f) = Len(held[t]) - 1
  BY <1>1, <1>2, NumFront
<1>4. \A c : Num(f, c) = IF Top(t) = c THEN Num(held[t], c) - 1 ELSE Num(held[t], c)
  BY <1>1, <1>2, NumFront
<1>5. held' = [held EXCEPT ![t] = f]
  BY DEF Leave
<1> HIDE DEF f
<1>6. held'[t] = f /\ \A u \in Threads \ {t} : held'[u] = held[u]
  BY <1>1, <1>5
<1>7. held' \in [Threads -> Seq(Kinds)]
  BY <1>1, <1>3, <1>5
<1>8. Len(held[t]) > 0 /\ Top(t) \in Kinds
  BY <1>1, <1>2
<1>9. Num(held[t], Top(t)) > 0
  BY <1>1, <1>2, <1>8, NumFacts
<1>10. QED
  BY <1>3, <1>4, <1>6, <1>7, <1>8, <1>9 DEF LeftBy

\* t goes to l; the others stay where they are, or are woken.
Woken(u) ==
    \/ pc[u] = "acquire sleeps" /\ pc'[u] = "acquire"
    \/ pc[u] = "start sleeps" /\ pc'[u] = "start"
Moved(t, l) ==
    /\ DOMAIN pc' = Threads /\ pc'[t] = l
    /\ \A u \in Threads \ {t} : pc'[u] = pc[u] \/ Woken(u)

\* However a thread moves on, the others stay or are woken.
LEMMA Moving ==
    ASSUME TypeInv, PlaceInv, NEW t \in Threads, NEW l,
           Goto(t, l) \/ Broadcast(t, l) \/ (UNCHANGED pc /\ pc[t] = l)
    PROVE  Moved(t, l)
<1>1. DOMAIN pc = Threads
  BY DEF TypeInv
<1>2. CASE Goto(t, l)
  BY <1>1, <1>2 DEF Goto, Moved
<1>3. CASE Broadcast(t, l)
  <2>1. DOMAIN pc' = Threads /\ pc'[t] = l /\ \A u \in Threads \ {t} : pc'[u] = Awake(u)
    BY <1>3 DEF Broadcast
  <2>2. \A u \in Threads : pc[u] # "end sleeps"
    BY DEF PlaceInv, Placed, Places
  <2>3. \A u \in Threads \ {t} : pc'[u] = pc[u] \/ Woken(u)
    BY <2>1, <2>2 DEF Awake, Woken
  <2>4. QED
    BY <2>1, <2>3 DEF Moved
<1>4. CASE UNCHANGED pc /\ pc[t] = l
  BY <1>1, <1>4 DEF Moved
<1>5. QED
  BY <1>2, <1>3, <1>4

\* A step of t in one mode leaves the other threads where their invariant holds.
LEMMA Others ==
    ASSUME DepthInv, PlaceInv, NEW t \in Threads, NEW l, Moved(t, l),
           \A u \in Threads \ {t} : held'[u] = held[u],
           mode' = mode, mode = 2 => owner' = owner,
           Placed(t)', Deep(t)'
    PROVE  DepthInv' /\ PlaceInv'
<1>1. ASSUME NEW u \in Threads \ {t} PROVE Placed(u)' /\ Deep(u)'
  <2>1. Placed(u) /\ Deep(u) /\ held'[u] = held[u] /\ (pc'[u] = pc[u] \/ Woken(u))
    BY <1>1 DEF DepthInv, PlaceInv, Moved
  <2>2. Top(u)' = Top(u)
    BY <2>1 DEF Top
  <2>3. Deep(u)'
    BY <2>1 DEF Deep, Woken
  <2>4. CASE pc'[u] = pc[u]
    BY <2>1, <2>2, <2>3, <2>4 DEF Placed
  <2>5. CASE Woken(u)
    BY <2>1, <2>3, <2>5 DEF Placed, Woken, Places
  <2>6. QED
    BY <2>1, <2>3, <2>4, <2>5
<1>2. QED
  BY <1>1 DEF DepthInv, PlaceInv

-----------------------------------------------------------------------------
(* Steps of one mode                                                       *)

\* The nesting and the width of the counters are positive.
LEMMA WrapFacts == MaxDepth \in Nat \ {0} /\ Wrap \in Nat \ {0} /\ 0 \in 0..Wrap-1
<1>1. MaxDepth \in Nat \ {0} /\ Wrap \in Nat \ {0}
  BY FileAssumption
<1>2. QED
  BY <1>1

\* The counters hold the deepest nesting.
LEMMA Bounds == MaxDepth \in Nat \ {0} /\ Wrap \in Nat \ {0} /\ MaxDepth < Wrap /\ 1 \in 0..Wrap-1
<1>1. MaxDepth \in Nat \ {0} /\ Wrap \in Nat \ {0} /\ MaxDepth < Wrap
  BY FileAssumption
<1>2. QED
  BY <1>1

Calm == TypeInv /\ DepthInv /\ PlaceInv /\ BracketInv

\* Numbers of brackets are bounded by the nesting.
LEMMA CountBounds ==
    ASSUME TypeInv, DepthInv, NEW t \in Threads, NEW c
    PROVE  /\ held[t] \in Seq(Kinds) /\ Len(held[t]) \in Nat
           /\ Num(held[t], c) \in Nat /\ Num(held[t], c) <= MaxDepth
           /\ pc[t] \in {"acquire", "start"} => Num(held[t], c) < MaxDepth
           /\ MaxDepth \in Nat \ {0} /\ Wrap \in Nat \ {0}
<1>1. held[t] \in Seq(Kinds) /\ MaxDepth \in Nat \ {0} /\ Wrap \in Nat \ {0}
  BY FileAssumption DEF TypeInv
<1>2. Len(held[t]) \in Nat
  BY <1>1
<1>3. Num(held[t], c) \in Nat /\ Num(held[t], c) <= Len(held[t])
  BY <1>1, NumFacts
<1>4. /\ Len(held[t]) <= MaxDepth
      /\ pc[t] \in {"acquire", "start"} => Len(held[t]) < MaxDepth
  BY DEF DepthInv, Deep
<1>5. Num(held[t], c) <= MaxDepth
  BY <1>1, <1>2, <1>3, <1>4
<1>6. pc[t] \in {"acquire", "start"} => Num(held[t], c) < MaxDepth
  BY <1>1, <1>2, <1>3, <1>4
<1>7. QED
  BY <1>1, <1>2, <1>3, <1>5, <1>6

\* A thread that has entered or left a bracket and runs on.
LEMMA RunsOn ==
    ASSUME Calm, NEW t \in Threads, Moved(t, "run"), mode' = mode, mode = 2 => owner' = owner,
           \/ LeftBy(t) \/ UNCHANGED held
           \/ Len(held[t]) < MaxDepth /\ \E b \in Kinds : EnteredBy(t, b)
    PROVE  DepthInv' /\ PlaceInv'
<1>1. TypeInv /\ DepthInv /\ PlaceInv /\ BracketInv /\ Placed(t) /\ Deep(t)
  BY DEF Calm, DepthInv, PlaceInv
<1>2. Placed(t)' /\ pc'[t] = "run"
  BY DEF Placed, Moved, Places
<1>3. Len(held[t]) \in Nat /\ MaxDepth \in Nat /\ Len(held[t]) <= MaxDepth
  BY <1>1, CountBounds DEF Deep
<1>4. Len(held'[t]) <= MaxDepth /\ \A u \in Threads \ {t} : held'[u] = held[u]
  <2>1. CASE LeftBy(t)
    BY <1>3, <2>1 DEF LeftBy
  <2>2. CASE UNCHANGED held
    BY <1>3, <2>2
  <2>3. CASE Len(held[t]) < MaxDepth /\ \E b \in Kinds : EnteredBy(t, b)
    BY <1>3, <2>3 DEF EnteredBy
  <2>4. QED
    BY <2>1, <2>2, <2>3
<1>5. Deep(t)'
  BY <1>2, <1>4 DEF Deep
<1>6. QED
  BY <1>1, <1>2, <1>4, <1>5, Others

\* A thread that goes to a place where its bracket is still unchanged.
LEMMA GoesTo ==
    ASSUME Calm, NEW t \in Threads, NEW l, Moved(t, l), UNCHANGED <<mode, owner, held>>,
           Placed(t)',
           pc'[t] \in {"acquire", "acquire sleeps", "find", "ask start", "start", "start sleeps"} =>
             Len(held[t]) < MaxDepth
    PROVE  DepthInv' /\ PlaceInv'
<1>1. DepthInv /\ PlaceInv /\ Deep(t)
  BY DEF Calm, DepthInv
<1>2. Deep(t)'
  BY <1>1 DEF Deep
<1>3. QED
  BY <1>1, <1>2, Others

\* In exclusive mode a thread has found its own output state.
LEMMA FindStep ==
    ASSUME Calm, NEW t \in Threads, FindState(t) PROVE Calm'
<1>1. TypeInv /\ PlaceInv /\ BracketInv /\ Placed(t) /\ Deep(t)
  BY DEF Calm, DepthInv, PlaceInv
<1>2. pc[t] = "find" /\ Enter(t, "own") /\ Goto(t, "run") /\ UNCHANGED <<mode, owner, recurse, exclusive>>
  BY DEF FindState, At
<1>3. EnteredBy(t, "own") /\ Moved(t, "run")
  BY <1>1, <1>2, Entering, Moving DEF Kinds
<1>4. TypeInv'
  BY <1>1, <1>2, <1>3 DEF TypeInv, EnteredBy, Moved
<1>5. DepthInv' /\ PlaceInv'
  BY <1>1, <1>2, <1>3, RunsOn DEF Deep, Kinds
<1>6. BracketInv'
  BY <1>1, <1>2, <1>3 DEF BracketInv, EnteredBy, Placed
<1>7. QED
  BY <1>4, <1>5, <1>6 DEF Calm

\* A thread asks for an output state, in whatever mode the file is.
LEMMA GetStep ==
    ASSUME Calm, NEW t \in Threads, GetState(t) PROVE Calm'
<1>1. TypeInv /\ PlaceInv /\ BracketInv /\ Placed(t) /\ Deep(t)
  BY DEF Calm, DepthInv, PlaceInv
<1>2. /\ pc[t] = "run" /\ Len(held[t]) < MaxDepth
      /\ UNCHANGED <<mode, owner, recurse, exclusive>>
  BY DEF GetState, At, BeginQuietly, Begin, shared
<1>3. CASE mode = 0
  <2>1. Enter(t, "common") /\ UNCHANGED pc
    BY <1>3 DEF GetState
  <2>2. EnteredBy(t, "common") /\ Moved(t, "run")
    BY <1>1, <1>2, <2>1, Entering, Moving DEF Kinds
  <2>3. TypeInv' /\ BracketInv'
    BY <1>1, <1>2, <1>3, <2>2 DEF TypeInv, BracketInv, EnteredBy, Moved
  <2>4. QED
    BY <1>2, <2>2, <2>3, RunsOn DEF Calm, Kinds
<1>4. CASE mode # 0
  <2>1. PICK l \in {"acquire", "find"} : /\ Goto(t, l) /\ UNCHANGED held
                                         /\ l = "acquire" => mode = 1
                                         /\ l = "find" => mode = 2
    <3>1. mode = 1 \/ mode = 2
      BY <1>1, <1>4 DEF TypeInv
    <3>2. CASE mode = 1
      BY <3>2 DEF GetState
    <3>3. CASE mode = 2
      BY <3>3 DEF GetState
    <3>4. QED
      BY <3>1, <3>2, <3>3
  <2>2. Moved(t, l)
    BY <1>1, <2>1, Moving
  <2>3. Placed(t)'
    BY <1>2, <2>1, <2>2 DEF Placed, Moved, Places
  <2>4. DepthInv' /\ PlaceInv'
    BY <1>2, <2>1, <2>2, <2>3, GoesTo
  <2>5. TypeInv' /\ BracketInv'
    BY <1>1, <1>2, <2>1, <2>2 DEF TypeInv, BracketInv, Moved
  <2>6. QED
    BY <2>4, <2>5 DEF Calm
<1>5. QED
  BY <1>3, <1>4

\* Nobody owns the output state: the thread is its owner now.
LEMMA AcquireFreeStep ==
    ASSUME Calm, NEW t \in Threads, AcquireFree(t) PROVE Calm'
<1>1. TypeInv /\ PlaceInv /\ BracketInv /\ DepthInv /\ Placed(t) /\ Deep(t)
  BY DEF Calm, DepthInv, PlaceInv
<1>2. /\ pc[t] = "acquire" /\ owner = NONE /\ owner' = t /\ recurse' = 1
      /\ Enter(t, "common") /\ Broadcast(t, "run") /\ UNCHANGED <<mode, exclusive>>
  BY DEF AcquireFree, At
<1>3. EnteredBy(t, "common") /\ Moved(t, "run")
  BY <1>1, <1>2, Entering, Moving DEF Kinds
<1>4. mode = 1 /\ Len(held[t]) < MaxDepth /\ NONE \notin Threads
  BY <1>1, <1>2, FileAssumption DEF Placed, Deep
<1>5. 1 \in 0..Wrap-1
  BY Bounds
<1>6. TypeInv'
  BY <1>1, <1>2, <1>3, <1>5 DEF TypeInv, EnteredBy, Moved
<1>7. DepthInv' /\ PlaceInv'
  BY <1>1, <1>2, <1>3, <1>4, RunsOn DEF Kinds
<1>8. BracketInv'
  BY <1>1, <1>2, <1>3, <1>4 DEF BracketInv, EnteredBy
<1>9. QED
  BY <1>6, <1>7, <1>8 DEF Calm

\* The owner acquires the output state once more.
LEMMA AcquireAgainStep ==
    ASSUME Calm, NEW t \in Threads, AcquireAgain(t) PROVE Calm'
<1>1. TypeInv /\ PlaceInv /\ BracketInv /\ DepthInv /\ Placed(t) /\ Deep(t)
  BY DEF Calm, DepthInv, PlaceInv
<1>2. /\ pc[t] = "acquire" /\ owner = t /\ recurse' = Plus(recurse)
      /\ Enter(t, "common") /\ Goto(t, "run") /\ UNCHANGED <<mode, exclusive, owner>>
  BY DEF AcquireAgain, At
<1>3. EnteredBy(t, "common") /\ Moved(t, "run")
  BY <1>1, <1>2, Entering, Moving DEF Kinds
<1>4. mode = 1 /\ Len(held[t]) < MaxDepth
  BY <1>1, <1>2 DEF Placed, Deep
<1>5. Num(held[t], "common") = recurse
  BY <1>1, <1>2, <1>4 DEF BracketInv
<1>6. recurse \in Nat /\ recurse + 1 < Wrap /\ Wrap \in Nat
  <2>1. recurse \in Nat /\ recurse < MaxDepth
    BY <1>1, <1>2, <1>5, CountBounds
  <2>2. QED
    BY <2>1, Bounds
<1>7. recurse' = recurse + 1 /\ recurse' \in 0..Wrap-1
  BY <1>2, <1>6 DEF Plus
<1>8. TypeInv'
  BY <1>1, <1>2, <1>3, <1>7 DEF TypeInv, EnteredBy, Moved
<1>9. DepthInv' /\ PlaceInv'
  BY <1>1, <1>2, <1>3, <1>4, RunsOn DEF Kinds
<1>10. BracketInv'
  BY <1>1, <1>2, <1>3, <1>4, <1>6, <1>7 DEF BracketInv, EnteredBy
<1>11. QED
  BY <1>8, <1>9, <1>10 DEF Calm

\* Another thread owns the output state: the thread falls asleep.
LEMMA AcquireMustWaitStep ==
    ASSUME Calm, NEW t \in Threads, AcquireMustWait(t) PROVE Calm'
<1>1. TypeInv /\ PlaceInv /\ BracketInv /\ Placed(t) /\ Deep(t)
  BY DEF Calm, DepthInv, PlaceInv
<1>2. /\ pc[t] = "acquire" /\ Goto(t, "acquire sleeps")
      /\ UNCHANGED <<mode, owner, recurse, exclusive, held>>
  BY DEF AcquireMustWait, At, shared
<1>3. Moved(t, "acquire sleeps")
  BY <1>1, <1>2, Moving
<1>4. mode = 1 /\ Len(held[t]) < MaxDepth
  BY <1>1, <1>2 DEF Placed, Deep
<1>5. Placed(t)'
  BY <1>2, <1>3, <1>4 DEF Placed, Moved, Places
<1>6. DepthInv' /\ PlaceInv'
  BY <1>2, <1>3, <1>4, <1>5, GoesTo
<1>7. TypeInv' /\ BracketInv'
  BY <1>1, <1>2, <1>3 DEF TypeInv, BracketInv, Moved
<1>8. QED
  BY <1>6, <1>7 DEF Calm

\* Whatever bracket t is in: in synchronized mode it owns the file if that is an output
\* state, in exclusive mode if it is reading or writing.
LEMMA TopFacts ==
    ASSUME Calm, NEW t \in Threads, Top(t) # "none"
    PROVE  /\ Top(t) \in Kinds /\ Num(held[t], Top(t)) > 0
           /\ mode = 1 => Top(t) # "own" /\ (Top(t) = "common" => owner = t)
           /\ mode = 2 => Top(t) # "common" /\ (Top(t) = "io" => owner = t)
<1>1. TypeInv /\ BracketInv
  BY DEF Calm
<1>2. held[t] \in Seq(Kinds) /\ held[t] # << >> /\ Top(t) = held[t][Len(held[t])]
  BY <1>1 DEF TypeInv, Top
<1>3. Len(held[t]) > 0 /\ Top(t) \in Kinds
  BY <1>2
<1>4. Num(held[t], Top(t)) > 0
  BY <1>2, <1>3, NumFacts
<1>5. mode = 1 => Top(t) # "own" /\ (Top(t) = "common" => owner = t)
  BY <1>1, <1>4 DEF BracketInv
<1>6. mode = 2 => Top(t) # "common" /\ (Top(t) = "io" => owner = t)
  BY <1>1, <1>4 DEF BracketInv
<1>7. QED
  BY <1>3, <1>4, <1>5, <1>6

\* A thread gives an output state back, in whatever mode the file is.
LEMMA ReleaseStep ==
    ASSUME Calm, NEW t \in Threads, ReleaseState(t) PROVE Calm'
<1>1. TypeInv /\ PlaceInv /\ BracketInv /\ Placed(t) /\ Deep(t)
  BY DEF Calm, DepthInv, PlaceInv
<1>2. /\ pc[t] = "run" /\ Top(t) \in {"common", "own"}
      /\ UNCHANGED <<mode, owner, recurse, exclusive>>
  BY DEF ReleaseState, At, shared
<1>3. CASE mode = 0
  <2>1. Leave(t) /\ UNCHANGED pc
    BY <1>3 DEF ReleaseState
  <2>2. LeftBy(t) /\ Moved(t, "run")
    BY <1>1, <1>2, <2>1, LeavingLast, Moving
  <2>3. DepthInv' /\ PlaceInv'
    BY <1>2, <2>2, RunsOn
  <2>4. TypeInv'
    BY <1>1, <1>2, <2>2 DEF TypeInv, LeftBy, Moved
  <2>5. Top(t) # "own"
    BY <1>1, <1>2, <1>3, <2>1, LeavingLast DEF BracketInv
  <2>6. BracketInv'
    BY <1>1, <1>2, <1>3, <2>2, <2>5 DEF BracketInv, LeftBy
  <2>7. QED
    BY <2>3, <2>4, <2>6 DEF Calm
<1>4. CASE mode # 0
  <2>1. mode = 1 \/ mode = 2
    BY <1>1, <1>4 DEF TypeInv
  <2>2. PICK l \in {"release", "forget"} : /\ Goto(t, l) /\ UNCHANGED held
                                           /\ l = "release" => mode = 1
                                           /\ l = "forget" => mode = 2
    <3>1. CASE mode = 1
      BY <3>1 DEF ReleaseState
    <3>2. CASE mode = 2
      BY <3>2 DEF ReleaseState
    <3>3. QED
      BY <2>1, <3>1, <3>2
  <2>3. Moved(t, l)
    BY <1>1, <2>2, Moving
  <2>4. (l = "release" => Top(t) = "common") /\ (l = "forget" => Top(t) = "own")
    BY <1>2, <2>2, TopFacts
  <2>5. Top(t)' = Top(t)
    BY <2>2 DEF Top
  <2>6. Placed(t)'
    BY <1>2, <2>2, <2>3, <2>4, <2>5 DEF Placed, Moved, Places
  <2>7. DepthInv' /\ PlaceInv'
    BY <1>2, <2>2, <2>3, <2>6, GoesTo DEF Moved
  <2>8. TypeInv' /\ BracketInv'
    BY <1>1, <1>2, <2>2, <2>3 DEF TypeInv, BracketInv, Moved
  <2>9. QED
    BY <2>7, <2>8 DEF Calm
<1>5. QED
  BY <1>3, <1>4

\* The owner counts down, and owns no more when the count is 0.
LEMMA ReleaseCountStep ==
    ASSUME Calm, NEW t \in Threads, ReleaseThreadCount(t) PROVE Calm'
<1>1. TypeInv /\ PlaceInv /\ BracketInv /\ DepthInv /\ Placed(t) /\ Deep(t)
  BY DEF Calm, DepthInv, PlaceInv
<1>2. /\ pc[t] = "release" /\ recurse' = Minus(recurse)
      /\ (owner' = NONE /\ Broadcast(t, "run")) \/ (UNCHANGED owner /\ Goto(t, "run"))
      /\ recurse' = 0 <=> owner' = NONE
      /\ Leave(t) /\ UNCHANGED <<mode, exclusive>>
  <2>1. pc[t] = "release" /\ Leave(t) /\ UNCHANGED <<mode, exclusive>> /\ recurse' = Minus(recurse)
    BY DEF ReleaseThreadCount, At
  <2>2. mode = 1 /\ Top(t) = "common"
    BY <1>1, <2>1 DEF Placed
  <2>3. owner = t /\ t # NONE
    BY <2>2, TopFacts, FileAssumption
  <2>4. CASE recurse' = 0
    BY <2>1, <2>4 DEF ReleaseThreadCount
  <2>5. CASE recurse' # 0
    BY <2>1, <2>3, <2>5 DEF ReleaseThreadCount
  <2>6. QED
    BY <2>4, <2>5
<1>3. mode = 1 /\ Top(t) = "common" /\ owner = t
  BY <1>1, <1>2, TopFacts DEF Placed
<1>4. LeftBy(t) /\ Moved(t, "run")
  BY <1>1, <1>2, <1>3, LeavingLast, Moving
<1>5. Num(held[t], "common") = recurse /\ recurse > 0
  BY <1>1, <1>3, TopFacts, FileAssumption DEF BracketInv
<1>6. recurse \in 0..Wrap-1 /\ Wrap \in Nat \ {0}
  BY <1>1, FileAssumption DEF TypeInv
<1>7. recurse' = recurse - 1 /\ recurse' \in 0..Wrap-1
  BY <1>2, <1>5, <1>6 DEF Minus
<1>8. TypeInv'
  BY <1>1, <1>2, <1>4, <1>7 DEF TypeInv, LeftBy, Moved
<1>9. DepthInv' /\ PlaceInv'
  BY <1>2, <1>3, <1>4, RunsOn
<1>10. BracketInv'
  <2>1. mode' = 1 /\ exclusive' = 0 /\ \A u \in Threads : Num(held'[u], "own") = 0
    BY <1>1, <1>2, <1>3, <1>4 DEF BracketInv, LeftBy
  <2>2. owner' # NONE => recurse' > 0
    BY <1>2, <1>7, <1>6
  <2>3. Num(held'[t], "common") = recurse'
    BY <1>3, <1>4, <1>5, <1>7 DEF LeftBy
  <2>4. \A u \in Threads \ {t} : Num(held'[u], "common") = 0
    BY <1>1, <1>3, <1>4 DEF BracketInv, LeftBy
  <2>5. \A u \in Threads : Num(held'[u], "common") = IF u = owner' THEN recurse' ELSE 0
    BY <1>2, <1>3, <2>3, <2>4, FileAssumption
  <2>6. QED
    BY <2>1, <2>2, <2>5 DEF BracketInv
<1>11. QED
  BY <1>8, <1>9, <1>10 DEF Calm

\* A thread gives back its own output state.
LEMMA ForgetStep ==
    ASSUME Calm, NEW t \in Threads, ForgetState(t) PROVE Calm'
<1>1. TypeInv /\ PlaceInv /\ BracketInv /\ DepthInv /\ Placed(t)
  BY DEF Calm, DepthInv, PlaceInv
<1>2. pc[t] = "forget" /\ UNCHANGED <<mode, owner, exclusive>>
  BY DEF ForgetState, At
<1>3. mode = 2 /\ Top(t) = "own"
  BY <1>1, <1>2 DEF Placed
<1>4. CASE t \in states
  <2>1. recurse' = Minus(recurse) /\ Leave(t) /\ Goto(t, "run")
    BY <1>4 DEF ForgetState
  <2>2. LeftBy(t) /\ Moved(t, "run")
    BY <1>1, <1>3, <2>1, LeavingLast, Moving
  <2>3. recurse' \in 0..Wrap-1
    <3>1. recurse \in 0..Wrap-1 /\ Wrap \in Nat \ {0}
      BY <1>1, FileAssumption DEF TypeInv
    <3>2. \A n \in Int, w \in Nat \ {0} : (n - 1) % w \in 0..w-1
      OBVIOUS
    <3>3. Minus(recurse) \in 0..Wrap-1
      <4>1. recurse \in Int
        BY <3>1
      <4>2. QED
        BY <3>1, <3>2, <4>1 DEF Minus
    <3>4. QED
      BY <2>1, <3>3
  <2>4. TypeInv'
    BY <1>1, <1>2, <2>2, <2>3 DEF TypeInv, LeftBy, Moved
  <2>5. DepthInv' /\ PlaceInv'
    BY <1>2, <2>2, RunsOn
  <2>6. BracketInv'
    BY <1>1, <1>2, <1>3, <2>2 DEF BracketInv, LeftBy
  <2>7. QED
    BY <2>4, <2>5, <2>6 DEF Calm
<1>5. CASE t \notin states
  <2>1. UNCHANGED <<recurse, held, pc>>
    BY <1>5 DEF ForgetState
  <2>2. TypeInv' /\ BracketInv'
    BY <1>1, <1>2, <2>1 DEF TypeInv, BracketInv
  <2>3. DepthInv' /\ PlaceInv'
    BY <1>1, <1>2, <2>1 DEF DepthInv, Deep, PlaceInv, Placed, Top
  <2>4. QED
    BY <2>2, <2>3 DEF Calm
<1>6. QED
  BY <1>4, <1>5

\* A thread begins to read or write, in whatever mode the file is.
LEMMA StartStep ==
    ASSUME Calm, NEW t \in Threads, StartIO(t) PROVE Calm'
<1>1. TypeInv /\ PlaceInv /\ BracketInv /\ Placed(t)
  BY DEF Calm, PlaceInv
<1>2. /\ pc[t] = "run" /\ Len(held[t]) < MaxDepth
      /\ UNCHANGED <<mode, owner, recurse, exclusive, held>>
  BY DEF StartIO, At, BeginQuietly, Begin, shared
<1>3. PICK l \in {"start", "ask start"} : Goto(t, l) /\ (l = "start" <=> mode = 2)
  BY DEF StartIO
<1>4. Moved(t, l)
  BY <1>1, <1>3, Moving
<1>5. Placed(t)'
  BY <1>2, <1>3, <1>4 DEF Placed, Moved, Places
<1>6. DepthInv' /\ PlaceInv'
  BY <1>2, <1>3, <1>4, <1>5, GoesTo
<1>7. TypeInv' /\ BracketInv'
  BY <1>1, <1>2, <1>4 DEF TypeInv, BracketInv, Moved
<1>8. QED
  BY <1>6, <1>7 DEF Calm

\* The file is not exclusive: nothing is counted.
LEMMA StartUncountedStep ==
    ASSUME Calm, NEW t \in Threads, StartUncounted(t) PROVE Calm'
<1>1. TypeInv /\ PlaceInv /\ BracketInv /\ Placed(t) /\ Deep(t)
  BY DEF Calm, DepthInv, PlaceInv
<1>2. pc[t] = "ask start" /\ UNCHANGED <<mode, owner, recurse, exclusive>>
  BY DEF StartUncounted, At, shared
<1>3. mode # 2 /\ exclusive = 0 /\ Len(held[t]) < MaxDepth
  BY <1>1, <1>2 DEF Placed, Deep, BracketInv
<1>4. Enter(t, "io") /\ Goto(t, "run")
  BY <1>3 DEF StartUncounted
<1>5. EnteredBy(t, "io") /\ Moved(t, "run")
  BY <1>1, <1>4, Entering, Moving DEF Kinds
<1>6. TypeInv' /\ BracketInv'
  BY <1>1, <1>2, <1>3, <1>5 DEF TypeInv, BracketInv, EnteredBy, Moved
<1>7. QED
  BY <1>2, <1>3, <1>5, <1>6, RunsOn DEF Calm, Kinds

\* A thread ends reading or writing, in whatever mode the file is.
LEMMA EndStep ==
    ASSUME Calm, NEW t \in Threads, EndIO(t) PROVE Calm'
<1>1. TypeInv /\ PlaceInv /\ BracketInv /\ Placed(t)
  BY DEF Calm, PlaceInv
<1>2. /\ pc[t] = "run" /\ Top(t) = "io" /\ UNCHANGED <<mode, owner, recurse, exclusive, held>>
  BY DEF EndIO, At, shared
<1>3. PICK l \in {"end", "ask end"} : Goto(t, l) /\ (l = "end" <=> mode = 2)
  BY DEF EndIO
<1>4. mode = 2 => owner = t
  BY <1>2, TopFacts
<1>5. Moved(t, l)
  BY <1>1, <1>3, Moving
<1>6. Top(t)' = Top(t)
  BY <1>2 DEF Top
<1>7. Placed(t)'
  BY <1>2, <1>3, <1>4, <1>5, <1>6 DEF Placed, Moved, Places
<1>8. DepthInv' /\ PlaceInv'
  BY <1>2, <1>3, <1>5, <1>7, GoesTo DEF Moved
<1>9. TypeInv' /\ BracketInv'
  BY <1>1, <1>2, <1>5 DEF TypeInv, BracketInv, Moved
<1>10. QED
  BY <1>8, <1>9 DEF Calm

\* The file is not exclusive: what is left was not counted.
LEMMA EndUncountedStep ==
    ASSUME Calm, NEW t \in Threads, EndUncounted(t) PROVE Calm'
<1>1. TypeInv /\ PlaceInv /\ BracketInv /\ Placed(t)
  BY DEF Calm, PlaceInv
<1>2. pc[t] = "ask end" /\ UNCHANGED <<mode, owner, recurse, exclusive>>
  BY DEF EndUncounted, At, shared
<1>3. mode # 2 /\ exclusive = 0 /\ Top(t) = "io"
  BY <1>1, <1>2 DEF Placed, BracketInv
<1>4. Leave(t) /\ Goto(t, "run")
  BY <1>3 DEF EndUncounted
<1>5. LeftBy(t) /\ Moved(t, "run")
  BY <1>1, <1>3, <1>4, LeavingLast, Moving
<1>6. TypeInv' /\ BracketInv'
  BY <1>1, <1>2, <1>3, <1>5 DEF TypeInv, BracketInv, LeftBy, Moved
<1>7. QED
  BY <1>2, <1>5, <1>6, RunsOn DEF Calm

\* The owner of a file reads or writes only in exclusive mode.
LEMMA OwnerIsExclusive ==
    ASSUME Calm, NEW t \in Threads, owner = t, pc[t] \in {"start", "end"}
    PROVE  mode = 2
<1>1. TypeInv /\ BracketInv /\ Placed(t) /\ t # NONE
  BY FileAssumption DEF Calm, PlaceInv
<1>2. mode # 0
  BY <1>1 DEF BracketInv
<1>3. ASSUME mode = 1 PROVE FALSE
  <2>1. held[t] = << >> /\ held[t] \in Seq(Kinds)
    <3>1. pc[t] = "start"
      <4>1. pc[t] = "end" => mode = 2
        BY <1>1 DEF Placed
      <4>2. mode # 2
        BY <1>3
      <4>3. QED
        BY <4>1, <4>2
    <3>2. held[t] = << >>
      BY <1>1, <1>3, <3>1 DEF Placed
    <3>3. QED
      BY <1>1, <3>2 DEF TypeInv
  <2>2. Num(held[t], "common") = 0
    BY <2>1, NumFacts
  <2>3. QED
    BY <1>1, <1>3, <2>2 DEF BracketInv, TypeInv
<1>4. QED
  BY <1>1, <1>2, <1>3 DEF TypeInv

\* The owner of an exclusive file counts its readings and writings.
LEMMA ExclusiveMineStep ==
    ASSUME Calm, NEW t \in Threads, ExclusiveMine(t) PROVE Calm'
<1>1. TypeInv /\ PlaceInv /\ BracketInv /\ DepthInv /\ Placed(t) /\ Deep(t)
  BY DEF Calm, DepthInv, PlaceInv
<1>2. /\ pc[t] \in {"start", "end"} /\ owner = t /\ Bracket(t)
      /\ exclusive' = IF pc[t] = "start" THEN Plus(exclusive) ELSE Minus(exclusive)
      /\ UNCHANGED <<mode, recurse>>
  BY DEF ExclusiveMine, At
<1>3. mode = 2
  BY <1>2, OwnerIsExclusive
<1>4. UNCHANGED owner /\ (Goto(t, "run") \/ Broadcast(t, "run"))
  <2>1. CASE exclusive' = 0
    BY <1>3, <2>1 DEF ExclusiveMine
  <2>2. CASE exclusive' # 0
    BY <2>2 DEF ExclusiveMine
  <2>3. QED
    BY <2>1, <2>2
<1>5. Moved(t, "run")
  BY <1>1, <1>4, Moving
<1>6. Num(held[t], "io") = exclusive /\ exclusive \in 0..Wrap-1
  BY <1>1, <1>2, <1>3 DEF BracketInv, TypeInv
<1>7. CASE pc[t] = "start"
  <2>1. EnteredBy(t, "io") /\ Len(held[t]) < MaxDepth
    BY <1>1, <1>2, <1>7, Entering DEF Bracket, Kinds, Deep
  <2>2. exclusive < MaxDepth
    BY <1>1, <1>6, <1>7, CountBounds
  <2>3. exclusive' = exclusive + 1 /\ exclusive' \in 0..Wrap-1
    <3>1. exclusive \in Nat /\ exclusive + 1 < Wrap /\ Wrap \in Nat
      BY <1>6, <2>2, Bounds
    <3>2. QED
      BY <1>2, <1>7, <3>1 DEF Plus
  <2>4. TypeInv'
    BY <1>1, <1>2, <1>4, <1>5, <2>1, <2>3 DEF TypeInv, EnteredBy, Moved
  <2>5. DepthInv' /\ PlaceInv'
    BY <1>2, <1>4, <1>5, <2>1, RunsOn DEF Kinds
  <2>6. BracketInv'
    BY <1>1, <1>2, <1>3, <1>4, <1>6, <2>1, <2>3 DEF BracketInv, EnteredBy
  <2>7. QED
    BY <2>4, <2>5, <2>6 DEF Calm
<1>8. CASE pc[t] = "end"
  <2>1. Top(t) = "io"
    BY <1>1, <1>8 DEF Placed
  <2>2. LeftBy(t) /\ Num(held[t], "io") > 0
    BY <1>1, <1>2, <1>8, <2>1, LeavingLast DEF Bracket
  <2>3. exclusive' = exclusive - 1 /\ exclusive' \in 0..Wrap-1
    <3>1. exclusive \in Nat \ {0} /\ exclusive < Wrap /\ Wrap \in Nat
      BY <1>6, <2>2, Bounds
    <3>2. QED
      BY <1>2, <1>8, <3>1 DEF Minus
  <2>4. TypeInv'
    BY <1>1, <1>2, <1>4, <1>5, <2>2, <2>3 DEF TypeInv, LeftBy, Moved
  <2>5. DepthInv' /\ PlaceInv'
    BY <1>2, <1>4, <1>5, <2>2, RunsOn
  <2>6. BracketInv'
    BY <1>1, <1>2, <1>3, <1>4, <1>6, <2>1, <2>2, <2>3 DEF BracketInv, LeftBy
  <2>7. QED
    BY <2>4, <2>5, <2>6 DEF Calm
<1>9. QED
  BY <1>2, <1>7, <1>8

\* The file is exclusive no more: nothing is counted.
LEMMA ExclusiveOverStep ==
    ASSUME Calm, NEW t \in Threads, ExclusiveOver(t) PROVE Calm'
<1>1. TypeInv /\ PlaceInv /\ BracketInv /\ Placed(t) /\ Deep(t)
  BY DEF Calm, DepthInv, PlaceInv
<1>2. /\ pc[t] \in {"start", "end"} /\ owner # t /\ mode # 2 /\ Bracket(t) /\ Goto(t, "run")
      /\ UNCHANGED <<mode, owner, recurse, exclusive>>
  BY DEF ExclusiveOver, At, shared
<1>3. pc[t] = "start" /\ Len(held[t]) < MaxDepth
  BY <1>1, <1>2 DEF Placed, Deep
<1>4. EnteredBy(t, "io") /\ Moved(t, "run")
  BY <1>1, <1>2, <1>3, Entering, Moving DEF Bracket, Kinds
<1>5. TypeInv' /\ BracketInv'
  BY <1>1, <1>2, <1>4 DEF TypeInv, BracketInv, EnteredBy, Moved
<1>6. QED
  BY <1>2, <1>3, <1>4, <1>5, RunsOn DEF Calm, Kinds

\* The file is exclusive to another thread: the thread falls asleep.
LEMMA ExclusiveMustWaitStep ==
    ASSUME Calm, NEW t \in Threads, ExclusiveMustWait(t) PROVE Calm'
<1>1. TypeInv /\ PlaceInv /\ BracketInv /\ Placed(t) /\ Deep(t)
  BY DEF Calm, DepthInv, PlaceInv
<1>2. /\ pc[t] \in {"start", "end"} /\ owner # t /\ mode = 2
      /\ Goto(t, IF pc[t] = "start" THEN "start sleeps" ELSE "end sleeps")
      /\ UNCHANGED <<mode, owner, recurse, exclusive, held>>
  BY DEF ExclusiveMustWait, At, shared
<1>3. pc[t] = "start" /\ Len(held[t]) < MaxDepth
  BY <1>1, <1>2 DEF Placed, Deep
<1>4. Moved(t, "start sleeps")
  BY <1>1, <1>2, <1>3, Moving
<1>5. Placed(t)'
  BY <1>2, <1>4 DEF Placed, Moved, Places
<1>6. DepthInv' /\ PlaceInv'
  BY <1>2, <1>3, <1>4, <1>5, GoesTo
<1>7. TypeInv' /\ BracketInv'
  BY <1>1, <1>2, <1>4 DEF TypeInv, BracketInv, Moved
<1>8. QED
  BY <1>6, <1>7 DEF Calm

-----------------------------------------------------------------------------
(* Changing the mode                                                       *)

\* A step that keeps the file quiet begins nothing while the mode changes.
LEMMA QuietSteps ==
    ASSUME NEW t \in Threads, quiet'
    PROVE  /\ GetState(t) => ~Switching
           /\ StartIO(t) => ~Switching
           /\ SetThreadMode(t) => ~Switching /\ \A u \in Threads \ {t} : Idle(u)
<1>1. GetState(t) => ~Switching
  BY Zenon DEF GetState, BeginQuietly
<1>2. StartIO(t) => ~Switching
  BY Zenon DEF StartIO, BeginQuietly
<1>3. SetThreadMode(t) => ~Switching /\ \A u \in Threads \ {t} : Idle(u)
  BY Zenon DEF SetThreadMode
<1>4. QED
  BY <1>1, <1>2, <1>3

\* While c changes the mode, the others end what they were at.
LEMMA ChangerMoves ==
    ASSUME quiet', NEW c \in Threads, ChangingInv(c), NEW t \in Threads,
           ThreadStep(t) \/ SetThreadMode(t)
    PROVE  \/ Sleep(t)
           \/ t = c /\ \/ ResetMode(t) \/ StoreMode(t) \/ SetOwnerThread(t) \/ EnterExclusive(t)
                       \/ LeaveExclusive(t) \/ ClearOwner(t) \/ LeaveWakes(t)
           \/ t # c /\ (EndIO(t) \/ EndUncounted(t) \/ ExclusiveOver(t) \/ ExclusiveMustWait(t))
<1>1. Switching /\ (pc[t] \in Changing <=> t = c)
  BY DEF Switching, ChangingInv, Bystander, Changing
<1>2. /\ pc[t] \in {"run", "start", "start sleeps", "ask end"} \cup Changing
      /\ pc[t] = "start" => owner # t
  BY DEF ChangingInv, Bystander, Changing
<1>3. Top(t) \in {"none", "io"}
  BY ReadingFacts DEF ChangingInv, Bystander, Top
<1>4. ~GetState(t) /\ ~StartIO(t) /\ ~ReleaseState(t) /\ ~SetThreadMode(t)
  BY <1>1, <1>3, QuietSteps DEF ReleaseState
<1>5. /\ ~FindState(t) /\ ~AcquireFree(t) /\ ~AcquireAgain(t) /\ ~AcquireMustWait(t)
      /\ ~ReleaseThreadCount(t) /\ ~ForgetState(t) /\ ~StartUncounted(t) /\ ~ExclusiveMine(t)
  BY <1>2 DEF FindState, AcquireFree, AcquireAgain, AcquireMustWait, ReleaseThreadCount,
              ForgetState, StartUncounted, ExclusiveMine, At, Changing
<1>6. (\/ ResetMode(t) \/ StoreMode(t) \/ SetOwnerThread(t) \/ EnterExclusive(t)
       \/ LeaveExclusive(t) \/ ClearOwner(t) \/ LeaveWakes(t)) => t = c
  BY <1>1 DEF ResetMode, StoreMode, SetOwnerThread, EnterExclusive, LeaveExclusive, ClearOwner,
              LeaveWakes, At, Changing
<1>7. EndIO(t) \/ EndUncounted(t) \/ ExclusiveOver(t) \/ ExclusiveMustWait(t) => t # c
  BY <1>1 DEF EndIO, EndUncounted, ExclusiveOver, ExclusiveMustWait, At, Changing
<1>8. QED
  BY <1>4, <1>5, <1>6, <1>7 DEF ThreadStep

\* Falling asleep gives the mutex back and changes nothing else.
LEMMA SleepStep ==
    ASSUME FileInv, NEW t \in Threads, Sleep(t) PROVE FileInv'
<1>1. TypeInv /\ DepthInv /\ UNCHANGED <<mode, owner, recurse, exclusive, pc, held>>
  BY DEF FileInv, Sleep, shared
<1>2. TypeInv' /\ DepthInv' /\ (BracketInv => BracketInv')
  BY <1>1 DEF TypeInv, DepthInv, Deep, BracketInv
<1>3. PlaceInv => PlaceInv'
  BY <1>1 DEF PlaceInv, Placed, Top
<1>4. ASSUME NEW c \in Threads, ChangingInv(c) PROVE ChangingInv(c)'
  BY <1>1, <1>4 DEF ChangingInv, Bystander
<1>5. QED
  BY <1>2, <1>3, <1>4 DEF FileInv

\* Nothing but reading is counted while nobody is in another bracket.
LEMMA NoBrackets ==
    ASSUME TypeInv, NEW u \in Threads, held[u] = << >> \/ held[u] = Reading
    PROVE  /\ Num(held[u], "common") = 0 /\ Num(held[u], "own") = 0
           /\ held[u] = << >> => Num(held[u], "io") = 0
<1>1. held[u] \in Seq(Kinds)
  BY DEF TypeInv
<1>2. CASE held[u] = << >>
  BY <1>1, <1>2, NumFacts
<1>3. CASE held[u] = Reading
  <2>1. Reading # << >>
    BY ReadingFacts
  <2>2. QED
    BY <1>3, <2>1, ReadingFacts
<1>4. QED
  BY <1>2, <1>3

\* Whoever takes a step while another changes the mode stays a bystander.
LEMMA BystanderStep ==
    ASSUME FileInv, NEW c \in Threads, ChangingInv(c), NEW t \in Threads \ {c},
           EndIO(t) \/ EndUncounted(t) \/ ExclusiveOver(t) \/ ExclusiveMustWait(t)
    PROVE  FileInv'
<1>1. TypeInv /\ DepthInv /\ Bystander(t, c) /\ Deep(t) /\ DOMAIN pc = Threads
  BY DEF FileInv, ChangingInv, DepthInv, TypeInv
<1>2. UNCHANGED <<mode, owner, recurse, exclusive>>
  BY DEF EndIO, EndUncounted, ExclusiveOver, ExclusiveMustWait, shared
<1>3. /\ \E l \in {"run", "start sleeps", "ask end"} : Goto(t, l)
      /\ held' \in [Threads -> Seq(Kinds)] /\ \A u \in Threads \ {t} : held'[u] = held[u]
      /\ Len(held'[t]) <= MaxDepth
      /\ pc'[t] = "start sleeps" => Len(held'[t]) < MaxDepth
      /\ Bystander(t, c)'
  <2>0. pc'[c] = pc[c] /\ held \in [Threads -> Seq(Kinds)] /\ Len(held[t]) \in Nat
        /\ MaxDepth \in Nat /\ Len(held[t]) <= MaxDepth
    BY <1>1, CountBounds DEF EndIO, EndUncounted, ExclusiveOver, ExclusiveMustWait, Goto, TypeInv, Deep
  <2>1. CASE EndIO(t)
    <3>1. pc[t] = "run" /\ Top(t) = "io" /\ UNCHANGED held
      BY <2>1 DEF EndIO, At
    <3>2. held[t] = Reading /\ pc[c] \in Leaving
      BY <1>1, <3>1 DEF Bystander, Top
    <3>3. Goto(t, "ask end")
      BY <2>1, <3>2 DEF EndIO, ChangingInv, Leaving
    <3>4. QED
      BY <1>1, <1>2, <2>0, <3>1, <3>2, <3>3 DEF Goto, Bystander
  <2>2. CASE EndUncounted(t)
    <3>1. pc[t] = "ask end" /\ held[t] = Reading /\ exclusive = 0
      BY <1>1, <2>2 DEF EndUncounted, At, Bystander, ChangingInv
    <3>2. Leave(t) /\ Goto(t, "run")
      BY <2>2, <3>1 DEF EndUncounted
    <3>3. LeftBy(t) /\ held'[t] = << >> /\ Len(held'[t]) = 0
      <4>1. LeftBy(t)
        BY <1>1, <3>1, <3>2, LeavingLast, ReadingFacts DEF Top
      <4>2. Len(held[t]) = 1 /\ t \in Threads
        BY <3>1, ReadingFacts
      <4>3. Len(held'[t]) = 0
        BY <4>1, <4>2 DEF LeftBy
      <4>4. held'[t] \in Seq(Kinds)
        BY <4>1, <4>2 DEF LeftBy
      <4>5. QED
        BY <4>1, <4>3, <4>4
    <3>4. QED
      <4>1. pc'[t] = "run" /\ Bystander(t, c)'
        BY <1>1, <1>2, <2>0, <3>2, <3>3 DEF Goto, Bystander
      <4>2. Len(held'[t]) <= MaxDepth
        BY <2>0, <3>3
      <4>3. QED
        BY <3>2, <3>3, <4>1, <4>2 DEF LeftBy
  <2>3. CASE ExclusiveOver(t)
    <3>1. pc[t] = "start" /\ held[t] = << >> /\ mode # 2 /\ Enter(t, "io") /\ Goto(t, "run")
      BY <1>1, <2>3 DEF ExclusiveOver, At, Bystander, Bracket
    <3>2. EnteredBy(t, "io") /\ held'[t] = Reading
      <4>1. EnteredBy(t, "io")
        BY <1>1, <3>1, Entering DEF Kinds
      <4>2. held'[t] = Append(held[t], "io")
        BY <2>0, <3>1 DEF Enter
      <4>3. QED
        BY <3>1, <4>1, <4>2 DEF Reading
    <3>3. pc[c] \in Leaving
      BY <1>1, <3>1 DEF Bystander, ChangingInv
    <3>4. Len(held[t]) < MaxDepth
      BY <1>1, <3>1 DEF Deep
    <3>5. Len(held'[t]) <= MaxDepth
      BY <2>0, <3>2, <3>4 DEF EnteredBy
    <3>6. QED
      BY <1>1, <1>2, <2>0, <3>1, <3>2, <3>3, <3>5 DEF Goto, Bystander, EnteredBy
  <2>4. CASE ExclusiveMustWait(t)
    <3>1. pc[t] = "start" /\ Goto(t, "start sleeps") /\ UNCHANGED held
      BY <1>1, <2>4 DEF ExclusiveMustWait, At, Bystander
    <3>2. Len(held[t]) < MaxDepth
      BY <1>1, <3>1 DEF Deep
    <3>3. QED
      BY <1>1, <1>2, <2>0, <3>1, <3>2 DEF Goto, Bystander
  <2>5. QED
    BY <2>1, <2>2, <2>3, <2>4
<1>4. DOMAIN pc' = Threads /\ \A u \in Threads \ {t} : pc'[u] = pc[u]
  BY <1>1, <1>3 DEF Goto
<1>5. TypeInv'
  BY <1>1, <1>2, <1>3, <1>4 DEF TypeInv
<1>6. DepthInv'
  <2>1. pc'[t] \in {"run", "start sleeps", "ask end"}
    BY <1>1, <1>3 DEF Goto
  <2>2. \A u \in Threads : Deep(u)'
    BY <1>1, <1>3, <1>4, <2>1 DEF DepthInv, Deep
  <2>3. QED
    BY <2>2 DEF DepthInv
<1>7. ChangingInv(c)'
  <2>1. ASSUME NEW u \in Threads \ {c, t} PROVE Bystander(u, c)'
    <3>1. pc'[c] = pc[c] /\ pc'[u] = pc[u] /\ held'[u] = held[u] /\ Bystander(u, c)
      BY <1>3, <1>4 DEF ChangingInv
    <3>2. QED
      BY <1>2, <3>1 DEF Bystander
  <2>2. QED
    BY <1>2, <1>3, <1>4, <2>1 DEF ChangingInv
<1>8. QED
  BY <1>5, <1>6, <1>7 DEF FileInv

\* A thread begins to change the mode.
LEMMA SetModeStep ==
    ASSUME quiet', Calm, NEW t \in Threads, SetThreadMode(t) PROVE FileInv'
<1>1. TypeInv /\ DepthInv /\ PlaceInv /\ BracketInv
  BY DEF Calm
<1>2. /\ pc[t] = "run" /\ held[t] = << >> /\ \A u \in Threads \ {t} : Idle(u)
      /\ UNCHANGED <<mode, owner, recurse, exclusive, held>>
  BY QuietSteps DEF SetThreadMode, At, shared
<1>3. \A u \in Threads : /\ held[u] = << >>
                         /\ pc[u] = "run" \/ (pc[u] \in {"start", "start sleeps"} /\ mode = 2 /\ owner # u)
  BY <1>2 DEF Idle
<1>4. \A u \in Threads : Num(held[u], "common") = 0 /\ Num(held[u], "own") = 0
                         /\ Num(held[u], "io") = 0
  BY <1>1, <1>3, NoBrackets
<1>5. exclusive = 0
  BY <1>1, <1>4, FileAssumption DEF BracketInv, TypeInv
<1>6. mode # 2 => owner = NONE
  <2>1. ASSUME mode = 1, owner # NONE PROVE FALSE
    <3>1. owner \in Threads /\ recurse > 0
      BY <1>1, <2>1 DEF BracketInv, TypeInv
    <3>2. Num(held[owner], "common") = recurse
      BY <1>1, <2>1, <3>1 DEF BracketInv
    <3>3. QED
      BY <1>4, <3>1, <3>2
  <2>2. mode = 0 \/ mode = 1 \/ mode = 2
    BY <1>1 DEF TypeInv
  <2>3. QED
    BY <1>1, <2>1, <2>2 DEF BracketInv
<1>7. mode = 2 => owner # NONE
  BY <1>1 DEF BracketInv
<1>8. PICK l \in {"reset", "enter", "store"} : Goto(t, l) /\ (l = "reset" <=> mode = 2)
  BY DEF SetThreadMode
<1>9. DOMAIN pc' = Threads /\ pc'[t] = l /\ \A u \in Threads \ {t} : pc'[u] = pc[u]
  BY <1>1, <1>8 DEF Goto, TypeInv
<1>10. TypeInv' /\ DepthInv'
  BY <1>1, <1>2, <1>9 DEF TypeInv, DepthInv, Deep
<1>11. \A u \in Threads \ {t} : Bystander(u, t)'
  BY <1>2, <1>3, <1>8, <1>9 DEF Bystander
<1>12. ChangingInv(t)'
  BY <1>2, <1>5, <1>6, <1>7, <1>8, <1>9, <1>11 DEF ChangingInv, Changing
<1>13. QED
  BY <1>10, <1>12 DEF FileInv

\* A change of mode that has had the file to itself, or has let readers go on, ends.
LEMMA ChangeEnds ==
    ASSUME TypeInv, DepthInv, TypeInv', NEW c \in Threads, ChangingInv(c),
           UNCHANGED <<exclusive, held>>, owner' = NONE \/ mode' = 2,
           mode' = 2 => /\ owner' # NONE /\ \A u \in Threads : held[u] = << >>
                        /\ \A u \in Threads : pc'[u] = "run" \/ pc'[u] = pc[u],
           pc'[c] = "run", \A u \in Threads \ {c} : pc'[u] = pc[u] \/ Woken(u)
    PROVE  FileInv'
<1>1. \A u \in Threads : /\ held[u] = << >> \/ held[u] = Reading
                         /\ pc'[u] \in {"run", "start", "start sleeps", "ask end"}
                         /\ pc'[u] \in {"start", "start sleeps"} => held[u] = << >>
                         /\ pc'[u] = "ask end" => held[u] = Reading
  BY DEF ChangingInv, Bystander, Woken
<1>2. \A u \in Threads : Num(held[u], "common") = 0 /\ Num(held[u], "own") = 0
                         /\ (held[u] = << >> => Num(held[u], "io") = 0)
  BY <1>1, NoBrackets
<1>3. exclusive' = 0
  BY DEF ChangingInv
<1>4. MaxDepth \in Nat /\ 0 < MaxDepth
  BY WrapFacts
<1>5. DepthInv'
  <2>1. \A u \in Threads : Len(held'[u]) <= MaxDepth /\ (held[u] = << >> => Len(held'[u]) < MaxDepth)
    BY <1>4 DEF DepthInv, Deep
  <2>2. QED
    BY <1>1, <2>1 DEF DepthInv, Deep
<1>6. PlaceInv'
  <2>1. \A u \in Threads : pc'[u] = "ask end" => mode' # 2 /\ Top(u)' = "io"
    BY <1>1, ReadingFacts DEF Top
  <2>2. QED
    BY <1>1, <2>1 DEF PlaceInv, Placed, Places
<1>7. BracketInv'
  <2>1. CASE mode' = 2
    BY <1>2, <1>3, <2>1 DEF BracketInv
  <2>2. CASE mode' # 2
    BY <1>2, <1>3, <2>2, FileAssumption DEF BracketInv
  <2>3. QED
    BY <2>1, <2>2
<1>8. QED
  BY <1>5, <1>6, <1>7 DEF FileInv

\* From exclusive mode: the mode is stored.
LEMMA ResetStep ==
    ASSUME FileInv, NEW t \in Threads, ChangingInv(t), ResetMode(t) PROVE FileInv'
<1>1. TypeInv /\ DepthInv /\ DOMAIN pc = Threads
  BY DEF FileInv, TypeInv
<1>2. pc[t] = "reset" /\ UNCHANGED <<owner, recurse, exclusive, held>>
  BY DEF ResetMode, At
<1>3. PICK m \in Switches : mode' = m /\ Goto(t, IF m = 2 THEN "run" ELSE "leave")
  BY DEF ResetMode
<1>4. m \in 0..2 /\ \A u \in Threads \ {t} : pc'[u] = pc[u]
  BY <1>1, <1>3, FileAssumption DEF Goto
<1>5. TypeInv'
  BY <1>1, <1>2, <1>3, <1>4 DEF TypeInv, Goto
<1>6. CASE m = 2
  <2>1. pc'[t] = "run" /\ owner' # NONE /\ \A u \in Threads : held[u] = << >>
    BY <1>1, <1>2, <1>3, <1>6 DEF Goto, ChangingInv, Bystander, Leaving
  <2>2. QED
    BY <1>1, <1>2, <1>3, <1>4, <1>5, <1>6, <2>1, ChangeEnds
<1>7. CASE m # 2
  <2>1. pc'[t] = "leave"
    BY <1>1, <1>3, <1>7 DEF Goto
  <2>2. DepthInv'
    BY <1>1, <1>2, <1>4, <2>1 DEF DepthInv, Deep
  <2>3. \A u \in Threads \ {t} : Bystander(u, t)'
    BY <1>2, <1>4, <2>1 DEF ChangingInv, Bystander, Leaving
  <2>4. ChangingInv(t)'
    BY <1>2, <1>3, <1>7, <2>1, <2>3 DEF ChangingInv, Changing
  <2>5. QED
    BY <1>5, <2>2, <2>4 DEF FileInv
<1>8. QED
  BY <1>6, <1>7

\* From one of the other modes to the other: the mode is stored.
LEMMA StoreStep ==
    ASSUME FileInv, NEW t \in Threads, ChangingInv(t), StoreMode(t) PROVE FileInv'
<1>1. TypeInv /\ DepthInv /\ DOMAIN pc = Threads
  BY DEF FileInv, TypeInv
<1>2. /\ pc[t] = "store" /\ mode' \in 0..2 /\ mode' # 2 /\ Goto(t, "run")
      /\ UNCHANGED <<owner, recurse, exclusive, held>>
  BY FileAssumption DEF StoreMode, At
<1>3. pc'[t] = "run" /\ \A u \in Threads \ {t} : pc'[u] = pc[u]
  BY <1>1, <1>2 DEF Goto
<1>4. TypeInv'
  BY <1>1, <1>2 DEF TypeInv, Goto
<1>5. owner' = NONE
  BY <1>2 DEF ChangingInv
<1>6. QED
  BY <1>1, <1>2, <1>3, <1>4, <1>5, ChangeEnds

\* On the way into exclusive mode: the thread becomes the owner.
LEMMA SetOwnerStep ==
    ASSUME FileInv, NEW t \in Threads, ChangingInv(t), SetOwnerThread(t) PROVE FileInv'
<1>1. TypeInv /\ DepthInv
  BY DEF FileInv
<1>2. /\ pc[t] = "enter" /\ owner' = t /\ recurse' = 0 /\ Broadcast(t, "enter mode")
      /\ UNCHANGED <<mode, exclusive, held>>
  BY DEF SetOwnerThread, At
<1>3. \A u \in Threads \ {t} : pc[u] = "run" /\ held[u] = << >>
  BY <1>2 DEF ChangingInv, Bystander, Leaving
<1>4. DOMAIN pc' = Threads /\ pc'[t] = "enter mode" /\ \A u \in Threads \ {t} : pc'[u] = "run"
  BY <1>2, <1>3 DEF Broadcast, Awake
<1>5. 0 \in 0..Wrap-1
  BY WrapFacts
<1>6. TypeInv' /\ DepthInv'
  BY <1>1, <1>2, <1>3, <1>4, <1>5 DEF TypeInv, DepthInv, Deep
<1>7. \A u \in Threads \ {t} : Bystander(u, t)'
  BY <1>2, <1>3, <1>4 DEF Bystander
<1>8. ChangingInv(t)'
  BY <1>2, <1>4, <1>7 DEF ChangingInv, Changing
<1>9. QED
  BY <1>6, <1>8 DEF FileInv

\* On the way into exclusive mode: the mode is set.
LEMMA EnterStep ==
    ASSUME FileInv, NEW t \in Threads, ChangingInv(t), EnterExclusive(t) PROVE FileInv'
<1>1. TypeInv /\ DepthInv /\ DOMAIN pc = Threads
  BY DEF FileInv, TypeInv
<1>2. /\ pc[t] = "enter mode" /\ mode' = 2 /\ Goto(t, "run")
      /\ UNCHANGED <<owner, recurse, exclusive, held>>
  BY DEF EnterExclusive, At
<1>3. /\ pc'[t] = "run" /\ \A u \in Threads \ {t} : pc'[u] = pc[u]
      /\ owner' # NONE /\ \A u \in Threads : held[u] = << >>
  BY <1>1, <1>2, FileAssumption DEF Goto, ChangingInv, Bystander, Leaving
<1>4. TypeInv'
  <2>1. 2 \in 0..2
    OBVIOUS
  <2>2. QED
    BY <1>1, <1>2, <2>1 DEF TypeInv, Goto
<1>5. QED
  BY <1>1, <1>2, <1>3, <1>4, ChangeEnds

\* On the way out of exclusive mode: nobody reads or writes, so the owner is to be cleared.
LEMMA LeaveStep ==
    ASSUME FileInv, NEW t \in Threads, ChangingInv(t), LeaveExclusive(t) PROVE FileInv'
<1>1. TypeInv /\ DepthInv
  BY DEF FileInv
<1>2. pc[t] = "leave" /\ Goto(t, "clear") /\ UNCHANGED <<mode, owner, recurse, exclusive, held>>
  BY DEF LeaveExclusive, At, ChangingInv, shared
<1>3. DOMAIN pc' = Threads /\ pc'[t] = "clear" /\ \A u \in Threads \ {t} : pc'[u] = pc[u]
  BY <1>1, <1>2 DEF TypeInv, Goto
<1>4. TypeInv' /\ DepthInv'
  BY <1>1, <1>2, <1>3 DEF TypeInv, DepthInv, Deep
<1>5. \A u \in Threads \ {t} : Bystander(u, t)'
  BY <1>2, <1>3 DEF ChangingInv, Bystander, Leaving
<1>6. ChangingInv(t)'
  BY <1>2, <1>3, <1>5 DEF ChangingInv, Changing
<1>7. QED
  BY <1>4, <1>6 DEF FileInv

\* On the way out of exclusive mode: the owner is cleared.
LEMMA ClearStep ==
    ASSUME FileInv, NEW t \in Threads, ChangingInv(t), ClearOwner(t) PROVE FileInv'
<1>1. TypeInv /\ DepthInv
  BY DEF FileInv
<1>2. /\ pc[t] = "clear" /\ owner' = NONE /\ Goto(t, "leave wakes")
      /\ UNCHANGED <<mode, recurse, exclusive, held>>
  BY DEF ClearOwner, At
<1>3. DOMAIN pc' = Threads /\ pc'[t] = "leave wakes" /\ \A u \in Threads \ {t} : pc'[u] = pc[u]
  BY <1>1, <1>2 DEF TypeInv, Goto
<1>4. TypeInv' /\ DepthInv'
  BY <1>1, <1>2, <1>3 DEF TypeInv, DepthInv, Deep
<1>5. \A u \in Threads \ {t} : Bystander(u, t)'
  BY <1>2, <1>3, FileAssumption DEF ChangingInv, Bystander, Leaving
<1>6. ChangingInv(t)'
  BY <1>2, <1>3, <1>5 DEF ChangingInv, Changing
<1>7. QED
  BY <1>4, <1>6 DEF FileInv

\* On the way out of exclusive mode: the waiting threads are woken.
LEMMA LeaveWakesStep ==
    ASSUME FileInv, NEW t \in Threads, ChangingInv(t), LeaveWakes(t) PROVE FileInv'
<1>1. TypeInv /\ DepthInv
  BY DEF FileInv
<1>2. /\ pc[t] = "leave wakes" /\ Broadcast(t, "run")
      /\ UNCHANGED <<mode, owner, recurse, exclusive, held>>
  BY DEF LeaveWakes, At, shared
<1>3. /\ DOMAIN pc' = Threads /\ pc'[t] = "run"
      /\ \A u \in Threads \ {t} : pc'[u] = pc[u] \/ Woken(u)
  BY <1>2 DEF Broadcast, Awake, ChangingInv, Bystander, Woken
<1>4. owner' = NONE /\ mode' # 2
  BY <1>2 DEF ChangingInv
<1>5. TypeInv'
  BY <1>1, <1>2, <1>3 DEF TypeInv
<1>6. QED
  BY <1>1, <1>2, <1>3, <1>4, <1>5, ChangeEnds

-----------------------------------------------------------------------------
(* Types                                                                   *)

PCs == Changing \cup
       {"run", "acquire", "acquire sleeps", "find", "release", "forget",
        "ask start", "start", "start sleeps", "ask end", "end", "end sleeps"}

Types ==
    /\ TypeInv
    /\ mutex \in Threads \cup {NONE} /\ states \subseteq Threads /\ missed \subseteq Threads
    /\ pc \in [Threads -> PCs] /\ ops \in 0..MaxOps
    /\ quiet \in BOOLEAN /\ aborted \in BOOLEAN

\* There are three modes.
LEMMA ModeCases == TypeInv => mode = 0 \/ mode = 1 \/ mode = 2
  BY DEF TypeInv

\* Every step takes its thread to a place, waking the others or not.
LEMMA StepPlaces ==
    ASSUME TypeInv, NEW t \in Threads, ThreadStep(t) \/ SetThreadMode(t)
    PROVE  \E l \in PCs : Goto(t, l) \/ Broadcast(t, l) \/ UNCHANGED pc
<1>1. CASE GetState(t) \/ ReleaseState(t)
  <2>1. mode \in 0..2
    BY DEF TypeInv
  <2>2. CASE mode = 0
    BY <1>1, <2>2 DEF GetState, ReleaseState, PCs
  <2>3. CASE mode = 1
    BY <1>1, <2>3 DEF GetState, ReleaseState, PCs
  <2>4. CASE mode = 2
    BY <1>1, <2>4 DEF GetState, ReleaseState, PCs
  <2>5. QED
    BY <2>1, <2>2, <2>3, <2>4
<1>2. CASE SetThreadMode(t)
  BY <1>2 DEF SetThreadMode, PCs, Changing
<1>3. CASE StartIO(t) \/ EndIO(t) \/ StartUncounted(t) \/ EndUncounted(t)
  BY <1>3 DEF StartIO, EndIO, StartUncounted, EndUncounted, PCs
<1>4. CASE \/ FindState(t) \/ AcquireFree(t) \/ AcquireAgain(t) \/ AcquireMustWait(t) \/ Sleep(t)
           \/ ReleaseThreadCount(t) \/ ForgetState(t)
           \/ ExclusiveMine(t) \/ ExclusiveOver(t) \/ ExclusiveMustWait(t)
  BY <1>4 DEF FindState, AcquireFree, AcquireAgain,
     AcquireMustWait, Sleep, ReleaseThreadCount, ForgetState,
     ExclusiveMine, ExclusiveOver, ExclusiveMustWait, PCs
<1>5. CASE \/ ResetMode(t) \/ StoreMode(t) \/ SetOwnerThread(t) \/ EnterExclusive(t)
           \/ LeaveExclusive(t) \/ ClearOwner(t) \/ LeaveWakes(t)
  BY <1>5 DEF ResetMode, StoreMode, SetOwnerThread, EnterExclusive,
     LeaveExclusive, ClearOwner, LeaveWakes, PCs, Changing
<1>6. QED
  BY <1>1, <1>2, <1>3, <1>4, <1>5 DEF ThreadStep

\* A thread goes to a place of the program.
LEMMA PlacesStay ==
    ASSUME pc \in [Threads -> PCs], NEW t \in Threads, NEW l \in PCs,
           Goto(t, l) \/ Broadcast(t, l) \/ UNCHANGED pc
    PROVE  pc' \in [Threads -> PCs]
<1>1. CASE Goto(t, l)
  BY <1>1 DEF Goto
<1>2. CASE Broadcast(t, l)
  <2>1. \A u \in Threads : Awake(u) \in PCs
    BY DEF Awake, PCs
  <2>2. QED
    BY <1>2, <2>1 DEF Broadcast
<1>3. CASE UNCHANGED pc
  BY <1>3
<1>4. QED
  BY <1>1, <1>2, <1>3

\* Brackets are entered and left one at a time.
LEMMA HeldTypes ==
    ASSUME held \in [Threads -> Seq(Kinds)], NEW t \in Threads,
           UNCHANGED held \/ (\E b \in Kinds : Enter(t, b)) \/ Leave(t)
    PROVE  held' \in [Threads -> Seq(Kinds)]
<1>1. held[t] \in Seq(Kinds) /\ Len(held[t]) \in Nat
  OBVIOUS
<1>2. CASE UNCHANGED held
  BY <1>2
<1>3. CASE \E b \in Kinds : Enter(t, b)
  <2>1. PICK b \in Kinds : Enter(t, b)
    BY <1>3
  <2>2. Append(held[t], b) \in Seq(Kinds)
    BY <1>1
  <2>3. QED
    BY <2>1, <2>2 DEF Enter
<1>4. CASE Leave(t)
  <2>1. PICK n \in Int : n = Len(held[t]) - 1
    BY <1>1
  <2>2. \A k \in 1..n : held[t][k] \in Kinds
    BY <1>1, <2>1
  <2>3. SubSeq(held[t], 1, n) \in Seq(Kinds)
    BY <2>2, SubSeqProperties
  <2>4. QED
    BY <1>4, <2>1, <2>3 DEF Leave
<1>5. QED
  BY <1>2, <1>3, <1>4

\* How a step changes the brackets of its thread.
LEMMA StepHeld ==
    ASSUME TypeInv, NEW t \in Threads, ThreadStep(t) \/ SetThreadMode(t)
    PROVE  \/ UNCHANGED held
           \/ \E b \in Kinds : Enter(t, b) /\ (b = "own" => t \in states')
           \/ Leave(t) /\ \/ pc[t] \in {"release", "forget", "ask end", "end"}
                          \/ pc[t] = "run" /\ Top(t) # "none"
<1>0. mode = 0 \/ mode = 1 \/ mode = 2
  BY ModeCases
<1>1. CASE GetState(t)
  <2>1. CASE mode = 0
    BY <1>1, <2>1 DEF GetState, Kinds
  <2>2. CASE mode # 0
    BY <1>0, <1>1, <2>2 DEF GetState
  <2>3. QED
    BY <2>1, <2>2
<1>7. CASE ReleaseState(t)
  <2>1. CASE mode = 0
    BY <1>7, <2>1 DEF ReleaseState, At
  <2>2. CASE mode # 0
    BY <1>0, <1>7, <2>2 DEF ReleaseState
  <2>3. QED
    BY <2>1, <2>2
<1>2. CASE FindState(t) \/ AcquireFree(t) \/ AcquireAgain(t) \/ StartUncounted(t)
  BY <1>2 DEF FindState, AcquireFree, AcquireAgain, StartUncounted, Kinds
<1>3. CASE ReleaseThreadCount(t) \/ ForgetState(t) \/ EndUncounted(t)
  BY <1>3 DEF ReleaseThreadCount, ForgetState, EndUncounted, At
<1>4. CASE ExclusiveMine(t) \/ ExclusiveOver(t)
  BY <1>4 DEF ExclusiveMine, ExclusiveOver, Bracket, At, Kinds
<1>5. CASE \/ AcquireMustWait(t) \/ Sleep(t) \/ ExclusiveMustWait(t) \/ StartIO(t) \/ EndIO(t)
           \/ ResetMode(t) \/ StoreMode(t) \/ SetOwnerThread(t) \/ EnterExclusive(t)
           \/ LeaveExclusive(t) \/ ClearOwner(t) \/ LeaveWakes(t) \/ SetThreadMode(t)
  BY <1>5 DEF AcquireMustWait, Sleep, ExclusiveMustWait, StartIO, EndIO, ResetMode, StoreMode,
     SetOwnerThread, EnterExclusive, LeaveExclusive, ClearOwner, LeaveWakes, SetThreadMode
<1>6. QED
  BY <1>1, <1>2, <1>3, <1>4, <1>5, <1>7 DEF ThreadStep

\* Counters stay within their width.
LEMMA CounterTypes ==
    ASSUME NEW n \in 0..Wrap-1
    PROVE  Plus(n) \in 0..Wrap-1 /\ Minus(n) \in 0..Wrap-1
<1>1. Wrap \in Nat \ {0} /\ n \in Int /\ n + 1 \in Int /\ n - 1 \in Int
  BY FileAssumption
<1>2. \A k \in Int, w \in Nat \ {0} : k % w \in 0..w-1
  OBVIOUS
<1>3. QED
  BY <1>1, <1>2 DEF Plus, Minus

\* Every step keeps the types, whether the file is quiet or not.
LEMMA TypesNext ==
    ASSUME Types, [Next]_vars PROVE Types'
<1>1. CASE UNCHANGED vars
  BY <1>1 DEF vars, shared, history, Types, TypeInv
<1>2. ASSUME NEW t \in Threads, ThreadStep(t) \/ SetThreadMode(t)
      PROVE  Types'
  <2>0. TypeInv /\ 0 \in 0..Wrap-1 /\ 1 \in 0..Wrap-1
    BY WrapFacts, Bounds DEF Types
  <2>1. mode' \in 0..2
    <3>1. CASE ResetMode(t) \/ StoreMode(t)
      BY <3>1, FileAssumption DEF ResetMode, StoreMode
    <3>2. mode \in 0..2 /\ 2 \in 0..2
      BY <2>0 DEF TypeInv
    <3>3. CASE ~ResetMode(t) /\ ~StoreMode(t)
      BY <1>2, <3>2, <3>3 DEF ThreadStep, GetState, FindState, AcquireFree, AcquireAgain,
         AcquireMustWait, Sleep, ReleaseState, ReleaseThreadCount, ForgetState, StartIO,
         StartUncounted, EndIO, EndUncounted, ExclusiveMine, ExclusiveOver, ExclusiveMustWait,
         SetOwnerThread, EnterExclusive, LeaveExclusive, ClearOwner, LeaveWakes, SetThreadMode,
         shared
    <3>4. QED
      BY <3>1, <3>3
  <2>2. /\ owner' \in Threads \cup {NONE} /\ mutex' \in Threads \cup {NONE}
        /\ states' \subseteq Threads /\ missed' \subseteq Threads
    BY <1>2, <2>0 DEF Types, TypeInv, ThreadStep, GetState, FindState, AcquireFree, AcquireAgain,
       AcquireMustWait, Sleep, ReleaseState, ReleaseThreadCount, ForgetState, StartIO,
       StartUncounted, EndIO, EndUncounted, ExclusiveMine, ExclusiveOver, ExclusiveMustWait,
       ResetMode, StoreMode, SetOwnerThread, EnterExclusive, LeaveExclusive, ClearOwner,
       LeaveWakes, SetThreadMode, shared, history
  <2>3. recurse' \in 0..Wrap-1 /\ exclusive' \in 0..Wrap-1
    <3>1. /\ recurse \in 0..Wrap-1 /\ exclusive \in 0..Wrap-1
          /\ Plus(recurse) \in 0..Wrap-1 /\ Minus(recurse) \in 0..Wrap-1
          /\ Plus(exclusive) \in 0..Wrap-1 /\ Minus(exclusive) \in 0..Wrap-1
      BY <2>0, CounterTypes DEF TypeInv
    <3>2. CASE ExclusiveMine(t) \/ ForgetState(t)
      BY <3>1, <3>2 DEF ExclusiveMine, ForgetState
    <3>3. CASE ~ExclusiveMine(t) /\ ~ForgetState(t)
      BY <1>2, <2>0, <3>1, <3>3 DEF ThreadStep, GetState, FindState, AcquireFree, AcquireAgain,
         AcquireMustWait, Sleep, ReleaseState, ReleaseThreadCount, StartIO,
         StartUncounted, EndIO, EndUncounted, ExclusiveOver, ExclusiveMustWait,
         ResetMode, StoreMode, SetOwnerThread, EnterExclusive, LeaveExclusive, ClearOwner,
         LeaveWakes, SetThreadMode, shared
    <3>4. QED
      BY <3>2, <3>3
  <2>4. pc' \in [Threads -> PCs]
    <3>1. \E l \in PCs : Goto(t, l) \/ Broadcast(t, l) \/ UNCHANGED pc
      BY <1>2, <2>0, StepPlaces
    <3>2. QED
      BY <3>1, PlacesStay DEF Types
  <2>5. held' \in [Threads -> Seq(Kinds)]
    <3>1. UNCHANGED held \/ (\E b \in Kinds : Enter(t, b)) \/ Leave(t)
      BY <1>2, <2>0, StepHeld
    <3>2. QED
      BY <2>0, <3>1, HeldTypes DEF TypeInv
  <2>6. ops' \in 0..MaxOps
    <3>1. Begin(t) \/ UNCHANGED ops
      BY <1>2 DEF ThreadStep, GetState, FindState, AcquireFree, AcquireAgain,
         AcquireMustWait, Sleep, ReleaseState, ReleaseThreadCount, ForgetState, StartIO,
         StartUncounted, EndIO, EndUncounted, ExclusiveMine, ExclusiveOver, ExclusiveMustWait,
         ResetMode, StoreMode, SetOwnerThread, EnterExclusive, LeaveExclusive, ClearOwner,
         LeaveWakes, SetThreadMode, BeginQuietly
    <3>2. ops \in 0..MaxOps /\ MaxOps \in Nat
      BY FileAssumption DEF Types
    <3>3. QED
      BY <3>1, <3>2 DEF Begin
  <2>7. quiet' \in BOOLEAN /\ aborted' \in BOOLEAN
    <3>1. UNCHANGED quiet \/ GetState(t) \/ StartIO(t) \/ SetThreadMode(t)
      BY <1>2, Zenon DEF ThreadStep, FindState, AcquireFree, AcquireAgain,
         AcquireMustWait, Sleep, ReleaseState, ReleaseThreadCount, ForgetState,
         StartUncounted, EndIO, EndUncounted, ExclusiveMine, ExclusiveOver, ExclusiveMustWait,
         ResetMode, StoreMode, SetOwnerThread, EnterExclusive, LeaveExclusive, ClearOwner,
         LeaveWakes, history
    <3>2. quiet' \in BOOLEAN
      BY <3>1 DEF Types, GetState, StartIO, SetThreadMode, BeginQuietly
    <3>3. aborted' = aborted \/ aborted' = TRUE
      BY <1>2, Zenon DEF ThreadStep, GetState, FindState, AcquireFree, AcquireAgain,
         AcquireMustWait, Sleep, ReleaseState, ReleaseThreadCount, ForgetState, StartIO,
         StartUncounted, EndIO, EndUncounted, ExclusiveMine, ExclusiveOver, ExclusiveMustWait,
         ResetMode, StoreMode, SetOwnerThread, EnterExclusive, LeaveExclusive, ClearOwner,
         LeaveWakes, SetThreadMode, shared
    <3>4. aborted' \in BOOLEAN
      BY <3>3 DEF Types
    <3>5. QED
      BY <3>2, <3>4
  <2>8. TypeInv'
    BY <2>1, <2>2, <2>3, <2>4, <2>5 DEF TypeInv
  <2>9. QED
    BY <2>2, <2>4, <2>6, <2>7, <2>8 DEF Types
<1>3. QED
  BY <1>1, <1>2 DEF Next

\* The invariant of the brackets holds at first,
LEMMA FileInvInit == Init => FileInv /\ Types
<1> SUFFICES ASSUME Init PROVE FileInv /\ Types
  OBVIOUS
<1>1. /\ mode \in 0..1 /\ owner = NONE /\ recurse = 0 /\ exclusive = 0
      /\ DOMAIN pc = Threads /\ \A t \in Threads : pc[t] = "run" /\ held[t] = << >>
  BY DEF Init
<1>2. held \in [Threads -> Seq(Kinds)] /\ \A t \in Threads : Len(held[t]) = 0
  BY DEF Init
<1>3. 0 \in 0..Wrap-1 /\ MaxDepth \in Nat \ {0}
  BY WrapFacts
<1>4. TypeInv
  BY <1>1, <1>2, <1>3 DEF TypeInv
<1>5. DepthInv
  <2>1. \A t \in Threads : Len(held[t]) <= MaxDepth /\ pc[t] = "run"
    BY <1>1, <1>2, <1>3
  <2>2. QED
    BY <2>1 DEF DepthInv, Deep
<1>6. PlaceInv
  BY <1>1 DEF PlaceInv, Placed, Places
<1>7. BracketInv
  <2>1. \A u \in Threads : Num(held[u], "common") = 0 /\ Num(held[u], "own") = 0
    BY <1>1, <1>4, NoBrackets
  <2>2. mode # 2
    BY <1>1
  <2>3. QED
    BY <1>1, <2>1, <2>2, FileAssumption DEF BracketInv
<1>8. Types
  <2>1. 0 \in 0..MaxOps
    BY FileAssumption
  <2>2. pc \in [Threads -> PCs]
    BY DEF Init, PCs
  <2>3. mutex \in Threads \cup {NONE} /\ states \subseteq Threads /\ missed \subseteq Threads
        /\ ops \in 0..MaxOps
    BY <2>1 DEF Init
  <2>4. quiet \in BOOLEAN /\ aborted \in BOOLEAN
    BY DEF Init
  <2>5. QED
    BY <1>4, <2>2, <2>3, <2>4 DEF Types
<1>9. QED
  BY <1>4, <1>5, <1>6, <1>7, <1>8 DEF FileInv

\* A file that is quiet after a step was quiet before it.
LEMMA QuietBefore ==
    ASSUME [Next]_vars, quiet' PROVE quiet
<1>1. CASE UNCHANGED vars
  BY <1>1, Zenon DEF vars, history
<1>2. ASSUME NEW t \in Threads, ThreadStep(t) \/ SetThreadMode(t) PROVE quiet
  <2>1. CASE GetState(t) \/ StartIO(t) \/ SetThreadMode(t)
    BY <2>1, Zenon DEF GetState, StartIO, SetThreadMode, BeginQuietly
  <2>2. CASE ~(GetState(t) \/ StartIO(t) \/ SetThreadMode(t))
    <3>1. UNCHANGED quiet
      BY <1>2, <2>2, Zenon DEF ThreadStep, FindState, AcquireFree, AcquireAgain,
         AcquireMustWait, Sleep, ReleaseState, ReleaseThreadCount, ForgetState,
         StartUncounted, EndIO, EndUncounted, ExclusiveMine, ExclusiveOver, ExclusiveMustWait,
         ResetMode, StoreMode, SetOwnerThread, EnterExclusive, LeaveExclusive, ClearOwner,
         LeaveWakes, history
    <3>2. QED
      BY <3>1, Zenon
  <2>3. QED
    BY <2>1, <2>2
<1>3. QED
  BY <1>1, <1>2 DEF Next

\* every step that leaves the file quiet keeps it,
LEMMA FileInvNext ==
    ASSUME FileInv, quiet', [Next]_vars PROVE FileInv'
<1>1. CASE UNCHANGED vars
  <2>1. UNCHANGED <<mode, owner, recurse, exclusive, pc, held>>
    BY <1>1 DEF vars, shared
  <2>2. /\ TypeInv => TypeInv'
        /\ DepthInv => DepthInv'
        /\ BracketInv => BracketInv'
    BY <2>1 DEF TypeInv, DepthInv, Deep, BracketInv
  <2>3. PlaceInv => PlaceInv'
    BY <2>1 DEF PlaceInv, Placed, Top
  <2>4. \A c \in Threads : ChangingInv(c) => ChangingInv(c)'
    BY <2>1 DEF ChangingInv, Bystander
  <2>5. QED
    BY <2>2, <2>3, <2>4 DEF FileInv
<1>2. ASSUME NEW t \in Threads, ThreadStep(t) \/ SetThreadMode(t)
      PROVE  FileInv'
  <2>1. CASE Sleep(t)
    BY <2>1, SleepStep
  <2>2. CASE ~Sleep(t) /\ \E c \in Threads : ChangingInv(c)
    <3>1. PICK c \in Threads : ChangingInv(c)
      BY <2>2
    <3>2. CASE t = c
      <4>1. \/ ResetMode(t) \/ StoreMode(t) \/ SetOwnerThread(t) \/ EnterExclusive(t)
            \/ LeaveExclusive(t) \/ ClearOwner(t) \/ LeaveWakes(t)
        BY <1>2, <2>2, <3>1, <3>2, ChangerMoves
      <4>2. QED
        BY <3>1, <3>2, <4>1, ResetStep, StoreStep, SetOwnerStep, EnterStep, LeaveStep, ClearStep,
           LeaveWakesStep
    <3>3. CASE t # c
      <4>1. EndIO(t) \/ EndUncounted(t) \/ ExclusiveOver(t) \/ ExclusiveMustWait(t)
        BY <1>2, <2>2, <3>1, <3>3, ChangerMoves
      <4>2. QED
        BY <3>1, <3>3, <4>1, BystanderStep
    <3>4. QED
      BY <3>2, <3>3
  <2>3. CASE ~Sleep(t) /\ Calm
    <3>1. pc[t] \notin Changing
      BY <2>3 DEF Calm, PlaceInv, Placed, Places, Changing
    <3>2. /\ ~ResetMode(t) /\ ~StoreMode(t) /\ ~SetOwnerThread(t) /\ ~EnterExclusive(t)
          /\ ~LeaveExclusive(t) /\ ~ClearOwner(t) /\ ~LeaveWakes(t)
      BY <3>1 DEF ResetMode, StoreMode, SetOwnerThread, EnterExclusive, LeaveExclusive, ClearOwner,
         LeaveWakes, At, Changing
    <3>3. SetThreadMode(t) => FileInv'
      BY <2>3, SetModeStep
    <3>4. Calm' => FileInv'
      BY DEF Calm, FileInv
    <3>5. CASE GetState(t) \/ FindState(t) \/ AcquireFree(t) \/ AcquireAgain(t) \/ AcquireMustWait(t)
      BY <2>3, <3>4, <3>5, GetStep, FindStep, AcquireFreeStep, AcquireAgainStep, AcquireMustWaitStep
    <3>6. CASE ReleaseState(t) \/ ReleaseThreadCount(t) \/ ForgetState(t)
      BY <2>3, <3>4, <3>6, ReleaseStep, ReleaseCountStep, ForgetStep
    <3>7. CASE \/ StartIO(t) \/ StartUncounted(t) \/ EndIO(t) \/ EndUncounted(t)
               \/ ExclusiveMine(t) \/ ExclusiveOver(t) \/ ExclusiveMustWait(t)
      BY <2>3, <3>4, <3>7, StartStep, StartUncountedStep, EndStep, EndUncountedStep,
         ExclusiveMineStep, ExclusiveOverStep, ExclusiveMustWaitStep
    <3>8. QED
      BY <1>2, <2>3, <3>2, <3>3, <3>5, <3>6, <3>7 DEF ThreadStep
  <2>4. QED
    BY <2>1, <2>2, <2>3 DEF FileInv, Calm
<1>3. QED
  BY <1>1, <1>2 DEF Next

QuietInv == quiet => FileInv

\* and so it holds as long as the file is quiet.
LEMMA FileInvHolds == Spec => [](Types /\ QuietInv)
<1>1. Types /\ [Next]_vars => Types'
  BY TypesNext
<1>2. QuietInv /\ [Next]_vars => QuietInv'
  BY FileInvNext, QuietBefore DEF QuietInv
<1>3. Init => Types /\ QuietInv
  BY FileInvInit DEF QuietInv
<1>4. QED
  BY <1>1, <1>2, <1>3, PTL DEF Spec

-----------------------------------------------------------------------------
(* Theorems                                                                *)

\* In synchronized mode one thread at a time has the output state, for any number of
\* threads and sequence of modes, as long as no bracket was open or begun during a
\* change, that of a thread waiting to read excepted.
THEOREM OneWriterAtATime == Spec => []OneWriter
<1>1. QuietInv => OneWriter
  <2>1. SUFFICES ASSUME FileInv, mode = 1, NEW t \in Threads, NEW u \in Threads,
                        Num(held[t], "common") > 0, Num(held[u], "common") > 0
                 PROVE  t = u
    BY DEF QuietInv, OneWriter, Brackets, Num
  <2>2. CASE BracketInv
    BY <2>1, <2>2 DEF BracketInv
  <2>3. CASE \E c \in Threads : ChangingInv(c)
    <3>1. held[t] = << >> \/ held[t] = Reading
      BY <2>3 DEF ChangingInv, Bystander
    <3>2. Num(held[t], "common") = 0
      BY <2>1, <3>1, NoBrackets DEF FileInv
    <3>3. QED
      BY <2>1, <3>2
  <2>4. QED
    BY <2>1, <2>2, <2>3 DEF FileInv
<1>2. QED
  BY <1>1, FileInvHolds, PTL

\* recurseCount and exclusiveRecurseCount are the numbers of brackets of their owner,
\* as long as the file is quiet.
THEOREM CountsAreExact == Spec => []CountsAreTheOwners
<1>1. QuietInv => CountsAreTheOwners
  <2>1. SUFFICES ASSUME FileInv
                 PROVE  /\ mode = 1 /\ ~Switching => \A t \in Threads :
                             Num(held[t], "common") = IF t = owner THEN recurse ELSE 0
                        /\ mode = 2 => \A t \in Threads :
                             Num(held[t], "io") = IF t = owner THEN exclusive ELSE 0
    BY DEF QuietInv, CountsAreTheOwners, Brackets, Num
  <2>2. CASE BracketInv
    BY <2>2 DEF BracketInv
  <2>3. ASSUME NEW c \in Threads, ChangingInv(c)
        PROVE  Switching /\ (mode = 2 => \A t \in Threads : Num(held[t], "io") = 0 /\ exclusive = 0)
    <3>1. Switching
      BY <2>3 DEF ChangingInv, Switching
    <3>2. mode = 2 => \A t \in Threads : held[t] = << >>
      BY <2>3 DEF ChangingInv, Bystander, Leaving
    <3>3. QED
      BY <2>1, <2>3, <3>1, <3>2, NoBrackets DEF FileInv, ChangingInv
  <2>4. QED
    BY <2>1, <2>2, <2>3 DEF FileInv
<1>2. QED
  BY <1>1, FileInvHolds, PTL

-----------------------------------------------------------------------------
(* abort is never called                                                   *)

\* Whoever is in a bracket with an output state of its own is in threadStates.
RecordInv ==
    /\ aborted = FALSE
    /\ \A t \in Threads : Num(held[t], "own") > 0 => t \in states

\* A thread that leaves a bracket is in one.
LEMMA LeaverIsIn ==
    ASSUME FileInv, NEW t \in Threads
    PROVE  /\ pc[t] \in {"release", "ask end", "end"} => Top(t) # "none"
           /\ pc[t] = "forget" => Top(t) = "own" /\ Num(held[t], "own") > 0
           /\ pc[t] # "end sleeps"
<1>1. CASE \E c \in Threads : ChangingInv(c)
  <2>1. /\ pc[t] \in {"run", "start", "start sleeps", "ask end"} \cup Changing
        /\ pc[t] = "ask end" => held[t] = Reading
    BY <1>1 DEF ChangingInv, Bystander, Changing
  <2>2. pc[t] = "ask end" => Top(t) = "io"
    BY <2>1, ReadingFacts DEF Top
  <2>3. QED
    BY <2>1, <2>2 DEF Changing
<1>2. CASE Calm
  <2>1. Placed(t)
    BY <1>2 DEF Calm, PlaceInv
  <2>2. QED
    BY <1>2, <2>1, TopFacts DEF Placed, Places
<1>3. QED
  BY <1>1, <1>2 DEF FileInv, Calm

\* Whoever has a bracket on its own output state stays in the map.
LEMMA RecordsStay ==
    ASSUME FileInv, RecordInv, NEW t \in Threads,
           \/ UNCHANGED held
           \/ \E b \in Kinds : Enter(t, b) /\ (b = "own" => t \in states')
           \/ Leave(t) /\ Top(t) # "none",
           states \subseteq states'
    PROVE  \A u \in Threads : Num(held'[u], "own") > 0 => u \in states'
<1>1. TypeInv /\ \A u \in Threads : Num(held[u], "own") > 0 => u \in states
  BY DEF FileInv, RecordInv
<1>2. \A u \in Threads : Num(held[u], "own") \in Nat
  BY <1>1, NumFacts DEF TypeInv
<1>3. CASE UNCHANGED held
  BY <1>1, <1>3
<1>4. CASE \E b \in Kinds : Enter(t, b) /\ (b = "own" => t \in states')
  <2>1. PICK b \in Kinds : Enter(t, b) /\ (b = "own" => t \in states')
    BY <1>4
  <2>2. EnteredBy(t, b)
    BY <1>1, <2>1, Entering
  <2>3. Num(held'[t], "own") > 0 => t \in states'
    BY <1>1, <1>2, <2>1, <2>2 DEF EnteredBy
  <2>4. QED
    BY <1>1, <2>2, <2>3 DEF EnteredBy
<1>5. CASE Leave(t) /\ Top(t) # "none"
  <2>1. LeftBy(t)
    BY <1>1, <1>5, LeavingLast
  <2>2. Num(held'[t], "own") > 0 => t \in states'
    BY <1>1, <1>2, <2>1 DEF LeftBy
  <2>3. QED
    BY <1>1, <2>1, <2>2 DEF LeftBy
<1>6. QED
  BY <1>3, <1>4, <1>5

\* Every step keeps the map of output states,
LEMMA RecordInvNext ==
    ASSUME FileInv, RecordInv, [Next]_vars PROVE RecordInv'
<1>1. CASE UNCHANGED vars
  BY <1>1 DEF vars, shared, RecordInv
<1>2. ASSUME NEW t \in Threads, ThreadStep(t) \/ SetThreadMode(t)
      PROVE  RecordInv'
  <2>1. states \subseteq states'
    BY <1>2 DEF ThreadStep, GetState, FindState, AcquireFree, AcquireAgain,
       AcquireMustWait, Sleep, ReleaseState, ReleaseThreadCount, ForgetState, StartIO,
       StartUncounted, EndIO, EndUncounted, ExclusiveMine, ExclusiveOver, ExclusiveMustWait,
       ResetMode, StoreMode, SetOwnerThread, EnterExclusive, LeaveExclusive, ClearOwner,
       LeaveWakes, SetThreadMode, shared
  <2>2. aborted' = FALSE
    <3>1. ForgetState(t) => t \in states
      BY LeaverIsIn DEF ForgetState, At, RecordInv
    <3>2. QED
      BY <1>2, <3>1 DEF RecordInv, ThreadStep, GetState, FindState, AcquireFree, AcquireAgain,
         AcquireMustWait, Sleep, ReleaseState, ReleaseThreadCount, ForgetState, StartIO,
         StartUncounted, EndIO, EndUncounted, ExclusiveMine, ExclusiveOver, ExclusiveMustWait,
         ResetMode, StoreMode, SetOwnerThread, EnterExclusive, LeaveExclusive, ClearOwner,
         LeaveWakes, SetThreadMode, shared
  <2>3. \/ UNCHANGED held
        \/ \E b \in Kinds : Enter(t, b) /\ (b = "own" => t \in states')
        \/ Leave(t) /\ Top(t) # "none"
    BY <1>2, StepHeld, LeaverIsIn DEF FileInv
  <2>4. \A u \in Threads : Num(held'[u], "own") > 0 => u \in states'
    BY <2>1, <2>3, RecordsStay
  <2>5. QED
    BY <2>2, <2>4 DEF RecordInv
<1>3. QED
  BY <1>1, <1>2 DEF Next

QuietRecords == quiet => RecordInv

\* and so it has the output states that are in use as long as the file is quiet.
LEMMA RecordInvHolds == Spec => []QuietRecords
<1>1. Init => QuietRecords
  <2>1. SUFFICES ASSUME Init PROVE RecordInv
    BY DEF QuietRecords
  <2>2. TypeInv /\ \A t \in Threads : held[t] = << >>
    BY <2>1, FileInvInit DEF Init, FileInv
  <2>3. \A t \in Threads : ~(Num(held[t], "own") > 0)
    BY <2>2, NoBrackets
  <2>4. QED
    BY <2>1, <2>3 DEF Init, RecordInv
<1>2. QuietInv /\ QuietRecords /\ [Next]_vars => QuietRecords'
  BY RecordInvNext, QuietBefore DEF QuietInv, QuietRecords
<1>3. QED
  BY <1>1, <1>2, FileInvHolds, PTL DEF Spec

\* Types are kept, and abort is never called as long as the file is quiet: every thread
\* in a bracket of exclusive mode has an output state.
THEOREM NeverAborts == Spec => []TypeOK
<1>1. Types /\ QuietRecords => TypeOK
  <2>1. SUFFICES ASSUME Types, QuietRecords PROVE TypeOK
    OBVIOUS
  <2>2. quiet => ~aborted
    BY <2>1 DEF QuietRecords, RecordInv
  <2>3. QED
    BY <2>1, <2>2 DEF Types, TypeInv, TypeOK, Kinds, PCs
<1>2. QED
  BY <1>1, RecordInvHolds, FileInvHolds, PTL

-----------------------------------------------------------------------------
(* Sleepers                                                                *)

\* The mutex is held across steps only by a thread that is falling asleep; who
\* sleeps is not the owner, and sleeps for the output state only while there is one,
\* for the end of exclusive mode only until it is woken, or misses that.
Excused(u) ==
    mode = 2 \/ u \in missed \/ \E w \in Threads : pc[w] \in Leaving
SleepInv ==
    /\ \A u \in Threads : mutex = u => pc[u] \in {"acquire sleeps", "start sleeps"}
    /\ \A u \in Threads : pc[u] = "acquire sleeps" => mode = 1 /\ owner # NONE /\ owner # u
    /\ \A u \in Threads : pc[u] = "start sleeps" => owner # u /\ Excused(u)

\* A thread that sleeps after a step slept before it, or has just begun to.
LEMMA SleptBefore ==
    ASSUME FileInv, Types, NEW t \in Threads, ThreadStep(t) \/ SetThreadMode(t),
           NEW u \in Threads, pc'[u] \in {"acquire sleeps", "start sleeps"}
    PROVE  \/ pc'[u] = pc[u] /\ (u # t \/ Sleep(t))
           \/ u = t /\ (AcquireMustWait(t) \/ ExclusiveMustWait(t))
<1>0. mode = 0 \/ mode = 1 \/ mode = 2
  BY ModeCases DEF FileInv
<1>1. pc \in [Threads -> PCs] /\ pc[t] # "end sleeps" /\ pc[u] # "end sleeps"
  BY LeaverIsIn DEF Types
<1>2. ASSUME ~AcquireMustWait(t), ~ExclusiveMustWait(t), ~Sleep(t)
      PROVE  pc'[t] \notin {"acquire sleeps", "start sleeps"}
  <2>1. CASE GetState(t) \/ ReleaseState(t)
    <3>1. pc[t] = "run"
      BY <2>1 DEF GetState, ReleaseState, At
    <3>2. UNCHANGED pc \/ \E l \in {"acquire", "find", "release", "forget"} : Goto(t, l)
      <4>1. GetState(t) => UNCHANGED pc \/ Goto(t, "acquire") \/ Goto(t, "find")
        BY <1>0 DEF GetState
      <4>2. ReleaseState(t) => UNCHANGED pc \/ Goto(t, "release") \/ Goto(t, "forget")
        BY <1>0 DEF ReleaseState
      <4>3. QED
        BY <2>1, <4>1, <4>2
    <3>3. QED
      BY <1>1, <3>1, <3>2 DEF Goto
  <2>2. CASE SetThreadMode(t)
    BY <1>1, <2>2 DEF SetThreadMode, At, Goto
  <2>3. CASE FindState(t) \/ AcquireFree(t) \/ AcquireAgain(t) \/ ReleaseThreadCount(t)
    BY <1>1, <2>3 DEF FindState, AcquireFree, AcquireAgain, ReleaseThreadCount, Goto, Broadcast
  <2>4. CASE ForgetState(t) \/ StartIO(t) \/ EndIO(t) \/ StartUncounted(t) \/ EndUncounted(t)
    BY <1>1, <2>4 DEF ForgetState, StartIO, EndIO, StartUncounted, EndUncounted, Goto, At
  <2>5. CASE ExclusiveMine(t) \/ ExclusiveOver(t)
    BY <1>1, <2>5 DEF ExclusiveMine, ExclusiveOver, Goto, Broadcast
  <2>6. CASE SetOwnerThread(t) \/ EnterExclusive(t) \/ LeaveExclusive(t) \/ LeaveWakes(t)
    BY <1>1, <2>6 DEF SetOwnerThread, EnterExclusive, LeaveExclusive, LeaveWakes,
       Goto, Broadcast
  <2>7. CASE ResetMode(t) \/ StoreMode(t) \/ ClearOwner(t)
    BY <1>1, <2>7 DEF ResetMode, StoreMode, ClearOwner, Goto
  <2>8. QED
    BY <1>2, <2>1, <2>2, <2>3, <2>4, <2>5, <2>6, <2>7 DEF ThreadStep
<1>3. CASE u # t
  <2>1. PICK l \in PCs : Goto(t, l) \/ Broadcast(t, l) \/ UNCHANGED pc
    BY StepPlaces DEF Types
  <2>2. CASE Goto(t, l)
    BY <1>1, <1>3, <2>2 DEF Goto
  <2>3. CASE Broadcast(t, l)
    <3>1. pc'[u] = Awake(u)
      BY <1>3, <2>3 DEF Broadcast
    <3>2. QED
      BY <1>3, <3>1 DEF Awake
  <2>4. QED
    BY <1>3, <2>1, <2>2, <2>3
<1>4. Sleep(t) => pc' = pc
  BY DEF Sleep
<1>5. QED
  BY <1>2, <1>3, <1>4

\* Whoever sleeps for the output state sleeps on while its owner stays; whoever sleeps
\* until the file is no longer exclusive does not become its owner.
LEMMA SleepersKeepOwner ==
    ASSUME quiet', FileInv, SleepInv, NEW t \in Threads, ThreadStep(t) \/ SetThreadMode(t),
           NEW u \in Threads \ {t}, pc'[u] = pc[u]
    PROVE  /\ pc[u] = "acquire sleeps" => mode' = mode /\ owner' = owner
           /\ pc[u] = "start sleeps" => owner' = owner \/ owner' = NONE \/ owner' = t
<1>0. /\ pc[u] = "acquire sleeps" => mode = 1 /\ owner # NONE
      /\ mutex = NONE /\ pc[u] \in {"acquire sleeps", "start sleeps"} => Awake(u) # pc[u]
  <2>1. NONE \notin Threads
    BY FileAssumption
  <2>2. QED
    BY <2>1 DEF SleepInv, Awake
<1>1. CASE AcquireFree(t)
  BY <1>0, <1>1 DEF AcquireFree, Broadcast
<1>2. CASE ReleaseThreadCount(t)
  <2>1. owner' = owner \/ Broadcast(t, "run")
    BY <1>2 DEF ReleaseThreadCount
  <2>2. mutex = NONE /\ mode' = mode
    BY <1>2 DEF ReleaseThreadCount
  <2>3. QED
    BY <1>0, <2>1, <2>2 DEF Broadcast
<1>3. CASE ExclusiveMine(t)
  <2>1. owner' = owner \/ Broadcast(t, "run")
    BY <1>3 DEF ExclusiveMine
  <2>2. mutex = NONE /\ mode' = mode
    BY <1>3 DEF ExclusiveMine
  <2>3. QED
    BY <1>0, <2>1, <2>2 DEF Broadcast
<1>4. CASE SetOwnerThread(t)
  BY <1>0, <1>4 DEF SetOwnerThread, Broadcast
<1>5. CASE ResetMode(t) \/ StoreMode(t) \/ EnterExclusive(t) \/ ClearOwner(t)
  <2>1. pc[t] \in Changing /\ (owner' = owner \/ owner' = NONE)
    BY <1>5 DEF ResetMode, StoreMode, EnterExclusive, ClearOwner, At, Changing
  <2>2. ~PlaceInv
    BY <2>1 DEF PlaceInv, Placed, Places, Changing
  <2>3. PICK c \in Threads : ChangingInv(c)
    BY <2>2 DEF FileInv
  <2>4. pc[u] # "acquire sleeps"
    BY <2>3 DEF ChangingInv, Bystander, Changing
  <2>5. QED
    BY <2>1, <2>4
<1>6. CASE \/ GetState(t) \/ FindState(t) \/ AcquireAgain(t) \/ AcquireMustWait(t) \/ Sleep(t)
           \/ ReleaseState(t) \/ ForgetState(t) \/ StartIO(t) \/ StartUncounted(t)
           \/ EndIO(t) \/ EndUncounted(t) \/ ExclusiveOver(t) \/ ExclusiveMustWait(t)
           \/ LeaveExclusive(t) \/ LeaveWakes(t) \/ SetThreadMode(t)
  BY <1>6 DEF GetState, FindState, AcquireAgain, AcquireMustWait, Sleep, ReleaseState, ForgetState,
     StartIO, StartUncounted, EndIO, EndUncounted, ExclusiveOver, ExclusiveMustWait,
     LeaveExclusive, LeaveWakes, SetThreadMode, shared
<1>7. QED
  BY <1>1, <1>2, <1>3, <1>4, <1>5, <1>6 DEF ThreadStep

\* Whoever sleeps through the end of exclusive mode is about to be woken, or misses that.
LEMMA StillExcused ==
    ASSUME quiet', FileInv, Types, NEW t \in Threads, ThreadStep(t) \/ SetThreadMode(t),
           NEW u \in Threads \ {t}, pc[u] = "start sleeps", pc'[u] = pc[u], Excused(u)
    PROVE  Excused(u)'
<1>1. missed \subseteq missed'
  BY DEF ThreadStep, GetState, FindState, AcquireFree, AcquireAgain,
     AcquireMustWait, Sleep, ReleaseState, ReleaseThreadCount, ForgetState, StartIO,
     StartUncounted, EndIO, EndUncounted, ExclusiveMine, ExclusiveOver, ExclusiveMustWait,
     ResetMode, StoreMode, SetOwnerThread, EnterExclusive, LeaveExclusive, ClearOwner,
     LeaveWakes, SetThreadMode, history
<1>2. DOMAIN pc = Threads /\ pc \in [Threads -> PCs]
  BY DEF Types
<1>3. CASE ResetMode(t)
  <2>1. PICK m \in Switches : mode' = m /\ Goto(t, IF m = 2 THEN "run" ELSE "leave")
    BY <1>3 DEF ResetMode
  <2>2. m # 2 => pc'[t] \in Leaving
    BY <1>2, <2>1 DEF Goto, Leaving
  <2>3. QED
    BY <2>1, <2>2 DEF Excused
<1>4. CASE StoreMode(t) \/ EnterExclusive(t)
  <2>1. pc[t] \in {"store", "enter mode"}
    BY <1>4 DEF StoreMode, EnterExclusive, At
  <2>2. PICK c \in Threads : ChangingInv(c)
    BY <2>1 DEF FileInv, PlaceInv, Placed, Places
  <2>3. t = c
    BY <2>1, <2>2 DEF ChangingInv, Bystander
  <2>4. FALSE
    BY <2>1, <2>2, <2>3 DEF ChangingInv, Bystander, Leaving
  <2>5. QED
    BY <2>4
<1>5. CASE LeaveExclusive(t) \/ ClearOwner(t)
  <2>1. pc'[t] \in Leaving
    BY <1>2, <1>5 DEF LeaveExclusive, ClearOwner, Goto, Leaving
  <2>2. QED
    BY <2>1 DEF Excused
<1>6. CASE LeaveWakes(t)
  <2>1. pc'[u] = Awake(u)
    BY <1>6 DEF LeaveWakes, Broadcast
  <2>2. mutex = u /\ u # NONE
    BY <2>1, FileAssumption DEF Awake
  <2>3. u \in missed'
    BY <1>6, <2>2 DEF LeaveWakes
  <2>4. QED
    BY <2>3 DEF Excused
<1>7. CASE ~ResetMode(t) /\ ~StoreMode(t) /\ ~EnterExclusive(t) /\ ~LeaveExclusive(t)
           /\ ~ClearOwner(t) /\ ~LeaveWakes(t)
  <2>1. mode' = mode
    BY <1>7 DEF ThreadStep, GetState, FindState, AcquireFree, AcquireAgain,
       AcquireMustWait, Sleep, ReleaseState, ReleaseThreadCount, ForgetState, StartIO,
       StartUncounted, EndIO, EndUncounted, ExclusiveMine, ExclusiveOver, ExclusiveMustWait,
       SetOwnerThread, SetThreadMode, shared
  <2>2. ASSUME NEW w \in Threads, pc[w] \in Leaving PROVE pc'[w] \in Leaving
    <3>1. w # t \/ Sleep(t)
      BY <1>7, <2>2 DEF ThreadStep, GetState, FindState, AcquireFree, AcquireAgain,
         AcquireMustWait, ReleaseState, ReleaseThreadCount, ForgetState, StartIO,
         StartUncounted, EndIO, EndUncounted, ExclusiveMine, ExclusiveOver, ExclusiveMustWait,
         SetOwnerThread, SetThreadMode, At, Leaving
    <3>2. PICK l \in PCs : Goto(t, l) \/ Broadcast(t, l) \/ UNCHANGED pc
      BY StepPlaces DEF Types
    <3>3. Awake(w) = pc[w]
      BY <2>2 DEF Awake, Leaving
    <3>4. pc'[w] = pc[w]
      BY <1>2, <3>1, <3>2, <3>3 DEF Goto, Broadcast, Sleep
    <3>5. QED
      BY <2>2, <3>4
  <2>3. QED
    BY <1>1, <2>1, <2>2 DEF Excused
<1>8. QED
  BY <1>3, <1>4, <1>5, <1>6, <1>7

\* The mutex is passed on by threads that fall asleep only.
LEMMA MutexSteps ==
    ASSUME NEW t \in Threads, ThreadStep(t) \/ SetThreadMode(t)
    PROVE  \/ mutex' = mutex /\ ~Sleep(t)
           \/ mutex' = NONE
           \/ mutex' = t /\ (AcquireMustWait(t) \/ ExclusiveMustWait(t))
<1>1. NONE \notin Threads
  BY FileAssumption
<1>2. Sleep(t) => mutex' = NONE
  BY DEF Sleep
<1>3. QED
  BY <1>1, <1>2 DEF ThreadStep, GetState, FindState, AcquireFree, AcquireAgain,
     AcquireMustWait, Sleep, ReleaseState, ReleaseThreadCount, ForgetState, StartIO,
     StartUncounted, EndIO, EndUncounted, ExclusiveMine, ExclusiveOver, ExclusiveMustWait,
     ResetMode, StoreMode, SetOwnerThread, EnterExclusive, LeaveExclusive, ClearOwner,
     LeaveWakes, SetThreadMode, shared

\* Every step that leaves the file quiet keeps SleepInv.
LEMMA SleepInvNext ==
    ASSUME quiet', FileInv, Types, SleepInv, [Next]_vars PROVE SleepInv'
<1>1. CASE UNCHANGED vars
  BY <1>1 DEF vars, shared, history, SleepInv, Excused
<1>2. ASSUME NEW t \in Threads, ThreadStep(t) \/ SetThreadMode(t)
      PROVE  SleepInv'
  <2>0. NONE \notin Threads /\ pc \in [Threads -> PCs]
    BY FileAssumption DEF Types
  <2>1. ASSUME AcquireMustWait(t) PROVE mode' = 1 /\ owner' # NONE /\ owner' # t
    <3>1. pc[t] = "acquire" /\ owner # t /\ (owner # NONE \/ exclusive # 0)
      BY <2>1 DEF AcquireMustWait, At
    <3>2. ~ \E c \in Threads : ChangingInv(c)
      BY <3>1 DEF ChangingInv, Bystander, Changing
    <3>3. PlaceInv /\ BracketInv
      BY <3>2 DEF FileInv
    <3>4. mode = 1 /\ exclusive = 0
      <4>1. mode = 1
        BY <3>1, <3>3 DEF PlaceInv, Placed
      <4>2. QED
        BY <3>3, <4>1 DEF BracketInv
    <3>5. QED
      BY <2>1, <3>1, <3>4 DEF AcquireMustWait, shared
  <2>2. ASSUME AcquireMustWait(t) \/ ExclusiveMustWait(t)
        PROVE  /\ owner' # t /\ pc'[t] \in {"acquire sleeps", "start sleeps"}
               /\ ExclusiveMustWait(t) => mode' = 2
    <3>1. CASE AcquireMustWait(t)
      <4>1. ~ExclusiveMustWait(t)
        BY <3>1 DEF AcquireMustWait, ExclusiveMustWait, At
      <4>2. QED
        BY <2>0, <3>1, <4>1 DEF AcquireMustWait, Goto, shared
    <3>2. CASE ExclusiveMustWait(t)
      <4>1. pc[t] = "start" \/ pc[t] = "end"
        BY <3>2 DEF ExclusiveMustWait, At
      <4>2. pc[t] # "end"
        <5>1. pc[t] = "end" => ~ \E c \in Threads : ChangingInv(c)
          BY DEF ChangingInv, Bystander, Changing
        <5>2. pc[t] = "end" => owner = t
          BY <5>1 DEF FileInv, PlaceInv, Placed
        <5>3. QED
          BY <3>2, <5>2 DEF ExclusiveMustWait
      <4>3. QED
        BY <2>0, <3>2, <4>1, <4>2 DEF ExclusiveMustWait, Goto, shared
    <3>3. QED
      BY <2>2, <3>1, <3>2
  <2>3. ASSUME NEW u \in Threads, pc'[u] \in {"acquire sleeps", "start sleeps"}
        PROVE  /\ pc'[u] = "acquire sleeps" => mode' = 1 /\ owner' # NONE /\ owner' # u
               /\ pc'[u] = "start sleeps" => owner' # u /\ Excused(u)'
    <3>1. CASE u = t /\ (AcquireMustWait(t) \/ ExclusiveMustWait(t))
      <4>1. ExclusiveMustWait(t) => pc'[t] # "acquire sleeps"
        BY <2>0 DEF ExclusiveMustWait, Goto
      <4>2. AcquireMustWait(t) => pc'[t] # "start sleeps"
        BY <2>0 DEF AcquireMustWait, Goto
      <4>3. QED
        BY <2>1, <2>2, <3>1, <4>1, <4>2 DEF Excused
    <3>2. CASE pc'[u] = pc[u] /\ u # t
      <4>1. /\ pc[u] = "acquire sleeps" => mode' = mode /\ owner' = owner
            /\ pc[u] = "start sleeps" => owner' = owner \/ owner' = NONE \/ owner' = t
        BY <1>2, <3>2, SleepersKeepOwner
      <4>2. pc[u] = "start sleeps" => Excused(u)'
        BY <1>2, <3>2, StillExcused DEF SleepInv
      <4>3. QED
        BY <2>0, <3>2, <4>1, <4>2 DEF SleepInv
    <3>3. CASE pc'[u] = pc[u] /\ Sleep(t)
      BY <3>3 DEF Sleep, shared, history, SleepInv, Excused
    <3>4. QED
      BY <1>2, <2>3, <3>1, <3>2, <3>3, SleptBefore
  <2>4. ASSUME NEW u \in Threads, mutex' = u
        PROVE  pc'[u] \in {"acquire sleeps", "start sleeps"}
    <3>1. CASE mutex' = t /\ (AcquireMustWait(t) \/ ExclusiveMustWait(t))
      BY <2>2, <2>4, <3>1
    <3>2. CASE mutex' = mutex /\ ~Sleep(t)
      <4>1. mutex = u /\ pc[u] \in {"acquire sleeps", "start sleeps"}
        BY <2>4, <3>2 DEF SleepInv
      <4>2. u # t
        <5>1. SUFFICES ASSUME u = t PROVE FALSE
          OBVIOUS
        <5>2. pc[t] \in {"acquire sleeps", "start sleeps"} /\ ~Sleep(t)
          BY <3>2, <4>1, <5>1
        <5>3. QED
          BY <1>2, <5>2 DEF ThreadStep, GetState, FindState, AcquireFree, AcquireAgain,
             AcquireMustWait, ReleaseState, ReleaseThreadCount, ForgetState, StartIO,
             StartUncounted, EndIO, EndUncounted, ExclusiveMine, ExclusiveOver,
             ExclusiveMustWait, ResetMode, StoreMode, SetOwnerThread, EnterExclusive,
             LeaveExclusive, ClearOwner, LeaveWakes, SetThreadMode, At
      <4>3. PICK l \in PCs : Goto(t, l) \/ Broadcast(t, l) \/ UNCHANGED pc
        BY <1>2, StepPlaces DEF Types
      <4>4. pc'[u] = pc[u]
        <5>1. Broadcast(t, l) => pc'[u] = Awake(u)
          BY <4>2 DEF Broadcast
        <5>2. Awake(u) = pc[u]
          BY <4>1 DEF Awake
        <5>3. QED
          BY <2>0, <4>2, <4>3, <5>1, <5>2 DEF Goto
      <4>5. QED
        BY <4>1, <4>4
    <3>3. QED
      BY <1>2, <2>0, <2>4, <3>1, <3>2, MutexSteps
  <2>5. QED
    BY <2>3, <2>4 DEF SleepInv
<1>3. QED
  BY <1>1, <1>2 DEF Next

QuietSleep == quiet => SleepInv

\* A wakeup is lost only by a thread that missed the broadcast of a change of mode while
\* it was falling asleep, for any number of threads, as long as the file is quiet.
THEOREM SleepersNotForgotten == Spec => []NoForgottenSleeper
<1>1. Init => QuietSleep
  <2>1. SUFFICES ASSUME Init PROVE SleepInv
    BY DEF QuietSleep
  <2>2. NONE \notin Threads
    BY FileAssumption
  <2>3. mutex = NONE /\ \A t \in Threads : pc[t] = "run"
    BY <2>1 DEF Init
  <2>4. QED
    BY <2>2, <2>3 DEF SleepInv
<1>2. Types /\ QuietInv /\ QuietSleep /\ [Next]_vars => QuietSleep'
  BY SleepInvNext, QuietBefore DEF QuietInv, QuietSleep
<1>3. QuietInv /\ QuietSleep => NoForgottenSleeper
  <2>1. SUFFICES ASSUME FileInv, SleepInv, NEW t \in Threads
                 PROVE  /\ mutex = t => pc[t] \in {"acquire sleeps", "start sleeps"}
                        /\ pc[t] = "acquire sleeps" =>
                             \E u \in Threads \ {t} : mode = 1 /\ owner = u /\ Num(held[u], "common") > 0
                        /\ pc[t] = "start sleeps" =>
                             \/ mode = 2 /\ owner \in Threads \ {t}
                             \/ \E u \in Threads : pc[u] \in Leaving
                             \/ t \in missed
                        /\ pc[t] # "end sleeps"
    BY DEF QuietInv, QuietSleep, NoForgottenSleeper, Brackets, Num, Leaving
  <2>2. owner \in Threads \cup {NONE}
    BY <2>1 DEF FileInv, TypeInv
  <2>3. ASSUME pc[t] = "acquire sleeps"
        PROVE  \E u \in Threads \ {t} : mode = 1 /\ owner = u /\ Num(held[u], "common") > 0
    <3>1. mode = 1 /\ owner # NONE /\ owner # t
      BY <2>1, <2>3 DEF SleepInv
    <3>2. PICK u \in Threads \ {t} : owner = u
      BY <2>2, <3>1
    <3>3. BracketInv
      BY <2>1, <2>3 DEF FileInv, ChangingInv, Bystander, Changing
    <3>4. recurse > 0 /\ Num(held[u], "common") = recurse
      BY <3>1, <3>2, <3>3 DEF BracketInv
    <3>5. QED
      BY <3>1, <3>2, <3>4
  <2>4. mode = 2 => owner # NONE
    <3>1. CASE BracketInv
      BY <3>1 DEF BracketInv
    <3>2. CASE \E c \in Threads : ChangingInv(c)
      BY <3>2 DEF ChangingInv
    <3>3. QED
      BY <2>1, <3>1, <3>2 DEF FileInv
  <2>5. QED
    BY <2>1, <2>2, <2>3, <2>4, LeaverIsIn DEF SleepInv, Excused
<1>4. QED
  BY <1>1, <1>2, <1>3, FileInvHolds, PTL DEF Spec
=============================================================================
