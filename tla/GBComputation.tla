---------------------------- MODULE GBComputation ----------------------------
(***************************************************************************)
(* The default Groebner basis computation of the engine (e/gb-default.cpp, *)
(* class gbA) for an ideal with homogeneous generators over a field: the   *)
(* queue of S-pairs, the criteria that discard pairs, and the state        *)
(* machine that stops at limits and interrupts and resumes later.          *)
(*                                                                         *)
(* Polynomials are abstracted to their lead monomials, and monomials to    *)
(* the elements of a lattice with a degree.  The remainder of an S-pair is *)
(* zero or an element whose lead is in standard position, by free choice:  *)
(* what the module says holds whatever the coefficients are.               *)
(***************************************************************************)
EXTENDS Integers, Sequences, FiniteSets

CONSTANTS
    Monomials,       \* the lead monomials, closed under Lcm
    Lcm(_, _),       \* the least common multiple of two monomials
    Degree(_),       \* the (weighted) degree of a monomial
    Coprime(_, _),   \* no variable divides both monomials
    Gens,            \* the columns of the input matrix
    GenDegree,       \* their degrees
    StopChoices,     \* the stop conditions a caller may set
    Rehint,          \* the Hilbert function is given again on every call (gb.m2)
    MaxElements,     \* bound: the number of basis elements found
    MaxStops,        \* bound: calls that may end early
    MaxPairs         \* bound: pairs are counted up to this number

ASSUME LcmAssumption ==
    /\ \A x, y \in Monomials : Lcm(x, y) \in Monomials /\ Lcm(x, y) = Lcm(y, x)
    /\ \A x \in Monomials : Lcm(x, x) = x
    /\ \A x, y, z \in Monomials : Lcm(Lcm(x, y), z) = Lcm(x, Lcm(y, z))

ASSUME DegreeAssumption ==
    /\ \A x \in Monomials : Degree(x) \in Nat
    /\ \A x, y \in Monomials : Lcm(x, y) # y => Degree(y) < Degree(Lcm(x, y))

ASSUME CoprimeAssumption ==
    \A x, y \in Monomials : Coprime(x, y) => Coprime(y, x)

ASSUME BoundAssumption ==
    /\ GenDegree \in [Gens -> Nat \ {0}] /\ IsFiniteSet(Gens)
    /\ Rehint \in BOOLEAN
    /\ {MaxElements, MaxStops, MaxPairs} \subseteq Nat
    /\ \A s \in StopChoices :
         /\ s \in [kind : {"none", "always", "degree", "elements", "pairs", "mingens"}, n : Nat]
         /\ s.kind = "pairs" => s.n <= MaxPairs

VARIABLES
    gb,            \* lead monomials of the basis elements, oldest first
    heap,          \* S-pairs and generators not yet begun
    lists,         \* those of the current degree: spair_list, gen_list and what each defers
    nInDegree,     \* S->n_in_degree
    nGensLeft,     \* n_gens_left
    nPairs,        \* n_pairs_computed
    state,         \* the state machine
    thisDegree, completeThru,
    npI, arI, arJ, \* np_i, ar_i, ar_j: where an interrupted loop goes on
    hilb,          \* use_hilb, hilb_new_elems, hilb_n_in_degree
    call,          \* the call being executed: running, its stop conditions, the status
    hint,          \* history: the caller has a Hilbert function
    due,           \* history: basis elements of this degree still to be found
    handled,       \* history: pairs and generators reduced, or discarded by the Hilbert function
    delayed,       \* history: pairs and generators deferred once
    stops          \* history: calls that ended early

queue == <<heap, lists, nInDegree, nGensLeft>>
loops == <<npI, arI, arJ>>
degrees == <<thisDegree, completeThru>>
history == <<due, handled, delayed>>
vars == <<gb, queue, nPairs, state, degrees, loops, hilb, call, hint, history, stops>>

-----------------------------------------------------------------------------
(* Monomials and S-pairs.  <<i, j>> with j < i is the pair of the elements *)
(* i and j; <<0, g>> is the generator g.                                   *)

Divides(x, y) == Lcm(x, y) = y

IsGen(p) == p[1] = 0
PairLcm(p) == Lcm(gb[p[1]], gb[p[2]])
PairDegree(p) == IF IsGen(p) THEN GenDegree[p[2]] ELSE Degree(PairLcm(p))

EmptyLists == [pairs |-> {}, laterPairs |-> {}, gens |-> {}, laterGens |-> {}]
Listed == lists.pairs \cup lists.laterPairs \cup lists.gens \cup lists.laterGens
Pending == heap \cup Listed
GensIn(S) == {p \in S : IsGen(p)}

\* Variant: only the second element is tested.
PairNotNeededHalf(p, id) ==
    /\ ~IsGen(p)
    /\ Divides(gb[id], PairLcm(p))
    /\ Lcm(gb[id], gb[p[2]]) # PairLcm(p)

\* pair_not_needed: the new element divides the lcm of an old pair, and makes
\* a strictly smaller lcm with each of its two elements.
PairNotNeeded(p, id) ==
    /\ ~IsGen(p)
    /\ Divides(gb[id], PairLcm(p))
    /\ Lcm(gb[id], gb[p[1]]) # PairLcm(p)
    /\ Lcm(gb[id], gb[p[2]]) # PairLcm(p)

\* minimalize_pairs_non_ZZ: among the pairs of the new element, the first of
\* every group with the same lcm is chosen; it is dropped when its elements are
\* coprime, or when the lcm of an inserted pair divides its lcm.  The montab of
\* inserted lcms is described by the chosen pairs that are not coprime: the
\* smallest of them that divides an lcm has itself been inserted.
First(id, i) == \A k \in 1..i-1 : Lcm(gb[id], gb[k]) # Lcm(gb[id], gb[i])
Chosen(id) == {i \in 1..id-1 : First(id, i) /\ ~Coprime(gb[id], gb[i])}
NewPairs(id) ==
    {<<id, i>> : i \in {k \in Chosen(id) :
        ~\E l \in Chosen(id) \ {k} : Divides(Lcm(gb[id], gb[l]), Lcm(gb[id], gb[k]))}}

\* computation_is_complete, for the stop conditions s.
LimitReached(s, elements, pairs, gensLeft) ==
    CASE s.kind = "elements" /\ s.n > 0 /\ elements >= s.n -> "gb limit"
      [] s.kind = "pairs" /\ s.n > 0 /\ pairs >= s.n -> "pair limit"
      [] s.kind = "mingens" /\ gensLeft = 0 -> "min gens"
      [] OTHER -> "computing"

BeyondDegree(s, d) == s.kind = "degree" /\ d > s.n

-----------------------------------------------------------------------------
(* gbA::initialize puts every generator on the heap. *)

Init ==
    /\ gb = << >>
    /\ heap = {<<0, g>> : g \in Gens}
    /\ lists = EmptyLists
    /\ nInDegree = 0 /\ nPairs = 0
    /\ nGensLeft = Cardinality(Gens)
    /\ state = "newdegree"
    /\ thisDegree = 0 /\ completeThru = 0
    /\ npI = 0 /\ arI = 0 /\ arJ = 1
    /\ hilb = [use |-> FALSE, new |-> FALSE, n |-> 0]
    /\ call = [running |-> FALSE, stop |-> [kind |-> "none", n |-> 0], status |-> "not started"]
    /\ hint \in BOOLEAN
    /\ due = 0 /\ handled = {} /\ delayed = {} /\ stops = 0

Return(status) == call' = [call EXCEPT !.running = FALSE, !.status = status]

\* system_interrupted() at one of the points where the code asks.
Interrupted ==
    /\ stops < MaxStops
    /\ stops' = stops + 1
    /\ Return("interrupted")

GoOn == UNCHANGED <<call, stops>>

\* set_hilbert_function
SetHilbertFunction ==
    /\ hilb' = [hilb EXCEPT !.use = TRUE, !.new = TRUE]
    /\ state' = "hilb"

\* gb in gb.m2: nothing is done once the status is "done"; otherwise the hint
\* and the stop conditions are set and start_computation enters do_computation.
Start(s) ==
    /\ ~call.running /\ call.status # "done"
    /\ s.kind # "none" => stops < MaxStops
    /\ stops' = IF s.kind = "none" THEN stops ELSE stops + 1
    /\ IF hint /\ (~hilb.use \/ Rehint) THEN SetHilbertFunction ELSE UNCHANGED <<hilb, state>>
    /\ LET limit == LimitReached(s, Len(gb), nPairs, nGensLeft)
           early == IF limit # "computing" THEN limit
                    ELSE IF BeyondDegree(s, thisDegree) THEN "degree limit" ELSE "computing"
       IN call' = [running |-> s.kind # "always" /\ early = "computing",
                   stop    |-> s,
                   status  |-> IF s.kind = "always" \/ early = "computing"
                               THEN call.status ELSE early]
    /\ UNCHANGED <<gb, queue, nPairs, degrees, loops, hint, history>>

-----------------------------------------------------------------------------
(* STATE_NEWPAIRS, STATE_HILB, STATE_NEWDEGREE. *)

In(s) == call.running /\ state = s

\* update_pairs
UpdatePairs(id) ==
    heap' = {p \in heap : ~PairNotNeeded(p, id)} \cup NewPairs(id)

MakePairs ==
    /\ In("newpairs") /\ npI < Len(gb)
    /\ UpdatePairs(npI + 1)
    /\ npI' = npI + 1
    /\ UNCHANGED <<gb, lists, nInDegree, nGensLeft, nPairs, state, degrees, arI, arJ,
                   hilb, call, hint, history, stops>>

\* Variant: the index moves before the interrupt is tested.
MakePairsInterruptedLate ==
    /\ In("newpairs") /\ npI < Len(gb)
    /\ Interrupted
    /\ npI' = npI + 1
    /\ UNCHANGED <<gb, queue, nPairs, state, degrees, arI, arJ, hilb, hint, history>>

MakePairsInterrupted ==
    /\ In("newpairs") /\ npI < Len(gb)
    /\ Interrupted
    /\ UNCHANGED <<gb, queue, nPairs, state, degrees, loops, hilb, hint, history>>

\* Variant: the next degree makes pairs from the first element again.
MakePairsDoneFromStart ==
    /\ In("newpairs") /\ npI = Len(gb)
    /\ state' = "hilb" /\ npI' = 0
    /\ UNCHANGED <<gb, queue, nPairs, degrees, arI, arJ, hilb, call, hint, history, stops>>

MakePairsDone ==
    /\ In("newpairs") /\ npI = Len(gb)
    /\ state' = "hilb"
    /\ UNCHANGED <<gb, queue, nPairs, degrees, loops, hilb, call, hint, history, stops>>

\* hilbertNumerator returns null when it is interrupted.
Hilb ==
    /\ In("hilb")
    /\ \/ GoOn /\ state' = "newdegree" /\ hilb' = [hilb EXCEPT !.new = FALSE]
       \/ hilb.new /\ Interrupted /\ UNCHANGED <<state, hilb>>
    /\ UNCHANGED <<gb, queue, nPairs, degrees, loops, hint, history>>

\* No pair is left.
Done ==
    /\ In("newdegree") /\ nInDegree = 0 /\ heap = {}
    /\ lists' = EmptyLists
    /\ completeThru' = thisDegree - 1
    /\ state' = "done" /\ Return("done")
    /\ UNCHANGED <<gb, heap, nInDegree, nGensLeft, nPairs, thisDegree, loops, hilb, hint,
                   history, stops>>

Standard(d) == {m \in Monomials : Degree(m) = d /\ \A k \in 1..Len(gb) : ~Divides(gb[k], m)}

\* Variant: the degree of any pair of the heap.
NextDegreeAny(d) == \E p \in heap : PairDegree(p) = d

\* spair_set_determine_next_degree
NextDegree(d) ==
    /\ \E p \in heap : PairDegree(p) = d
    /\ \A p \in heap : PairDegree(p) >= d

OfDegree(d) == {p \in heap : PairDegree(p) = d}

\* flush_pairs empties the lists of the degree.
Flush(L, n, gensLeft) ==
    LET left == L.pairs \cup L.laterPairs \cup L.gens \cup L.laterGens
    IN  /\ lists' = EmptyLists
        /\ nInDegree' = n - Cardinality(left)
        /\ nGensLeft' = gensLeft - Cardinality(GensIn(left))

\* spair_set_prepare_next_degree, and the number of elements the degree will
\* yield, which is what the Hilbert function tells.
PrepareDegree(d, found) ==
    LET here == OfDegree(d)
    IN  /\ NextDegree(d)
        /\ found <= Cardinality(here) /\ found <= Cardinality(Standard(d))
        /\ found + Len(gb) <= MaxElements
        /\ heap' = heap \ here
        /\ thisDegree' = d
        /\ completeThru' = d - 1
        /\ due' = found
        /\ IF BeyondDegree(call.stop, d)
             THEN Return("degree limit") /\ UNCHANGED <<state, arI, arJ, hilb>>
             ELSE /\ state' = "spairs" /\ arI' = Len(gb) /\ arJ' = Len(gb) + 1
                  /\ hilb' = [hilb EXCEPT !.n = IF hilb.use THEN found ELSE @]
                  /\ UNCHANGED call
        /\ LET L == [EmptyLists EXCEPT !.pairs = here \ GensIn(here), !.gens = GensIn(here)]
           IN IF hilb.use /\ found = 0 /\ ~BeyondDegree(call.stop, d)
                THEN Flush(L, Cardinality(here), nGensLeft) /\ handled' = handled \cup here
                ELSE /\ lists' = L /\ nInDegree' = Cardinality(here)
                     /\ UNCHANGED <<nGensLeft, handled>>

BeginDegree ==
    /\ In("newdegree") /\ nInDegree = 0
    /\ \E d \in {PairDegree(p) : p \in heap}, found \in 0..MaxElements : PrepareDegree(d, found)
    /\ UNCHANGED <<gb, nPairs, npI, hint, delayed, stops>>

\* A degree begun by an earlier call goes on.
ResumeDegree ==
    /\ In("newdegree") /\ nInDegree # 0
    /\ arI' = Len(gb) /\ arJ' = Len(gb) + 1
    /\ state' = "spairs"
    /\ UNCHANGED <<gb, queue, nPairs, degrees, npI, hilb, call, hint, history, stops>>

-----------------------------------------------------------------------------
(* STATE_SPAIRS: spair_set_next, process_spair, and the tests after it. *)

\* spair_set_next takes from the pairs, the deferred pairs, the generators and
\* the deferred generators, in this order; in a list, by lead term, which is any.
Candidates ==
    IF lists.pairs # {} THEN lists.pairs
    ELSE IF lists.laterPairs # {} THEN lists.laterPairs
    ELSE IF lists.gens # {} THEN lists.gens
    ELSE lists.laterGens

Without(p) ==
    CASE p \in lists.pairs -> [lists EXCEPT !.pairs = @ \ {p}]
      [] p \in lists.laterPairs -> [lists EXCEPT !.pairs = lists.laterPairs \ {p}, !.laterPairs = {}]
      [] p \in lists.gens -> [lists EXCEPT !.gens = @ \ {p}]
      [] OTHER -> [lists EXCEPT !.gens = lists.laterGens \ {p}, !.laterGens = {}]

LessGen(p) == IF IsGen(p) THEN nGensLeft - 1 ELSE nGensLeft

\* Variant: the deferred pair is not counted again.
DeferUncounted(p) ==
    /\ p \notin delayed
    /\ delayed' = delayed \cup {p}
    /\ lists' = IF IsGen(p) THEN [Without(p) EXCEPT !.laterGens = @ \cup {p}]
                            ELSE [Without(p) EXCEPT !.laterPairs = @ \cup {p}]
    /\ nInDegree' = nInDegree - 1
    /\ UNCHANGED <<gb, nGensLeft, hilb, due, handled>>

\* reduce_kk gives up after max_reduction_count reductions: spair_set_defer.
\* Each try reduces further, so it cannot go on; the bound is one deferral.
Defer(p) ==
    /\ p \notin delayed
    /\ delayed' = delayed \cup {p}
    /\ lists' = IF IsGen(p) THEN [Without(p) EXCEPT !.laterGens = @ \cup {p}]
                            ELSE [Without(p) EXCEPT !.laterPairs = @ \cup {p}]
    /\ UNCHANGED <<gb, nInDegree, nGensLeft, hilb, due, handled>>

\* The remainder is zero.  The elements due in this degree come from the rest.
ReduceToZero(p) ==
    /\ due < Cardinality(Listed)
    /\ lists' = Without(p)
    /\ nInDegree' = nInDegree - 1 /\ nGensLeft' = LessGen(p)
    /\ handled' = handled \cup {p}
    /\ UNCHANGED <<gb, hilb, due, delayed>>

\* Variant: the rest is flushed while one element is still expected.
InsertGBEarlyFlush(p) ==
    /\ due > 0 /\ due' = due - 1
    /\ \E m \in Standard(thisDegree) : gb' = Append(gb, m)
    /\ hilb' = IF hilb.use THEN [hilb EXCEPT !.new = TRUE, !.n = @ - 1] ELSE hilb
    /\ IF hilb.use /\ hilb.n <= 2
         THEN /\ Flush(Without(p), nInDegree - 1, LessGen(p))
              /\ handled' = handled \cup Listed
         ELSE /\ lists' = Without(p)
              /\ nInDegree' = nInDegree - 1 /\ nGensLeft' = LessGen(p)
              /\ handled' = handled \cup {p}
    /\ UNCHANGED delayed

\* insert_gb: when the Hilbert function is used and the last element expected in
\* the degree has been found, the rest of the degree is flushed.
InsertGB(p) ==
    /\ due > 0 /\ due' = due - 1
    /\ \E m \in Standard(thisDegree) : gb' = Append(gb, m)
    /\ hilb' = IF hilb.use THEN [hilb EXCEPT !.new = TRUE, !.n = @ - 1] ELSE hilb
    /\ IF hilb.use /\ hilb.n = 1
         THEN /\ Flush(Without(p), nInDegree - 1, LessGen(p))
              /\ handled' = handled \cup Listed
         ELSE /\ lists' = Without(p)
              /\ nInDegree' = nInDegree - 1 /\ nGensLeft' = LessGen(p)
              /\ handled' = handled \cup {p}
    /\ UNCHANGED delayed

ProcessSpair ==
    /\ In("spairs")
    /\ \E p \in Candidates : Defer(p) \/ ReduceToZero(p) \/ InsertGB(p)
    /\ nPairs' = IF nPairs < MaxPairs THEN nPairs + 1 ELSE nPairs
    /\ LET limit == LimitReached(call.stop, Len(gb'), nPairs', nGensLeft')
       IN IF limit # "computing" THEN Return(limit) /\ UNCHANGED stops
          ELSE GoOn \/ Interrupted
    /\ UNCHANGED <<heap, state, degrees, loops, hint>>

DegreeDone ==
    /\ In("spairs") /\ Listed = {}
    /\ state' = "autoreduce"
    /\ UNCHANGED <<gb, queue, nPairs, degrees, loops, hilb, call, hint, history, stops>>

-----------------------------------------------------------------------------
(* STATE_AUTOREDUCE: each new element is reduced by the later ones. *)

AutoReduce ==
    /\ In("autoreduce") /\ arI < Len(gb)
    /\ IF arJ < Len(gb)
         THEN \/ GoOn /\ arJ' = arJ + 1 /\ UNCHANGED arI
              \/ Interrupted /\ UNCHANGED <<arI, arJ>>
         ELSE GoOn /\ arI' = arI + 1 /\ arJ' = arI + 2
    /\ UNCHANGED <<gb, queue, nPairs, state, degrees, npI, hilb, hint, history>>

\* Variant: the loop over the degree starts again.
AutoReduceDoneAgain ==
    /\ In("autoreduce") /\ arI >= Len(gb)
    /\ state' = "spairs"
    /\ UNCHANGED <<gb, queue, nPairs, degrees, loops, hilb, call, hint, history, stops>>

AutoReduceDone ==
    /\ In("autoreduce") /\ arI >= Len(gb)
    /\ state' = "newpairs"
    /\ IF BeyondDegree(call.stop, thisDegree) THEN Return("degree limit") ELSE UNCHANGED call
    /\ UNCHANGED <<gb, queue, nPairs, degrees, loops, hilb, hint, history, stops>>

-----------------------------------------------------------------------------
Compute ==
    \/ MakePairs \/ MakePairsInterrupted \/ MakePairsDone
    \/ Hilb
    \/ Done \/ BeginDegree \/ ResumeDegree
    \/ ProcessSpair \/ DegreeDone
    \/ AutoReduce \/ AutoReduceDone

Next == Compute \/ \E s \in StopChoices : Start(s)

\* The process runs on, and its user asks again without limits.
Spec ==
    /\ Init /\ [][Next]_vars
    /\ WF_vars(Compute)
    /\ WF_vars(\E s \in StopChoices : s.kind = "none" /\ Start(s))
-----------------------------------------------------------------------------
(* Properties *)

Items == {<<0, g>> : g \in Gens} \cup {p \in (Nat \ {0}) \X (Nat \ {0}) : p[2] < p[1]}

StopConditions == [kind : {"none", "always", "degree", "elements", "pairs", "mingens"}, n : Nat]

\* Every variable has its type: the queue holds generators and pairs of existing
\* elements, and the counters and loop indices of the machine stay in range.
TypeOK ==
    /\ gb \in Seq(Monomials)
    /\ heap \cup Listed \cup handled \cup delayed \subseteq Items
    /\ \A p \in Pending \cup handled : ~IsGen(p) => p[1] <= Len(gb)
    /\ nInDegree \in Nat /\ nGensLeft \in Nat /\ nPairs \in Nat /\ due \in Nat
    /\ state \in {"newdegree", "newpairs", "hilb", "spairs", "autoreduce", "done"}
    /\ thisDegree \in Nat /\ completeThru \in Int
    /\ npI \in 0..Len(gb) /\ arI \in 0..Len(gb) /\ arJ \in Nat
    /\ hilb \in [use : BOOLEAN, new : BOOLEAN, n : Int]
    /\ call \in [running : BOOLEAN, stop : StopConditions,
                 status : {"not started", "interrupted", "done", "degree limit",
                           "gb limit", "pair limit", "min gens"}]
    /\ hint \in BOOLEAN /\ stops \in 0..MaxStops

\* The counters that decide control agree with the lists they count, across
\* deferrals, flushes and interrupted calls: n_in_degree = 0 is how the machine
\* knows that a degree is finished, n_gens_left = 0 that the generators are.
CountersExact ==
    /\ nInDegree = Cardinality(Listed)
    /\ nGensLeft = Cardinality(GensIn(Pending))

\* i and j are linked below the monomial L by the pairs in E: no set of elements
\* whose lead divides L separates them, where two elements are adjacent when
\* their pair is in E or their leads are coprime.
Adjacent(i, j, E) == <<i, j>> \in E \/ <<j, i>> \in E \/ Coprime(gb[i], gb[j])
Below(L, n) == {k \in 1..n : Divides(gb[k], L)}
Linked(i, j, n, E) ==
    LET K == Below(Lcm(gb[i], gb[j]), n)
    IN  \A A \in SUBSET K : i \in A /\ j \notin A =>
            \E a \in A, b \in K \ A : Adjacent(a, b, E)

\* Buchberger's criterion with Gebauer and Moeller's chains: whatever pairs
\* remove_unneeded_pairs and minimalize_pairs have thrown away, the S-polynomial
\* of any two elements for which pairs have been made is accounted for by
\* pairs that are pending or have been reduced, at or below its lcm.
PairsCovered ==
    \A i, j \in 1..npI : Linked(i, j, npI, Pending \cup handled)

\* "for homogeneous GB's, the GB coincides with the actual GB in degrees <= the
\* returned value" of complete_thru_degree (comp.hpp): when a call has returned,
\* every pair of that degree is accounted for by pairs that have been reduced, and
\* no generator of such a degree is left.
CompleteThruDegree ==
    ~call.running =>
        /\ \A i, j \in 1..Len(gb) :
              Degree(Lcm(gb[i], gb[j])) <= completeThru => Linked(i, j, Len(gb), handled)
        /\ \A p \in Pending : PairDegree(p) > completeThru

\* A computation that reports COMP_DONE has a Groebner basis: every pair of its
\* elements is accounted for, and nothing is pending.
DoneIsGroebner ==
    call.status = "done" =>
        /\ Pending = {} /\ due = 0
        /\ \A i, j \in 1..Len(gb) : Linked(i, j, Len(gb), handled)

\* The Hilbert function flushes the rest of a degree only when every basis element
\* of the degree has been found, however often the degree was interrupted.
NothingDueIsFlushed == Listed = {} => due = 0

\* The degree, and the degree the computation claims to be complete in, never go
\* back, over any sequence of interrupted and resumed calls.
DegreeNeverFalls ==
    [][thisDegree' >= thisDegree /\ completeThru' >= completeThru]_vars

\* A pair or generator that has been reduced or discarded is not queued again.
HandledOnce == handled \cap Pending = {}

\* Interrupts and limits do not keep the computation from its end: when its user
\* goes on asking, COMP_DONE is reached.
EventuallyDone == <>(call.status = "done")
=============================================================================
