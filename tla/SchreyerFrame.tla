---------------------------- MODULE SchreyerFrame ----------------------------
(***************************************************************************)
(* A nonminimal resolution (e/schreyer-resolution): the frame fixes how    *)
(* many elements each cell <<slanted degree, level>> has; the syzygies of  *)
(* a cell are constructed from those of the level before in all degrees up *)
(* to its own; ranks then give the minimal Betti numbers.                  *)
(*                                                                         *)
(* The cells are done in a serial loop or, parallelized by degree, in a    *)
(* flow graph of TBB with a vertex per cell, whose vertices run at the     *)
(* same time once all their predecessors have run.                         *)
(***************************************************************************)
EXTENDS Integers, Sequences, FiniteSets, FiniteSetsExt

CONSTANTS
    Los,          \* lowest slanted degrees of modules done in the serial loop
    ParallelLos,  \* and of modules done in the flow graph
    Height,       \* number of slanted degrees
    MaxLevel,     \* maxLevel()
    Limits,       \* degree limits, counted from the lowest degree
    MaxGaps,      \* bound: empty cells of the frame
    MaxCalls,     \* bound: calls
    Graphs        \* how often the flow graph may be made

ASSUME FrameAssumption ==
    /\ Los \cup ParallelLos \subseteq Int /\ Limits \subseteq Int
    /\ {Height, MaxCalls} \subseteq Nat \ {0} /\ {MaxGaps, Graphs} \subseteq Nat
    /\ MaxLevel \in Nat /\ MaxLevel >= 2

VARIABLES
    parallel,     \* mParallelizeByDegree
    lo,           \* mLoSlantedDegree
    full,         \* the cells where the frame has elements
    status,       \* mComputationStatus
    minimal,      \* mBettiMinimal
    vertices,     \* mVertices: the cells they were made for
    edges,        \* mEdges
    fired,        \* vertices that have run in this call
    running,      \* vertices that are constructing
    todo,         \* cells the serial loop has still to visit
    call,         \* the call under way
    calls,        \* calls begun
    graphs,       \* and how many of them made the graph
    exited        \* the process has ended

frame == <<parallel, lo, full>>
graph == <<vertices, edges, fired, running>>
vars == <<frame, status, minimal, graph, todo, call, calls, graphs, exited>>

hi == lo + Height - 1
Degrees == lo..hi
Levels == 0..MaxLevel
Cells == Degrees \X Levels

-----------------------------------------------------------------------------
(* computeFrame has been called: getBounds and setBettiDisplays.           *)

Length(F, L) == CHOOSE l \in L : (\E c \in F : c[2] = l) /\ \A c \in F : c[2] <= l

\* Every cell that is not empty has two elements.
Elements(c) == IF c \in full THEN 2 ELSE 0

\* rank: the unit entries of the map from a cell to the next degree of the level
\* before.
Rank(c) == IF {c, <<c[1] + 1, c[2] - 1>>} \subseteq full THEN 1 ELSE 0

FirstStatus(c) ==
    IF c \notin full THEN 0 ELSE CASE c[2] = 0 -> 3 [] c[2] = 1 -> 2 [] OTHER -> 1

\* Level 0 is in the lowest degree, some cell in the highest, and no level is empty
\* below one that is not.
IsFrame(F) ==
    /\ {c \in F : c[2] = 0} = {<<lo, 0>>}
    /\ \E c \in F : c[1] = hi
    /\ \A c \in F, l \in Levels : l < c[2] => \E d \in F : d[2] = l

Filled == {({<<lo, 0>>} \cup (Degrees \X (1..MaxLevel))) \ gaps :
              gaps \in {G \in SUBSET (Degrees \X (1..MaxLevel)) : Cardinality(G) <= MaxGaps}}

Idle == [kind |-> "none", top |-> 0, len |-> 0]

Init ==
    /\ parallel \in BOOLEAN
    /\ lo \in IF parallel THEN ParallelLos ELSE Los
    /\ full \in {F \in Filled : IsFrame(F)}
    /\ status = [c \in Cells |-> FirstStatus(c)]
    /\ minimal = [c \in Cells |-> Elements(c)]
    /\ vertices = << >> /\ edges = {} /\ fired = {} /\ running = {}
    /\ todo = {} /\ call = Idle /\ calls = 0 /\ graphs = 0 /\ exited = FALSE

-----------------------------------------------------------------------------
(* makeDependencyGraph.  Vertices are named by their place in mVertices, from  *)
(* 0, and labelled <<sldeg, lev>> with sldeg from 0.                          *)

MaxLength == Length(full, Levels)

\* Variant: level and degree swapped.
getIndexSwapped(lev, sldeg, nlevels) == sldeg + lev * nlevels

getIndex(lev, sldeg, nlevels) == lev + sldeg * nlevels

Label(v) == vertices[v + 1]

addVertices(nlevels, ndegrees) ==
    vertices' = vertices \o
        [k \in 1..nlevels * ndegrees |-> <<(k - 1) \div nlevels, (k - 1) % nlevels>>]

\* Variant: a cell waits for the level before in the lowest degree only.
addFillMatrixEdgesLowest(nlevels, ndegrees) ==
    edges' = edges
        \cup {<<getIndex(l - 1, 0, nlevels), getIndex(l, 0, nlevels)>> : l \in 1..nlevels - 1}
        \cup {<<getIndex(l, s - 1, nlevels), getIndex(l, s, nlevels)>> :
                  l \in 0..nlevels - 1, s \in 1..ndegrees - 1}

addFillMatrixEdges(nlevels, ndegrees) ==
    edges' = edges
        \cup {<<getIndex(l - 1, s, nlevels), getIndex(l, s, nlevels)>> :
                  l \in 1..nlevels - 1, s \in 0..ndegrees - 1}
        \cup {<<getIndex(l, s - 1, nlevels), getIndex(l, s, nlevels)>> :
                  l \in 0..nlevels - 1, s \in 1..ndegrees - 1}

\* Vertex 0 is told to start: there is none to tell when no vertex was ever made.
makeDependencyGraph(nlevels, ndegrees) ==
    /\ addVertices(nlevels, ndegrees)
    /\ addFillMatrixEdges(nlevels, ndegrees)
    /\ fired' = {} /\ running' = {}
    /\ graphs < Graphs /\ graphs' = graphs + 1
    /\ exited' = (vertices' = << >>)

-----------------------------------------------------------------------------
(* The calls: start_computation, minimalBettiNumbers and getBetti(4).          *)

Begin(kind, top, len) ==
    /\ call = Idle /\ ~exited /\ calls < MaxCalls
    /\ calls' = calls + 1
    /\ call' = [kind |-> kind, top |-> top, len |-> len]
    /\ UNCHANGED <<frame, status, minimal>>

Upto(top, from, len) == {c \in Cells : c[1] <= top /\ c[2] \in from..len}

start_computation(limit) ==
    LET top == IF hi > limit THEN limit ELSE hi IN
    /\ Begin("syzygies", top, MaxLength)
    /\ IF parallel
         THEN makeDependencyGraph(MaxLength + 1, Max({0, top - lo + 1})) /\ todo' = {}
         ELSE todo' = Upto(top, 2, MaxLength) /\ UNCHANGED <<graph, graphs, exited>>

\* In the highest row the ranks are not needed at the level after the last.
RanksNeeded(top, len) == Upto(top - 1, 1, len + 1) \cup Upto(top, 1, len)

minimalBettiNumbers(limit, length_limit) ==
    LET top == Max({lo, IF limit < hi THEN limit ELSE hi})
        len == IF length_limit >= MaxLevel THEN MaxLevel - 1 ELSE length_limit
    IN
    /\ Begin("betti", top, len)
    /\ todo' = RanksNeeded(top, len)
    /\ IF parallel THEN makeDependencyGraph(len + 1, top - lo + 1)
                   ELSE UNCHANGED <<graph, graphs, exited>>

getBetti ==
    /\ Begin("betti", hi, MaxLength)
    /\ todo' = Upto(hi, 1, MaxLength)
    /\ UNCHANGED <<graph, graphs, exited>>

-----------------------------------------------------------------------------
(* The fill-and-reduce node of a vertex: it runs when each of its predecessors *)
(* has run, the first one when it is told to.                                  *)

Predecessors(v) == {e[1] : e \in {f \in edges : f[2] = v}}
Told(v) == IF v = 0 THEN TRUE ELSE Predecessors(v) # {} /\ Predecessors(v) \subseteq fired
Ready == {v \in 0..Len(vertices) - 1 : Told(v) /\ v \notin fired \cup running}

\* Flow graph: a call waits until no vertex runs or has to.
InGraph == call # Idle /\ parallel /\ ~exited
Waiting == Ready # {} \/ running # {}

\* A cell outside the table of statuses ends the process; a cell with nothing to
\* construct is passed over.
NodeAsks(v) ==
    /\ v \in Ready /\ InGraph
    /\ IF Label(v) \notin Cells
         THEN exited' = TRUE /\ UNCHANGED <<fired, running>>
         ELSE /\ IF status[Label(v)] = 1
                   THEN running' = running \cup {v} /\ UNCHANGED fired
                   ELSE fired' = fired \cup {v} /\ UNCHANGED running
              /\ UNCHANGED exited
    /\ UNCHANGED <<frame, status, minimal, vertices, edges, todo, call, calls, graphs>>

\* Variant: the message is not handed on.
NodeConstructsSilently(v) ==
    /\ v \in running /\ InGraph
    /\ status' = [status EXCEPT ![Label(v)] = 2]
    /\ UNCHANGED <<frame, minimal, graph, todo, call, calls, graphs, exited>>

\* construct, then the status.
NodeConstructs(v) ==
    /\ v \in running /\ InGraph
    /\ status' = [status EXCEPT ![Label(v)] = 2]
    /\ running' = running \ {v} /\ fired' = fired \cup {v}
    /\ UNCHANGED <<frame, minimal, vertices, edges, todo, call, calls, graphs, exited>>

-----------------------------------------------------------------------------
(* The serial loops: degree by degree, level by level.                         *)

InLoop == ~exited /\ todo # {} /\ ~(InGraph /\ Waiting)
Before(c, d) == c[1] < d[1] \/ (c[1] = d[1] /\ c[2] < d[2])
First == CHOOSE c \in todo : \A d \in todo \ {c} : Before(c, d)

fillinSyzygies ==
    /\ InLoop /\ call.kind = "syzygies"
    /\ todo' = todo \ {First}
    /\ status' = [status EXCEPT ![First] = IF @ = 1 THEN 2 ELSE @]
    /\ UNCHANGED <<frame, minimal, graph, call, calls, graphs, exited>>

\* Variant: the cell is not marked.
computeRankUnmarked ==
    /\ InLoop /\ call.kind = "betti"
    /\ todo' = todo \ {First}
    /\ IF status[First] \in {0, 3}
         THEN UNCHANGED <<status, minimal>>
         ELSE /\ minimal' = [c \in Cells |->
                    IF c = First \/ c = <<First[1] + 1, First[2] - 1>>
                      THEN minimal[c] - Rank(First) ELSE minimal[c]]
              /\ status' = [status EXCEPT ![First] = 2]
    /\ UNCHANGED <<frame, graph, call, calls, graphs, exited>>

\* A rank cancels in its own cell and in the next degree of the level before.
computeRank ==
    /\ InLoop /\ call.kind = "betti"
    /\ todo' = todo \ {First}
    /\ IF status[First] \in {0, 3}
         THEN UNCHANGED <<status, minimal>>
         ELSE /\ minimal' = [c \in Cells |->
                    IF c = First \/ c = <<First[1] + 1, First[2] - 1>>
                      THEN minimal[c] - Rank(First) ELSE minimal[c]]
              /\ status' = [status EXCEPT ![First] = 3]
    /\ UNCHANGED <<frame, graph, call, calls, graphs, exited>>

Returning == call # Idle /\ ~exited /\ todo = {} /\ ~(InGraph /\ Waiting)

Return ==
    /\ Returning
    /\ call' = Idle
    /\ UNCHANGED <<frame, status, minimal, graph, todo, calls, graphs, exited>>

-----------------------------------------------------------------------------
Begins ==
    \/ \E n \in Limits : start_computation(lo + n)
    \/ \E n \in Limits, len \in 0..MaxLevel : minimalBettiNumbers(lo + n, len)
    \/ getBetti

Node == \E v \in 0..Len(vertices) - 1 : NodeAsks(v) \/ NodeConstructs(v)

Steps == Node \/ fillinSyzygies \/ computeRank \/ Return

Next == Begins \/ Steps

Spec == Init /\ [][Next]_vars /\ WF_vars(Steps)

-----------------------------------------------------------------------------
(* Properties *)

\* Every variable has its type; the edges of the graph are between vertices that
\* exist, and a vertex that runs is that of a cell still to be constructed.
TypeOK ==
    /\ status \in [Cells -> 0..3] /\ minimal \in [Cells -> 0..2]
    /\ full \subseteq Cells /\ todo \subseteq Cells
    /\ vertices \in Seq((0..Height - 1) \X Levels)
    /\ edges \subseteq (0..Len(vertices) - 1) \X (0..Len(vertices) - 1)
    /\ fired \subseteq 0..Len(vertices) - 1
    /\ \A v \in running : v \notin fired /\ status[Label(v)] = 1

Constructing == {Label(v) : v \in running}

\* The syzygies of a cell are constructed after those of the level before in every
\* degree up to its own, whichever calls, serial or parallel, did it
\* (fillinSyzygies: "this is not currently checked or remembered").
Prereqs ==
    \A c \in {d \in full : d[2] >= 2 /\ status[d] > 1} \cup Constructing :
        \A i \in lo..c[1] : status[<<i, c[2] - 1>>] # 1

\* start_computation constructs every cell up to the degree limit, and the process
\* is still there.
Constructed ==
    /\ ~exited
    /\ Returning /\ call.kind = "syzygies" =>
           \A c \in Upto(call.top, 2, MaxLength) : status[c] # 1

\* The Betti numbers a call answers with are the minimal ones up to its limits:
\* each rank has been subtracted, from both of its cells, and only once, however
\* the calls before this one were limited.
AnswerExact ==
    Returning /\ call.kind = "betti" =>
        \A c \in Upto(call.top, 0, call.len) :
            minimal[c] = Elements(c) - Rank(c) - Rank(<<c[1] - 1, c[2] + 1>>)

\* Every call ends.
Returns == call # Idle ~> call = Idle
=============================================================================
