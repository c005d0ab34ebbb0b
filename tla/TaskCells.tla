------------------------------ MODULE TaskCells ------------------------------
(***************************************************************************)
(* Tasks as the interpreter sees them (d/pthread.d): a cell that several   *)
(* interpreter threads share, with a pointer to a task of the supervisor,  *)
(* the value its function returned, and a flag that the value has been     *)
(* retrieved.  Nothing protects a cell; retrieving the value resets the    *)
(* pointer.                                                                *)
(*                                                                         *)
(* The supervisor's own calls take the mutex of the task and are one step  *)
(* each (ThreadSupervisor has them in detail), the others several: between *)
(* two steps of an operation the other threads and the task go on.         *)
(***************************************************************************)
EXTENDS Integers, Sequences, FiniteSets

CONSTANTS
    Tasks,
    Threads,       \* interpreter threads, other than the functions of Tasks
    OneTaker,      \* one thread at a time asks for the result of a task
    MaxOps         \* bound: operations of all threads

ASSUME CellsAssumption ==
    /\ IsFiniteSet(Tasks) /\ IsFiniteSet(Threads)
    /\ OneTaker \in BOOLEAN /\ MaxOps \in Nat

VARIABLES
    pointer,     \* tasks whose cell has its pointer: body.task is not null
    retrieved,   \* body.resultRetrieved
    value,       \* body.returnValue
    ready, started, running, keep, done,      \* the flags of the task
    dependencies, startTasks, cancelTasks,    \* its links
    pc,          \* where each thread is in which operation on which task
    ops,         \* operations begun
    crashed,     \* a null pointer has been followed
    runs,        \* history: how often each function has been applied
    outcome,     \* history: what it returned
    answers      \* history: the values delivered by taskResult

cells == <<pointer, retrieved, value>>
flags == <<ready, started, running, keep, done>>
links == <<dependencies, startTasks, cancelTasks>>
history == <<runs, outcome, answers>>
vars == <<cells, flags, links, pc, ops, crashed, history>>

Idle == [op |-> "none", on |-> CHOOSE t \in Tasks : TRUE, at |-> "start", has |-> "null"]

\* createTask has made every cell; schedule(f) is createTask and then schedule.
Init ==
    /\ pointer = Tasks /\ retrieved = {}
    /\ value = [t \in Tasks |-> "null"]
    /\ ready = {} /\ started = {} /\ running = {} /\ keep = Tasks /\ done = {}
    /\ dependencies = [t \in Tasks |-> {}]
    /\ startTasks = [t \in Tasks |-> {}]
    /\ cancelTasks = [t \in Tasks |-> {}]
    /\ pc = [h \in Threads |-> Idle]
    /\ ops = 0
    /\ crashed = FALSE
    /\ runs = [t \in Tasks |-> 0]
    /\ outcome = [t \in Tasks |-> "none"]
    /\ answers = [t \in Tasks |-> << >>]

-----------------------------------------------------------------------------
(* The supervisor *)

\* Variant: a task is pushed whatever became of it.
PushAgain(t) ==
    /\ ready' = IF dependencies[t] = {} THEN ready \cup {t} ELSE ready
    /\ started' = IF dependencies[t] = {} THEN started \ {t} ELSE started

\* pushTask: a task that is ready already, or waits for others, is left alone.
Push(t) ==
    /\ ready' = IF dependencies[t] = {} THEN ready \cup {t} ELSE ready
    /\ UNCHANGED started

\* run, up to the call of the function; a task canceled before is passed over.
Begin(t) ==
    /\ t \in ready /\ t \notin started /\ t \in keep /\ ~crashed
    /\ started' = started \cup {t} /\ running' = running \cup {t}
    /\ outcome' = [outcome EXCEPT ![t] = "none"]
    /\ UNCHANGED <<cells, ready, keep, done, links, pc, ops, crashed, runs, answers>>

\* startup: the value of the function is stored in the cell, an error is printed.
Startup(t) ==
    /\ t \in running /\ outcome[t] = "none" /\ ~crashed
    /\ runs' = [runs EXCEPT ![t] = @ + 1]
    /\ \E r \in {"value", "null"} :
         /\ outcome' = [outcome EXCEPT ![t] = r]
         /\ value' = IF r = "null" THEN value ELSE [value EXCEPT ![t] = r]
    /\ UNCHANGED <<pointer, retrieved, flags, links, pc, ops, crashed, answers>>

\* The tasks that the end of t starts: _i_startTask.
Due(t) == {u \in startTasks[t] : dependencies[u] \subseteq {t}}

\* run, after the function.  The mutex of t is held until its links are done
\* with, so that nobody sees t in between.
End(t) ==
    /\ t \in running /\ outcome[t] # "none" /\ ~crashed
    /\ running' = running \ {t}
    /\ IF t \in keep
         THEN /\ done' = done \cup {t}
              /\ keep' = keep \ cancelTasks[t]
              /\ ready' = ready \cup Due(t)
              /\ dependencies' = [u \in Tasks |->
                     IF u \in startTasks[t] \ ready THEN dependencies[u] \ {t} ELSE dependencies[u]]
         ELSE UNCHANGED <<done, keep, ready, dependencies>>
    /\ UNCHANGED <<cells, started, startTasks, cancelTasks, pc, ops, crashed, history>>

-----------------------------------------------------------------------------
(* The operations of the interpreter *)

Operations == {"schedule", "cancel", "result", "isReady", "isCanceled"}

At(h, op, l) == pc[h].op = op /\ pc[h].at = l /\ ~crashed
Goto(h, l) == pc' = [pc EXCEPT ![h].at = l]
Return(h) == pc' = [pc EXCEPT ![h] = Idle]
On(h) == pc[h].on

\* taskKeepRunning, taskRunning, taskInterrupt and pushTask lock the task they are
\* given; taskDone, taskStarted and taskReady answer "no" when it is null.
Follow(t) == crashed' = (t \notin pointer)

Call(h, op, t) ==
    /\ pc[h].op = "none" /\ ops < MaxOps /\ ~crashed
    /\ op = "result" /\ OneTaker => \A g \in Threads : ~(pc[g].op = "result" /\ On(g) = t)
    /\ pc' = [pc EXCEPT ![h] = [op |-> op, on |-> t, at |-> "start", has |-> "null"]]
    /\ ops' = ops + 1
    /\ UNCHANGED <<cells, flags, links, crashed, history>>

\* addStartTask, addCancelTask, addDependencyTask.  (Bound: between tasks whose
\* results nobody has retrieved.)
Link(h, t, u, kind) ==
    /\ pc[h].op = "none" /\ ops < MaxOps /\ {t, u} \subseteq pointer /\ t # u /\ ~crashed
    /\ ops' = ops + 1
    /\ startTasks' = CASE kind = "starts"  -> [startTasks EXCEPT ![t] = @ \cup {u}]
                       [] kind = "depends" -> [startTasks EXCEPT ![u] = @ \cup {t}]
                       [] OTHER            -> startTasks
    /\ cancelTasks' = IF kind = "cancels" THEN [cancelTasks EXCEPT ![t] = @ \cup {u}]
                                          ELSE cancelTasks
    /\ dependencies' = IF kind = "depends" THEN [dependencies EXCEPT ![t] = @ \cup {u}]
                                           ELSE dependencies
    /\ UNCHANGED <<cells, flags, pc, crashed, history>>

\* schedule(t): the task may start, and its pointer go, after it was tested.
Schedule(h) ==
    \/ /\ At(h, "schedule", "start")
       /\ IF On(h) \in pointer \cap started THEN Return(h) ELSE Goto(h, "push")
       /\ UNCHANGED <<cells, flags, links, ops, crashed, history>>
    \/ /\ At(h, "schedule", "push")
       /\ Follow(On(h))
       /\ IF On(h) \in pointer THEN Push(On(h)) ELSE UNCHANGED <<ready, started>>
       /\ Return(h)
       /\ UNCHANGED <<cells, running, keep, done, links, ops, history>>

\* cancelTask, which is also the finalizer of a cell that is out of reach.
Cancel(h) ==
    \/ /\ At(h, "cancel", "start")
       /\ IF On(h) \in retrieved \cup (pointer \cap done) THEN Return(h) ELSE Goto(h, "interrupt")
       /\ UNCHANGED <<cells, flags, links, ops, crashed, history>>
    \/ /\ At(h, "cancel", "interrupt")
       /\ Follow(On(h))
       /\ keep' = IF On(h) \in pointer THEN keep \ {On(h)} ELSE keep
       /\ Return(h)
       /\ UNCHANGED <<cells, ready, started, running, done, links, ops, history>>

\* isReady and isCanceled ask twice.
Ask(h) ==
    /\ \/ At(h, "isReady", "start") /\ UNCHANGED crashed
          /\ IF On(h) \in pointer \cap done THEN Goto(h, "again") ELSE Return(h)
       \/ At(h, "isReady", "again") /\ UNCHANGED crashed /\ Return(h)
       \/ At(h, "isCanceled", "start") /\ Follow(On(h))
          /\ IF On(h) \in running THEN Return(h) ELSE Goto(h, "again")
       \/ At(h, "isCanceled", "again") /\ Follow(On(h)) /\ Return(h)
    /\ UNCHANGED <<cells, flags, links, ops, history>>

-----------------------------------------------------------------------------
(* taskResult *)

\* Variant: it is not asked whether the task has been scheduled.
ResultTestsUnscheduled(h) ==
    /\ \/ At(h, "result", "start") /\ UNCHANGED crashed
          /\ IF On(h) \in retrieved THEN Return(h) ELSE Goto(h, "canceled?")
       \/ At(h, "result", "canceled?") /\ Follow(On(h))
          /\ IF On(h) \in keep THEN Goto(h, "done?") ELSE Return(h)
       \/ At(h, "result", "done?") /\ UNCHANGED crashed
          /\ Goto(h, IF On(h) \in pointer \cap done THEN "take" ELSE "wait")
    /\ UNCHANGED <<cells, flags, links, ops, history>>

\* Retrieved already, not scheduled, or canceled: an error.
ResultTests(h) ==
    /\ \/ At(h, "result", "start") /\ UNCHANGED crashed
          /\ IF On(h) \in retrieved THEN Return(h) ELSE Goto(h, "scheduled?")
       \/ At(h, "result", "scheduled?") /\ UNCHANGED crashed
          /\ IF On(h) \in pointer \cap ready THEN Goto(h, "canceled?") ELSE Return(h)
       \/ At(h, "result", "canceled?") /\ Follow(On(h))
          /\ IF On(h) \in keep THEN Goto(h, "done?") ELSE Return(h)
       \/ At(h, "result", "done?") /\ UNCHANGED crashed
          /\ Goto(h, IF On(h) \in pointer \cap done THEN "take" ELSE "wait")
    /\ UNCHANGED <<cells, flags, links, ops, history>>

\* Variant: what the wait returns for is not asked again.
ResultWaitThenTake(h) ==
    /\ At(h, "result", "wait")
    /\ Follow(On(h))
    /\ On(h) \in pointer => On(h) \in done \/ On(h) \notin keep
    /\ Goto(h, "take")
    /\ UNCHANGED <<cells, flags, links, ops, history>>

\* waitOnTask returns when the task is done or to be canceled; taskResult begins again.
ResultWait(h) ==
    /\ At(h, "result", "wait")
    /\ Follow(On(h))
    /\ On(h) \in pointer => On(h) \in done \/ On(h) \notin keep
    /\ Goto(h, "start")
    /\ UNCHANGED <<cells, flags, links, ops, history>>

\* The value is read, reset, marked, and the pointer reset.
ResultTake(h) ==
    \/ /\ At(h, "result", "take")
       /\ pc' = [pc EXCEPT ![h].at = "reset", ![h].has = value[On(h)]]
       /\ UNCHANGED <<cells, flags, links, ops, crashed, history>>
    \/ /\ At(h, "result", "reset")
       /\ value' = [value EXCEPT ![On(h)] = "null"]
       /\ Goto(h, "mark")
       /\ UNCHANGED <<pointer, retrieved, flags, links, ops, crashed, history>>
    \/ /\ At(h, "result", "mark")
       /\ retrieved' = retrieved \cup {On(h)}
       /\ Goto(h, "forget")
       /\ UNCHANGED <<pointer, value, flags, links, ops, crashed, history>>
    \/ /\ At(h, "result", "forget")
       /\ pointer' = pointer \ {On(h)}
       /\ answers' = [answers EXCEPT ![On(h)] = Append(@, pc[h].has)]
       /\ Return(h)
       /\ UNCHANGED <<retrieved, value, flags, links, ops, crashed, runs, outcome>>

-----------------------------------------------------------------------------
ThreadStep(h) ==
    \/ Schedule(h) \/ Cancel(h) \/ Ask(h)
    \/ ResultTests(h) \/ ResultWait(h) \/ ResultTake(h)

Calls(h) ==
    \/ \E t \in Tasks, op \in Operations : Call(h, op, t)
    \/ \E t, u \in Tasks, kind \in {"starts", "cancels", "depends"} : Link(h, t, u, kind)

TaskStep(t) == Begin(t) \/ Startup(t) \/ End(t)

Next == (\E t \in Tasks : TaskStep(t)) \/ \E h \in Threads : ThreadStep(h) \/ Calls(h)

Spec ==
    /\ Init /\ [][Next]_vars
    /\ \A t \in Tasks : WF_vars(TaskStep(t))
    /\ \A h \in Threads : WF_vars(ThreadStep(h))

-----------------------------------------------------------------------------
(* Properties *)

\* taskResult delivers the value of a function once, and never a value that the
\* function has not returned yet, however the task is canceled, pushed again or
\* asked about meanwhile.
ResultOnce ==
    \A t \in Tasks :
        /\ Len(answers[t]) <= 1
        /\ \A i \in 1..Len(answers[t]) : answers[t][i] = outcome[t]

\* The function of a task is applied once: schedule tests that the task has not
\* started and pushes it later.
FunctionRunsOnce == \A t \in Tasks : runs[t] <= 1

\* A thread that waits for a result gets an answer, unless the program has crashed.
TakersReturn ==
    \A h \in Threads : pc[h].op = "result" ~> pc[h].op # "result" \/ crashed

\* No null pointer is followed, whatever is done with a task after its result has
\* been retrieved, or at that moment.
NoNullTask == ~crashed

\* A task that is done and not yet retrieved has a result to retrieve (isReady).
ReadyIsRetrievable ==
    \A t \in Tasks : t \in pointer \cap done /\ t \notin retrieved => t \in keep
=============================================================================
