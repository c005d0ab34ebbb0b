-------------------------- MODULE ThreadSupervisor --------------------------
(***************************************************************************)
(* The thread supervisor of Macaulay2 (src/M2/Macaulay2/system): a fixed   *)
(* pool of worker threads takes tasks from a ready queue and runs them;    *)
(* any thread, and any running task, may push tasks, chain them with       *)
(* dependencies, start sets and cancel sets, cancel them and wait for      *)
(* them.                                                                   *)
(*                                                                         *)
(* One action is one critical section of one mutex.  Where the code nests  *)
(* two mutexes the outer acquisition is an action of its own, so every     *)
(* order in which the supervisor's mutex and the tasks' mutexes can be     *)
(* taken is explored.  The mutexes are default pthread mutexes: a thread   *)
(* that asks for one it holds blocks.                                      *)
(***************************************************************************)
EXTENDS Naturals, Sequences, FiniteSets

CONSTANTS
    Tasks,           \* the ThreadTask objects, created before the run
    Clients,         \* threads outside the pool that use the C interface
    NumThreads,      \* maxNumThreads: worker i has m_LocalThreadId = i
    InitialAllowed,  \* the initial value of currentAllowedThreads
    Scripts,         \* the programs of interface calls the users may execute
    NULL

Workers == 0 .. NumThreads - 1
Procs   == Workers \cup Clients
Callers == Clients \cup Tasks      \* a running task calls the interface too

TaskOps == {"push", "cancel", "wait", "addStart", "addCancel", "addDependency"}
Calls   == [op : TaskOps, task : Tasks, arg : Tasks]
             \cup [op : {"setAllowable"}, task : {NULL}, arg : 1 .. NumThreads]

ASSUME SupervisorAssumption ==
    /\ NumThreads \in Nat \ {0}
    /\ InitialAllowed \in Nat
    /\ Clients \cap Workers = {}
    /\ Clients \cap Tasks = {}
    /\ NULL \notin Procs \cup Tasks
    /\ Scripts \subseteq [Callers -> Seq(Calls)]

VARIABLES
    supMutex,        \* holder of ThreadSupervisor::m_Mutex
    taskMutex,       \* holder of each ThreadTask::m_Mutex
    readyTasks, waitingTasks, runningTasks, finishedTasks, canceledTasks,
    keepRunning, readyToRun, started, running, done, result,
    currentThread,   \* m_CurrentThread
    dependencies, finishedDependencies, startTasks, cancelTasks,
    allowed,         \* currentAllowedThreads
    interrupt, exception,      \* the two thread-local flags of each worker
    pc,              \* where each thread is
    cur,             \* the task a worker took from the queue
    target,          \* the task a nested call of a thread is about
    toCancel, toStart,         \* what run() still has to cancel and to start
    script           \* the interface calls each user has left to make

lists  == <<readyTasks, waitingTasks, runningTasks, finishedTasks, canceledTasks>>
status == <<keepRunning, readyToRun, started, running, done, result, currentThread>>
links  == <<dependencies, finishedDependencies, startTasks, cancelTasks>>
flags  == <<interrupt, exception>>
locals == <<cur, target, toCancel, toStart>>
vars   == <<supMutex, taskMutex, lists, status, links, allowed, flags, pc,
            locals, script>>

Locations ==
    {"loop", "get", "asleep", "begin", "ending", "finish", "notify",  \* workers
     "notifyCancel", "notifyStart",
     "user", "push", "cancel", "depend", "waiting", "recheck"}        \* callers

Init ==
    /\ supMutex = NULL
    /\ taskMutex = [t \in Tasks |-> NULL]
    /\ readyTasks = <<>>
    /\ waitingTasks = {} /\ runningTasks = {}
    /\ finishedTasks = {} /\ canceledTasks = {}
    /\ keepRunning = [t \in Tasks |-> TRUE]
    /\ readyToRun = [t \in Tasks |-> FALSE]
    /\ started = [t \in Tasks |-> FALSE]
    /\ running = [t \in Tasks |-> FALSE]
    /\ done = [t \in Tasks |-> FALSE]
    /\ result = [t \in Tasks |-> NULL]
    /\ currentThread = [t \in Tasks |-> NULL]
    /\ dependencies = [t \in Tasks |-> {}]
    /\ finishedDependencies = [t \in Tasks |-> {}]
    /\ startTasks = [t \in Tasks |-> {}]
    /\ cancelTasks = [t \in Tasks |-> {}]
    /\ allowed = InitialAllowed
    /\ interrupt = [w \in Workers |-> FALSE]
    /\ exception = [w \in Workers |-> FALSE]
    /\ pc = [p \in Procs |-> IF p \in Workers THEN "loop" ELSE "user"]
    /\ cur = [w \in Workers |-> NULL]
    /\ target = [p \in Procs |-> NULL]
    /\ toCancel = [w \in Workers |-> {}]
    /\ toStart = [w \in Workers |-> {}]
    /\ script \in Scripts

(***************************************************************************)
(* Threads, their calls and the two condition variables.                   *)
(*                                                                         *)
(* Some definitions, here and below, are preceded by variants of them that *)
(* hold a plausible bug.  Nothing uses these; put in the place of the      *)
(* definition they make a property fail, which shows that it can fail.     *)
(***************************************************************************)
Caller(p) == IF p \in Workers THEN cur[p] ELSE p

\* Thread p is in user code and its next interface call is op.
Calling(p, op) ==
    /\ pc[p] = "user"
    /\ script[Caller(p)] # <<>>
    /\ Head(script[Caller(p)]).op = op

Call(p) == Head(script[Caller(p)])

Goto(p, loc) == pc' = [pc EXCEPT ![p] = loc]

\* A nested call of p is over.
Leave(p) == target' = [target EXCEPT ![p] = NULL]

\* The interface call of p returns to user code.
Return(p) == script' = [script EXCEPT ![Caller(p)] = Tail(@)]

\* Variant: the signal is forgotten.
SignalLost(f) == {f}

\* pthread_cond_signal on m_TaskReadyToRunCondition wakes one worker, if any
\* sleeps on it, which goes back to test the queue.
SignalReady(f) ==
    LET sleepers == {w \in Workers : f[w] = "asleep"}
    IN  IF sleepers = {} THEN {f} ELSE {[f EXCEPT ![w] = "get"] : w \in sleepers}

\* Variant: the task may be queued again.
EnqueueTwice(t, p, loc) ==
    /\ readyTasks' = Append(readyTasks, t)
    /\ pc' \in SignalReady([pc EXCEPT ![p] = loc])
    /\ UNCHANGED readyToRun

\* Variant: the task jumps the queue.
EnqueueFirst(t, p, loc) ==
    /\ readyToRun' = [readyToRun EXCEPT ![t] = TRUE]
    /\ readyTasks' = <<t>> \o readyTasks
    /\ pc' \in SignalReady([pc EXCEPT ![p] = loc])

\* Task t joins the ready queue, thread p goes on to loc and a worker is woken.
Enqueue(t, p, loc) ==
    /\ readyToRun' = [readyToRun EXCEPT ![t] = TRUE]
    /\ readyTasks' = Append(readyTasks, t)
    /\ pc' \in SignalReady([pc EXCEPT ![p] = loc])

\* Variant: the broadcast is forgotten.
BroadcastNobody(f, t) == f

\* Variant: a signal in place of the broadcast.
BroadcastOne(f, t) ==
    LET sleepers == {p \in Procs : f[p] = "waiting" /\ target[p] = t}
    IN  [p \in Procs |-> IF p \in sleepers /\ p = CHOOSE q \in sleepers : TRUE
                         THEN "recheck" ELSE f[p]]

\* pthread_cond_broadcast on the m_FinishCondition of task t.
BroadcastFinish(f, t) ==
    [p \in Procs |-> IF f[p] = "waiting" /\ target[p] = t THEN "recheck" ELSE f[p]]

(***************************************************************************)
(* The worker loop: threadEntryPoint and getTask.                          *)
(***************************************************************************)
\* A worker whose local id is not below the allowance sleeps for a second
\* and looks again.
Sleep(w) == pc[w] = "loop" /\ allowed <= w /\ UNCHANGED vars

LoopTop(w) ==
    /\ pc[w] = "loop"
    /\ w < allowed
    /\ interrupt' = [interrupt EXCEPT ![w] = FALSE]
    /\ Goto(w, "get")
    /\ UNCHANGED <<supMutex, taskMutex, lists, status, links, allowed, exception,
                   locals, script>>

GetTask(w) ==
    /\ pc[w] = "get"
    /\ supMutex = NULL
    /\ readyTasks # <<>>
    /\ cur' = [cur EXCEPT ![w] = Head(readyTasks)]
    /\ readyTasks' = Tail(readyTasks)
    /\ runningTasks' = runningTasks \cup {Head(readyTasks)}
    /\ Goto(w, "begin")
    /\ UNCHANGED <<supMutex, taskMutex, waitingTasks, finishedTasks, canceledTasks,
                   status, links, allowed, flags, target, toCancel, toStart, script>>

GetTaskWait(w) ==
    /\ pc[w] = "get"
    /\ supMutex = NULL
    /\ readyTasks = <<>>
    /\ Goto(w, "asleep")
    /\ UNCHANGED <<supMutex, taskMutex, lists, status, links, allowed, flags,
                   locals, script>>

\* pthread_cond_wait may return without a signal, from either condition.
SpuriousWakeup(p) ==
    /\ \/ pc[p] = "asleep"  /\ Goto(p, "get")
       \/ pc[p] = "waiting" /\ Goto(p, "recheck")
    /\ UNCHANGED <<supMutex, taskMutex, lists, status, links, allowed, flags,
                   locals, script>>

(***************************************************************************)
(* ThreadTask::run by worker w, on the task it took.                       *)
(***************************************************************************)
\* Variant: m_KeepRunning is not tested.
RunBeginCanceled(w) ==
    LET t == cur[w] IN
    /\ pc[w] = "begin"
    /\ taskMutex[t] = NULL
    /\ currentThread' = [currentThread EXCEPT ![t] = w]
    /\ started' = [started EXCEPT ![t] = TRUE]
    /\ running' = [running EXCEPT ![t] = TRUE]
    /\ Goto(w, "user")
    /\ UNCHANGED <<supMutex, taskMutex, lists, keepRunning, readyToRun, done, result,
                   links, allowed, flags, locals, script>>

RunBegin(w) ==
    LET t == cur[w] IN
    /\ pc[w] = "begin"
    /\ taskMutex[t] = NULL
    /\ keepRunning[t]
    /\ currentThread' = [currentThread EXCEPT ![t] = w]
    /\ started' = [started EXCEPT ![t] = TRUE]
    /\ running' = [running EXCEPT ![t] = TRUE]
    /\ Goto(w, "user")
    /\ UNCHANGED <<supMutex, taskMutex, lists, keepRunning, readyToRun, done, result,
                   links, allowed, flags, locals, script>>

\* Canceled before it began: on to _i_finished with the task's mutex held.
RunCanceled(w) ==
    LET t == cur[w] IN
    /\ pc[w] = "begin"
    /\ taskMutex[t] = NULL
    /\ ~keepRunning[t]
    /\ taskMutex' = [taskMutex EXCEPT ![t] = w]
    /\ Goto(w, "finish")
    /\ UNCHANGED <<supMutex, lists, status, links, allowed, flags, locals, script>>

\* The evaluator meets the exception flag, clears the flags and raises an
\* error, which the task's function catches or which makes it return.
ObserveException(w) ==
    /\ pc[w] = "user"
    /\ exception[w]
    /\ interrupt' = [interrupt EXCEPT ![w] = FALSE]
    /\ exception' = [exception EXCEPT ![w] = FALSE]
    /\ script' \in {script, [script EXCEPT ![cur[w]] = <<>>]}
    /\ UNCHANGED <<supMutex, taskMutex, lists, status, links, allowed, pc, locals>>

\* m_Func returns; m_Result is written without the mutex.
FuncReturn(w) ==
    /\ pc[w] = "user"
    /\ script[cur[w]] = <<>>
    /\ result' = [result EXCEPT ![cur[w]] = cur[w]]
    /\ Goto(w, "ending")
    /\ UNCHANGED <<supMutex, taskMutex, lists, keepRunning, readyToRun, started,
                   running, done, currentThread, links, allowed, flags, locals, script>>

RunEnd(w) ==
    LET t == cur[w] IN
    /\ pc[w] = "ending"
    /\ taskMutex[t] = NULL
    /\ taskMutex' = [taskMutex EXCEPT ![t] = w]
    /\ running' = [running EXCEPT ![t] = FALSE]
    /\ Goto(w, "finish")
    /\ UNCHANGED <<supMutex, lists, keepRunning, readyToRun, started, done, result,
                   currentThread, links, allowed, flags, locals, script>>

\* _i_finished files task t; it also broadcasts, see its users.
Finished(t) ==
    /\ supMutex = NULL
    /\ runningTasks' = runningTasks \ {t}
    /\ IF keepRunning[t]
       THEN finishedTasks' = finishedTasks \cup {t} /\ UNCHANGED canceledTasks
       ELSE canceledTasks' = canceledTasks \cup {t} /\ UNCHANGED finishedTasks

\* Variant: m_CurrentThread is not reset.
FinishDoneStale(w) ==
    LET t == cur[w] IN
    /\ pc[w] = "finish"
    /\ keepRunning[t]
    /\ Finished(t)
    /\ done' = [done EXCEPT ![t] = TRUE]
    /\ toCancel' = [toCancel EXCEPT ![w] = cancelTasks[t]]
    /\ toStart' = [toStart EXCEPT ![w] = startTasks[t]]
    /\ pc' = BroadcastFinish([pc EXCEPT ![w] = "notify"], t)
    /\ UNCHANGED <<supMutex, taskMutex, readyTasks, waitingTasks, keepRunning,
                   readyToRun, started, running, result, currentThread, links, allowed,
                   flags, cur, target, script>>

\* _i_finished, then Done and the loops over the cancel and start sets, all
\* under the task's mutex.
FinishDone(w) ==
    LET t == cur[w] IN
    /\ pc[w] = "finish"
    /\ keepRunning[t]
    /\ Finished(t)
    /\ done' = [done EXCEPT ![t] = TRUE]
    /\ currentThread' = [currentThread EXCEPT ![t] = NULL]
    /\ toCancel' = [toCancel EXCEPT ![w] = cancelTasks[t]]
    /\ toStart' = [toStart EXCEPT ![w] = startTasks[t]]
    /\ pc' = BroadcastFinish([pc EXCEPT ![w] = "notify"], t)
    /\ UNCHANGED <<supMutex, taskMutex, readyTasks, waitingTasks, keepRunning,
                   readyToRun, started, running, result, links, allowed, flags, cur,
                   target, script>>

\* _i_finished of a canceled task: run() returns at once, m_CurrentThread
\* keeps its value.
FinishCanceled(w) ==
    LET t == cur[w] IN
    /\ pc[w] = "finish"
    /\ ~keepRunning[t]
    /\ Finished(t)
    /\ taskMutex' = [taskMutex EXCEPT ![t] = NULL]
    /\ cur' = [cur EXCEPT ![w] = NULL]
    /\ pc' = BroadcastFinish([pc EXCEPT ![w] = "loop"], t)
    /\ UNCHANGED <<supMutex, readyTasks, waitingTasks, status, links, allowed, flags,
                   target, toCancel, toStart, script>>

NotifyCancel(w) ==
    /\ pc[w] = "notify"
    /\ supMutex = NULL
    /\ \E x \in toCancel[w] :
          /\ target' = [target EXCEPT ![w] = x]
          /\ toCancel' = [toCancel EXCEPT ![w] = @ \ {x}]
    /\ supMutex' = w
    /\ Goto(w, "notifyCancel")
    /\ UNCHANGED <<taskMutex, lists, status, links, allowed, flags, cur, toStart, script>>

NotifyStart(w) ==
    /\ pc[w] = "notify"
    /\ toCancel[w] = {}
    /\ supMutex = NULL
    /\ \E x \in toStart[w] :
          /\ target' = [target EXCEPT ![w] = x]
          /\ toStart' = [toStart EXCEPT ![w] = @ \ {x}]
    /\ supMutex' = w
    /\ Goto(w, "notifyStart")
    /\ UNCHANGED <<taskMutex, lists, status, links, allowed, flags, cur, toCancel, script>>

NotifyDone(w) ==
    /\ pc[w] = "notify"
    /\ toCancel[w] = {}
    /\ toStart[w] = {}
    /\ taskMutex' = [taskMutex EXCEPT ![cur[w]] = NULL]
    /\ cur' = [cur EXCEPT ![w] = NULL]
    /\ Goto(w, "loop")
    /\ UNCHANGED <<supMutex, lists, status, links, allowed, flags, target, toCancel, toStart,
                   script>>

\* Variant: the met dependency is not erased.
MetNothing(x, u) == {}

\* Variant: all dependencies are erased.
MetAll(x, u) == dependencies[x]

\* What task x no longer depends on once task u is done.
Met(x, u) == dependencies[x] \cap {u}

\* _i_startTask(x, cur[w]), both mutexes held.
StartTask(w) ==
    LET x    == target[w]
        met  == Met(x, cur[w])
        left == dependencies[x] \ met
    IN
    /\ pc[w] = "notifyStart"
    /\ taskMutex[x] = NULL
    /\ supMutex' = NULL
    /\ Leave(w)
    /\ IF readyToRun[x]
       THEN UNCHANGED <<dependencies, finishedDependencies>>
       ELSE /\ dependencies' = [dependencies EXCEPT ![x] = left]
            /\ finishedDependencies' = [finishedDependencies EXCEPT ![x] = @ \cup met]
    /\ IF readyToRun[x] \/ left # {}
       THEN Goto(w, "notify") /\ UNCHANGED <<waitingTasks, readyToRun, readyTasks>>
       ELSE /\ waitingTasks' = waitingTasks \ {x}
            /\ Enqueue(x, w, "notify")
    /\ UNCHANGED <<taskMutex, runningTasks, finishedTasks, canceledTasks, keepRunning,
                   started, running, done, result, currentThread, startTasks,
                   cancelTasks, allowed, flags, cur, toCancel, toStart, script>>

(***************************************************************************)
(* The interface, called by an outside thread or by a task's function.     *)
(***************************************************************************)
\* pushTask and taskInterrupt take the supervisor's mutex first.
EnterSupervisor(p, op) ==
    /\ Calling(p, op)
    /\ supMutex = NULL
    /\ supMutex' = p
    /\ target' = [target EXCEPT ![p] = Call(p).task]
    /\ Goto(p, op)
    /\ UNCHANGED <<taskMutex, lists, status, links, allowed, flags, cur, toCancel,
                   toStart, script>>

\* Variant: the dependencies are not tested.
PushTaskAnyway(p) ==
    LET t == target[p] IN
    /\ pc[p] = "push"
    /\ taskMutex[t] = NULL
    /\ supMutex' = NULL
    /\ Return(p)
    /\ Leave(p)
    /\ \/ readyToRun[t] /\ Goto(p, "user") /\ UNCHANGED <<readyToRun, readyTasks>>
       \/ ~readyToRun[t] /\ Enqueue(t, p, "user")
    /\ UNCHANGED <<taskMutex, waitingTasks, runningTasks, finishedTasks, canceledTasks,
                   keepRunning, started, running, done, result, currentThread, links,
                   allowed, flags, cur, toCancel, toStart>>

PushTask(p) ==
    LET t == target[p] IN
    /\ pc[p] = "push"
    /\ taskMutex[t] = NULL
    /\ supMutex' = NULL
    /\ Return(p)
    /\ Leave(p)
    /\ \/ /\ readyToRun[t]
          /\ Goto(p, "user")
          /\ UNCHANGED <<readyToRun, readyTasks, waitingTasks>>
       \/ /\ ~readyToRun[t]
          /\ dependencies[t] = {}
          /\ Enqueue(t, p, "user")
          /\ UNCHANGED waitingTasks
       \/ /\ ~readyToRun[t]
          /\ dependencies[t] # {}
          /\ waitingTasks' = waitingTasks \cup {t}
          /\ Goto(p, "user")
          /\ UNCHANGED <<readyToRun, readyTasks>>
    /\ UNCHANGED <<taskMutex, runningTasks, finishedTasks, canceledTasks, keepRunning,
                   started, running, done, result, currentThread, links, allowed,
                   flags, cur, toCancel, toStart>>

\* _i_cancelTask, both mutexes held: for taskInterrupt and for run().
CancelTask(p) ==
    LET t == target[p]
        w == currentThread[t]
    IN
    /\ pc[p] \in {"cancel", "notifyCancel"}
    /\ taskMutex[t] = NULL
    /\ supMutex' = NULL
    /\ Leave(p)
    /\ keepRunning' = [keepRunning EXCEPT ![t] = FALSE]
    /\ IF w = NULL
       THEN UNCHANGED flags
       ELSE /\ interrupt' = [interrupt EXCEPT ![w] = TRUE]
            /\ exception' = [exception EXCEPT ![w] = TRUE]
    /\ \/ pc[p] = "cancel" /\ Goto(p, "user") /\ Return(p)
       \/ pc[p] = "notifyCancel" /\ Goto(p, "notify") /\ UNCHANGED script
    /\ UNCHANGED <<taskMutex, lists, readyToRun, started, running, done, result,
                   currentThread, links, allowed, cur, toCancel, toStart>>

\* waitOnTask: the loop of ThreadTask::waitOn around its condition.
WaitOn(p) ==
    \/ Calling(p, "wait")
    \/ pc[p] = "recheck"

\* Variant: the condition is not tested again after a wakeup.
SettledOnce(p, t) == pc[p] = "recheck" \/ done[t] \/ ~keepRunning[t]

\* What waitOn waits for.
Settled(p, t) == done[t] \/ ~keepRunning[t]

WaitBlock(p) ==
    LET t == Call(p).task IN
    /\ WaitOn(p)
    /\ taskMutex[t] = NULL
    /\ ~Settled(p, t)
    /\ target' = [target EXCEPT ![p] = t]
    /\ Goto(p, "waiting")
    /\ UNCHANGED <<supMutex, taskMutex, lists, status, links, allowed, flags, cur,
                   toCancel, toStart, script>>

WaitReturn(p) ==
    LET t == Call(p).task IN
    /\ WaitOn(p)
    /\ taskMutex[t] = NULL
    /\ Settled(p, t)
    /\ Goto(p, "user")
    /\ Return(p)
    /\ Leave(p)
    /\ UNCHANGED <<supMutex, taskMutex, lists, status, links, allowed, flags, cur,
                   toCancel, toStart>>

AddStartTask(p) ==
    LET call == Call(p) IN
    /\ Calling(p, "addStart")
    /\ taskMutex[call.task] = NULL
    /\ startTasks' = [startTasks EXCEPT ![call.task] = @ \cup {call.arg}]
    /\ Return(p)
    /\ UNCHANGED <<supMutex, taskMutex, lists, status, dependencies, finishedDependencies,
                   cancelTasks, allowed, flags, pc, locals>>

AddCancelTask(p) ==
    LET call == Call(p) IN
    /\ Calling(p, "addCancel")
    /\ taskMutex[call.task] = NULL
    /\ cancelTasks' = [cancelTasks EXCEPT ![call.task] = @ \cup {call.arg}]
    /\ Return(p)
    /\ UNCHANGED <<supMutex, taskMutex, lists, status, dependencies, finishedDependencies,
                   startTasks, allowed, flags, pc, locals>>

\* Variant: the start set of the wrong task.
AddDependencyStartSwapped(p) ==
    LET call == Call(p) IN
    /\ Calling(p, "addDependency")
    /\ taskMutex[call.task] = NULL
    /\ startTasks' = [startTasks EXCEPT ![call.task] = @ \cup {call.arg}]
    /\ Goto(p, "depend")
    /\ UNCHANGED <<supMutex, taskMutex, lists, status, dependencies, finishedDependencies,
                   cancelTasks, allowed, flags, locals, script>>

\* addDependency(task, arg) has two critical sections: first arg's, ...
AddDependencyStart(p) ==
    LET call == Call(p) IN
    /\ Calling(p, "addDependency")
    /\ taskMutex[call.arg] = NULL
    /\ startTasks' = [startTasks EXCEPT ![call.arg] = @ \cup {call.task}]
    /\ Goto(p, "depend")
    /\ UNCHANGED <<supMutex, taskMutex, lists, status, dependencies, finishedDependencies,
                   cancelTasks, allowed, flags, locals, script>>

\* ... then the task's.
AddDependency(p) ==
    LET call == Call(p) IN
    /\ pc[p] = "depend"
    /\ taskMutex[call.task] = NULL
    /\ dependencies' = [dependencies EXCEPT ![call.task] = @ \cup {call.arg}]
    /\ Goto(p, "user")
    /\ Return(p)
    /\ UNCHANGED <<supMutex, taskMutex, lists, status, finishedDependencies, startTasks,
                   cancelTasks, allowed, flags, locals>>

\* Variant: one more than asked for.
SetAllowableExtra(p) ==
    /\ Calling(p, "setAllowable")
    /\ allowed' = Call(p).arg + 1
    /\ Return(p)
    /\ UNCHANGED <<supMutex, taskMutex, lists, status, links, flags, pc, locals>>

SetAllowableThreads(p) ==
    /\ Calling(p, "setAllowable")
    /\ allowed' = Call(p).arg
    /\ Return(p)
    /\ UNCHANGED <<supMutex, taskMutex, lists, status, links, flags, pc, locals>>

WorkerStep(w) ==
    \/ LoopTop(w) \/ GetTask(w) \/ GetTaskWait(w)
    \/ RunBegin(w) \/ RunCanceled(w)
    \/ ObserveException(w) \/ FuncReturn(w) \/ RunEnd(w)
    \/ FinishDone(w) \/ FinishCanceled(w)
    \/ NotifyCancel(w) \/ NotifyStart(w) \/ NotifyDone(w) \/ StartTask(w)

CallStep(p) ==
    \/ EnterSupervisor(p, "push") \/ PushTask(p)
    \/ EnterSupervisor(p, "cancel") \/ CancelTask(p)
    \/ WaitBlock(p) \/ WaitReturn(p)
    \/ AddStartTask(p) \/ AddCancelTask(p)
    \/ AddDependencyStart(p) \/ AddDependency(p)
    \/ SetAllowableThreads(p)

Next ==
    \/ \E w \in Workers : WorkerStep(w) \/ Sleep(w)
    \/ \E p \in Procs : CallStep(p) \/ SpuriousWakeup(p)

Spec == Init /\ [][Next]_vars

\* The operating system runs every thread that can run, a mutex passes to a
\* thread that waits for it, and the functions of tasks return.
Fairness ==
    /\ \A w \in Workers : WF_vars(WorkerStep(w))
    /\ \A p \in Procs : WF_vars(CallStep(p))

FairSpec == Spec /\ Fairness

-----------------------------------------------------------------------------
(***************************************************************************)
(* Correctness.                                                            *)
(***************************************************************************)
\* Every variable has its type.
TypeOK ==
    /\ supMutex \in Procs \cup {NULL}
    /\ taskMutex \in [Tasks -> Workers \cup {NULL}]
    /\ readyTasks \in Seq(Tasks)
    /\ waitingTasks \subseteq Tasks
    /\ runningTasks \subseteq Tasks
    /\ finishedTasks \subseteq Tasks
    /\ canceledTasks \subseteq Tasks
    /\ keepRunning \in [Tasks -> BOOLEAN]
    /\ readyToRun \in [Tasks -> BOOLEAN]
    /\ started \in [Tasks -> BOOLEAN]
    /\ running \in [Tasks -> BOOLEAN]
    /\ done \in [Tasks -> BOOLEAN]
    /\ result \in [Tasks -> Tasks \cup {NULL}]
    /\ currentThread \in [Tasks -> Workers \cup {NULL}]
    /\ dependencies \in [Tasks -> SUBSET Tasks]
    /\ finishedDependencies \in [Tasks -> SUBSET Tasks]
    /\ startTasks \in [Tasks -> SUBSET Tasks]
    /\ cancelTasks \in [Tasks -> SUBSET Tasks]
    /\ allowed \in {InitialAllowed} \cup 1 .. NumThreads
    /\ interrupt \in [Workers -> BOOLEAN]
    /\ exception \in [Workers -> BOOLEAN]
    /\ pc \in [Procs -> Locations]
    /\ cur \in [Workers -> Tasks \cup {NULL}]
    /\ target \in [Procs -> Tasks \cup {NULL}]
    /\ toCancel \in [Workers -> SUBSET Tasks]
    /\ toStart \in [Workers -> SUBSET Tasks]
    /\ script \in [Callers -> Seq(Calls)]

\* No task is lost or run twice: it is queued at most once, at most one
\* worker has it, and a queued task has neither begun nor been filed as
\* running, finished or canceled, however pushes and starts race.
RunOnce ==
    /\ \A i, j \in DOMAIN readyTasks : readyTasks[i] = readyTasks[j] => i = j
    /\ \A v, w \in Workers : cur[v] = cur[w] /\ cur[v] # NULL => v = w
    /\ \A i \in DOMAIN readyTasks :
          LET t == readyTasks[i] IN
          /\ ~started[t]
          /\ t \notin runningTasks \cup finishedTasks \cup canceledTasks
          /\ \A w \in Workers : cur[w] # t

\* A task is queued only when no dependency is left, and every dependency
\* that was crossed off belongs to a task that ran to its end: canceling a
\* task never releases what depends on it.
DependencyOrder ==
    \A t \in Tasks :
        ~readyToRun[t] /\ readyToRun'[t] =>
            /\ dependencies'[t] = {}
            /\ \A d \in finishedDependencies'[t] : done[d]

QueuedWhenDue == [][DependencyOrder]_vars

\* Signals are not lost: while a worker sleeps on m_TaskReadyToRunCondition,
\* each queued task has an awake worker on its way to the queue.
NoLostWakeup ==
    (\E w \in Workers : pc[w] = "asleep") =>
        Len(readyTasks) <= Cardinality({w \in Workers : pc[w] = "get"})

\* Nobody sleeps in waitOn for a task that a worker has filed, as finished or as
\* canceled.  For a task that is canceled while it runs, or before it is pushed,
\* one may: _i_cancelTask wakes nobody, although waitOn is said to "Wait until the
\* task is done or canceled" (supervisor.hpp).
NoForgottenWaiter ==
    \A p \in Procs :
        pc[p] = "waiting" => target[p] \notin finishedTasks \cup canceledTasks

\* A waiter that was woken leaves waitOn only for a task that is canceled,
\* or done with its result in place.
WaitSettled ==
    \A p \in Procs :
        pc[p] = "recheck" /\ pc'[p] = "user" =>
            LET t == target[p]
            IN  ~keepRunning[t] \/ (done[t] /\ result[t] # NULL)

WaitReturnsSettled == [][WaitSettled]_vars

\* Cancellation is final: a canceled task that has not begun never begins,
\* and one that was not done is never done and never releases others.
CancelFinal ==
    \A t \in Tasks : ~keepRunning[t] =>
        /\ ~keepRunning'[t]
        /\ ~started[t] => ~started'[t]
        /\ ~done[t] => ~done'[t] /\ \A u \in Tasks : t \notin finishedDependencies'[u]

CancelIsFinal == [][CancelFinal]_vars

\* Until it is canceled, a task's m_CurrentThread names the worker that is
\* running it, so that the first cancellation interrupts that worker.
CurrentThreadRuns ==
    \A t \in Tasks :
        keepRunning[t] /\ currentThread[t] # NULL => cur[currentThread[t]] = t

\* When a task is done, the tasks of its cancel set get canceled.
CancelSetsHonored ==
    \A t, u \in Tasks : done[t] /\ u \in cancelTasks[t] ~> ~keepRunning[u]

\* Nobody is in a cycle of threads each asking for a mutex the next one
\* holds.  Only the holder of the supervisor's mutex asks for a task's.
WantsSupervisor(q) ==
    \/ pc[q] = "finish"
    \/ pc[q] = "notify" /\ toCancel[q] \cup toStart[q] # {}

NoLockDeadlock ==
    supMutex # NULL =>
        LET q == taskMutex[target[supMutex]]
        IN  q # NULL => q # supMutex /\ ~WantsSupervisor(q)

\* An exception flag seen by a task's function was raised to cancel that
\* task, not one that used the worker before.
InterruptsOnlyCanceled ==
    \A w \in Workers : pc[w] = "user" /\ exception[w] => ~keepRunning[cur[w]]

\* No more tasks are running than currentAllowedThreads, the interpreter's
\* own task included, whenever another one begins.
AllowanceKept ==
    \A w \in Workers :
        pc[w] = "begin" /\ pc'[w] = "user" =>
            Cardinality({t \in Tasks : running'[t]}) <= allowed

AllowanceRespected == [][AllowanceKept]_vars

\* Whoever waits for a task until it is done or canceled finds it no longer
\* running.
WaitStopped ==
    \A p \in Clients :
        WaitOn(p) /\ script'[p] = Tail(script[p]) => ~running[Call(p).task]

WaitMeansStopped == [][WaitStopped]_vars

\* No task begins while a dependency is unmet, and those it had have all run
\* to their end.
NoEarlyStart ==
    \A t \in Tasks : started[t] =>
        /\ dependencies[t] = {}
        /\ \A d \in finishedDependencies[t] : done[d] /\ ~running[d]

\* Dependency d still owes task t its start: it has not ended and has t in
\* its start set, or its worker has not come to t yet.
Owes(d, t) ==
    \/ ~done[d] /\ keepRunning[d] /\ t \in startTasks[d]
    \/ \E w \in Workers :
          /\ cur[w] = d
          /\ pc[w] \in {"notify", "notifyCancel", "notifyStart"}
          /\ t \in toStart[w] \/ (pc[w] = "notifyStart" /\ target[w] = t)

\* A task parked in m_WaitingTasks is not forgotten: all the dependencies it
\* still waits for will start it.
NoOrphan ==
    \A t \in waitingTasks :
        dependencies[t] # {} /\ \A d \in dependencies[t] : Owes(d, t)

\* Every task that is queued or parked comes to its end.
ScheduledRuns ==
    \A t \in Tasks :
        readyToRun[t] \/ t \in waitingTasks ~> t \in finishedTasks \cup canceledTasks

\* Every caller of waitOnTask gets its answer.
WaitersReturn ==
    \A p \in Procs : pc[p] \in {"waiting", "recheck"} ~> pc[p] = "user"
-----------------------------------------------------------------------------
(***************************************************************************)
(* Refinement: the lists and flags of the supervisor tell how far each     *)
(* task has come.                                                          *)
(***************************************************************************)
Phase(t) ==
    IF t \in finishedTasks THEN "finished"
    ELSE IF t \in canceledTasks THEN "canceled"
    ELSE IF t \in runningTasks THEN IF started[t] THEN "running" ELSE "taken"
    ELSE IF readyToRun[t] THEN "queued"
    ELSE "new"

Lifecycle ==
    INSTANCE TaskLifecycle
    WITH queue <- readyTasks, phase <- [t \in Tasks |-> Phase(t)],
         wanted <- keepRunning

\* Whatever the users do, a task lives through the promised phases.
LifecycleKept == Lifecycle!Spec
=============================================================================
