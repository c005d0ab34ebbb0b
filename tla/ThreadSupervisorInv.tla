------------------------ MODULE ThreadSupervisorInv -------------------------
(***************************************************************************)
(* The inductive invariant of ThreadSupervisor, in named parts.  TLC       *)
(* checks it on small instances, ThreadSupervisor_proofs proves it.        *)
(***************************************************************************)
EXTENDS ThreadSupervisor

Free      == {"loop", "get", "asleep"}                     \* has no task
Notifying == {"notify", "notifyCancel", "notifyStart"}     \* its task is done
InCall    == {"push", "cancel", "depend", "waiting", "recheck"}
Targeting == {"push", "cancel", "notifyCancel", "notifyStart", "waiting", "recheck"}

\* A worker has a task exactly from getTask to the end of run, outside
\* threads only make interface calls, and nested calls are about a task.
ControlInv ==
    /\ \A w \in Workers : cur[w] = NULL <=> pc[w] \in Free
    /\ \A p \in Clients : pc[p] = "user" \/ pc[p] \in InCall
    /\ \A p \in Procs : pc[p] \in Targeting => target[p] \in Tasks

\* The call a thread is in is the next of its script.
CallInv ==
    \A p \in Procs : pc[p] \in InCall =>
        script[Caller(p)] # <<>> /\ Call(p).op \in TaskOps

\* A task is in the ready queue at most once, and only before it is taken.
QueueInv ==
    /\ \A i, j \in DOMAIN readyTasks : readyTasks[i] = readyTasks[j] => i = j
    /\ \A i \in DOMAIN readyTasks :
          LET t == readyTasks[i] IN
          /\ readyToRun[t]
          /\ ~started[t]
          /\ t \notin runningTasks \cup finishedTasks \cup canceledTasks

\* A task has at most one worker, which says where the task is filed.
HeldInv ==
    /\ \A v, w \in Workers : cur[v] = cur[w] /\ cur[v] # NULL => v = w
    /\ \A w \in Workers : cur[w] # NULL =>
          /\ readyToRun[cur[w]]
          /\ \A i \in DOMAIN readyTasks : readyTasks[i] # cur[w]
          /\ cur[w] \notin canceledTasks
          /\ IF pc[w] \in Notifying
             THEN cur[w] \in finishedTasks \ runningTasks
             ELSE cur[w] \in runningTasks \ finishedTasks
          /\ pc[w] = "begin" => ~started[cur[w]]

\* A task that began, or that is filed, went through the ready queue.
FiledInv ==
    \A t \in Tasks :
        started[t] \/ t \in runningTasks \cup finishedTasks \cup canceledTasks
            => readyToRun[t]

\* Done means filed as finished, and only done tasks are crossed off.
DoneInv ==
    \A t \in Tasks :
        /\ done[t] <=> t \in finishedTasks
        /\ finishedDependencies[t] \subseteq finishedTasks

\* Until a task is canceled its m_CurrentThread is the worker running it.
ThreadInv ==
    \A t \in Tasks : keepRunning[t] /\ currentThread[t] # NULL =>
        /\ cur[currentThread[t]] = t
        /\ pc[currentThread[t]] \notin Notifying \cup {"begin"}

SupervisorInv ==
    /\ TypeOK
    /\ ControlInv
    /\ CallInv
    /\ QueueInv
    /\ HeldInv
    /\ FiledInv
    /\ DoneInv
    /\ ThreadInv
(***************************************************************************)
(* More that every step keeps, given SupervisorInv.                        *)
(***************************************************************************)
\* A task whose function runs or has run has begun; what ends without having
\* begun was canceled.
BegunInv ==
    \A w \in Workers :
        /\ pc[w] \in {"user", "ending"} \cup InCall => started[cur[w]]
        /\ pc[w] = "finish" /\ keepRunning[cur[w]] => started[cur[w]]

\* The result is in place before the task is done.
ResultInv ==
    /\ \A w \in Workers :
          /\ pc[w] = "ending" => result[cur[w]] # NULL
          /\ pc[w] = "finish" /\ keepRunning[cur[w]] => result[cur[w]] # NULL
    /\ \A t \in Tasks : done[t] => result[t] # NULL

\* Only canceled tasks are filed as canceled; a thread in waitOn waits for the
\* task of its call, and sleeps only while that task is not filed.
WaitInv ==
    /\ \A t \in canceledTasks : ~keepRunning[t]
    /\ \A p \in Procs : pc[p] \in {"waiting", "recheck"} => target[p] = Call(p).task
    /\ NoForgottenWaiter

ProgressInv == BegunInv /\ ResultInv /\ WaitInv
(***************************************************************************)
(* Locks and links, whatever the users do.                                 *)
(***************************************************************************)
\* The supervisor's mutex is held by the one thread that is about to ask for a
\* task's, and a task's by its worker from the end of its function on.
LockInv ==
    /\ \A p \in Procs :
          supMutex = p <=> pc[p] \in {"push", "cancel", "notifyCancel", "notifyStart"}
    /\ \A w \in Workers, t \in Tasks :
          taskMutex[t] = w <=> cur[w] = t /\ pc[w] \in {"finish"} \cup Notifying

\* A nested call is the call it looks like; addDependency has added the task to
\* the start set before it adds the dependency.
NestedInv ==
    \A p \in Procs :
        /\ pc[p] \in {"push", "cancel"} => Call(p).op = pc[p] /\ target[p] = Call(p).task
        /\ pc[p] = "depend" =>
              /\ Call(p).op = "addDependency"
              /\ Call(p).task \in startTasks[Call(p).arg]

\* What run() still has to start is in the start set of its task.
StartInv ==
    \A w \in Workers :
        /\ pc[w] \in Notifying => toStart[w] \subseteq startTasks[cur[w]]
        /\ pc[w] = "notifyStart" => target[w] \in startTasks[cur[w]] \ toStart[w]

LocksInv == LockInv /\ NestedInv /\ StartInv

(***************************************************************************)
(* Users with a discipline.                                                *)
(***************************************************************************)
\* Thread p is about to make the call op, or in the middle of it.
Making(p, op) ==
    /\ pc[p] = "user" \/ pc[p] \in InCall
    /\ script[Caller(p)] # <<>>
    /\ Call(p).op = op

\* All who have task t in their start set, but for d, are its dependencies.
LinkedBut(t, d) ==
    \A e \in Tasks \ {d} :
        t \in startTasks[e] => e \in dependencies[t] \cup finishedDependencies[t]

\* Cancel sets are not used; a task is pushed or canceled while it is not in
\* the ready queue, pushed when all its links are dependencies and canceled
\* when nobody depends on it; it gets a dependency before it is ready and
\* before the dependency has ended; and a task in a start set that is not a
\* dependency has no other link.
Disciplined ==
    \A p \in Procs :
        /\ ~Making(p, "addCancel")
        /\ Making(p, "push") =>
              ~readyToRun[Call(p).task] /\ LinkedBut(Call(p).task, NULL)
        /\ Making(p, "cancel") =>
              ~readyToRun[Call(p).task] /\ startTasks[Call(p).task] = {}
        /\ Making(p, "addDependency") =>
              /\ ~readyToRun[Call(p).task]
              /\ keepRunning[Call(p).arg] /\ ~done[Call(p).arg]
              /\ LinkedBut(Call(p).task, Call(p).arg)
        /\ Making(p, "addStart") =>
              /\ ~readyToRun[Call(p).arg]
              /\ dependencies[Call(p).arg] = {}
              /\ \A e \in Tasks \ {Call(p).task} : Call(p).arg \notin startTasks[e]

\* The worker of task d has still to come to task t in d's start set.
Pending(d, t) ==
    \E w \in Workers :
        /\ cur[w] = d
        /\ pc[w] \in Notifying
        /\ t \in toStart[w] \/ (pc[w] = "notifyStart" /\ target[w] = t)

\* Task d, as it is now, will come to start t.
WillStart(d, t) == (~done[d] /\ t \in startTasks[d]) \/ Pending(d, t)

\* Nobody but task d can make t ready.
SoleStarter(d, t) ==
    dependencies[t] = {} /\ \A e \in Tasks \ {d} : t \notin startTasks[e]

\* Somebody is making t depend on d.
Linking(d, t) ==
    \E p \in Procs : pc[p] = "depend" /\ Call(p).task = t /\ Call(p).arg = d

\* A task that somebody will start is not ready yet, and will not be before.
StarterInv ==
    \A d, t \in Tasks : WillStart(d, t) =>
        /\ ~readyToRun[t]
        /\ d \notin finishedDependencies[t]
        /\ d \in dependencies[t] \/ SoleStarter(d, t) \/ Linking(d, t)

\* Every dependency will start its task, and who is parked has one.
OrphanInv ==
    /\ \A t \in Tasks : \A d \in dependencies[t] : Owes(d, t)
    /\ \A t \in waitingTasks : dependencies[t] # {}

NoCancelSets ==
    /\ \A t \in Tasks : cancelTasks[t] = {}
    /\ \A w \in Workers : toCancel[w] = {} /\ pc[w] # "notifyCancel"

DisciplineInv == NoCancelSets /\ StarterInv /\ OrphanInv
=============================================================================
