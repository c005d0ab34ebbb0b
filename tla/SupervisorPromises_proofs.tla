----------------------- MODULE SupervisorPromises_proofs -----------------------
(***************************************************************************)
(* What the thread supervisor promises to those who use it, proved for any *)
(* number of tasks, workers and clients.  In order:                        *)
(*   - steps have one mover; a task that ran has begun and has its result  *)
(*     before it is done; nobody in waitOn is forgotten;                   *)
(*   - the supervisor implements TaskLifecycle;                            *)
(*   - no signal of the ready condition is lost;                           *)
(*   - who holds which mutex, and what a nested call is in the middle of;  *)
(*   - for users with a discipline: no deadlock of mutexes, no orphan.     *)
(* The invariants are those of ThreadSupervisorInv; SupervisorInv itself   *)
(* is proved in ThreadSupervisor_proofs.                                   *)
(***************************************************************************)
EXTENDS ThreadSupervisor_proofs, FiniteSetTheorems

-----------------------------------------------------------------------------
(***************************************************************************)
(* Steps have one mover.                                                   *)
(***************************************************************************)
\* What a step of thread p leaves to the other threads: their locals, their
\* scripts, and their places but for those it wakes up.
OnlyMoves(p) ==
    \A q \in Procs \ {p} :
        /\ \/ pc'[q] = pc[q]
           \/ q \in Workers /\ pc[q] = "asleep" /\ pc'[q] = "get"
           \/ pc[q] = "waiting" /\ pc'[q] = "recheck"
        /\ target'[q] = target[q]
        /\ q \in Workers => /\ cur'[q] = cur[q]
                            /\ toCancel'[q] = toCancel[q]
                            /\ toStart'[q] = toStart[q]
        /\ pc[q] = "user" \/ pc[q] \in InCall => script'[Caller(q)] = script[Caller(q)]

\* The steps of a worker that are about its task move that worker alone.
LEMMA WorkerMoves ==
    ASSUME SupervisorInv, NEW w \in Workers, WorkerStep(w)
    PROVE  OnlyMoves(w)
<1>0. TypeOK /\ ControlInv /\ HeldInv
  BY DEF SupervisorInv
<1> DEFINE Locals ==
      \A q \in Procs \ {w} :
        /\ target'[q] = target[q]
        /\ q \in Workers => /\ cur'[q] = cur[q]
                            /\ toCancel'[q] = toCancel[q]
                            /\ toStart'[q] = toStart[q]
<1>1. Locals
  <2>1. CASE LoopTop(w) \/ GetTask(w) \/ GetTaskWait(w) \/ RunBegin(w) \/ RunCanceled(w)
    BY <1>0, <2>1 DEF LoopTop, GetTask, GetTaskWait, RunBegin, RunCanceled, TypeOK, locals
  <2>2. CASE ObserveException(w) \/ FuncReturn(w) \/ RunEnd(w) \/ FinishDone(w)
             \/ FinishCanceled(w)
    BY <1>0, <2>2 DEF ObserveException, FuncReturn, RunEnd, FinishDone, FinishCanceled,
       TypeOK, locals
  <2>3. CASE NotifyCancel(w) \/ NotifyStart(w) \/ NotifyDone(w) \/ StartTask(w)
    BY <1>0, <2>3 DEF NotifyCancel, NotifyStart, NotifyDone, StartTask, Leave, TypeOK
  <2> QED
    BY <2>1, <2>2, <2>3 DEF WorkerStep
<1>2. ASSUME NEW q \in Procs \ {w}
      PROVE  \/ pc'[q] = pc[q]
             \/ q \in Workers /\ pc[q] = "asleep" /\ pc'[q] = "get"
             \/ pc[q] = "waiting" /\ pc'[q] = "recheck"
  <2>1. CASE LoopTop(w) \/ GetTask(w) \/ GetTaskWait(w) \/ RunBegin(w) \/ RunCanceled(w)
             \/ ObserveException(w) \/ FuncReturn(w) \/ RunEnd(w)
             \/ NotifyCancel(w) \/ NotifyStart(w) \/ NotifyDone(w)
    BY <1>0, <2>1 DEF LoopTop, GetTask, GetTaskWait, RunBegin, RunCanceled,
       ObserveException, FuncReturn, RunEnd, NotifyCancel, NotifyStart, NotifyDone,
       Goto, TypeOK
  <2>2. CASE FinishDone(w) \/ FinishCanceled(w)
    <3>1. "notify" \in Locations /\ "loop" \in Locations
      BY DEF Locations
    <3>2. \/ pc' = BroadcastFinish([pc EXCEPT ![w] = "notify"], cur[w])
          \/ pc' = BroadcastFinish([pc EXCEPT ![w] = "loop"], cur[w])
      BY <2>2 DEF FinishDone, FinishCanceled
    <3> QED
      BY <1>0, <3>1, <3>2, GotoAndBroadcast, Distinct
  <2>3. CASE StartTask(w)
    <3>1. "notify" \in Locations
      BY DEF Locations
    <3>2. \/ pc' = [pc EXCEPT ![w] = "notify"]
          \/ pc' \in SignalReady([pc EXCEPT ![w] = "notify"])
      BY <2>3 DEF StartTask, Enqueue, Goto
    <3> QED
      BY <1>0, <3>1, <3>2, GotoAndSignal, Distinct
  <2> QED
    BY <2>1, <2>2, <2>3 DEF WorkerStep
<1>3. ASSUME NEW q \in Procs \ {w}, pc[q] = "user" \/ pc[q] \in InCall
      PROVE  script'[Caller(q)] = script[Caller(q)]
  <2>1. CASE ObserveException(w)
    <3>1. Caller(q) # cur[w] /\ Caller(q) \in Callers
      BY <1>0, <1>3, <2>1, CallFacts, Distinct DEF ObserveException
    <3> QED
      BY <1>0, <2>1, <3>1 DEF ObserveException, TypeOK
  <2>2. CASE UNCHANGED script
    BY <2>2
  <2> QED
    BY <2>1, <2>2 DEF WorkerStep, LoopTop, GetTask, GetTaskWait, RunBegin, RunCanceled,
       FuncReturn, RunEnd, FinishDone, FinishCanceled, NotifyCancel, NotifyStart,
       NotifyDone, StartTask
<1> QED
  BY <1>1, <1>2, <1>3 DEF OnlyMoves

\* An interface call moves its caller alone.
LEMMA CallMoves ==
    ASSUME SupervisorInv, NEW p \in Procs, CallStep(p)
    PROVE  OnlyMoves(p)
<1>0. TypeOK /\ ControlInv /\ HeldInv
  BY DEF SupervisorInv
<1> DEFINE Locals ==
      \A q \in Procs \ {p} :
        /\ target'[q] = target[q]
        /\ q \in Workers => /\ cur'[q] = cur[q]
                            /\ toCancel'[q] = toCancel[q]
                            /\ toStart'[q] = toStart[q]
<1>1. Locals
  BY <1>0 DEF CallStep, EnterSupervisor, PushTask, CancelTask, WaitBlock, WaitReturn,
     AddStartTask, AddCancelTask, AddDependencyStart, AddDependency, SetAllowableThreads,
     Leave, TypeOK, locals
<1>2. ASSUME NEW q \in Procs \ {p}
      PROVE  \/ pc'[q] = pc[q]
             \/ q \in Workers /\ pc[q] = "asleep" /\ pc'[q] = "get"
             \/ pc[q] = "waiting" /\ pc'[q] = "recheck"
  <2>1. CASE PushTask(p)
    <3>1. "user" \in Locations
      BY DEF Locations
    <3>2. \/ pc' = [pc EXCEPT ![p] = "user"]
          \/ pc' \in SignalReady([pc EXCEPT ![p] = "user"])
      BY <2>1 DEF PushTask, Enqueue, Goto
    <3> QED
      BY <1>0, <3>1, <3>2, GotoAndSignal
  <2>2. CASE ~PushTask(p)
    BY <1>0, <2>2 DEF CallStep, EnterSupervisor, CancelTask, WaitBlock, WaitReturn,
       AddStartTask, AddCancelTask, AddDependencyStart, AddDependency,
       SetAllowableThreads, Goto, TypeOK, locals
  <2> QED
    BY <2>1, <2>2
<1>3. ASSUME NEW q \in Procs \ {p}, pc[q] = "user" \/ pc[q] \in InCall
      PROVE  script'[Caller(q)] = script[Caller(q)]
  <2>1. UNCHANGED script \/ Return(p)
    BY DEF CallStep, EnterSupervisor, PushTask, CancelTask, WaitBlock, WaitReturn,
       AddStartTask, AddCancelTask, AddDependencyStart, AddDependency,
       SetAllowableThreads
  <2>2. pc[p] = "user" \/ pc[p] \in InCall \/ UNCHANGED script
    BY DEF CallStep, EnterSupervisor, PushTask, CancelTask, WaitBlock, WaitReturn, WaitOn,
       AddStartTask, AddCancelTask, AddDependencyStart, AddDependency,
       SetAllowableThreads, Calling, InCall
  <2>3. pc[p] = "user" \/ pc[p] \in InCall => Caller(q) # Caller(p)
    BY <1>0, <1>3, CallFacts
  <2>4. Caller(q) \in Callers
    BY <1>0, <1>3, CallFacts
  <2> QED
    BY <1>0, <2>1, <2>2, <2>3, <2>4 DEF Return, TypeOK
<1> QED
  BY <1>1, <1>2, <1>3 DEF OnlyMoves

\* So does a wakeup, from either condition.
LEMMA WakeupMoves ==
    ASSUME SupervisorInv, NEW p \in Procs, SpuriousWakeup(p)
    PROVE  OnlyMoves(p)
  BY DEF SupervisorInv, TypeOK, SpuriousWakeup, Goto, OnlyMoves, locals

\* Every step has a mover.
LEMMA Movers ==
    ASSUME SupervisorInv, [Next]_vars
    PROVE  \/ UNCHANGED vars
           \/ \E w \in Workers : WorkerStep(w) /\ OnlyMoves(w)
           \/ \E p \in Procs : (CallStep(p) \/ SpuriousWakeup(p)) /\ OnlyMoves(p)
  BY WorkerMoves, CallMoves, WakeupMoves DEF Next, Sleep

-----------------------------------------------------------------------------
(***************************************************************************)
(* Waiting for a task and its result.                                      *)
(***************************************************************************)
\* What has begun or is done stays so, and nobody takes back a cancellation.
LEMMA Monotone ==
    ASSUME SupervisorInv, [Next]_vars, NEW t \in Tasks
    PROVE  /\ started[t] => started'[t]
           /\ done[t] => done'[t]
           /\ keepRunning'[t] => keepRunning[t]
<1>0. /\ started \in [Tasks -> BOOLEAN]
      /\ done \in [Tasks -> BOOLEAN]
      /\ keepRunning \in [Tasks -> BOOLEAN]
  BY DEF SupervisorInv, TypeOK
<1>1. started[t] => started'[t]
  BY <1>0, ProgressSteps DEF RunBegin
<1>2. done[t] => done'[t]
  BY <1>0, ProgressSteps DEF FinishDone
<1>3. keepRunning'[t] => keepRunning[t]
  BY <1>0, ProgressSteps DEF CancelTask
<1> QED
  BY <1>1, <1>2, <1>3

\* How a thread comes to each of the places the invariants are about, when it
\* is the one that moves.
LEMMA MoverPlaces ==
    ASSUME SupervisorInv, NEW p \in Procs,
           (p \in Workers /\ WorkerStep(p)) \/ CallStep(p) \/ SpuriousWakeup(p)
    PROVE  /\ pc'[p] \in {"user"} \cup InCall =>
                 \/ p \in Workers /\ RunBegin(p)
                 \/ /\ pc[p] \in {"user"} \cup InCall
                    /\ UNCHANGED cur
           /\ pc'[p] = "ending" => p \in Workers /\ FuncReturn(p)
           /\ pc'[p] = "finish" => p \in Workers /\ (RunCanceled(p) \/ RunEnd(p))
           /\ pc'[p] = "waiting" => WaitBlock(p)
           /\ pc'[p] = "recheck" => pc[p] = "waiting" /\ SpuriousWakeup(p)
<1>0. TypeOK /\ ControlInv /\ (p \in Clients => p \notin Workers)
  BY Distinct DEF SupervisorInv
<1>1. ASSUME p \in Workers, WorkerStep(p)
      PROVE  /\ pc'[p] \in {"user"} \cup InCall =>
                   /\ pc'[p] = "user"
                   /\ RunBegin(p) \/ (pc[p] = "user" /\ UNCHANGED cur)
             /\ pc'[p] = "ending" => FuncReturn(p)
             /\ pc'[p] = "finish" => RunCanceled(p) \/ RunEnd(p)
  <2>1. CASE FinishDone(p) \/ FinishCanceled(p)
    <3>1. "notify" \in Locations /\ "loop" \in Locations
      BY DEF Locations
    <3>2. \/ pc' = BroadcastFinish([pc EXCEPT ![p] = "notify"], cur[p])
          \/ pc' = BroadcastFinish([pc EXCEPT ![p] = "loop"], cur[p])
      BY <2>1 DEF FinishDone, FinishCanceled
    <3>3. pc'[p] = "notify" \/ pc'[p] = "loop"
      BY <1>0, <3>1, <3>2, GotoAndBroadcast
    <3> QED
      BY <3>3 DEF InCall
  <2>2. CASE StartTask(p)
    <3>1. "notify" \in Locations
      BY DEF Locations
    <3>2. \/ pc' = [pc EXCEPT ![p] = "notify"]
          \/ pc' \in SignalReady([pc EXCEPT ![p] = "notify"])
      BY <2>2 DEF StartTask, Enqueue, Goto
    <3>3. pc'[p] = "notify"
      BY <1>0, <3>1, <3>2, GotoAndSignal
    <3> QED
      BY <3>3 DEF InCall
  <2>3. CASE \/ LoopTop(p) \/ GetTask(p) \/ GetTaskWait(p) \/ RunBegin(p) \/ RunCanceled(p)
             \/ ObserveException(p) \/ FuncReturn(p) \/ RunEnd(p)
             \/ NotifyCancel(p) \/ NotifyStart(p) \/ NotifyDone(p)
    BY <1>0, <2>3 DEF LoopTop, GetTask, GetTaskWait, RunBegin, RunCanceled,
       ObserveException, FuncReturn, RunEnd, NotifyCancel, NotifyStart, NotifyDone,
       Goto, TypeOK, InCall, locals
  <2> QED
    BY <1>1, <2>1, <2>2, <2>3 DEF WorkerStep
<1>2. ASSUME CallStep(p)
      PROVE  /\ UNCHANGED cur
             /\ \/ pc[p] \in {"user"} \cup InCall /\ pc'[p] \in {"user"} \cup InCall
                \/ pc[p] = "notifyCancel" /\ pc'[p] = "notify"
             /\ pc'[p] = "waiting" => WaitBlock(p)
             /\ pc'[p] # "recheck"
  <2>1. CASE PushTask(p)
    <3>1. "user" \in Locations
      BY DEF Locations
    <3>2. \/ pc' = [pc EXCEPT ![p] = "user"]
          \/ pc' \in SignalReady([pc EXCEPT ![p] = "user"])
      BY <2>1 DEF PushTask, Enqueue, Goto
    <3>3. pc'[p] = "user"
      BY <1>0, <3>1, <3>2, GotoAndSignal
    <3> QED
      BY <2>1, <3>3 DEF PushTask, InCall
  <2>2. CASE ~PushTask(p)
    BY <1>0, <1>2, <2>2 DEF CallStep, EnterSupervisor, CancelTask, WaitBlock, WaitReturn, WaitOn,
       AddStartTask, AddCancelTask, AddDependencyStart, AddDependency, Calling,
       SetAllowableThreads, Goto, TypeOK, locals, InCall
  <2> QED
    BY <2>1, <2>2
<1>3. ASSUME SpuriousWakeup(p)
      PROVE  /\ UNCHANGED cur
             /\ \/ pc[p] = "asleep" /\ pc'[p] = "get"
                \/ pc[p] = "waiting" /\ pc'[p] = "recheck"
  BY <1>0, <1>3 DEF SpuriousWakeup, Goto, TypeOK, locals
<1>4. CASE p \in Workers /\ WorkerStep(p)
  BY <1>1, <1>4 DEF InCall
<1>5. CASE CallStep(p)
  BY <1>2, <1>5 DEF InCall
<1>6. CASE SpuriousWakeup(p)
  BY <1>3, <1>6 DEF InCall
<1> QED
  BY <1>4, <1>5, <1>6

\* What runs or has run has begun.
LEMMA BegunInvariant ==
    ASSUME SupervisorInv, BegunInv, [Next]_vars
    PROVE  BegunInv'
<1>0. TypeOK /\ ControlInv /\ TypeOK'
  BY NextInv DEF SupervisorInv
<1> SUFFICES ASSUME NEW v \in Workers,
                    \/ pc'[v] \in {"user", "ending"} \cup InCall
                    \/ pc'[v] = "finish" /\ keepRunning'[cur'[v]]
             PROVE  started'[cur'[v]]
  BY DEF BegunInv
<1>1. CASE UNCHANGED vars
  BY <1>1 DEF BegunInv, vars, status, locals
<1>2. ASSUME NEW p \in Procs, p # v, OnlyMoves(p) PROVE started'[cur'[v]]
  <2>1. /\ cur'[v] = cur[v] /\ cur[v] \in Tasks
        /\ pc'[v] = pc[v] \/ pc[v] \in InCall
    BY <1>0, <1>2, Distinct DEF OnlyMoves, ControlInv, TypeOK, Free, InCall
  <2> QED
    BY <2>1, Monotone DEF BegunInv
<1>3. ASSUME WorkerStep(v) \/ CallStep(v) \/ SpuriousWakeup(v) PROVE started'[cur'[v]]
  <2>1. CASE RunBegin(v)
    BY <1>0, <2>1, Distinct DEF RunBegin, TypeOK, ControlInv, Free, locals
  <2>2. CASE RunCanceled(v)
    BY <1>0, <2>2, Distinct DEF RunCanceled, TypeOK, status, locals, Goto, InCall
  <2>3. CASE FuncReturn(v) \/ RunEnd(v)
    BY <1>0, <2>3 DEF FuncReturn, RunEnd, BegunInv, locals
  <2>4. CASE pc[v] \in {"user"} \cup InCall /\ UNCHANGED cur
    <3>1. cur[v] \in Tasks
      <4>1. pc[v] \notin Free
        BY <2>4 DEF Free, InCall
      <4> QED
        BY <1>0, <4>1 DEF ControlInv, TypeOK
    <3> QED
      BY <2>4, <3>1, Monotone DEF BegunInv
  <2> QED
    BY <1>3, <2>1, <2>2, <2>3, <2>4, MoverPlaces, Distinct
<1> QED
  BY <1>1, <1>2, <1>3, Movers, Distinct

\* The result is written before the task is done.
LEMMA ResultInvariant ==
    ASSUME SupervisorInv, ResultInv, [Next]_vars
    PROVE  ResultInv'
<1>0. TypeOK /\ ControlInv
  BY DEF SupervisorInv
<1>a. \A t \in Tasks : result[t] # NULL => result'[t] # NULL
  <2>1. UNCHANGED result \/ \E w \in Workers : FuncReturn(w)
    BY DEF Next, Sleep, WorkerStep, LoopTop, GetTask, GetTaskWait, RunBegin, RunCanceled,
     ObserveException, RunEnd, FinishDone, FinishCanceled, NotifyCancel,
     NotifyStart, NotifyDone, StartTask, CallStep, EnterSupervisor, PushTask, CancelTask,
     WaitBlock, WaitReturn, AddStartTask, AddCancelTask, AddDependencyStart,
     AddDependency, SetAllowableThreads, SpuriousWakeup, vars, status
  <2>2. ASSUME NEW w \in Workers, FuncReturn(w), NEW t \in Tasks, result[t] # NULL
        PROVE  result'[t] # NULL
    BY <1>0, <2>2, Distinct DEF FuncReturn, TypeOK
  <2> QED
    BY <2>1, <2>2
<1>1. ASSUME NEW v \in Workers,
             \/ pc'[v] = "ending"
             \/ pc'[v] = "finish" /\ keepRunning'[cur'[v]]
      PROVE  result'[cur'[v]] # NULL
  <2>1. CASE UNCHANGED vars
    BY <1>1, <2>1 DEF ResultInv, vars, status, locals
  <2>2. ASSUME NEW p \in Procs, p # v, OnlyMoves(p) PROVE result'[cur'[v]] # NULL
    <3>1. cur'[v] = cur[v] /\ pc'[v] = pc[v]
      BY <1>1, <2>2, Distinct DEF OnlyMoves
    <3>2. cur[v] \in Tasks
      BY <1>0, <1>1, <3>1 DEF TypeOK, ControlInv, Free
    <3> QED
      BY <1>1, <1>a, <3>1, <3>2, Monotone DEF ResultInv
  <2>3. ASSUME WorkerStep(v) \/ CallStep(v) \/ SpuriousWakeup(v)
        PROVE  result'[cur'[v]] # NULL
    <3>1. CASE FuncReturn(v)
      <4>1. cur[v] \in Tasks /\ cur'[v] = cur[v]
        BY <1>0, <3>1 DEF FuncReturn, TypeOK, ControlInv, Free, locals
      <4> QED
        BY <1>0, <3>1, <4>1, Distinct DEF FuncReturn, TypeOK
    <3>2. CASE RunCanceled(v)
      BY <1>0, <1>1, <3>2, Distinct DEF RunCanceled, TypeOK, Goto, status, locals
    <3>3. CASE RunEnd(v)
      BY <3>3 DEF RunEnd, ResultInv, locals
    <3> QED
      BY <1>1, <2>3, <3>1, <3>2, <3>3, MoverPlaces, Distinct
  <2> QED
    BY <2>1, <2>2, <2>3, Movers, Distinct
<1>2. ASSUME NEW t \in Tasks, done'[t] PROVE result'[t] # NULL
  <2>1. ASSUME NEW w \in Workers, FinishDone(w), ~done[t] PROVE result[t] # NULL
    <3>1. t = cur[w]
      BY <1>0, <1>2, <2>1 DEF FinishDone, TypeOK
    <3> QED
      BY <2>1, <3>1 DEF FinishDone, ResultInv
  <2> QED
    BY <1>2, <1>a, <2>1, ProgressSteps DEF ResultInv
<1> QED
  BY <1>1, <1>2 DEF ResultInv

\* Only the last steps of run file a task as finished or canceled, and they
\* wake up all who wait for it.
LEMMA FilingSteps ==
    ASSUME SupervisorInv, [Next]_vars
    PROVE  \/ UNCHANGED <<finishedTasks, canceledTasks>>
           \/ \E w \in Workers :
                 /\ cur[w] \in Tasks
                 /\ finishedTasks' \cup canceledTasks'
                        = finishedTasks \cup canceledTasks \cup {cur[w]}
                 /\ \/ FinishDone(w) /\ UNCHANGED canceledTasks
                    \/ /\ FinishCanceled(w)
                       /\ canceledTasks' = canceledTasks \cup {cur[w]}
                       /\ ~keepRunning[cur[w]]
                 /\ \A q \in Procs :
                       pc'[q] = "waiting" => pc[q] = "waiting" /\ target[q] # cur[w]
<1>0. TypeOK /\ ControlInv
  BY DEF SupervisorInv
<1>1. \/ UNCHANGED <<finishedTasks, canceledTasks>>
      \/ \E w \in Workers : FinishDone(w) \/ FinishCanceled(w)
  BY DEF Next, Sleep, WorkerStep, LoopTop, GetTask, GetTaskWait, RunBegin, RunCanceled,
     ObserveException, FuncReturn, RunEnd, NotifyCancel,
     NotifyStart, NotifyDone, StartTask, CallStep, EnterSupervisor, PushTask, CancelTask,
     WaitBlock, WaitReturn, AddStartTask, AddCancelTask, AddDependencyStart,
     AddDependency, SetAllowableThreads, SpuriousWakeup, vars, lists
<1>2. ASSUME NEW w \in Workers, FinishDone(w) \/ FinishCanceled(w)
      PROVE  /\ cur[w] \in Tasks
             /\ finishedTasks' \cup canceledTasks'
                    = finishedTasks \cup canceledTasks \cup {cur[w]}
             /\ \/ FinishDone(w) /\ UNCHANGED canceledTasks
                \/ /\ FinishCanceled(w)
                   /\ canceledTasks' = canceledTasks \cup {cur[w]}
                   /\ ~keepRunning[cur[w]]
             /\ \A q \in Procs :
                   pc'[q] = "waiting" => pc[q] = "waiting" /\ target[q] # cur[w]
  <2>1. cur[w] \in Tasks
    BY <1>0, <1>2 DEF FinishDone, FinishCanceled, TypeOK, ControlInv, Free
  <2>2. \/ pc' = BroadcastFinish([pc EXCEPT ![w] = "notify"], cur[w])
        \/ pc' = BroadcastFinish([pc EXCEPT ![w] = "loop"], cur[w])
    BY <1>2 DEF FinishDone, FinishCanceled
  <2>3. \A q \in Procs : pc'[q] = "waiting" => pc[q] = "waiting" /\ target[q] # cur[w]
    BY <1>0, <2>2, Distinct DEF BroadcastFinish, TypeOK
  <2> QED
    BY <1>2, <2>1, <2>3 DEF FinishDone, FinishCanceled, Finished
<1> QED
  BY <1>1, <1>2

\* Nobody sleeps in waitOn for a task that has been filed.
LEMMA WaitInvariant ==
    ASSUME SupervisorInv, WaitInv, [Next]_vars
    PROVE  WaitInv'
<1>0. TypeOK /\ ControlInv /\ HeldInv /\ DoneInv
  BY DEF SupervisorInv
<1>1. ASSUME NEW t \in canceledTasks' PROVE ~keepRunning'[t]
  <2>1. t \in Tasks /\ (t \in canceledTasks \/ ~keepRunning[t])
    BY <1>0, <1>1, FilingSteps DEF TypeOK
  <2> QED
    BY <2>1, Monotone DEF WaitInv
<1>2. ASSUME NEW q \in Procs, pc'[q] \in {"waiting", "recheck"}
      PROVE  /\ target'[q] = Call(q)'.task
             /\ \/ pc[q] \in {"waiting", "recheck"} /\ target'[q] = target[q]
                \/ WaitBlock(q)
  <2>1. CASE UNCHANGED vars
    BY <1>2, <2>1 DEF WaitInv, vars, locals, Call, Caller
  <2>2. ASSUME NEW p \in Procs, p # q, OnlyMoves(p)
        PROVE  target'[q] = Call(q)'.task /\ pc[q] \in {"waiting", "recheck"}
               /\ target'[q] = target[q]
    <3>1. /\ target'[q] = target[q] /\ pc[q] \in {"waiting", "recheck"}
          /\ script'[Caller(q)] = script[Caller(q)]
          /\ q \in Workers => cur'[q] = cur[q]
      BY <1>2, <2>2, Distinct DEF OnlyMoves, InCall
    <3>2. Call(q)' = Call(q)
      BY <3>1 DEF Call, Caller
    <3> QED
      BY <3>1, <3>2 DEF WaitInv
  <2>3. CASE WaitBlock(q)
    <3>1. target'[q] = Call(q).task
      BY <1>0, <2>3 DEF WaitBlock, TypeOK
    <3>2. Call(q)' = Call(q)
      BY <2>3 DEF WaitBlock, Call, Caller
    <3> QED
      BY <2>3, <3>1, <3>2
  <2>4. CASE pc[q] = "waiting" /\ SpuriousWakeup(q)
    BY <2>4 DEF SpuriousWakeup, WaitInv, Call, Caller, locals
  <2> QED
    BY <1>2, <2>1, <2>2, <2>3, <2>4, Movers, MoverPlaces, Distinct
<1>3. ASSUME NEW q \in Procs, pc'[q] = "waiting"
      PROVE  target'[q] \notin finishedTasks' \cup canceledTasks'
  <2>1. ASSUME NEW w \in Workers, pc[q] = "waiting", target[q] # cur[w],
               finishedTasks' \cup canceledTasks'
                   = finishedTasks \cup canceledTasks \cup {cur[w]}
        PROVE  target[q] \notin finishedTasks' \cup canceledTasks'
    BY <2>1 DEF WaitInv, NoForgottenWaiter
  <2>2. CASE pc[q] = "waiting" /\ target'[q] = target[q]
    BY <1>3, <2>1, <2>2, FilingSteps DEF WaitInv, NoForgottenWaiter
  <2>3. CASE WaitBlock(q)
    <3>1. pc[q] = "user" \/ pc[q] = "recheck"
      BY <2>3 DEF WaitBlock, WaitOn, Calling
    <3>2. target'[q] = Call(q).task /\ ~done[Call(q).task] /\ keepRunning[Call(q).task]
          /\ UNCHANGED <<finishedTasks, canceledTasks>>
      BY <1>0, <2>3 DEF WaitBlock, Settled, TypeOK, lists
    <3>3. Call(q).task \notin finishedTasks
      BY <1>0, <3>2 DEF DoneInv, TypeOK
    <3> QED
      BY <3>2, <3>3 DEF WaitInv
  <2>4. CASE pc[q] = "recheck"
    BY <1>3, <2>3, <2>4, Movers, MoverPlaces, Distinct DEF OnlyMoves, vars
  <2> QED
    BY <1>2, <1>3, <2>2, <2>3, <2>4
<1> QED
  BY <1>1, <1>2, <1>3 DEF WaitInv, NoForgottenWaiter

\* The three hold in every reachable state.
THEOREM Progress == Spec => []ProgressInv
<1>1. Init => ProgressInv
  <2>1. ASSUME Init PROVE \A p \in Procs : pc[p] = "loop" \/ (pc[p] = "user" /\ p \notin Workers)
    BY <2>1, Distinct DEF Init
  <2> QED
    BY <2>1, Distinct DEF Init, ProgressInv, BegunInv, ResultInv, WaitInv,
       NoForgottenWaiter, InCall
<1>2. SupervisorInv /\ ProgressInv /\ [Next]_vars => ProgressInv'
  BY BegunInvariant, ResultInvariant, WaitInvariant DEF ProgressInv
<1> QED
  BY <1>1, <1>2, Invariance, PTL DEF Spec

\* Nobody sleeps for a task that a worker has filed as finished or canceled.  (For
\* one that is canceled while it runs, or never pushed, one may.)
THEOREM WaitersNotForgotten == Spec => []NoForgottenWaiter
<1>1. ProgressInv => NoForgottenWaiter
  BY DEF ProgressInv, WaitInv
<1> QED
  BY <1>1, Progress, PTL

\* Whoever is woken and leaves waitOn finds the task canceled, or done with
\* its result in place.
THEOREM WaitReturnSettled == Spec => WaitReturnsSettled
<1>1. ASSUME SupervisorInv, ProgressInv, [Next]_vars PROVE WaitSettled
  <2> SUFFICES ASSUME NEW p \in Procs, pc[p] = "recheck", pc'[p] = "user"
               PROVE  ~keepRunning[target[p]] \/ (done[target[p]] /\ result[target[p]] # NULL)
    BY DEF WaitSettled
  <2>0. TypeOK /\ ControlInv /\ ResultInv /\ WaitInv
    BY <1>1 DEF SupervisorInv, ProgressInv
  <2>1. ~ UNCHANGED vars /\ \A q \in Procs \ {p} : ~ OnlyMoves(q)
    BY DEF OnlyMoves, vars
  <2>2. WorkerStep(p) \/ CallStep(p) \/ SpuriousWakeup(p)
    BY <1>1, <2>1, Movers, Distinct
  <2>3. WaitReturn(p)
    BY <2>0, <2>2 DEF WorkerStep, LoopTop, GetTask, GetTaskWait, RunBegin, RunCanceled,
       ObserveException, FuncReturn, RunEnd, FinishDone, FinishCanceled, NotifyCancel,
       NotifyStart, NotifyDone, StartTask, CallStep, EnterSupervisor, PushTask,
       CancelTask, WaitBlock, AddStartTask, AddCancelTask, AddDependencyStart,
       AddDependency, SetAllowableThreads, SpuriousWakeup, Calling, Goto, TypeOK
  <2>4. target[p] = Call(p).task /\ target[p] \in Tasks
    BY <2>0 DEF WaitInv, ControlInv, Targeting
  <2> QED
    BY <2>0, <2>3, <2>4 DEF WaitReturn, Settled, ResultInv
<1> QED
  BY <1>1, Invariance, Progress, PTL DEF Spec, WaitReturnsSettled
-----------------------------------------------------------------------------
(***************************************************************************)
(* The supervisor implements TaskLifecycle.                                *)
(***************************************************************************)
\* A step that changes the phase of task t alone is a move of t.
LEMMA MoveOfTask ==
    ASSUME NEW t \in Tasks, NEW from, NEW to,
           Phase(t) = from, Phase(t)' = to,
           \A u \in Tasks \ {t} : Phase(u)' = Phase(u)
    PROVE  Lifecycle!Move(t, from, to)
<1>1. [u \in Tasks |-> Phase(u)]' = [[u \in Tasks |-> Phase(u)] EXCEPT ![t] = to]
  OBVIOUS
<1> QED
  BY <1>1 DEF Lifecycle!Move

\* A task joins the queue for the first time.
LEMMA EnqueueQueues ==
    ASSUME SupervisorInv, NEW t \in Tasks, ~readyToRun[t],
           NEW p, NEW loc, Enqueue(t, p, loc),
           UNCHANGED <<runningTasks, finishedTasks, canceledTasks, started, keepRunning>>
    PROVE  Lifecycle!Queue(t)
<1>0. TypeOK /\ FiledInv
  BY DEF SupervisorInv
<1>1. /\ readyToRun' = [readyToRun EXCEPT ![t] = TRUE]
      /\ readyTasks' = Append(readyTasks, t)
  BY DEF Enqueue
<1>2. Phase(t) = "new" /\ Phase(t)' = "queued"
  BY <1>0, <1>1 DEF Phase, FiledInv, TypeOK
<1>3. \A u \in Tasks \ {t} : Phase(u)' = Phase(u)
  BY <1>0, <1>1 DEF Phase, TypeOK
<1>4. Lifecycle!Move(t, "new", "queued")
  BY <1>2, <1>3, MoveOfTask
<1> QED
  BY <1>1, <1>4 DEF Lifecycle!Queue

\* The worker takes the oldest task of the queue.
LEMMA GetTaskTakes ==
    ASSUME SupervisorInv, NEW w \in Workers, GetTask(w)
    PROVE  Lifecycle!Take
<1>0. TypeOK /\ QueueInv
  BY DEF SupervisorInv
<1>1. PICK t \in Tasks : t = Head(readyTasks) /\ 1 \in DOMAIN readyTasks /\ t = readyTasks[1]
  BY <1>0, TailElements DEF GetTask, TypeOK
<1>2. /\ readyTasks # <<>> /\ readyTasks' = Tail(readyTasks)
      /\ runningTasks' = runningTasks \cup {t}
      /\ UNCHANGED <<finishedTasks, canceledTasks, started, readyToRun, keepRunning>>
  BY <1>1 DEF GetTask, status
<1>3. /\ readyToRun[t] /\ ~started[t]
      /\ t \notin runningTasks \cup finishedTasks \cup canceledTasks
  BY <1>0, <1>1 DEF QueueInv
<1>4. Phase(t) = "queued" /\ Phase(t)' = "taken"
  BY <1>2, <1>3 DEF Phase
<1>5. \A u \in Tasks \ {t} : Phase(u)' = Phase(u)
  BY <1>2 DEF Phase
<1>6. Lifecycle!Move(t, "queued", "taken")
  BY <1>4, <1>5, MoveOfTask
<1> QED
  BY <1>1, <1>2, <1>6 DEF Lifecycle!Take

\* Only a task that is wanted begins, and only one that was taken.
LEMMA RunBeginBegins ==
    ASSUME SupervisorInv, NEW w \in Workers, RunBegin(w)
    PROVE  cur[w] \in Tasks /\ Lifecycle!Begin(cur[w])
<1>0. TypeOK /\ ControlInv /\ HeldInv
  BY DEF SupervisorInv
<1>1. PICK t \in Tasks : t = cur[w]
  BY <1>0 DEF RunBegin, TypeOK, ControlInv, Free
<1>2. /\ keepRunning[t] /\ pc[w] = "begin"
      /\ started' = [started EXCEPT ![t] = TRUE]
      /\ UNCHANGED <<readyTasks, runningTasks, finishedTasks, canceledTasks,
                     readyToRun, keepRunning>>
  BY <1>1 DEF RunBegin, lists
<1>3. ~started[t] /\ t \in runningTasks \ (finishedTasks \cup canceledTasks)
  BY <1>0, <1>1, <1>2, Distinct DEF HeldInv, Notifying
<1>4. Phase(t) = "taken" /\ Phase(t)' = "running"
  BY <1>0, <1>2, <1>3 DEF Phase, TypeOK
<1>5. \A u \in Tasks \ {t} : Phase(u)' = Phase(u)
  BY <1>0, <1>2 DEF Phase, TypeOK
<1>6. Lifecycle!Move(t, "taken", "running")
  BY <1>4, <1>5, MoveOfTask
<1>7. Lifecycle!Begin(t)
  BY <1>2, <1>6 DEF Lifecycle!Begin
<1> QED
  BY <1>1, <1>7

\* A task that is wanted at its end has begun, and is finished.
LEMMA FinishDoneFinishes ==
    ASSUME SupervisorInv, BegunInv, NEW w \in Workers, FinishDone(w)
    PROVE  cur[w] \in Tasks /\ Lifecycle!Finish(cur[w])
<1>0. TypeOK /\ ControlInv /\ HeldInv
  BY DEF SupervisorInv
<1>1. PICK t \in Tasks : t = cur[w]
  BY <1>0 DEF FinishDone, TypeOK, ControlInv, Free
<1>2. /\ keepRunning[t] /\ pc[w] = "finish"
      /\ runningTasks' = runningTasks \ {t}
      /\ finishedTasks' = finishedTasks \cup {t}
      /\ UNCHANGED <<readyTasks, canceledTasks, started, readyToRun, keepRunning>>
  BY <1>1 DEF FinishDone, Finished
<1>3. started[t] /\ t \in runningTasks \ (finishedTasks \cup canceledTasks)
  BY <1>0, <1>1, <1>2, Distinct DEF HeldInv, BegunInv, Notifying
<1>4. Phase(t) = "running" /\ Phase(t)' = "finished"
  BY <1>2, <1>3 DEF Phase
<1>5. \A u \in Tasks \ {t} : Phase(u)' = Phase(u)
  BY <1>2 DEF Phase
<1>6. Lifecycle!Move(t, "running", "finished")
  BY <1>4, <1>5, MoveOfTask
<1>7. Lifecycle!Finish(t)
  BY <1>2, <1>6 DEF Lifecycle!Finish
<1> QED
  BY <1>1, <1>7

\* A canceled task is dropped, whether it had begun or not.
LEMMA FinishCanceledDrops ==
    ASSUME SupervisorInv, NEW w \in Workers, FinishCanceled(w)
    PROVE  cur[w] \in Tasks /\ Lifecycle!Drop(cur[w])
<1>0. TypeOK /\ ControlInv /\ HeldInv
  BY DEF SupervisorInv
<1>1. PICK t \in Tasks : t = cur[w]
  BY <1>0 DEF FinishCanceled, TypeOK, ControlInv, Free
<1>2. /\ ~keepRunning[t] /\ pc[w] = "finish"
      /\ runningTasks' = runningTasks \ {t}
      /\ canceledTasks' = canceledTasks \cup {t}
      /\ UNCHANGED <<readyTasks, finishedTasks, started, readyToRun, keepRunning>>
  BY <1>1 DEF FinishCanceled, Finished, status
<1>3. t \in runningTasks \ (finishedTasks \cup canceledTasks)
  BY <1>0, <1>1, <1>2, Distinct DEF HeldInv, Notifying
<1>4. /\ Phase(t) = "taken" \/ Phase(t) = "running"
      /\ Phase(t)' = "canceled"
  BY <1>2, <1>3 DEF Phase
<1>5. \A u \in Tasks \ {t} : Phase(u)' = Phase(u)
  BY <1>2 DEF Phase
<1>6. Lifecycle!Move(t, "taken", "canceled") \/ Lifecycle!Move(t, "running", "canceled")
  BY <1>4, <1>5, MoveOfTask
<1>7. Lifecycle!Drop(t)
  BY <1>2, <1>6 DEF Lifecycle!Drop
<1> QED
  BY <1>1, <1>7

\* A step that leaves the lists and flags of the tasks alone is no step of the
\* abstract specification.
LEMMA LifecycleStutters ==
    ASSUME UNCHANGED <<readyTasks, runningTasks, finishedTasks, canceledTasks, started,
                       readyToRun, keepRunning>>
    PROVE  UNCHANGED Lifecycle!vars
<1>1. \A t \in Tasks : Phase(t)' = Phase(t)
  BY DEF Phase
<1> QED
  BY <1>1 DEF Lifecycle!vars

\* Every step is a step of the abstract specification or none.
LEMMA LifecycleStep ==
    ASSUME SupervisorInv, BegunInv, [Next]_vars
    PROVE  [Lifecycle!Next]_Lifecycle!vars
<1>0. TypeOK /\ ControlInv
  BY DEF SupervisorInv
<1>1. ASSUME NEW w \in Workers, WorkerStep(w)
      PROVE  [Lifecycle!Next]_Lifecycle!vars
  <2>1. CASE \/ LoopTop(w) \/ GetTaskWait(w) \/ RunCanceled(w) \/ ObserveException(w)
             \/ FuncReturn(w) \/ RunEnd(w)
             \/ NotifyCancel(w) \/ NotifyStart(w) \/ NotifyDone(w)
    BY <2>1, LifecycleStutters DEF LoopTop, GetTaskWait, RunCanceled, ObserveException,
       FuncReturn, RunEnd, NotifyCancel, NotifyStart, NotifyDone, lists, status
  <2>2. CASE GetTask(w)
    BY <2>2, GetTaskTakes DEF Lifecycle!Next
  <2>3. CASE RunBegin(w)
    BY <2>3, RunBeginBegins DEF Lifecycle!Next
  <2>4. CASE FinishDone(w)
    BY <2>4, FinishDoneFinishes DEF Lifecycle!Next
  <2>5. CASE FinishCanceled(w)
    BY <2>5, FinishCanceledDrops DEF Lifecycle!Next
  <2>6. CASE StartTask(w)
    <3>a. /\ UNCHANGED <<runningTasks, finishedTasks, canceledTasks, started, keepRunning>>
          /\ \/ UNCHANGED <<readyToRun, readyTasks>>
             \/ ~readyToRun[target[w]] /\ Enqueue(target[w], w, "notify")
      BY <2>6 DEF StartTask
    <3>b. pc[w] = "notifyStart"
      BY <2>6 DEF StartTask
    <3>1. target[w] \in Tasks
      BY <1>0, <3>b, Distinct DEF ControlInv, Targeting
    <3>2. CASE UNCHANGED <<readyToRun, readyTasks>>
      BY <3>a, <3>2, LifecycleStutters
    <3>3. CASE ~readyToRun[target[w]] /\ Enqueue(target[w], w, "notify")
      BY <3>1, <3>a, <3>3, EnqueueQueues DEF Lifecycle!Next
    <3> QED
      BY <3>a, <3>2, <3>3
  <2> QED
    BY <1>1, <2>1, <2>2, <2>3, <2>4, <2>5, <2>6 DEF WorkerStep
<1>2. ASSUME NEW p \in Procs, CallStep(p)
      PROVE  [Lifecycle!Next]_Lifecycle!vars
  <2>1. CASE PushTask(p)
    <3>1. /\ target[p] \in Tasks
          /\ UNCHANGED <<runningTasks, finishedTasks, canceledTasks, started, keepRunning>>
          /\ \/ UNCHANGED <<readyToRun, readyTasks>>
             \/ ~readyToRun[target[p]] /\ Enqueue(target[p], p, "user")
      BY <1>0, <2>1 DEF PushTask, ControlInv, Targeting
    <3>2. CASE UNCHANGED <<readyToRun, readyTasks>>
      BY <3>1, <3>2, LifecycleStutters
    <3>3. CASE ~readyToRun[target[p]] /\ Enqueue(target[p], p, "user")
      BY <3>1, <3>3, EnqueueQueues DEF Lifecycle!Next
    <3> QED
      BY <3>1, <3>2, <3>3
  <2>2. CASE CancelTask(p)
    <3>1. /\ target[p] \in Tasks
          /\ keepRunning' = [keepRunning EXCEPT ![target[p]] = FALSE]
          /\ UNCHANGED <<readyTasks, runningTasks, finishedTasks, canceledTasks, started,
                         readyToRun>>
      BY <1>0, <2>2 DEF CancelTask, ControlInv, Targeting, lists
    <3>2. \A t \in Tasks : Phase(t)' = Phase(t)
      BY <3>1 DEF Phase
    <3>3. Lifecycle!Cancel(target[p])
      BY <3>1, <3>2 DEF Lifecycle!Cancel
    <3> QED
      BY <3>1, <3>3 DEF Lifecycle!Next
  <2>3. CASE ~PushTask(p) /\ ~CancelTask(p)
    BY <1>2, <2>3, LifecycleStutters DEF CallStep, EnterSupervisor, WaitBlock, WaitReturn,
       AddStartTask, AddCancelTask, AddDependencyStart, AddDependency,
       SetAllowableThreads, lists, status
  <2> QED
    BY <2>1, <2>2, <2>3
<1>3. ASSUME NEW p \in Procs, SpuriousWakeup(p)
      PROVE  [Lifecycle!Next]_Lifecycle!vars
  BY <1>3, LifecycleStutters DEF SpuriousWakeup, lists, status
<1>4. CASE UNCHANGED vars
  BY <1>4, LifecycleStutters DEF vars, lists, status
<1> QED
  BY <1>1, <1>2, <1>3, <1>4 DEF Next, Sleep

\* Whatever the users do, every task goes through the promised phases: queued
\* once, taken in the order of the queue, begun only while it is wanted, and
\* ended once, as finished or as canceled.
THEOREM ImplementsLifecycle == Spec => LifecycleKept
<1>1. Init => Lifecycle!Init
  <2>1. ASSUME Init PROVE \A t \in Tasks : Phase(t) = "new"
    BY <2>1 DEF Init, Phase
  <2> QED
    BY <2>1 DEF Init, Lifecycle!Init
<1>2. SupervisorInv /\ ProgressInv /\ [Next]_vars => [Lifecycle!Next]_Lifecycle!vars
  BY LifecycleStep DEF ProgressInv
<1> QED
  BY <1>1, <1>2, Invariance, Progress, PTL DEF Spec, LifecycleKept, Lifecycle!Spec
-----------------------------------------------------------------------------
(***************************************************************************)
(* Signals of the ready condition.                                         *)
(***************************************************************************)
\* The workers that are on their way to the queue, and those who sleep.
Getting  == {w \in Workers : pc[w] = "get"}
Sleepers == {w \in Workers : pc[w] = "asleep"}

\* The workers are finitely many, and so are those on their way to the queue.
LEMMA GettingFinite ==
    /\ IsFiniteSet(Getting) /\ Cardinality(Getting) \in Nat
    /\ IsFiniteSet(Getting') /\ Cardinality(Getting') \in Nat
<1>1. IsFiniteSet(Workers)
  BY SupervisorAssumption, FS_Interval DEF Workers
<1>2. Getting \subseteq Workers /\ Getting' \subseteq Workers
  BY DEF Getting
<1> QED
  BY <1>1, <1>2, FS_Subset, FS_CardinalityType

\* When a task is queued, either nobody sleeps or one more worker is on its
\* way to the queue.
LEMMA EnqueueWakes ==
    ASSUME TypeOK, NEW t \in Tasks, NEW p \in Procs, NEW loc \in Locations,
           loc \notin {"asleep", "get"}, pc[p] # "get", Enqueue(t, p, loc)
    PROVE  /\ Len(readyTasks') = Len(readyTasks) + 1
           /\ \/ Sleepers' = {}
              \/ \E v \in Sleepers : Getting' = Getting \cup {v}
<1>1. readyTasks \in Seq(Tasks) /\ pc \in [Procs -> Locations]
  BY DEF TypeOK
<1>2. Len(readyTasks') = Len(readyTasks) + 1
  BY <1>1 DEF Enqueue
<1> DEFINE f == [pc EXCEPT ![p] = loc]
<1>3. /\ pc' \in SignalReady(f)
      /\ f \in [Procs -> Locations]
      /\ \A q \in Procs \ {p} : f[q] = pc[q]
      /\ f[p] = loc
  BY <1>1 DEF Enqueue
<1> HIDE DEF f
<1>4. CASE {w \in Workers : f[w] = "asleep"} = {}
  BY <1>2, <1>3, <1>4 DEF SignalReady, Sleepers
<1>5. CASE {w \in Workers : f[w] = "asleep"} # {}
  <2>1. PICK v \in Workers : f[v] = "asleep" /\ pc' = [f EXCEPT ![v] = "get"]
    BY <1>3, <1>5 DEF SignalReady
  <2>2. v # p /\ v \in Sleepers
    BY <1>3, <2>1, Distinct DEF Sleepers
  <2>3. Getting' = Getting \cup {v}
    BY <1>3, <2>1, <2>2, Distinct DEF Getting
  <2> QED
    BY <1>2, <2>2, <2>3
<1> QED
  BY <1>4, <1>5

\* What a step does to the queue, to the sleepers and to the workers on their
\* way to the queue.
LEMMA QueueSteps ==
    ASSUME SupervisorInv, [Next]_vars
    PROVE  \/ /\ UNCHANGED readyTasks
              /\ Sleepers' \subseteq Sleepers
              /\ Getting \subseteq Getting'
           \/ readyTasks' = <<>>
           \/ /\ readyTasks # <<>> /\ readyTasks' = Tail(readyTasks)
              /\ Sleepers' = Sleepers
              /\ \E w \in Getting : Getting' = Getting \ {w}
           \/ /\ Len(readyTasks') = Len(readyTasks) + 1
              /\ \/ Sleepers' = {}
                 \/ \E v \in Sleepers : Getting' = Getting \cup {v}
<1>0. TypeOK /\ TypeOK' /\ ControlInv
  BY NextInv DEF SupervisorInv
<1> DEFINE Quiet == /\ UNCHANGED readyTasks
                    /\ Sleepers' \subseteq Sleepers
                    /\ Getting \subseteq Getting'
<1>1. ASSUME NEW p \in Procs, OnlyMoves(p), UNCHANGED readyTasks,
             pc'[p] # "asleep", pc[p] # "get"
      PROVE  Quiet
  <2>1. \A q \in Workers \ {p} :
           /\ pc'[q] = "asleep" => pc[q] = "asleep"
           /\ pc[q] = "get" => pc'[q] = "get"
    BY <1>1, Distinct DEF OnlyMoves
  <2> QED
    BY <1>1, <2>1 DEF Sleepers, Getting
<1>2. ASSUME NEW w \in Workers, WorkerStep(w), OnlyMoves(w)
      PROVE  \/ Quiet
             \/ GetTask(w) \/ GetTaskWait(w) \/ StartTask(w)
  <2>1. CASE FinishDone(w) \/ FinishCanceled(w)
    <3>1. \/ pc' = BroadcastFinish([pc EXCEPT ![w] = "notify"], cur[w])
          \/ pc' = BroadcastFinish([pc EXCEPT ![w] = "loop"], cur[w])
      BY <2>1 DEF FinishDone, FinishCanceled
    <3>2. pc'[w] # "asleep"
      BY <1>0, <3>1, Distinct DEF TypeOK, BroadcastFinish
    <3>3. pc[w] # "get" /\ UNCHANGED readyTasks
      BY <2>1 DEF FinishDone, FinishCanceled
    <3> QED
      BY <1>1, <1>2, <3>2, <3>3, Distinct
  <2>2. CASE \/ LoopTop(w) \/ RunBegin(w) \/ RunCanceled(w)
             \/ ObserveException(w) \/ FuncReturn(w) \/ RunEnd(w)
             \/ NotifyCancel(w) \/ NotifyStart(w) \/ NotifyDone(w)
    <3>1. pc[w] # "get" /\ UNCHANGED readyTasks
      BY <2>2 DEF LoopTop, RunBegin, RunCanceled, ObserveException, FuncReturn, RunEnd,
         NotifyCancel, NotifyStart, NotifyDone, lists
    <3>2. pc'[w] # "asleep"
      BY <1>0, <2>2, Distinct DEF LoopTop, RunBegin, RunCanceled, ObserveException,
         FuncReturn, RunEnd, NotifyCancel, NotifyStart, NotifyDone, Goto, TypeOK
    <3> QED
      BY <1>1, <1>2, <3>1, <3>2, Distinct
  <2> QED
    BY <1>2, <2>1, <2>2 DEF WorkerStep
<1>3. ASSUME NEW w \in Workers, GetTask(w), OnlyMoves(w)
      PROVE  /\ readyTasks # <<>> /\ readyTasks' = Tail(readyTasks)
             /\ Sleepers' = Sleepers
             /\ w \in Getting /\ Getting' = Getting \ {w}
  <2>1. /\ pc[w] = "get" /\ readyTasks # <<>> /\ readyTasks' = Tail(readyTasks)
        /\ pc' = [pc EXCEPT ![w] = "begin"]
    BY <1>3 DEF GetTask, Goto
  <2>2. pc'[w] = "begin" /\ \A q \in Workers \ {w} : pc'[q] = pc[q]
    BY <1>0, <2>1, Distinct DEF TypeOK
  <2> QED
    BY <2>1, <2>2 DEF Getting, Sleepers
<1>4. ASSUME NEW w \in Workers, StartTask(w), OnlyMoves(w)
      PROVE  \/ Quiet
             \/ /\ Len(readyTasks') = Len(readyTasks) + 1
                /\ \/ Sleepers' = {}
                   \/ \E v \in Sleepers : Getting' = Getting \cup {v}
  <2>1. pc[w] = "notifyStart" /\ "notify" \in Locations
    BY <1>4 DEF StartTask, Locations
  <2>2. target[w] \in Tasks
    BY <1>0, <2>1, Distinct DEF ControlInv, Targeting
  <2>3. CASE UNCHANGED readyTasks /\ Goto(w, "notify")
    BY <1>0, <1>1, <1>4, <2>1, <2>3, Distinct DEF Goto, TypeOK
  <2>4. CASE Enqueue(target[w], w, "notify")
    BY <1>0, <2>1, <2>2, <2>4, EnqueueWakes, Distinct
  <2> QED
    BY <1>4, <2>3, <2>4 DEF StartTask
<1>5. ASSUME NEW p \in Procs, CallStep(p), OnlyMoves(p)
      PROVE  \/ Quiet
             \/ /\ Len(readyTasks') = Len(readyTasks) + 1
                /\ \/ Sleepers' = {}
                   \/ \E v \in Sleepers : Getting' = Getting \cup {v}
  <2>1. CASE PushTask(p)
    <3>1. pc[p] = "push" /\ "user" \in Locations
      BY <2>1 DEF PushTask, Locations
    <3>2. target[p] \in Tasks
      BY <1>0, <3>1 DEF ControlInv, Targeting
    <3>3. CASE UNCHANGED readyTasks /\ Goto(p, "user")
      BY <1>0, <1>1, <1>5, <3>1, <3>3 DEF Goto, TypeOK
    <3>4. CASE Enqueue(target[p], p, "user")
      BY <1>0, <3>1, <3>2, <3>4, EnqueueWakes
    <3> QED
      BY <2>1, <3>3, <3>4 DEF PushTask
  <2>2. CASE ~PushTask(p)
    <3>1. pc[p] # "get" /\ UNCHANGED readyTasks
      BY <1>5, <2>2 DEF CallStep, EnterSupervisor, CancelTask, WaitBlock, WaitReturn,
         WaitOn, AddStartTask, AddCancelTask, AddDependencyStart, AddDependency, Calling,
         SetAllowableThreads, lists
    <3>2. pc'[p] # "asleep"
      BY <1>0, <1>5, <2>2 DEF CallStep, EnterSupervisor, CancelTask, WaitBlock,
         WaitReturn, WaitOn, AddStartTask, AddCancelTask, AddDependencyStart,
         AddDependency, Calling, SetAllowableThreads, Goto, TypeOK, locals
    <3> QED
      BY <1>1, <1>5, <3>1, <3>2
  <2> QED
    BY <2>1, <2>2
<1>6. ASSUME NEW p \in Procs, SpuriousWakeup(p), OnlyMoves(p) PROVE Quiet
  <2>1. /\ pc[p] # "get" /\ UNCHANGED readyTasks
        /\ pc'[p] # "asleep"
    BY <1>0, <1>6 DEF SpuriousWakeup, Goto, TypeOK, lists
  <2> QED
    BY <1>1, <1>6, <2>1
<1>7. ASSUME UNCHANGED vars PROVE Quiet
  BY <1>7 DEF vars, lists, Sleepers, Getting
<1>8. ASSUME NEW w \in Workers, GetTaskWait(w) PROVE readyTasks' = <<>>
  BY <1>8 DEF GetTaskWait, lists
<1> HIDE DEF Quiet
<1>9. \/ Quiet
      \/ \E w \in Workers : GetTaskWait(w)
      \/ \E w \in Workers : GetTask(w) /\ OnlyMoves(w)
      \/ \E w \in Workers : StartTask(w) /\ OnlyMoves(w)
      \/ \E p \in Procs : CallStep(p) /\ OnlyMoves(p)
  BY <1>2, <1>6, <1>7, Movers
<1> QED
  BY <1>3, <1>4, <1>5, <1>8, <1>9 DEF Quiet

\* No signal is lost: while a worker sleeps, the queued tasks do not outnumber
\* the workers that are awake on their way to the queue.
THEOREM NoSignalLost == Spec => []NoLostWakeup
<1>1. Init => NoLostWakeup
  BY GettingFinite DEF Init, NoLostWakeup, Getting
<1>2. ASSUME SupervisorInv, NoLostWakeup, [Next]_vars PROVE NoLostWakeup'
  <2>0. /\ readyTasks \in Seq(Tasks) /\ Len(readyTasks) \in Nat
        /\ readyTasks' \in Seq(Tasks) /\ Len(readyTasks') \in Nat
    BY <1>2, NextInv DEF SupervisorInv, TypeOK
  <2>1. /\ NoLostWakeup <=> (Sleepers = {} \/ Len(readyTasks) <= Cardinality(Getting))
        /\ NoLostWakeup' <=> (Sleepers' = {} \/ Len(readyTasks') <= Cardinality(Getting'))
    BY DEF NoLostWakeup, Sleepers, Getting
  <2>2. CASE /\ UNCHANGED readyTasks
             /\ Sleepers' \subseteq Sleepers
             /\ Getting \subseteq Getting'
    <3>1. Cardinality(Getting) <= Cardinality(Getting')
      BY <2>2, GettingFinite, FS_Subset
    <3> QED
      BY <1>2, <2>0, <2>1, <2>2, <3>1, GettingFinite
  <2>3. CASE readyTasks' = <<>>
    BY <2>1, <2>3, GettingFinite
  <2>4. CASE /\ readyTasks # <<>> /\ readyTasks' = Tail(readyTasks)
             /\ Sleepers' = Sleepers
             /\ \E w \in Getting : Getting' = Getting \ {w}
    <3>1. Cardinality(Getting') = Cardinality(Getting) - 1
      BY <2>4, GettingFinite, FS_RemoveElement
    <3>2. Len(readyTasks') = Len(readyTasks) - 1
      BY <2>0, <2>4
    <3> QED
      BY <1>2, <2>0, <2>1, <2>4, <3>1, <3>2, GettingFinite
  <2>5. CASE Sleepers' = {}
    BY <2>1, <2>5
  <2>6. CASE /\ Len(readyTasks') = Len(readyTasks) + 1
             /\ \E v \in Sleepers : Getting' = Getting \cup {v}
    <3>1. PICK v \in Sleepers : Getting' = Getting \cup {v}
      BY <2>6
    <3>2. v \notin Getting
      BY <3>1 DEF Sleepers, Getting
    <3>3. Cardinality(Getting') = Cardinality(Getting) + 1
      BY <3>1, <3>2, GettingFinite, FS_AddElement
    <3> QED
      BY <1>2, <2>0, <2>1, <2>6, <3>1, <3>3, GettingFinite
  <2> QED
    BY <1>2, <2>2, <2>3, <2>4, <2>5, <2>6, QueueSteps
<1> QED
  BY <1>1, <1>2, Invariance, PTL DEF Spec
-----------------------------------------------------------------------------
(***************************************************************************)
(* Locks and links, whatever the users do.                                 *)
(***************************************************************************)
\* From where to where each step of a worker takes it.
LEMMA WorkerPlaces ==
    ASSUME SupervisorInv, NEW w \in Workers
    PROVE  /\ LoopTop(w) => pc[w] = "loop" /\ pc'[w] = "get"
           /\ GetTask(w) => pc[w] = "get" /\ pc'[w] = "begin"
           /\ GetTaskWait(w) => pc[w] = "get" /\ pc'[w] = "asleep"
           /\ RunBegin(w) => pc[w] = "begin" /\ pc'[w] = "user"
           /\ RunCanceled(w) => pc[w] = "begin" /\ pc'[w] = "finish"
           /\ ObserveException(w) => pc[w] = "user" /\ pc'[w] = "user"
           /\ FuncReturn(w) => pc[w] = "user" /\ pc'[w] = "ending"
           /\ RunEnd(w) => pc[w] = "ending" /\ pc'[w] = "finish"
           /\ FinishDone(w) => pc[w] = "finish" /\ pc'[w] = "notify"
           /\ FinishCanceled(w) => pc[w] = "finish" /\ pc'[w] = "loop"
           /\ NotifyCancel(w) => pc[w] = "notify" /\ pc'[w] = "notifyCancel"
           /\ NotifyStart(w) => pc[w] = "notify" /\ pc'[w] = "notifyStart"
           /\ NotifyDone(w) => pc[w] = "notify" /\ pc'[w] = "loop"
           /\ StartTask(w) => pc[w] = "notifyStart" /\ pc'[w] = "notify"
<1>0. TypeOK /\ pc \in [Procs -> Locations] /\ w \in Procs
  BY Distinct DEF SupervisorInv, TypeOK
<1>1. /\ LoopTop(w) => pc[w] = "loop" /\ pc'[w] = "get"
      /\ GetTask(w) => pc[w] = "get" /\ pc'[w] = "begin"
      /\ GetTaskWait(w) => pc[w] = "get" /\ pc'[w] = "asleep"
      /\ RunBegin(w) => pc[w] = "begin" /\ pc'[w] = "user"
      /\ RunCanceled(w) => pc[w] = "begin" /\ pc'[w] = "finish"
      /\ ObserveException(w) => pc[w] = "user" /\ pc'[w] = "user"
      /\ FuncReturn(w) => pc[w] = "user" /\ pc'[w] = "ending"
      /\ RunEnd(w) => pc[w] = "ending" /\ pc'[w] = "finish"
      /\ NotifyCancel(w) => pc[w] = "notify" /\ pc'[w] = "notifyCancel"
      /\ NotifyStart(w) => pc[w] = "notify" /\ pc'[w] = "notifyStart"
      /\ NotifyDone(w) => pc[w] = "notify" /\ pc'[w] = "loop"
  BY <1>0 DEF LoopTop, GetTask, GetTaskWait, RunBegin, RunCanceled, ObserveException,
     FuncReturn, RunEnd, NotifyCancel, NotifyStart, NotifyDone, Goto
<1>2. /\ FinishDone(w) => pc[w] = "finish" /\ pc'[w] = "notify"
      /\ FinishCanceled(w) => pc[w] = "finish" /\ pc'[w] = "loop"
  BY <1>0 DEF FinishDone, FinishCanceled, BroadcastFinish
<1>3. StartTask(w) => pc[w] = "notifyStart" /\ pc'[w] = "notify"
  <2>1. "notify" \in Locations
    BY DEF Locations
  <2>2. StartTask(w) => /\ pc[w] = "notifyStart"
                        /\ \/ pc' = [pc EXCEPT ![w] = "notify"]
                           \/ pc' \in SignalReady([pc EXCEPT ![w] = "notify"])
    BY DEF StartTask, Enqueue, Goto
  <2> QED
    BY <1>0, <2>1, <2>2, GotoAndSignal
<1> QED
  BY <1>1, <1>2, <1>3

\* From where to where each interface call and each wakeup takes a thread.
LEMMA CallPlaces ==
    ASSUME SupervisorInv, NEW p \in Procs
    PROVE  /\ EnterSupervisor(p, "push") => pc[p] = "user" /\ pc'[p] = "push"
           /\ EnterSupervisor(p, "cancel") => pc[p] = "user" /\ pc'[p] = "cancel"
           /\ PushTask(p) => pc[p] = "push" /\ pc'[p] = "user"
           /\ CancelTask(p) => \/ pc[p] = "cancel" /\ pc'[p] = "user"
                               \/ pc[p] = "notifyCancel" /\ pc'[p] = "notify"
           /\ WaitBlock(p) => pc[p] \in {"user", "recheck"} /\ pc'[p] = "waiting"
           /\ WaitReturn(p) => pc[p] \in {"user", "recheck"} /\ pc'[p] = "user"
           /\ AddStartTask(p) => pc[p] = "user" /\ pc'[p] = "user"
           /\ AddCancelTask(p) => pc[p] = "user" /\ pc'[p] = "user"
           /\ AddDependencyStart(p) => pc[p] = "user" /\ pc'[p] = "depend"
           /\ AddDependency(p) => pc[p] = "depend" /\ pc'[p] = "user"
           /\ SetAllowableThreads(p) => pc[p] = "user" /\ pc'[p] = "user"
           /\ SpuriousWakeup(p) => \/ pc[p] = "asleep" /\ pc'[p] = "get"
                                   \/ pc[p] = "waiting" /\ pc'[p] = "recheck"
<1>0. TypeOK /\ pc \in [Procs -> Locations]
  BY DEF SupervisorInv, TypeOK
<1>1. PushTask(p) => pc[p] = "push" /\ pc'[p] = "user"
  <2>1. "user" \in Locations
    BY DEF Locations
  <2>2. PushTask(p) => /\ pc[p] = "push"
                       /\ \/ pc' = [pc EXCEPT ![p] = "user"]
                          \/ pc' \in SignalReady([pc EXCEPT ![p] = "user"])
    BY DEF PushTask, Enqueue, Goto
  <2> QED
    BY <1>0, <2>1, <2>2, GotoAndSignal
<1>2. /\ EnterSupervisor(p, "push") => pc[p] = "user" /\ pc'[p] = "push"
      /\ EnterSupervisor(p, "cancel") => pc[p] = "user" /\ pc'[p] = "cancel"
      /\ CancelTask(p) => \/ pc[p] = "cancel" /\ pc'[p] = "user"
                          \/ pc[p] = "notifyCancel" /\ pc'[p] = "notify"
      /\ WaitBlock(p) => pc[p] \in {"user", "recheck"} /\ pc'[p] = "waiting"
      /\ WaitReturn(p) => pc[p] \in {"user", "recheck"} /\ pc'[p] = "user"
      /\ AddDependencyStart(p) => pc[p] = "user" /\ pc'[p] = "depend"
      /\ AddDependency(p) => pc[p] = "depend" /\ pc'[p] = "user"
      /\ SpuriousWakeup(p) => \/ pc[p] = "asleep" /\ pc'[p] = "get"
                              \/ pc[p] = "waiting" /\ pc'[p] = "recheck"
  BY <1>0 DEF EnterSupervisor, CancelTask, WaitBlock, WaitReturn, WaitOn,
     AddDependencyStart, AddDependency, SpuriousWakeup, Calling, Goto
<1>3. /\ AddStartTask(p) => pc[p] = "user" /\ pc'[p] = "user"
      /\ AddCancelTask(p) => pc[p] = "user" /\ pc'[p] = "user"
      /\ SetAllowableThreads(p) => pc[p] = "user" /\ pc'[p] = "user"
  BY DEF AddStartTask, AddCancelTask, SetAllowableThreads, Calling
<1> QED
  BY <1>1, <1>2, <1>3

\* Where a thread is about to ask for a task's mutex with the supervisor's in its hand.
InSupervisor == {"push", "cancel", "notifyCancel", "notifyStart"}

\* The supervisor's mutex is taken when free, and given back by who has it.
LEMMA SupervisorMutexSteps ==
    ASSUME SupervisorInv, NEW p \in Procs,
           (p \in Workers /\ WorkerStep(p)) \/ CallStep(p) \/ SpuriousWakeup(p)
    PROVE  \/ supMutex = NULL /\ supMutex' = p /\ pc'[p] \in InSupervisor
           \/ supMutex' = NULL /\ pc[p] \in InSupervisor /\ pc'[p] \notin InSupervisor
           \/ UNCHANGED supMutex /\ pc[p] \notin InSupervisor /\ pc'[p] \notin InSupervisor
<1>1. CASE p \in Workers /\ WorkerStep(p)
  <2>1. CASE \/ LoopTop(p) \/ GetTask(p) \/ GetTaskWait(p) \/ RunBegin(p)
             \/ RunCanceled(p) \/ ObserveException(p) \/ FuncReturn(p) \/ RunEnd(p)
             \/ FinishDone(p) \/ FinishCanceled(p) \/ NotifyDone(p)
    <3>1. UNCHANGED supMutex
      BY <2>1 DEF LoopTop, GetTask, GetTaskWait, RunBegin, RunCanceled, ObserveException,
         FuncReturn, RunEnd, FinishDone, FinishCanceled, NotifyDone
    <3> QED
      BY <1>1, <2>1, <3>1, WorkerPlaces DEF InSupervisor
  <2>2. CASE NotifyCancel(p) \/ NotifyStart(p)
    BY <1>1, <2>2, WorkerPlaces DEF NotifyCancel, NotifyStart, InSupervisor
  <2>3. CASE StartTask(p)
    BY <1>1, <2>3, WorkerPlaces DEF StartTask, InSupervisor
  <2> QED
    BY <1>1, <2>1, <2>2, <2>3 DEF WorkerStep
<1>2. CASE CallStep(p)
  <2>1. CASE EnterSupervisor(p, "push") \/ EnterSupervisor(p, "cancel")
    BY <2>1, CallPlaces DEF EnterSupervisor, InSupervisor
  <2>2. CASE PushTask(p) \/ CancelTask(p)
    <3>1. supMutex' = NULL
      BY <2>2 DEF PushTask, CancelTask
    <3> QED
      BY <2>2, <3>1, CallPlaces DEF InSupervisor
  <2>3. CASE \/ WaitBlock(p) \/ WaitReturn(p) \/ AddStartTask(p) \/ AddCancelTask(p)
             \/ AddDependencyStart(p) \/ AddDependency(p) \/ SetAllowableThreads(p)
    <3>1. UNCHANGED supMutex
      BY <2>3 DEF WaitBlock, WaitReturn, AddStartTask, AddCancelTask, AddDependencyStart,
         AddDependency, SetAllowableThreads
    <3> QED
      BY <2>3, <3>1, CallPlaces DEF InSupervisor
  <2> QED
    BY <1>2, <2>1, <2>2, <2>3 DEF CallStep
<1>3. CASE SpuriousWakeup(p)
  BY <1>3, CallPlaces DEF SpuriousWakeup, InSupervisor
<1> QED
  BY <1>1, <1>2, <1>3

\* Where a worker holds the mutex of the task it has run.
Finishing == {"finish"} \cup Notifying

\* So are the mutexes of the tasks, each by the worker of the task.
LEMMA TaskMutexSteps ==
    ASSUME SupervisorInv, NEW p \in Procs,
           (p \in Workers /\ WorkerStep(p)) \/ CallStep(p) \/ SpuriousWakeup(p)
    PROVE  \/ /\ p \in Workers /\ cur[p] \in Tasks /\ taskMutex[cur[p]] = NULL
              /\ taskMutex' = [taskMutex EXCEPT ![cur[p]] = p]
              /\ pc[p] \notin Finishing /\ pc'[p] \in Finishing /\ UNCHANGED cur
           \/ /\ p \in Workers /\ cur[p] \in Tasks
              /\ taskMutex' = [taskMutex EXCEPT ![cur[p]] = NULL]
              /\ pc[p] \in Finishing /\ pc'[p] \notin Finishing
           \/ /\ UNCHANGED taskMutex
              /\ \/ pc[p] \in Finishing /\ pc'[p] \in Finishing /\ UNCHANGED cur
                 \/ pc[p] \notin Finishing /\ pc'[p] \notin Finishing
<1>0. TypeOK /\ ControlInv
  BY DEF SupervisorInv
<1>1. CASE p \in Workers /\ WorkerStep(p)
  <2>0. pc[p] \notin Free => cur[p] \in Tasks
    BY <1>0, <1>1 DEF TypeOK, ControlInv
  <2>1. CASE \/ LoopTop(p) \/ GetTask(p) \/ GetTaskWait(p) \/ RunBegin(p)
             \/ ObserveException(p) \/ FuncReturn(p)
    <3>1. UNCHANGED taskMutex
      BY <2>1 DEF LoopTop, GetTask, GetTaskWait, RunBegin, ObserveException, FuncReturn
    <3> QED
      BY <1>1, <2>1, <3>1, WorkerPlaces DEF Finishing, Notifying
  <2>2. CASE RunCanceled(p) \/ RunEnd(p)
    BY <1>1, <2>0, <2>2, WorkerPlaces DEF RunCanceled, RunEnd, Finishing, Notifying, Free,
       locals
  <2>3. CASE FinishCanceled(p) \/ NotifyDone(p)
    BY <1>1, <2>0, <2>3, WorkerPlaces DEF FinishCanceled, NotifyDone, Finishing,
       Notifying, Free
  <2>4. CASE FinishDone(p) \/ NotifyCancel(p) \/ NotifyStart(p) \/ StartTask(p)
    <3>1. UNCHANGED <<taskMutex, cur>>
      BY <2>4 DEF FinishDone, NotifyCancel, NotifyStart, StartTask
    <3> QED
      BY <1>1, <2>4, <3>1, WorkerPlaces DEF Finishing, Notifying
  <2> QED
    BY <1>1, <2>1, <2>2, <2>3, <2>4 DEF WorkerStep
<1>2. CASE CallStep(p)
  <2>1. UNCHANGED <<taskMutex, cur>>
    BY <1>2 DEF CallStep, EnterSupervisor, PushTask, CancelTask, WaitBlock, WaitReturn,
       AddStartTask, AddCancelTask, AddDependencyStart, AddDependency,
       SetAllowableThreads, locals
  <2>2. \/ pc[p] = "notifyCancel" /\ pc'[p] = "notify"
        \/ pc[p] \in {"user", "push", "cancel", "depend", "recheck"}
             /\ pc'[p] \in {"user", "push", "cancel", "depend", "waiting"}
    BY <1>2, CallPlaces DEF CallStep
  <2> QED
    BY <2>1, <2>2 DEF Finishing, Notifying
<1>3. CASE SpuriousWakeup(p)
  BY <1>3, CallPlaces DEF SpuriousWakeup, Finishing, Notifying, locals
<1> QED
  BY <1>1, <1>2, <1>3

\* Each mutex is held by the one thread that is in its critical sections.
LEMMA LockInvariant ==
    ASSUME SupervisorInv, LockInv, [Next]_vars
    PROVE  LockInv'
<1>0. TypeOK /\ ControlInv /\ HeldInv /\ TypeOK' /\ ControlInv' /\ HeldInv'
  BY NextInv DEF SupervisorInv
<1>a. /\ \A p \in Procs : supMutex = p <=> pc[p] \in InSupervisor
      /\ \A w \in Workers, t \in Tasks :
            taskMutex[t] = w <=> cur[w] = t /\ pc[w] \in Finishing
  BY DEF LockInv, InSupervisor, Finishing
<1>1. CASE UNCHANGED vars
  BY <1>1 DEF LockInv, vars, locals
<1>2. ASSUME NEW p \in Procs, OnlyMoves(p),
             (p \in Workers /\ WorkerStep(p)) \/ CallStep(p) \/ SpuriousWakeup(p)
      PROVE  LockInv'
  <2>1. ASSUME NEW q \in Procs PROVE supMutex' = q <=> pc'[q] \in InSupervisor
    <3>1. q # p => (pc'[q] \in InSupervisor <=> pc[q] \in InSupervisor)
      BY <1>2 DEF OnlyMoves, InSupervisor
    <3> QED
      BY <1>2, <1>a, <3>1, SupervisorMutexSteps, Distinct
  <2>2. ASSUME NEW v \in Workers, NEW t \in Tasks
        PROVE  taskMutex'[t] = v <=> cur'[v] = t /\ pc'[v] \in Finishing
    <3>1. v # p => /\ pc'[v] \in Finishing <=> pc[v] \in Finishing
                   /\ cur'[v] = cur[v]
      BY <1>2, Distinct DEF OnlyMoves, Finishing, Notifying
    <3>2. taskMutex \in [Tasks -> Workers \cup {NULL}]
      BY <1>0 DEF TypeOK
    <3>3. CASE /\ p \in Workers /\ cur[p] \in Tasks /\ taskMutex[cur[p]] = NULL
               /\ taskMutex' = [taskMutex EXCEPT ![cur[p]] = p]
               /\ pc[p] \notin Finishing /\ pc'[p] \in Finishing /\ UNCHANGED cur
      <4>1. taskMutex'[t] = IF t = cur[p] THEN p ELSE taskMutex[t]
        BY <3>2, <3>3
      <4>2. CASE v = p
        BY <1>a, <3>3, <4>1, <4>2
      <4>3. CASE v # p /\ t = cur[p]
        BY <1>a, <3>1, <3>3, <4>1, <4>3, Distinct
      <4>4. CASE v # p /\ t # cur[p]
        BY <1>a, <3>1, <3>3, <4>1, <4>4
      <4> QED
        BY <4>2, <4>3, <4>4
    <3>4. CASE /\ p \in Workers /\ cur[p] \in Tasks
               /\ taskMutex' = [taskMutex EXCEPT ![cur[p]] = NULL]
               /\ pc[p] \in Finishing /\ pc'[p] \notin Finishing
      <4>1. taskMutex'[t] = IF t = cur[p] THEN NULL ELSE taskMutex[t]
        BY <3>2, <3>4
      <4>2. CASE v = p
        BY <1>a, <3>4, <4>1, <4>2, Distinct
      <4>3. CASE v # p /\ t = cur[p]
        <5>1. taskMutex[t] = p
          BY <1>a, <3>4, <4>3
        <5> QED
          BY <1>a, <3>1, <3>4, <4>1, <4>3, <5>1, Distinct
      <4>4. CASE v # p /\ t # cur[p]
        BY <1>a, <3>1, <3>4, <4>1, <4>4
      <4> QED
        BY <4>2, <4>3, <4>4
    <3>5. CASE /\ UNCHANGED taskMutex
               /\ \/ pc[p] \in Finishing /\ pc'[p] \in Finishing /\ UNCHANGED cur
                  \/ pc[p] \notin Finishing /\ pc'[p] \notin Finishing
      BY <1>a, <3>1, <3>5
    <3> QED
      BY <1>2, <3>3, <3>4, <3>5, TaskMutexSteps
  <2> QED
    BY <2>1, <2>2 DEF LockInv, InSupervisor, Finishing
<1> QED
  BY <1>1, <1>2, Movers, Distinct

\* The steps that change the links between tasks.
LEMMA LinkSteps ==
    ASSUME [Next]_vars
    PROVE  /\ UNCHANGED startTasks
                \/ \E p \in Procs : AddStartTask(p) \/ AddDependencyStart(p)
           /\ UNCHANGED <<dependencies, finishedDependencies>>
                \/ (\E p \in Procs : AddDependency(p)) \/ (\E w \in Workers : StartTask(w))
           /\ UNCHANGED cancelTasks \/ \E p \in Procs : AddCancelTask(p)
           /\ UNCHANGED waitingTasks
                \/ (\E p \in Procs : PushTask(p)) \/ (\E w \in Workers : StartTask(w))
<1>1. ASSUME NEW w \in Workers, WorkerStep(w)
      PROVE  /\ UNCHANGED <<startTasks, cancelTasks>>
             /\ UNCHANGED <<dependencies, finishedDependencies, waitingTasks>> \/ StartTask(w)
  BY <1>1 DEF WorkerStep, LoopTop, GetTask, GetTaskWait, RunBegin, RunCanceled,
     ObserveException, FuncReturn, RunEnd, FinishDone, FinishCanceled, NotifyCancel,
     NotifyStart, NotifyDone, StartTask, links, lists
<1>2. ASSUME NEW p \in Procs, CallStep(p)
      PROVE  /\ UNCHANGED startTasks \/ AddStartTask(p) \/ AddDependencyStart(p)
             /\ UNCHANGED <<dependencies, finishedDependencies>> \/ AddDependency(p)
             /\ UNCHANGED cancelTasks \/ AddCancelTask(p)
             /\ UNCHANGED waitingTasks \/ PushTask(p)
  BY <1>2 DEF CallStep, EnterSupervisor, PushTask, CancelTask, WaitBlock, WaitReturn,
     AddStartTask, AddCancelTask, AddDependencyStart, AddDependency, SetAllowableThreads,
     links, lists
<1>3. ASSUME NEW p \in Procs, SpuriousWakeup(p)
      PROVE  UNCHANGED <<startTasks, dependencies, finishedDependencies, cancelTasks, waitingTasks>>
  BY <1>3 DEF SpuriousWakeup, links, lists
<1>4. CASE UNCHANGED vars
  BY <1>4 DEF vars, links, lists
<1> QED
  BY <1>1, <1>2, <1>3, <1>4 DEF Next, Sleep

\* A link to a start set is never removed.
LEMMA StartTasksGrow ==
    ASSUME SupervisorInv, [Next]_vars, NEW d \in Tasks
    PROVE  startTasks[d] \subseteq startTasks'[d]
<1>1. startTasks \in [Tasks -> SUBSET Tasks]
  BY DEF SupervisorInv, TypeOK
<1>2. ASSUME NEW p \in Procs, AddStartTask(p) \/ AddDependencyStart(p)
      PROVE  startTasks[d] \subseteq startTasks'[d]
  BY <1>1, <1>2 DEF AddStartTask, AddDependencyStart
<1> QED
  BY <1>2, LinkSteps

\* The next call of a thread that does not move, or that stays in its call.
LEMMA SameCall ==
    ASSUME NEW p \in Procs, NEW q \in Procs \ {p}, OnlyMoves(p),
           pc[q] = "user" \/ pc[q] \in InCall
    PROVE  /\ Call(q)' = Call(q) /\ Caller(q)' = Caller(q)
           /\ script'[Caller(q)] = script[Caller(q)]
  BY DEF OnlyMoves, Call, Caller

\* A call in progress is the next call of its caller.
LEMMA NestedInvariant ==
    ASSUME SupervisorInv, NestedInv, [Next]_vars
    PROVE  NestedInv'
<1>0. TypeOK /\ ControlInv /\ HeldInv /\ CallInv
  BY DEF SupervisorInv
<1> SUFFICES ASSUME NEW q \in Procs
             PROVE  /\ pc'[q] \in {"push", "cancel"} =>
                          Call(q)'.op = pc'[q] /\ target'[q] = Call(q)'.task
                    /\ pc'[q] = "depend" =>
                          /\ Call(q)'.op = "addDependency"
                          /\ Call(q)'.task \in startTasks'[Call(q)'.arg]
  BY DEF NestedInv
<1>1. CASE UNCHANGED vars
  BY <1>1 DEF NestedInv, vars, locals, links, Call, Caller
<1>2. ASSUME NEW p \in Procs, p # q, OnlyMoves(p),
             pc'[q] \in {"push", "cancel", "depend"}
      PROVE  /\ pc'[q] \in {"push", "cancel"} =>
                   Call(q)'.op = pc'[q] /\ target'[q] = Call(q)'.task
             /\ pc'[q] = "depend" =>
                   /\ Call(q)'.op = "addDependency"
                   /\ Call(q)'.task \in startTasks'[Call(q)'.arg]
  <2>1. pc'[q] = pc[q] /\ target'[q] = target[q]
    BY <1>2 DEF OnlyMoves
  <2>2. pc[q] \in InCall
    BY <1>2, <2>1 DEF InCall
  <2>3. Call(q)' = Call(q)
    BY <1>2, <2>2, SameCall
  <2>4. script[Caller(q)] # <<>> /\ Call(q).op \in TaskOps
    BY <1>0, <2>2 DEF CallInv
  <2>5. Call(q).arg \in Tasks
    BY <1>0, <2>2, <2>4, CallFacts
  <2> QED
    BY <2>1, <2>3, <2>5, StartTasksGrow DEF NestedInv
<1>3. ASSUME (q \in Workers /\ WorkerStep(q)) \/ CallStep(q) \/ SpuriousWakeup(q)
      PROVE  /\ pc'[q] \in {"push", "cancel"} =>
                   Call(q)'.op = pc'[q] /\ target'[q] = Call(q)'.task
             /\ pc'[q] = "depend" =>
                   /\ Call(q)'.op = "addDependency"
                   /\ Call(q)'.task \in startTasks'[Call(q)'.arg]
  <2>1. /\ pc'[q] = "push" => EnterSupervisor(q, "push")
        /\ pc'[q] = "cancel" => EnterSupervisor(q, "cancel")
        /\ pc'[q] = "depend" => AddDependencyStart(q)
    <3>1. CASE q \in Workers /\ WorkerStep(q)
      BY <3>1, WorkerPlaces DEF WorkerStep
    <3>2. CASE CallStep(q)
      BY <3>2, CallPlaces DEF CallStep
    <3>3. CASE SpuriousWakeup(q)
      BY <3>3, CallPlaces
    <3> QED
      BY <1>3, <3>1, <3>2, <3>3
  <2>2. ASSUME NEW op \in {"push", "cancel"}, EnterSupervisor(q, op)
        PROVE  Call(q)'.op = op /\ target'[q] = Call(q)'.task
    <3>1. Call(q).op = op /\ target'[q] = Call(q).task
      BY <1>0, <2>2 DEF EnterSupervisor, Calling, Call, TypeOK
    <3>2. Call(q)' = Call(q)
      BY <2>2 DEF EnterSupervisor, Call, Caller
    <3> QED
      BY <3>1, <3>2
  <2>3. ASSUME AddDependencyStart(q)
        PROVE  /\ Call(q)'.op = "addDependency"
               /\ Call(q)'.task \in startTasks'[Call(q)'.arg]
    <3>1. pc[q] = "user" /\ script[Caller(q)] # <<>> /\ Call(q).op = "addDependency"
      BY <2>3 DEF AddDependencyStart, Calling, Call
    <3>2. Call(q).arg \in Tasks
      BY <1>0, <3>1, CallFacts DEF TaskOps
    <3>3. Call(q).task \in startTasks'[Call(q).arg]
      BY <1>0, <2>3, <3>2 DEF AddDependencyStart, TypeOK
    <3>4. Call(q)' = Call(q)
      BY <2>3 DEF AddDependencyStart, Call, Caller, locals
    <3> QED
      BY <3>1, <3>3, <3>4
  <2> QED
    BY <2>1, <2>2, <2>3
<1> QED
  BY <1>1, <1>2, <1>3, Movers, Distinct

\* The worker of a task starts only members of its start set.
LEMMA StartInvariant ==
    ASSUME SupervisorInv, StartInv, [Next]_vars
    PROVE  StartInv'
<1>0. TypeOK /\ ControlInv
  BY DEF SupervisorInv
<1> DEFINE Good(v) ==
      /\ pc'[v] \in Notifying => toStart'[v] \subseteq startTasks'[cur'[v]]
      /\ pc'[v] = "notifyStart" => target'[v] \in startTasks'[cur'[v]] \ toStart'[v]
<1>1. ASSUME NEW v \in Workers, pc[v] \in Notifying, cur'[v] = cur[v],
             UNCHANGED toStart \/ toStart'[v] = toStart[v],
             pc'[v] = "notifyStart" => pc[v] = "notifyStart" /\ target'[v] = target[v]
      PROVE  Good(v)
  <2>1. cur[v] \in Tasks
    BY <1>0, <1>1 DEF TypeOK, ControlInv, Free, Notifying
  <2> QED
    BY <1>1, <2>1, StartTasksGrow DEF StartInv
<1>2. ASSUME UNCHANGED vars, NEW v \in Workers PROVE Good(v)
  BY <1>2 DEF StartInv, vars, locals, links
<1>3. ASSUME NEW p \in Procs, NEW v \in Workers, p # v, OnlyMoves(p) PROVE Good(v)
  <2>1. /\ pc'[v] \in Notifying => pc'[v] = pc[v]
        /\ target'[v] = target[v] /\ cur'[v] = cur[v] /\ toStart'[v] = toStart[v]
    BY <1>3, Distinct DEF OnlyMoves, Notifying
  <2>2. CASE pc'[v] \in Notifying
    BY <1>1, <2>1, <2>2
  <2> QED
    BY <2>2 DEF Notifying
<1>4. ASSUME NEW v \in Workers, WorkerStep(v) PROVE Good(v)
  <2>1. CASE FinishDone(v)
    <3>1. cur[v] \in Tasks /\ pc'[v] = "notify"
      BY <1>0, <2>1, WorkerPlaces DEF FinishDone, TypeOK, ControlInv, Free
    <3>2. toStart'[v] = startTasks[cur[v]] /\ cur'[v] = cur[v]
      BY <1>0, <2>1 DEF FinishDone, TypeOK
    <3> QED
      BY <3>1, <3>2, StartTasksGrow DEF Notifying
  <2>2. CASE NotifyCancel(v)
    <3>1. pc[v] \in Notifying /\ pc'[v] = "notifyCancel" /\ UNCHANGED <<cur, toStart>>
      BY <2>2, WorkerPlaces DEF NotifyCancel, Notifying
    <3> QED
      BY <1>1, <3>1
  <2>3. CASE NotifyStart(v)
    <3>1. pc[v] = "notify" /\ pc'[v] = "notifyStart"
      BY <2>3, WorkerPlaces
    <3>2. PICK x \in toStart[v] : /\ target' = [target EXCEPT ![v] = x]
                                  /\ toStart' = [toStart EXCEPT ![v] = @ \ {x}]
      BY <2>3 DEF NotifyStart
    <3>a. cur[v] \in Tasks /\ cur'[v] = cur[v]
      BY <1>0, <2>3, <3>1 DEF NotifyStart, TypeOK, ControlInv, Free
    <3>3. target'[v] = x /\ toStart'[v] = toStart[v] \ {x}
      BY <1>0, <3>2, Distinct DEF TypeOK
    <3>4. toStart[v] \subseteq startTasks[cur[v]]
      BY <3>1 DEF StartInv, Notifying
    <3> QED
      BY <3>1, <3>a, <3>3, <3>4, StartTasksGrow
  <2>4. CASE StartTask(v)
    <3>1. pc[v] \in Notifying /\ pc'[v] = "notify" /\ UNCHANGED <<cur, toStart>>
      BY <2>4, WorkerPlaces DEF StartTask, Notifying
    <3> QED
      BY <1>1, <3>1
  <2>5. CASE ~FinishDone(v) /\ ~NotifyCancel(v) /\ ~NotifyStart(v) /\ ~StartTask(v)
    BY <1>4, <2>5, WorkerPlaces DEF WorkerStep, Notifying
  <2> QED
    BY <2>1, <2>2, <2>3, <2>4, <2>5
<1>5. ASSUME NEW v \in Workers, CallStep(v) \/ SpuriousWakeup(v) PROVE Good(v)
  <2>1. CASE pc[v] = "notifyCancel" /\ CancelTask(v)
    <3>1. pc'[v] = "notify" /\ UNCHANGED <<cur, toStart>>
      BY <2>1, CallPlaces, Distinct DEF CancelTask
    <3> QED
      BY <1>1, <2>1, <3>1 DEF Notifying
  <2>2. CASE ~(pc[v] = "notifyCancel" /\ CancelTask(v))
    <3>1. pc'[v] \notin Notifying
      BY <1>5, <2>2, CallPlaces, Distinct DEF CallStep, Notifying
    <3> QED
      BY <3>1 DEF Notifying
  <2> QED
    BY <2>1, <2>2
<1>6. \A v \in Workers : Good(v)
  BY <1>2, <1>3, <1>4, <1>5, Movers, Distinct
<1> QED
  BY <1>6 DEF StartInv

\* Mutual exclusion, and the state of calls and notifications in progress.
THEOREM Locking == Spec => []LocksInv
<1>1. Init => LocksInv
  <2>1. ASSUME Init PROVE /\ \A p \in Procs : pc[p] = "loop" \/ pc[p] = "user"
                          /\ supMutex = NULL
                          /\ \A t \in Tasks : taskMutex[t] = NULL
    BY <2>1 DEF Init
  <2> QED
    BY <2>1, Distinct DEF LocksInv, LockInv, NestedInv, StartInv, Notifying
<1>2. SupervisorInv /\ LocksInv /\ [Next]_vars => LocksInv'
  BY LockInvariant, NestedInvariant, StartInvariant DEF LocksInv
<1> QED
  BY <1>1, <1>2, Invariance, PTL DEF Spec
-----------------------------------------------------------------------------
(***************************************************************************)
(* Users with a discipline: no deadlock of mutexes and no orphan.          *)
(***************************************************************************)
\* A thread that calls an operation is making that call.
LEMMA CallingMakes ==
    ASSUME NEW p, NEW op, Calling(p, op)
    PROVE  Making(p, op)
  BY DEF Calling, Making, Call

\* So is one in the middle of it.
LEMMA NestedMakes ==
    ASSUME SupervisorInv, NestedInv, NEW p \in Procs,
           pc[p] \in {"push", "cancel", "depend"}
    PROVE  /\ pc[p] # "depend" => Making(p, pc[p]) /\ target[p] = Call(p).task
           /\ pc[p] = "depend" => Making(p, "addDependency")
           /\ Call(p).task \in Tasks /\ Call(p).arg \in Tasks
<1>1. pc[p] \in InCall /\ script[Caller(p)] # <<>> /\ Call(p).op \in TaskOps
  BY DEF InCall, CallInv, SupervisorInv
<1>2. Call(p).task \in Tasks /\ Call(p).arg \in Tasks
  BY <1>1, CallFacts DEF SupervisorInv
<1> QED
  BY <1>1, <1>2 DEF NestedInv, Making

\* With no cancel sets, nothing is canceled by a task that ends.
LEMMA NoCancelSetsInvariant ==
    ASSUME SupervisorInv, Disciplined, NoCancelSets, [Next]_vars
    PROVE  NoCancelSets'
<1>0. TypeOK /\ ControlInv
  BY DEF SupervisorInv
<1>1. UNCHANGED cancelTasks
  <2>1. ASSUME NEW p \in Procs, AddCancelTask(p) PROVE FALSE
    BY <2>1, CallingMakes DEF AddCancelTask, Disciplined
  <2> QED
    BY <2>1, LinkSteps
<1>2. ASSUME NEW v \in Workers PROVE toCancel'[v] = {} /\ pc'[v] # "notifyCancel"
  <2>1. CASE UNCHANGED vars
    BY <2>1 DEF NoCancelSets, vars, locals
  <2>2. ASSUME NEW p \in Procs, p # v, OnlyMoves(p)
        PROVE  toCancel'[v] = {} /\ pc'[v] # "notifyCancel"
    BY <2>2, Distinct DEF OnlyMoves, NoCancelSets
  <2>3. CASE WorkerStep(v)
    <3>1. ~NotifyCancel(v)
      BY DEF NotifyCancel, NoCancelSets
    <3>2. pc'[v] # "notifyCancel"
      BY <2>3, <3>1, WorkerPlaces DEF WorkerStep
    <3>3. CASE FinishDone(v)
      <4>1. cur[v] \in Tasks
        BY <1>0, <3>3 DEF FinishDone, TypeOK, ControlInv, Free
      <4>2. toCancel'[v] = cancelTasks[cur[v]]
        BY <1>0, <3>3 DEF FinishDone, TypeOK
      <4> QED
        BY <3>2, <4>1, <4>2 DEF NoCancelSets
    <3>4. CASE ~FinishDone(v)
      <4>1. UNCHANGED toCancel
        BY <2>3, <3>1, <3>4 DEF WorkerStep, LoopTop, GetTask, GetTaskWait, RunBegin,
           RunCanceled, ObserveException, FuncReturn, RunEnd, FinishCanceled, NotifyStart,
           NotifyDone, StartTask, locals
      <4> QED
        BY <3>2, <4>1 DEF NoCancelSets
    <3> QED
      BY <3>3, <3>4
  <2>4. CASE CallStep(v) \/ SpuriousWakeup(v)
    <3>1. UNCHANGED toCancel
      BY <2>4 DEF CallStep, EnterSupervisor, PushTask, CancelTask, WaitBlock, WaitReturn,
         AddStartTask, AddCancelTask, AddDependencyStart, AddDependency,
         SetAllowableThreads, SpuriousWakeup, locals
    <3>2. pc'[v] # "notifyCancel"
      BY <2>4, CallPlaces, Distinct DEF CallStep
    <3> QED
      BY <3>1, <3>2 DEF NoCancelSets
  <2> QED
    BY <2>1, <2>2, <2>3, <2>4, Movers, Distinct
<1> QED
  BY <1>1, <1>2 DEF NoCancelSets

\* Who will start a task has it in its start set.
LEMMA StartersLinked ==
    ASSUME SupervisorInv, StartInv, NEW d \in Tasks, NEW t \in Tasks, WillStart(d, t)
    PROVE  t \in startTasks[d]
  BY DEF WillStart, Pending, StartInv

\* Only a new link makes a task start another one.
LEMMA NewStarters ==
    ASSUME SupervisorInv, [Next]_vars, NEW d \in Tasks, NEW t \in Tasks,
           WillStart(d, t)'
    PROVE  \/ WillStart(d, t)
           \/ \E p \in Procs :
                 /\ ~done[d]
                 /\ \/ AddStartTask(p) /\ Call(p).task = d /\ Call(p).arg = t
                    \/ AddDependencyStart(p) /\ Call(p).task = t /\ Call(p).arg = d
<1>0. TypeOK /\ ControlInv /\ HeldInv /\ DoneInv
  BY DEF SupervisorInv
<1>1. CASE ~done'[d] /\ t \in startTasks'[d]
  <2>1. ~done[d]
    BY <1>1, Monotone
  <2>2. ASSUME NEW p \in Procs, AddStartTask(p), t \notin startTasks[d]
        PROVE  Call(p).task = d /\ Call(p).arg = t
    <3>1. startTasks' = [startTasks EXCEPT ![Call(p).task] = @ \cup {Call(p).arg}]
      BY <2>2 DEF AddStartTask
    <3> QED
      BY <1>0, <1>1, <2>2, <3>1 DEF TypeOK
  <2>3. ASSUME NEW p \in Procs, AddDependencyStart(p), t \notin startTasks[d]
        PROVE  Call(p).task = t /\ Call(p).arg = d
    <3>1. startTasks' = [startTasks EXCEPT ![Call(p).arg] = @ \cup {Call(p).task}]
      BY <2>3 DEF AddDependencyStart
    <3> QED
      BY <1>0, <1>1, <2>3, <3>1 DEF TypeOK
  <2> QED
    BY <1>1, <2>1, <2>2, <2>3, LinkSteps DEF WillStart
<1>2. CASE Pending(d, t)'
  <2>1. PICK w \in Workers :
           /\ cur'[w] = d
           /\ pc'[w] \in Notifying
           /\ t \in toStart'[w] \/ (pc'[w] = "notifyStart" /\ target'[w] = t)
    BY <1>2 DEF Pending
  <2>2. CASE UNCHANGED vars
    BY <1>2, <2>2 DEF vars, locals, Pending, WillStart
  <2>3. ASSUME NEW p \in Procs, p # w, OnlyMoves(p) PROVE WillStart(d, t)
    <3>1. /\ pc'[w] = pc[w] /\ target'[w] = target[w]
          /\ cur'[w] = cur[w] /\ toStart'[w] = toStart[w]
      BY <2>1, <2>3, Distinct DEF OnlyMoves, Notifying
    <3> QED
      BY <2>1, <3>1 DEF Pending, WillStart
  <2>4. CASE FinishDone(w)
    <3>1. cur[w] = d /\ pc[w] = "finish" /\ toStart'[w] = startTasks[d] /\ pc'[w] = "notify"
      BY <1>0, <2>1, <2>4, WorkerPlaces DEF FinishDone, TypeOK
    <3>2. ~done[d]
      BY <1>0, <3>1, Distinct DEF HeldInv, DoneInv, Notifying
    <3> QED
      BY <2>1, <3>1, <3>2 DEF WillStart
  <2>5. CASE NotifyStart(w)
    <3>1. PICK x \in toStart[w] : /\ target' = [target EXCEPT ![w] = x]
                                  /\ toStart' = [toStart EXCEPT ![w] = @ \ {x}]
      BY <2>5 DEF NotifyStart
    <3>2. target'[w] = x /\ toStart'[w] = toStart[w] \ {x}
      BY <1>0, <3>1, Distinct DEF TypeOK
    <3>3. cur[w] = d /\ pc[w] \in Notifying
      BY <2>1, <2>5 DEF NotifyStart, Notifying
    <3> QED
      BY <2>1, <3>2, <3>3 DEF Pending, WillStart
  <2>6. CASE NotifyCancel(w) \/ StartTask(w) \/ (pc[w] = "notifyCancel" /\ CancelTask(w))
    <3>1. UNCHANGED <<cur, toStart>> /\ pc[w] \in Notifying
      BY <2>6 DEF NotifyCancel, StartTask, CancelTask, Notifying
    <3>2. pc'[w] # "notifyStart"
      BY <2>6, WorkerPlaces, CallPlaces, Distinct
    <3> QED
      BY <2>1, <3>1, <3>2 DEF Pending, WillStart
  <2>7. ASSUME WorkerStep(w)
        PROVE  FinishDone(w) \/ NotifyStart(w) \/ NotifyCancel(w) \/ StartTask(w)
    BY <2>1, <2>7, WorkerPlaces DEF WorkerStep, Notifying
  <2>8. ASSUME CallStep(w) \/ SpuriousWakeup(w)
        PROVE  pc[w] = "notifyCancel" /\ CancelTask(w)
    BY <2>1, <2>8, CallPlaces, Distinct DEF CallStep, Notifying
  <2> QED
    BY <2>2, <2>3, <2>4, <2>5, <2>6, <2>7, <2>8, Movers, Distinct
<1> QED
  BY <1>1, <1>2 DEF WillStart

\* A task that has started another one will not do so again.
LEMMA StartedOnce ==
    ASSUME SupervisorInv, StartInv, NEW w \in Workers, StartTask(w)
    PROVE  \E d, t \in Tasks :
              /\ d = cur[w] /\ t = target[w]
              /\ t \in startTasks[d]
              /\ WillStart(d, t) /\ ~WillStart(d, t)'
<1>0. TypeOK /\ ControlInv /\ HeldInv /\ DoneInv
  BY DEF SupervisorInv
<1>1. PICK d \in Tasks : d = cur[w]
  BY <1>0 DEF StartTask, TypeOK, ControlInv, Free
<1>2. PICK t \in Tasks : t = target[w]
  BY <1>0, Distinct DEF StartTask, ControlInv, Targeting
<1>3. /\ pc[w] = "notifyStart" /\ pc'[w] = "notify"
      /\ UNCHANGED <<cur, toStart, done>>
  BY WorkerPlaces DEF StartTask
<1>4. t \in startTasks[d] \ toStart[w]
  BY <1>1, <1>2, <1>3 DEF StartInv
<1>5. done[d]
  BY <1>0, <1>1, <1>3, Distinct DEF HeldInv, DoneInv, Notifying
<1>6. WillStart(d, t)
  BY <1>1, <1>2, <1>3 DEF WillStart, Pending, Notifying
<1>7. ~WillStart(d, t)'
  <2>1. \A v \in Workers : cur'[v] = d => v = w
    BY <1>0, <1>1, <1>3, Distinct DEF HeldInv
  <2> QED
    BY <1>3, <1>4, <1>5, <2>1 DEF WillStart, Pending
<1> QED
  BY <1>1, <1>2, <1>4, <1>6, <1>7

\* A task becomes ready when nobody is left who would start it.
LEMMA ReadyUnowed ==
    ASSUME SupervisorInv, LocksInv, Disciplined, Disciplined', StarterInv, [Next]_vars,
           NEW d \in Tasks, NEW t \in Tasks, WillStart(d, t), WillStart(d, t)'
    PROVE  ~readyToRun'[t]
<1>0. TypeOK /\ NestedInv /\ StartInv
  BY DEF SupervisorInv, LocksInv
<1>1. /\ ~readyToRun[t] /\ d \notin finishedDependencies[t] /\ t \in startTasks[d]
      /\ d \in dependencies[t] \/ SoleStarter(d, t) \/ Linking(d, t)
  BY <1>0, StartersLinked DEF StarterInv
<1>2. ASSUME NEW p \in Procs, PushTask(p), readyToRun'[t] PROVE FALSE
  <2>1. target[p] = t /\ dependencies[t] = {}
    BY <1>0, <1>1, <1>2 DEF PushTask, Enqueue, TypeOK
  <2>2. Making(p, "push") /\ Call(p).task = t
    BY <1>0, <1>2, <2>1, NestedMakes DEF PushTask
  <2>3. LinkedBut(t, NULL) /\ d # NULL
    BY <2>2, Distinct DEF Disciplined
  <2> QED
    BY <1>1, <2>1, <2>3 DEF LinkedBut
<1>3. ASSUME NEW w \in Workers, StartTask(w), OnlyMoves(w), readyToRun'[t] PROVE FALSE
  <2>1. target[w] = t /\ dependencies[t] \subseteq {cur[w]}
    BY <1>0, <1>1, <1>3 DEF StartTask, Enqueue, Met, TypeOK
  <2>2. PICK e \in Tasks : e = cur[w] /\ t \in startTasks[e] /\ ~WillStart(e, t)'
    BY <1>0, <1>3, <2>1, StartedOnce
  <2>3. e # d
    BY <2>2
  <2>4. CASE d \in dependencies[t]
    BY <2>1, <2>2, <2>3, <2>4
  <2>5. CASE SoleStarter(d, t)
    BY <2>2, <2>3, <2>5 DEF SoleStarter
  <2>6. CASE Linking(d, t)
    <3>1. PICK p \in Procs : pc[p] = "depend" /\ Call(p).task = t
      BY <2>6 DEF Linking
    <3>2. p # w
      BY <1>3, <3>1 DEF StartTask
    <3>3. pc'[p] = "depend" /\ Call(p)' = Call(p) /\ script'[Caller(p)] = script[Caller(p)]
          /\ Caller(p)' = Caller(p)
      BY <1>3, <3>1, <3>2, SameCall, Distinct DEF OnlyMoves, InCall
    <3>4. Making(p, "addDependency")
      BY <1>0, <3>1, NestedMakes
    <3>5. Making(p, "addDependency")'
      BY <3>3, <3>4 DEF Making, InCall
    <3> QED
      BY <1>3, <3>1, <3>3, <3>5 DEF Disciplined
  <2> QED
    BY <1>1, <2>4, <2>5, <2>6
<1>4. ASSUME readyToRun'[t] PROVE FALSE
  <2>1. readyToRun' # readyToRun
    BY <1>1, <1>4
  <2>2. (\E w \in Workers : StartTask(w)) \/ (\E p \in Procs : PushTask(p))
    BY <2>1, ReadySteps
  <2>3. ASSUME NEW w \in Workers, StartTask(w) PROVE OnlyMoves(w)
    BY <2>3, WorkerMoves DEF WorkerStep
  <2> QED
    BY <1>2, <1>3, <1>4, <2>2, <2>3
<1> QED
  BY <1>4

\* What a task waits to be started by stays what it waits for.
LEMMA StarterKept ==
    ASSUME SupervisorInv, LocksInv, Disciplined, StarterInv, [Next]_vars,
           NEW d \in Tasks, NEW t \in Tasks, WillStart(d, t), WillStart(d, t)'
    PROVE  /\ d \notin finishedDependencies'[t]
           /\ \/ d \in dependencies'[t]
              \/ SoleStarter(d, t)'
              \/ Linking(d, t)'
<1>0. TypeOK /\ NestedInv /\ StartInv
  BY DEF SupervisorInv, LocksInv
<1>a. dependencies \in [Tasks -> SUBSET Tasks]
  BY <1>0 DEF TypeOK
<1>1. /\ d \notin finishedDependencies[t] /\ t \in startTasks[d]
      /\ d \in dependencies[t] \/ SoleStarter(d, t) \/ Linking(d, t)
  BY <1>0, StartersLinked DEF StarterInv
<1>2. ASSUME NEW w \in Workers, StartTask(w)
      PROVE  /\ d \notin finishedDependencies'[t]
             /\ d \in dependencies[t] => d \in dependencies'[t]
             /\ dependencies[t] = {} => dependencies'[t] = {}
  <2>1. PICK e, x \in Tasks : e = cur[w] /\ x = target[w] /\ ~WillStart(e, x)'
    BY <1>0, <1>2, StartedOnce
  <2>2. t # x \/ e # d
    BY <2>1
  <2>3. \/ UNCHANGED <<dependencies, finishedDependencies>>
        \/ /\ dependencies' = [dependencies EXCEPT ![x] = @ \ (@ \cap {e})]
           /\ finishedDependencies' =
                 [finishedDependencies EXCEPT ![x] = @ \cup (dependencies[x] \cap {e})]
    BY <1>0, <1>2, <2>1 DEF StartTask, Met, TypeOK
  <2> QED
    BY <1>0, <1>1, <2>2, <2>3 DEF TypeOK
<1>3. ASSUME NEW p \in Procs, AddDependency(p)
      PROVE  /\ UNCHANGED <<finishedDependencies, startTasks>>
             /\ Making(p, "addDependency")
             /\ Call(p).task \in Tasks /\ Call(p).arg \in Tasks
             /\ dependencies' = [dependencies EXCEPT ![Call(p).task] = @ \cup {Call(p).arg}]
  BY <1>0, <1>3, NestedMakes DEF AddDependency
<1>4. d \notin finishedDependencies'[t]
  BY <1>1, <1>2, <1>3, LinkSteps
<1>5. d \in dependencies[t] => d \in dependencies'[t]
  <2>1. ASSUME NEW p \in Procs, AddDependency(p), d \in dependencies[t]
        PROVE  d \in dependencies'[t]
    <3>1. PICK x, y \in Tasks : dependencies' = [dependencies EXCEPT ![x] = @ \cup {y}]
      BY <1>3, <2>1
    <3> QED
      BY <1>a, <2>1, <3>1
  <2> QED
    BY <1>2, <2>1, LinkSteps
<1>6. ASSUME SoleStarter(d, t) PROVE SoleStarter(d, t)' \/ d \in dependencies'[t]
  <2>1. /\ dependencies[t] = {}
        /\ \A e \in Tasks \ {d} : t \notin startTasks[e]
    BY <1>6 DEF SoleStarter
  <2>2. ASSUME NEW p \in Procs, Making(p, "addDependency"), Call(p).task = t,
               Call(p).arg \in Tasks
        PROVE  Call(p).arg = d
    <3>1. LinkedBut(t, Call(p).arg)
      BY <2>2 DEF Disciplined
    <3> QED
      BY <1>1, <2>1, <3>1 DEF LinkedBut
  <2>3. dependencies'[t] = {} \/ d \in dependencies'[t]
    <3>1. ASSUME NEW p \in Procs, AddDependency(p)
          PROVE  dependencies'[t] = {} \/ d \in dependencies'[t]
      <4>1. PICK x, y \in Tasks : /\ x = Call(p).task /\ y = Call(p).arg
                                  /\ dependencies' = [dependencies EXCEPT ![x] = @ \cup {y}]
        BY <1>3, <3>1
      <4>2. x = t => y = d
        BY <1>3, <2>2, <3>1, <4>1
      <4> QED
        BY <1>a, <2>1, <4>1, <4>2
    <3> QED
      BY <1>2, <2>1, <3>1, LinkSteps
  <2>4. ASSUME NEW e \in Tasks \ {d} PROVE t \notin startTasks'[e]
    <3>1. ASSUME NEW p \in Procs, AddStartTask(p) PROVE t \notin startTasks'[e]
      <4>1. /\ Making(p, "addStart")
            /\ startTasks' = [startTasks EXCEPT ![Call(p).task] = @ \cup {Call(p).arg}]
        BY <3>1, CallingMakes DEF AddStartTask
      <4>2. \A x \in Tasks \ {Call(p).task} : Call(p).arg \notin startTasks[x]
        BY <4>1 DEF Disciplined
      <4>3. Call(p).arg = t => Call(p).task = d
        BY <1>1, <4>2
      <4> QED
        BY <1>0, <2>1, <4>1, <4>3 DEF TypeOK
    <3>2. ASSUME NEW p \in Procs, AddDependencyStart(p) PROVE t \notin startTasks'[e]
      <4>1. /\ Making(p, "addDependency")
            /\ startTasks' = [startTasks EXCEPT ![Call(p).arg] = @ \cup {Call(p).task}]
        BY <3>2, CallingMakes DEF AddDependencyStart
      <4>2. CASE Call(p).task = t /\ Call(p).arg \in Tasks
        BY <1>0, <2>1, <2>2, <4>1, <4>2 DEF TypeOK
      <4>3. CASE ~(Call(p).task = t /\ Call(p).arg \in Tasks)
        BY <1>0, <2>1, <4>1, <4>3 DEF TypeOK
      <4> QED
        BY <4>2, <4>3
    <3> QED
      BY <2>1, <3>1, <3>2, LinkSteps
  <2> QED
    BY <2>3, <2>4 DEF SoleStarter
<1>7. ASSUME Linking(d, t) PROVE Linking(d, t)' \/ d \in dependencies'[t]
  <2>1. PICK p \in Procs : pc[p] = "depend" /\ Call(p).task = t /\ Call(p).arg = d
    BY <1>7 DEF Linking
  <2>2. CASE UNCHANGED vars
    BY <1>7, <2>2 DEF vars, locals, Linking, Call, Caller
  <2>3. ASSUME NEW q \in Procs, q # p, OnlyMoves(q) PROVE Linking(d, t)'
    <3>1. pc'[p] = "depend" /\ Call(p)' = Call(p)
      BY <2>1, <2>3, SameCall DEF OnlyMoves, InCall
    <3> QED
      BY <2>1, <3>1 DEF Linking
  <2>4. CASE (p \in Workers /\ WorkerStep(p)) \/ CallStep(p) \/ SpuriousWakeup(p)
    <3>1. AddDependency(p)
      BY <2>1, <2>4, WorkerPlaces, CallPlaces DEF WorkerStep, CallStep
    <3> QED
      BY <1>0, <1>3, <2>1, <3>1 DEF TypeOK
  <2> QED
    BY <2>2, <2>3, <2>4, Movers, Distinct
<1> QED
  BY <1>1, <1>4, <1>5, <1>6, <1>7

\* Who will be started is not ready, and is not made ready by anybody else.
LEMMA StarterInvariant ==
    ASSUME SupervisorInv, LocksInv, Disciplined, Disciplined', StarterInv, [Next]_vars
    PROVE  StarterInv'
<1>0. TypeOK /\ ControlInv /\ HeldInv /\ DoneInv
  BY DEF SupervisorInv
<1> SUFFICES ASSUME NEW d \in Tasks, NEW t \in Tasks, WillStart(d, t)'
             PROVE  /\ ~readyToRun'[t]
                    /\ d \notin finishedDependencies'[t]
                    /\ d \in dependencies'[t] \/ SoleStarter(d, t)' \/ Linking(d, t)'
  BY DEF StarterInv
<1>1. CASE WillStart(d, t)
  BY <1>1, ReadyUnowed, StarterKept
<1>2. ASSUME ~done[d] PROVE d \notin finishedDependencies[t]
  BY <1>0, <1>2 DEF DoneInv
<1>3. ASSUME NEW p \in Procs, ~done[d],
             AddStartTask(p), Call(p).task = d, Call(p).arg = t
      PROVE  /\ ~readyToRun'[t]
             /\ d \notin finishedDependencies'[t]
             /\ SoleStarter(d, t)'
  <2>1. Making(p, "addStart")
    BY <1>3, CallingMakes DEF AddStartTask
  <2>2. /\ ~readyToRun[t] /\ dependencies[t] = {}
        /\ \A e \in Tasks \ {d} : t \notin startTasks[e]
    BY <1>3, <2>1 DEF Disciplined
  <2>3. /\ UNCHANGED <<readyToRun, dependencies, finishedDependencies>>
        /\ startTasks' = [startTasks EXCEPT ![d] = @ \cup {t}]
    BY <1>3 DEF AddStartTask, status
  <2>4. \A e \in Tasks \ {d} : t \notin startTasks'[e]
    BY <1>0, <2>2, <2>3 DEF TypeOK
  <2> QED
    BY <1>2, <1>3, <2>2, <2>3, <2>4 DEF SoleStarter
<1>4. ASSUME NEW p \in Procs, ~done[d],
             AddDependencyStart(p), Call(p).task = t, Call(p).arg = d
      PROVE  /\ ~readyToRun'[t]
             /\ d \notin finishedDependencies'[t]
             /\ Linking(d, t)'
  <2>1. Making(p, "addDependency")
    BY <1>4, CallingMakes DEF AddDependencyStart
  <2>2. ~readyToRun[t]
    BY <1>4, <2>1 DEF Disciplined
  <2>3. UNCHANGED <<readyToRun, finishedDependencies>>
    BY <1>4 DEF AddDependencyStart, status
  <2>4. pc'[p] = "depend"
    BY <1>4, CallPlaces
  <2>5. Call(p)' = Call(p)
    BY <1>4 DEF AddDependencyStart, Call, Caller, locals
  <2> QED
    BY <1>2, <1>4, <2>2, <2>3, <2>4, <2>5 DEF Linking
<1> QED
  BY <1>1, <1>3, <1>4, NewStarters

\* A start that is pending is made, by the worker it is pending with.
LEMMA PendingKept ==
    ASSUME SupervisorInv, LocksInv, NoCancelSets, StarterInv, [Next]_vars,
           NEW d \in Tasks, NEW t \in Tasks, d \in dependencies[t], Pending(d, t)
    PROVE  Pending(d, t)' \/ d \notin dependencies'[t]
<1>0. TypeOK /\ ControlInv /\ StartInv
  BY DEF SupervisorInv, LocksInv
<1>1. PICK w \in Workers :
         /\ cur[w] = d
         /\ pc[w] \in Notifying
         /\ t \in toStart[w] \/ (pc[w] = "notifyStart" /\ target[w] = t)
  BY DEF Pending
<1>2. CASE UNCHANGED vars
  BY <1>2 DEF vars, locals, Pending
<1>3. ASSUME NEW p \in Procs, p # w, OnlyMoves(p) PROVE Pending(d, t)'
  <2>1. /\ pc'[w] = pc[w] /\ target'[w] = target[w]
        /\ cur'[w] = cur[w] /\ toStart'[w] = toStart[w]
    BY <1>1, <1>3, Distinct DEF OnlyMoves, Notifying
  <2> QED
    BY <1>1, <2>1 DEF Pending
<1>4. CASE NotifyCancel(w)
  BY <1>4 DEF NotifyCancel, NoCancelSets
<1>5. CASE NotifyStart(w)
  <2>1. PICK x \in toStart[w] : /\ target' = [target EXCEPT ![w] = x]
                                /\ toStart' = [toStart EXCEPT ![w] = @ \ {x}]
    BY <1>5 DEF NotifyStart
  <2>2. target'[w] = x /\ toStart'[w] = toStart[w] \ {x}
    BY <1>0, <2>1, Distinct DEF TypeOK
  <2>3. pc[w] = "notify" /\ pc'[w] = "notifyStart" /\ UNCHANGED cur
    BY <1>5, WorkerPlaces DEF NotifyStart
  <2> QED
    BY <1>1, <2>2, <2>3 DEF Pending, Notifying
<1>6. CASE NotifyDone(w)
  BY <1>1, <1>6 DEF NotifyDone
<1>7. CASE StartTask(w)
  <2>1. /\ pc[w] = "notifyStart" /\ pc'[w] = "notify" /\ UNCHANGED <<cur, toStart>>
    BY <1>7, WorkerPlaces DEF StartTask
  <2>2. CASE t \in toStart[w]
    BY <1>1, <2>1, <2>2 DEF Pending, Notifying
  <2>3. CASE target[w] = t
    <3>1. ~readyToRun[t]
      BY <1>1, <2>1, <2>3 DEF StarterInv, WillStart, Pending, Notifying
    <3>2. dependencies' = [dependencies EXCEPT ![t] = @ \ (@ \cap {d})]
      BY <1>0, <1>1, <1>7, <2>3, <3>1 DEF StartTask, Met, TypeOK
    <3> QED
      BY <1>0, <3>2 DEF TypeOK
  <2> QED
    BY <1>1, <2>2, <2>3
<1>8. ASSUME WorkerStep(w)
      PROVE  NotifyCancel(w) \/ NotifyStart(w) \/ NotifyDone(w) \/ StartTask(w)
  BY <1>1, <1>8, WorkerPlaces DEF WorkerStep, Notifying
<1>9. ~(CallStep(w) \/ SpuriousWakeup(w))
  BY <1>1, CallPlaces, Distinct DEF CallStep, Notifying, NoCancelSets
<1> QED
  BY <1>2, <1>3, <1>4, <1>5, <1>6, <1>7, <1>8, <1>9, Movers, Distinct

\* Every dependency goes on to owe its task the start, until it is met.
LEMMA OwesKept ==
    ASSUME SupervisorInv, LocksInv, Disciplined, DisciplineInv, [Next]_vars,
           NEW d \in Tasks, NEW t \in Tasks, d \in dependencies[t],
           d \in dependencies'[t]
    PROVE  Owes(d, t)'
<1>0. TypeOK /\ ControlInv /\ NestedInv /\ NoCancelSets /\ StarterInv /\ OrphanInv
  BY DEF SupervisorInv, LocksInv, DisciplineInv
<1>1. \/ ~done[d] /\ keepRunning[d] /\ t \in startTasks[d]
      \/ Pending(d, t)
  BY <1>0 DEF OrphanInv, Owes, Pending, Notifying
<1>2. CASE Pending(d, t)
  <2>1. Pending(d, t)'
    BY <1>0, <1>2, PendingKept
  <2> QED
    BY <2>1 DEF Owes, Pending, Notifying
<1>3. CASE ~done[d] /\ keepRunning[d] /\ t \in startTasks[d]
  <2>1. t \in startTasks'[d]
    BY <1>3, StartTasksGrow
  <2>2. keepRunning'[d]
    <3>1. ASSUME NEW p \in Procs, CancelTask(p), ~keepRunning'[d] PROVE FALSE
      <4>1. target[p] = d
        BY <1>0, <1>3, <3>1 DEF CancelTask, TypeOK
      <4>2. CASE pc[p] = "cancel"
        <5>1. Making(p, "cancel") /\ Call(p).task = d
          BY <1>0, <4>1, <4>2, NestedMakes
        <5> QED
          BY <1>3, <5>1 DEF Disciplined
      <4>3. CASE pc[p] = "notifyCancel"
        BY <1>0, <4>3, Distinct DEF ControlInv, InCall, NoCancelSets
      <4> QED
        BY <3>1, <4>2, <4>3 DEF CancelTask
    <3> QED
      BY <1>3, <3>1, ProgressSteps
  <2>3. CASE ~done'[d]
    BY <2>1, <2>2, <2>3 DEF Owes
  <2>4. CASE done'[d]
    <3>1. PICK w \in Workers : FinishDone(w)
      BY <1>3, <2>4, ProgressSteps
    <3>2. cur[w] = d
      BY <1>0, <1>3, <2>4, <3>1 DEF FinishDone, TypeOK
    <3>3. cur'[w] = d /\ toStart'[w] = startTasks[d]
      BY <1>0, <3>1, <3>2 DEF FinishDone, TypeOK
    <3>4. pc'[w] = "notify"
      BY <3>1, WorkerPlaces
    <3> QED
      BY <1>3, <3>3, <3>4 DEF Owes
  <2> QED
    BY <2>3, <2>4
<1> QED
  BY <1>1, <1>2, <1>3

\* Every dependency of a task will start it, and a parked task has one.
LEMMA OrphanInvariant ==
    ASSUME SupervisorInv, LocksInv, Disciplined, DisciplineInv, [Next]_vars
    PROVE  OrphanInv'
<1>0. /\ TypeOK /\ ControlInv /\ NestedInv /\ StartInv /\ NoCancelSets
      /\ StarterInv /\ OrphanInv
  BY DEF SupervisorInv, LocksInv, DisciplineInv
<1>a. /\ dependencies \in [Tasks -> SUBSET Tasks]
      /\ \A t \in Tasks : dependencies'[t] \subseteq Tasks
      /\ waitingTasks' \subseteq Tasks
  BY NextInv DEF SupervisorInv, TypeOK
<1>b. ASSUME NEW p \in Procs, AddDependency(p)
      PROVE  \E t, d \in Tasks :
                /\ t = Call(p).task /\ d = Call(p).arg
                /\ Making(p, "addDependency") /\ t \in startTasks[d]
                /\ dependencies' = [dependencies EXCEPT ![t] = @ \cup {d}]
                /\ UNCHANGED <<done, keepRunning, startTasks>>
  BY <1>0, <1>b, NestedMakes DEF AddDependency, NestedInv, status
<1>c. ASSUME NEW w \in Workers, StartTask(w)
      PROVE  \E x, d \in Tasks :
                /\ d = cur[w] /\ x = target[w] /\ ~readyToRun[x]
                /\ dependencies' = [dependencies EXCEPT ![x] = @ \ (@ \cap {d})]
                /\ \/ /\ dependencies[x] \ (dependencies[x] \cap {d}) # {}
                      /\ UNCHANGED waitingTasks
                   \/ waitingTasks' = waitingTasks \ {x}
  <2>1. PICK d, x \in Tasks : d = cur[w] /\ x = target[w] /\ WillStart(d, x)
    BY <1>0, <1>c, StartedOnce
  <2>2. ~readyToRun[x]
    BY <1>0, <2>1 DEF StarterInv
  <2> QED
    BY <1>c, <2>1, <2>2 DEF StartTask, Met
<1>1. ASSUME NEW t \in Tasks, NEW d \in dependencies'[t] PROVE Owes(d, t)'
  <2>1. CASE d \in dependencies[t]
    BY <1>1, <1>a, <2>1, OwesKept
  <2>2. CASE d \notin dependencies[t]
    <3>1. PICK p \in Procs : AddDependency(p)
      <4>1. ASSUME NEW w \in Workers, StartTask(w) PROVE FALSE
        BY <1>1, <1>a, <1>c, <2>2, <4>1
      <4> QED
        BY <1>1, <2>2, <4>1, LinkSteps
    <3>2. PICK x, e \in Tasks :
             /\ x = Call(p).task /\ e = Call(p).arg
             /\ Making(p, "addDependency") /\ x \in startTasks[e]
             /\ dependencies' = [dependencies EXCEPT ![x] = @ \cup {e}]
             /\ UNCHANGED <<done, keepRunning, startTasks>>
      BY <1>b, <3>1
    <3>3. x = t /\ e = d
      BY <1>1, <1>a, <2>2, <3>2
    <3>4. keepRunning[d] /\ ~done[d]
      BY <3>2, <3>3 DEF Disciplined
    <3> QED
      BY <3>2, <3>3, <3>4 DEF Owes
  <2> QED
    BY <2>1, <2>2
<1>2. ASSUME NEW t \in waitingTasks' PROVE dependencies'[t] # {}
  <2>0. t \in Tasks
    BY <1>2, <1>a
  <2>1. ASSUME NEW p \in Procs, PushTask(p) PROVE dependencies'[t] # {}
    <3>1. /\ UNCHANGED dependencies
          /\ t \in waitingTasks \/ dependencies[t] # {}
      BY <1>2, <2>1 DEF PushTask, links
    <3> QED
      BY <1>0, <3>1 DEF OrphanInv
  <2>2. ASSUME NEW w \in Workers, StartTask(w) PROVE dependencies'[t] # {}
    <3>1. PICK x, d \in Tasks :
             /\ dependencies' = [dependencies EXCEPT ![x] = @ \ (@ \cap {d})]
             /\ \/ /\ dependencies[x] \ (dependencies[x] \cap {d}) # {}
                   /\ UNCHANGED waitingTasks
                \/ waitingTasks' = waitingTasks \ {x}
      BY <1>c, <2>2
    <3> QED
      BY <1>0, <1>2, <1>a, <2>0, <3>1 DEF OrphanInv
  <2>3. ASSUME UNCHANGED waitingTasks PROVE dependencies'[t] # {}
    <3>1. dependencies[t] # {}
      BY <1>0, <1>2, <2>3 DEF OrphanInv
    <3>2. ASSUME NEW p \in Procs, AddDependency(p) PROVE dependencies'[t] # {}
      <4>1. PICK x, d \in Tasks : dependencies' = [dependencies EXCEPT ![x] = @ \cup {d}]
        BY <1>b, <3>2
      <4> QED
        BY <1>a, <2>0, <3>1, <4>1
    <3> QED
      BY <2>2, <3>1, <3>2, LinkSteps
  <2> QED
    BY <2>1, <2>2, <2>3, LinkSteps
<1> QED
  BY <1>1, <1>2 DEF OrphanInv

\* The invariant of disciplined users.
THEOREM Discipline == Spec /\ []Disciplined => []DisciplineInv
<1>1. Init => DisciplineInv
  <2>1. ASSUME Init
        PROVE  /\ \A p \in Procs : pc[p] = "loop" \/ pc[p] = "user"
               /\ \A w \in Workers : toCancel[w] = {}
               /\ \A t \in Tasks : /\ startTasks[t] = {} /\ cancelTasks[t] = {}
                                   /\ dependencies[t] = {}
               /\ waitingTasks = {}
    BY <2>1, Distinct DEF Init
  <2> QED
    BY <2>1, Distinct DEF DisciplineInv, NoCancelSets, StarterInv, OrphanInv, WillStart,
       Pending, Notifying
<1>2. /\ SupervisorInv /\ LocksInv /\ DisciplineInv
      /\ Disciplined /\ Disciplined' /\ [Next]_vars
      => DisciplineInv'
  BY NoCancelSetsInvariant, StarterInvariant, OrphanInvariant DEF DisciplineInv
<1> QED
  BY <1>1, <1>2, Invariance, Locking, PTL DEF Spec

\* Disciplined users never bring two threads to hold a mutex each and ask for
\* the other's: whoever has the supervisor's mutex asks for the mutex of a task
\* that is not ready, which nobody holds.
THEOREM DisciplinedNoDeadlock == Spec /\ []Disciplined => []NoLockDeadlock
<1>1. ASSUME SupervisorInv, LocksInv, DisciplineInv, Disciplined PROVE NoLockDeadlock
  <2>0. /\ TypeOK /\ ControlInv /\ HeldInv /\ LockInv /\ NestedInv /\ StartInv
        /\ NoCancelSets /\ StarterInv
    BY <1>1 DEF SupervisorInv, LocksInv, DisciplineInv
  <2> SUFFICES ASSUME supMutex # NULL
               PROVE  taskMutex[target[supMutex]] = NULL
    BY DEF NoLockDeadlock
  <2>1. PICK p \in Procs : p = supMutex
    BY <2>0 DEF TypeOK
  <2>2. pc[p] \in {"push", "cancel", "notifyStart"}
    <3>1. pc[p] \in {"push", "cancel", "notifyCancel", "notifyStart"}
      BY <2>0, <2>1 DEF LockInv
    <3>2. pc[p] # "notifyCancel"
      BY <2>0, Distinct DEF ControlInv, InCall, NoCancelSets
    <3> QED
      BY <3>1, <3>2
  <2>3. target[p] \in Tasks /\ ~readyToRun[target[p]]
    <3>1. target[p] \in Tasks
      BY <2>0, <2>2 DEF ControlInv, Targeting
    <3>2. CASE pc[p] = "push"
      <4>1. Making(p, "push") /\ target[p] = Call(p).task
        BY <1>1, <2>0, <3>2, NestedMakes
      <4> QED
        BY <1>1, <3>1, <4>1 DEF Disciplined
    <3>3. CASE pc[p] = "cancel"
      <4>1. Making(p, "cancel") /\ target[p] = Call(p).task
        BY <1>1, <2>0, <3>3, NestedMakes
      <4> QED
        BY <1>1, <3>1, <4>1 DEF Disciplined
    <3>4. CASE pc[p] = "notifyStart"
      <4>1. p \in Workers
        BY <2>0, <3>4, Distinct DEF ControlInv, InCall
      <4>2. cur[p] \in Tasks
        BY <2>0, <3>4, <4>1 DEF ControlInv, TypeOK, Free
      <4>3. WillStart(cur[p], target[p])
        BY <3>4, <4>1 DEF WillStart, Pending, Notifying
      <4> QED
        BY <2>0, <3>1, <4>2, <4>3 DEF StarterInv
    <3> QED
      BY <2>2, <3>1, <3>2, <3>3, <3>4
  <2>4. ASSUME NEW w \in Workers, taskMutex[target[p]] = w PROVE FALSE
    <3>1. cur[w] = target[p]
      BY <2>0, <2>3, <2>4 DEF LockInv
    <3> QED
      BY <2>0, <2>3, <3>1, Distinct DEF HeldInv
  <2> QED
    BY <2>0, <2>1, <2>3, <2>4 DEF TypeOK
<1> QED
  BY <1>1, Invariance, Locking, Discipline, PTL

\* Nor do they leave a parked task behind: each of the dependencies it waits
\* for will start it.
THEOREM DisciplinedNoOrphan == Spec /\ []Disciplined => []NoOrphan
<1>1. ASSUME SupervisorInv, DisciplineInv PROVE NoOrphan
  BY <1>1 DEF SupervisorInv, TypeOK, DisciplineInv, OrphanInv, NoOrphan
<1> QED
  BY <1>1, Invariance, Discipline, PTL
=============================================================================
