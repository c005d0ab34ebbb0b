---------------------- MODULE ThreadSupervisor_proofs -----------------------
(***************************************************************************)
(* Theorems about ThreadSupervisor, for any tasks, clients, workers and    *)
(* scripts: the inductive invariant SupervisorInv, one lemma per action,   *)
(* and what follows from it.                                               *)
(***************************************************************************)
EXTENDS ThreadSupervisorInv, TLAPS

\* The elements of the tail of a sequence, shifted by one.
LEMMA TailElements ==
    ASSUME NEW S, NEW s \in Seq(S), s # <<>>
    PROVE  /\ Tail(s) \in Seq(S)
           /\ 1 \in DOMAIN s /\ Head(s) = s[1] /\ Head(s) \in S
           /\ \A i \in DOMAIN Tail(s) :
                 i \in Nat /\ i # 0 /\ i + 1 \in DOMAIN s /\ Tail(s)[i] = s[i + 1]
  OBVIOUS

\* The elements of a sequence with one more at its end.
LEMMA AppendElements ==
    ASSUME NEW S, NEW s \in Seq(S), NEW e \in S
    PROVE  /\ Append(s, e) \in Seq(S)
           /\ \A i \in DOMAIN Append(s, e) :
                 \/ i \in DOMAIN s /\ Append(s, e)[i] = s[i]
                 \/ i = Len(s) + 1 /\ Append(s, e)[i] = e
           /\ Len(s) + 1 \notin DOMAIN s
  OBVIOUS

\* The elements of a sequence over S are in S.
LEMMA SequenceElements ==
    ASSUME NEW S, NEW s \in Seq(S), NEW i \in DOMAIN s
    PROVE  s[i] \in S
  OBVIOUS

\* NULL is no task and no thread, and the kinds of threads and callers differ.
LEMMA Distinct ==
    /\ NULL \notin Tasks /\ NULL \notin Procs /\ NULL \notin Workers
    /\ Workers \subseteq Procs /\ Clients \subseteq Procs
    /\ \A p \in Procs : p \in Workers \/ p \in Clients
    /\ Clients \cap Workers = {}
    /\ Tasks \subseteq Callers /\ Clients \subseteq Callers /\ Clients \cap Tasks = {}
  BY SupervisorAssumption DEF Procs, Callers

\* The arguments of a call, by its operation.
LEMMA CallType ==
    ASSUME NEW c \in Calls
    PROVE  /\ c.op \in TaskOps => c.task \in Tasks /\ c.arg \in Tasks
           /\ c.op = "setAllowable" => c.arg \in 1 .. NumThreads
           /\ c.op \in TaskOps \cup {"setAllowable"}
  BY DEF Calls, TaskOps

\* A thread moves on, and wakes a worker that sleeps for a task.
LEMMA GotoAndSignal ==
    ASSUME TypeOK, NEW p \in Procs, NEW loc \in Locations, loc # "asleep",
           \/ pc' = [pc EXCEPT ![p] = loc]
           \/ pc' \in SignalReady([pc EXCEPT ![p] = loc])
    PROVE  /\ pc' \in [Procs -> Locations]
           /\ pc'[p] = loc
           /\ \A q \in Procs \ {p} :
                 pc'[q] = pc[q] \/ (q \in Workers /\ pc[q] = "asleep" /\ pc'[q] = "get")
<1>1. pc \in [Procs -> Locations] /\ "get" \in Locations
  BY DEF TypeOK, Locations
<1>2. ASSUME pc' \in SignalReady([pc EXCEPT ![p] = loc])
      PROVE  \/ pc' = [pc EXCEPT ![p] = loc]
             \/ \E w \in Workers \ {p} :
                   pc[w] = "asleep" /\ pc' = [pc EXCEPT ![p] = loc, ![w] = "get"]
  BY <1>1, <1>2, Distinct DEF SignalReady
<1> QED
  BY <1>1, <1>2, Distinct

\* A thread moves on, and wakes the threads that wait for task t.
LEMMA GotoAndBroadcast ==
    ASSUME TypeOK, NEW p \in Procs, NEW loc \in Locations, loc # "waiting", NEW t,
           pc' = BroadcastFinish([pc EXCEPT ![p] = loc], t)
    PROVE  /\ pc' \in [Procs -> Locations]
           /\ pc'[p] = loc
           /\ \A q \in Procs \ {p} :
                 pc'[q] = pc[q] \/ (pc[q] = "waiting" /\ pc'[q] = "recheck")
<1>1. pc \in [Procs -> Locations] /\ "recheck" \in Locations
  BY DEF TypeOK, Locations
<1> QED
  BY <1>1 DEF BroadcastFinish

\* A thread in user code or in a call has a script of its own; if something
\* is left of it, its next call is a call.
LEMMA CallFacts ==
    ASSUME NEW p \in Procs, TypeOK, ControlInv, HeldInv,
           pc[p] = "user" \/ pc[p] \in InCall
    PROVE  /\ Caller(p) \in Callers
           /\ p \in Workers => Caller(p) = cur[p] /\ cur[p] \in Tasks
           /\ p \notin Workers => Caller(p) = p
           /\ script[Caller(p)] # <<>> =>
                 /\ Call(p) \in Calls
                 /\ Tail(script[Caller(p)]) \in Seq(Calls)
                 /\ Call(p).op \in TaskOps => Call(p).task \in Tasks /\ Call(p).arg \in Tasks
                 /\ Call(p).op = "setAllowable" => Call(p).arg \in 1 .. NumThreads
           /\ \A q \in Procs :
                 q # p /\ (pc[q] = "user" \/ pc[q] \in InCall) => Caller(q) # Caller(p)
<1>1. /\ p \in Workers => cur[p] \in Tasks /\ Caller(p) = cur[p]
      /\ p \notin Workers => Caller(p) = p /\ p \in Clients
  BY Distinct DEF TypeOK, ControlInv, Caller, Free, InCall
<1>2. Caller(p) \in Callers
  BY <1>1, Distinct
<1>3. ASSUME script[Caller(p)] # <<>>
      PROVE  Call(p) \in Calls /\ Tail(script[Caller(p)]) \in Seq(Calls)
  <2>1. script[Caller(p)] \in Seq(Calls)
    BY <1>2 DEF TypeOK
  <2> QED
    BY <1>3, <2>1, TailElements DEF Call
<1>4. ASSUME NEW q \in Procs, q # p, pc[q] = "user" \/ pc[q] \in InCall
      PROVE  Caller(q) # Caller(p)
  <2>1. /\ q \in Workers => cur[q] \in Tasks /\ Caller(q) = cur[q]
        /\ q \notin Workers => Caller(q) = q /\ q \in Clients
    BY <1>4, Distinct DEF TypeOK, ControlInv, Caller, Free, InCall
  <2> QED
    BY <1>1, <1>4, <2>1, Distinct DEF HeldInv
<1> QED
  BY <1>1, <1>2, <1>3, <1>4, CallType

-----------------------------------------------------------------------------
(***************************************************************************)
(* Every action keeps the invariant.                                       *)
(***************************************************************************)
\* A worker under the allowance goes to the queue.
LEMMA LoopTopInv ==
    ASSUME NEW w \in Workers, SupervisorInv, LoopTop(w)
    PROVE  SupervisorInv'
<1>0. /\ TypeOK /\ ControlInv /\ CallInv /\ QueueInv
      /\ HeldInv /\ FiledInv /\ DoneInv /\ ThreadInv
  BY DEF SupervisorInv
<1>1. TypeOK'
  BY <1>0, Distinct DEF LoopTop, TypeOK, Goto, Locations, links, lists, locals, status
<1>2. ControlInv'
  BY <1>0, Distinct DEF ControlInv, LoopTop, Free, Goto, Targeting, links, lists, locals,
     status
<1>3. CallInv'
  BY <1>0, Distinct DEF CallInv, LoopTop, Call, Caller, Goto, InCall, links, lists,
     locals, status
<1>4. QueueInv'
  BY <1>0 DEF LoopTop, QueueInv, Goto, links, lists, locals, status
<1>5. HeldInv'
  BY <1>0, Distinct DEF HeldInv, LoopTop, Goto, Notifying, links, lists, locals, status
<1>6. FiledInv'
  BY <1>0 DEF FiledInv, LoopTop, Goto, links, lists, locals, status
<1>7. DoneInv'
  BY <1>0 DEF DoneInv, LoopTop, Goto, links, lists, locals, status
<1>8. ThreadInv'
  BY <1>0, Distinct DEF LoopTop, ThreadInv, Goto, Notifying, links, lists, locals, status
<1> QED
  BY <1>1, <1>2, <1>3, <1>4, <1>5, <1>6, <1>7, <1>8 DEF SupervisorInv

\* A worker takes a task: it leaves the queue and is held by that worker alone.
LEMMA GetTaskInv ==
    ASSUME NEW w \in Workers, SupervisorInv, GetTask(w)
    PROVE  SupervisorInv'
<1>0. /\ TypeOK /\ ControlInv /\ CallInv /\ QueueInv
      /\ HeldInv /\ FiledInv /\ DoneInv /\ ThreadInv
  BY DEF SupervisorInv
<1>1. TypeOK'
  BY <1>0, Distinct DEF GetTask, TypeOK, Goto, Locations, flags, links, status
<1>2. ControlInv'
  BY <1>0, Distinct DEF ControlInv, GetTask, TypeOK, Free, Goto, Targeting, flags, links,
     status
<1>3. CallInv'
  BY <1>0, Distinct DEF CallInv, GetTask, Call, Caller, Goto, InCall, flags, links, status
<1>4. QueueInv'
  BY <1>0, Distinct DEF ControlInv, FiledInv, GetTask, HeldInv, QueueInv, TypeOK, Free,
     Goto, InCall, Locations, Notifying, Targeting, flags, links, status
<1>5. HeldInv'
  BY <1>0, Distinct DEF GetTask, HeldInv, QueueInv, TypeOK, Goto, Notifying, flags, links,
     status
<1>6. FiledInv'
  BY <1>0, Distinct DEF FiledInv, GetTask, QueueInv, TypeOK, Goto, flags, links, status
<1>7. DoneInv'
  BY <1>0 DEF DoneInv, GetTask, Goto, flags, links, status
<1>8. ThreadInv'
  BY <1>0, Distinct DEF ControlInv, GetTask, ThreadInv, Free, Goto, flags, links, status
<1> QED
  BY <1>1, <1>2, <1>3, <1>4, <1>5, <1>6, <1>7, <1>8 DEF SupervisorInv

\* A worker goes to sleep with no task.
LEMMA GetTaskWaitInv ==
    ASSUME NEW w \in Workers, SupervisorInv, GetTaskWait(w)
    PROVE  SupervisorInv'
<1>0. /\ TypeOK /\ ControlInv /\ CallInv /\ QueueInv
      /\ HeldInv /\ FiledInv /\ DoneInv /\ ThreadInv
  BY DEF SupervisorInv
<1>1. TypeOK'
  BY <1>0, Distinct DEF GetTaskWait, TypeOK, Goto, Locations, flags, links, lists, locals,
     status
<1>2. ControlInv'
  BY <1>0, Distinct DEF ControlInv, GetTaskWait, Free, Goto, Targeting, flags, links,
     lists, locals, status
<1>3. CallInv'
  BY <1>0, Distinct DEF CallInv, GetTaskWait, Call, Caller, Goto, InCall, flags, links,
     lists, locals, status
<1>4. QueueInv'
  BY <1>0 DEF GetTaskWait, QueueInv, Goto, flags, links, lists, locals, status
<1>5. HeldInv'
  BY <1>0, Distinct DEF GetTaskWait, HeldInv, Goto, Notifying, flags, links, lists,
     locals, status
<1>6. FiledInv'
  BY <1>0 DEF FiledInv, GetTaskWait, Goto, flags, links, lists, locals, status
<1>7. DoneInv'
  BY <1>0 DEF DoneInv, GetTaskWait, Goto, flags, links, lists, locals, status
<1>8. ThreadInv'
  BY <1>0, Distinct DEF GetTaskWait, ThreadInv, Goto, Notifying, flags, links, lists,
     locals, status
<1> QED
  BY <1>1, <1>2, <1>3, <1>4, <1>5, <1>6, <1>7, <1>8 DEF SupervisorInv

\* A wakeup changes nothing but where a thread is.
LEMMA SpuriousWakeupInv ==
    ASSUME NEW p \in Procs, SupervisorInv, SpuriousWakeup(p)
    PROVE  SupervisorInv'
<1>0. /\ TypeOK /\ ControlInv /\ CallInv /\ QueueInv
      /\ HeldInv /\ FiledInv /\ DoneInv /\ ThreadInv
  BY DEF SupervisorInv
<1>1. TypeOK'
  BY <1>0, Distinct DEF SpuriousWakeup, TypeOK, Goto, Locations, flags, links, lists,
     locals, status
<1>2. ControlInv'
  <2>1. /\ pc' \in [Procs -> Locations]
        /\ \/ pc[p] = "asleep" /\ pc'[p] = "get"
           \/ pc[p] = "waiting" /\ pc'[p] = "recheck"
        /\ \A q \in Procs : q # p => pc'[q] = pc[q]
        /\ UNCHANGED <<cur, target>>
    BY <1>0 DEF SpuriousWakeup, Goto, TypeOK, Locations, locals
  <2> QED
    BY <1>0, <2>1, Distinct DEF ControlInv, Free, InCall, Targeting
<1>3. CallInv'
  BY <1>0, Distinct DEF CallInv, SpuriousWakeup, TypeOK, Call, Caller, Goto, InCall,
     flags, links, lists, locals, status
<1>4. QueueInv'
  BY <1>0 DEF QueueInv, SpuriousWakeup, Goto, flags, links, lists, locals, status
<1>5. HeldInv'
  BY <1>0, Distinct DEF HeldInv, SpuriousWakeup, TypeOK, Goto, Notifying, flags, links,
     lists, locals, status
<1>6. FiledInv'
  BY <1>0 DEF FiledInv, SpuriousWakeup, Goto, flags, links, lists, locals, status
<1>7. DoneInv'
  BY <1>0 DEF DoneInv, SpuriousWakeup, Goto, flags, links, lists, locals, status
<1>8. ThreadInv'
  BY <1>0, Distinct DEF SpuriousWakeup, ThreadInv, TypeOK, Goto, Notifying, flags, links,
     lists, locals, status
<1> QED
  BY <1>1, <1>2, <1>3, <1>4, <1>5, <1>6, <1>7, <1>8 DEF SupervisorInv

\* The task that begins is not queued, for its worker holds it.
LEMMA RunBeginInv ==
    ASSUME NEW w \in Workers, SupervisorInv, RunBegin(w)
    PROVE  SupervisorInv'
<1>0. /\ TypeOK /\ ControlInv /\ CallInv /\ QueueInv
      /\ HeldInv /\ FiledInv /\ DoneInv /\ ThreadInv
  BY DEF SupervisorInv
<1>1. TypeOK'
  BY <1>0, Distinct DEF RunBegin, TypeOK, Goto, Locations, flags, links, lists, locals
<1>2. ControlInv'
  BY <1>0, Distinct DEF ControlInv, RunBegin, Free, Goto, Targeting, flags, links, lists,
     locals
<1>3. CallInv'
  BY <1>0, Distinct DEF CallInv, RunBegin, Call, Caller, Goto, InCall, flags, links,
     lists, locals
<1>4. QueueInv'
  <2>1. \A i \in DOMAIN readyTasks : readyTasks[i] # cur[w]
    BY <1>0, Distinct DEF RunBegin, ControlInv, HeldInv, Free
  <2> QED
    BY <1>0, <2>1, SequenceElements DEF RunBegin, QueueInv, TypeOK, lists
<1>5. HeldInv'
  BY <1>0, Distinct DEF HeldInv, RunBegin, TypeOK, Goto, Notifying, flags, links, lists,
     locals
<1>6. FiledInv'
  BY <1>0, Distinct DEF FiledInv, HeldInv, RunBegin, Goto, flags, links, lists, locals
<1>7. DoneInv'
  BY <1>0 DEF DoneInv, RunBegin, Goto, flags, links, lists, locals
<1>8. ThreadInv'
  BY <1>0, Distinct DEF RunBegin, ThreadInv, TypeOK, Goto, Notifying, flags, links, lists,
     locals
<1> QED
  BY <1>1, <1>2, <1>3, <1>4, <1>5, <1>6, <1>7, <1>8 DEF SupervisorInv

\* A canceled task goes to its end without having begun.
LEMMA RunCanceledInv ==
    ASSUME NEW w \in Workers, SupervisorInv, RunCanceled(w)
    PROVE  SupervisorInv'
<1>0. /\ TypeOK /\ ControlInv /\ CallInv /\ QueueInv
      /\ HeldInv /\ FiledInv /\ DoneInv /\ ThreadInv
  BY DEF SupervisorInv
<1>1. TypeOK'
  BY <1>0, Distinct DEF RunCanceled, TypeOK, Goto, Locations, flags, links, lists, locals,
     status
<1>2. ControlInv'
  BY <1>0, Distinct DEF ControlInv, RunCanceled, Free, Goto, Targeting, flags, links,
     lists, locals, status
<1>3. CallInv'
  BY <1>0, Distinct DEF CallInv, RunCanceled, Call, Caller, Goto, InCall, flags, links,
     lists, locals, status
<1>4. QueueInv'
  BY <1>0 DEF QueueInv, RunCanceled, Goto, flags, links, lists, locals, status
<1>5. HeldInv'
  BY <1>0, Distinct DEF HeldInv, RunCanceled, Goto, Notifying, flags, links, lists,
     locals, status
<1>6. FiledInv'
  BY <1>0 DEF FiledInv, RunCanceled, Goto, flags, links, lists, locals, status
<1>7. DoneInv'
  BY <1>0 DEF DoneInv, RunCanceled, Goto, flags, links, lists, locals, status
<1>8. ThreadInv'
  BY <1>0, Distinct DEF RunCanceled, ThreadInv, Goto, flags, links, lists, locals, status
<1> QED
  BY <1>1, <1>2, <1>3, <1>4, <1>5, <1>6, <1>7, <1>8 DEF SupervisorInv

\* Only the script of the own task changes.
LEMMA ObserveExceptionInv ==
    ASSUME NEW w \in Workers, SupervisorInv, ObserveException(w)
    PROVE  SupervisorInv'
<1>0. /\ TypeOK /\ ControlInv /\ CallInv /\ QueueInv
      /\ HeldInv /\ FiledInv /\ DoneInv /\ ThreadInv
  BY DEF SupervisorInv
<1>a. /\ w \in Procs /\ pc[w] = "user" /\ cur[w] \in Tasks /\ cur[w] \in Callers
      /\ Caller(w) = cur[w]
      /\ \A q \in Procs :
            q # w /\ (pc[q] = "user" \/ pc[q] \in InCall) => Caller(q) # cur[w]
  BY <1>0, CallFacts, Distinct DEF ObserveException
<1>b. /\ UNCHANGED <<supMutex, taskMutex, lists, status, links, allowed, pc, locals>>
      /\ interrupt' = [interrupt EXCEPT ![w] = FALSE]
      /\ exception' = [exception EXCEPT ![w] = FALSE]
      /\ script' = script \/ script' = [script EXCEPT ![cur[w]] = <<>>]
  BY DEF ObserveException
<1>c. /\ script' \in [Callers -> Seq(Calls)]
      /\ \A c \in Callers : c # cur[w] => script'[c] = script[c]
  <2>1. script \in [Callers -> Seq(Calls)] /\ <<>> \in Seq(Calls)
    BY <1>0 DEF TypeOK
  <2> QED
    BY <1>a, <1>b, <2>1
<1>1. TypeOK'
  <2>1. /\ interrupt' \in [Workers -> BOOLEAN]
        /\ exception' \in [Workers -> BOOLEAN]
    BY <1>0, <1>b DEF TypeOK
  <2> QED
    BY <1>0, <1>b, <1>c, <2>1 DEF TypeOK, lists, status, links, locals
<1>2. ControlInv'
  BY <1>0 DEF ControlInv, ObserveException, links, lists, locals, status
<1>3. CallInv'
  <2> SUFFICES ASSUME NEW q \in Procs, pc[q] \in InCall
               PROVE  script'[Caller(q)] # <<>> /\ Call(q)'.op \in TaskOps
    BY <1>b DEF CallInv, Call, Caller, locals
  <2>1. /\ Caller(q) \in Callers /\ Caller(q) # cur[w] /\ Caller(q)' = Caller(q)
        /\ script[Caller(q)] # <<>> /\ Call(q).op \in TaskOps
    BY <1>0, <1>a, <1>b, CallFacts DEF CallInv, InCall, Caller, locals
  <2> QED
    BY <1>c, <2>1 DEF Call
<1>4. QueueInv'
  BY <1>0 DEF ObserveException, QueueInv, links, lists, locals, status
<1>5. HeldInv'
  BY <1>0 DEF HeldInv, ObserveException, links, lists, locals, status
<1>6. FiledInv'
  BY <1>0 DEF FiledInv, ObserveException, links, lists, locals, status
<1>7. DoneInv'
  BY <1>0 DEF DoneInv, ObserveException, links, lists, locals, status
<1>8. ThreadInv'
  BY <1>0 DEF ObserveException, ThreadInv, links, lists, locals, status
<1> QED
  BY <1>1, <1>2, <1>3, <1>4, <1>5, <1>6, <1>7, <1>8 DEF SupervisorInv

\* The function of a task returns.
LEMMA FuncReturnInv ==
    ASSUME NEW w \in Workers, SupervisorInv, FuncReturn(w)
    PROVE  SupervisorInv'
<1>0. /\ TypeOK /\ ControlInv /\ CallInv /\ QueueInv
      /\ HeldInv /\ FiledInv /\ DoneInv /\ ThreadInv
  BY DEF SupervisorInv
<1>a. /\ UNCHANGED <<cur, lists, readyToRun, started>>
      /\ pc[w] = "user" /\ pc' = [pc EXCEPT ![w] = "ending"]
  BY DEF FuncReturn, Goto, locals
<1>1. TypeOK'
  BY <1>0, Distinct DEF FuncReturn, TypeOK, Goto, Locations, flags, links, lists, locals
<1>2. ControlInv'
  BY <1>0, Distinct DEF ControlInv, FuncReturn, Free, Goto, Targeting, flags, links,
     lists, locals
<1>3. CallInv'
  BY <1>0, Distinct DEF CallInv, FuncReturn, Call, Caller, Goto, InCall, flags, links,
     lists, locals
<1>4. QueueInv'
  BY <1>0 DEF FuncReturn, QueueInv, Goto, flags, links, lists, locals
<1>5. HeldInv'
  <2>1. pc'[w] = "ending" /\ \A v \in Workers : v # w => pc'[v] = pc[v]
    BY <1>0, <1>a, Distinct DEF TypeOK
  <2> QED
    BY <1>0, <1>a, <2>1 DEF HeldInv, Notifying, lists
<1>6. FiledInv'
  BY <1>0 DEF FiledInv, FuncReturn, Goto, flags, links, lists, locals
<1>7. DoneInv'
  BY <1>0 DEF DoneInv, FuncReturn, Goto, flags, links, lists, locals
<1>8. ThreadInv'
  BY <1>0, Distinct DEF FuncReturn, ThreadInv, Goto, Notifying, flags, links, lists,
     locals
<1> QED
  BY <1>1, <1>2, <1>3, <1>4, <1>5, <1>6, <1>7, <1>8 DEF SupervisorInv

\* The worker takes its task's mutex for the end of run.
LEMMA RunEndInv ==
    ASSUME NEW w \in Workers, SupervisorInv, RunEnd(w)
    PROVE  SupervisorInv'
<1>0. /\ TypeOK /\ ControlInv /\ CallInv /\ QueueInv
      /\ HeldInv /\ FiledInv /\ DoneInv /\ ThreadInv
  BY DEF SupervisorInv
<1>1. TypeOK'
  BY <1>0, Distinct DEF RunEnd, TypeOK, Goto, Locations, flags, links, lists, locals
<1>2. ControlInv'
  BY <1>0, Distinct DEF ControlInv, RunEnd, Free, Goto, Targeting, flags, links, lists,
     locals
<1>3. CallInv'
  BY <1>0, Distinct DEF CallInv, RunEnd, Call, Caller, Goto, InCall, flags, links, lists,
     locals
<1>4. QueueInv'
  BY <1>0 DEF QueueInv, RunEnd, Goto, flags, links, lists, locals
<1>5. HeldInv'
  BY <1>0, Distinct DEF HeldInv, RunEnd, Goto, Notifying, flags, links, lists, locals
<1>6. FiledInv'
  BY <1>0 DEF FiledInv, RunEnd, Goto, flags, links, lists, locals
<1>7. DoneInv'
  BY <1>0 DEF DoneInv, RunEnd, Goto, flags, links, lists, locals
<1>8. ThreadInv'
  BY <1>0, Distinct DEF RunEnd, ThreadInv, Goto, Notifying, flags, links, lists, locals
<1> QED
  BY <1>1, <1>2, <1>3, <1>4, <1>5, <1>6, <1>7, <1>8 DEF SupervisorInv

\* A task is filed as finished; its waiters are woken and it names no worker.
LEMMA FinishDoneInv ==
    ASSUME NEW w \in Workers, SupervisorInv, FinishDone(w)
    PROVE  SupervisorInv'
<1>0. /\ TypeOK /\ ControlInv /\ CallInv /\ QueueInv
      /\ HeldInv /\ FiledInv /\ DoneInv /\ ThreadInv
  BY DEF SupervisorInv
<1>a. /\ pc' \in [Procs -> Locations]
      /\ pc'[w] = "notify"
      /\ \A q \in Procs \ {w} :
            pc'[q] = pc[q] \/ (pc[q] = "waiting" /\ pc'[q] = "recheck")
  <2>1. pc' = BroadcastFinish([pc EXCEPT ![w] = "notify"], cur[w])
    BY DEF FinishDone
  <2>2. TypeOK /\ w \in Procs /\ "notify" \in Locations
    BY <1>0, Distinct DEF Locations
  <2> QED
    BY <2>1, <2>2, GotoAndBroadcast
<1>b. cur[w] \in Tasks /\ pc[w] \notin Free \cup Notifying
  BY <1>0 DEF FinishDone, TypeOK, ControlInv, Free, Notifying
<1>c. /\ UNCHANGED <<cur, target, readyTasks, readyToRun, started, canceledTasks,
                     keepRunning>>
      /\ runningTasks' = runningTasks \ {cur[w]}
      /\ finishedTasks' = finishedTasks \cup {cur[w]}
      /\ currentThread' = [currentThread EXCEPT ![cur[w]] = NULL]
      /\ pc[w] = "finish"
  BY DEF FinishDone, Finished
<1>d. \A t \in Tasks : currentThread'[t] # NULL =>
         t # cur[w] /\ currentThread'[t] = currentThread[t] /\ currentThread[t] \in Workers
  BY <1>0, <1>b, <1>c DEF TypeOK
<1>1. TypeOK'
  <2>1. /\ runningTasks' \subseteq Tasks /\ finishedTasks' \subseteq Tasks
        /\ done' \in [Tasks -> BOOLEAN]
        /\ currentThread' \in [Tasks -> Workers \cup {NULL}]
        /\ toCancel' \in [Workers -> SUBSET Tasks] /\ toStart' \in [Workers -> SUBSET Tasks]
    BY <1>0, <1>b, <1>c DEF FinishDone, TypeOK
  <2>2. UNCHANGED <<supMutex, taskMutex, readyTasks, waitingTasks, canceledTasks,
                    keepRunning, readyToRun, started, running, result, links, allowed,
                    interrupt, exception, cur, target, script>>
    BY DEF FinishDone, Finished, flags
  <2> QED
    BY <1>0, <1>a, <2>1, <2>2 DEF TypeOK, links
<1>2. ControlInv'
  BY <1>0, <1>a, <1>b, Distinct DEF ControlInv, FinishDone, Finished, Free, InCall,
     Targeting, flags, links
<1>3. CallInv'
  BY <1>0, <1>a, <1>b, Distinct DEF CallInv, FinishDone, Call, Caller, Finished, InCall,
     flags, links
<1>4. QueueInv'
  <2>1. \A i \in DOMAIN readyTasks : readyTasks[i] # cur[w]
    BY <1>0, <1>b, Distinct DEF HeldInv
  <2> QED
    BY <1>0, <1>c, <2>1 DEF QueueInv
<1>5. HeldInv'
  BY <1>0, <1>a, <1>b, <1>c, Distinct DEF HeldInv, Notifying
<1>6. FiledInv'
  BY <1>0, <1>a, <1>b, Distinct DEF FiledInv, FinishDone, HeldInv, Finished, flags, links
<1>7. DoneInv'
  BY <1>0, <1>a, <1>b, Distinct DEF DoneInv, FinishDone, TypeOK, Finished, flags, links
<1>8. ThreadInv'
  BY <1>0, <1>a, <1>b, <1>c, <1>d, Distinct DEF ThreadInv, Notifying
<1> QED
  BY <1>1, <1>2, <1>3, <1>4, <1>5, <1>6, <1>7, <1>8 DEF SupervisorInv

\* A canceled task is filed, and its worker is free again.
LEMMA FinishCanceledInv ==
    ASSUME NEW w \in Workers, SupervisorInv, FinishCanceled(w)
    PROVE  SupervisorInv'
<1>0. /\ TypeOK /\ ControlInv /\ CallInv /\ QueueInv
      /\ HeldInv /\ FiledInv /\ DoneInv /\ ThreadInv
  BY DEF SupervisorInv
<1>a. /\ pc' \in [Procs -> Locations]
      /\ pc'[w] = "loop"
      /\ \A q \in Procs \ {w} :
            pc'[q] = pc[q] \/ (pc[q] = "waiting" /\ pc'[q] = "recheck")
  <2>1. pc' = BroadcastFinish([pc EXCEPT ![w] = "loop"], cur[w])
    BY DEF FinishCanceled
  <2>2. TypeOK /\ w \in Procs /\ "loop" \in Locations
    BY <1>0, Distinct DEF Locations
  <2> QED
    BY <2>1, <2>2, GotoAndBroadcast
<1>b. cur[w] \in Tasks /\ pc[w] \notin Free \cup Notifying
  BY <1>0 DEF FinishCanceled, TypeOK, ControlInv, Free, Notifying
<1>c. /\ cur' = [cur EXCEPT ![w] = NULL]
      /\ UNCHANGED <<target, readyTasks, readyToRun, started, finishedTasks, keepRunning,
                     currentThread>>
      /\ runningTasks' = runningTasks \ {cur[w]}
      /\ canceledTasks' = canceledTasks \cup {cur[w]}
      /\ ~keepRunning[cur[w]]
  BY DEF FinishCanceled, Finished, status
<1>d. /\ cur \in [Workers -> Tasks \cup {NULL}]
      /\ cur'[w] = NULL
      /\ \A v \in Workers : v # w => cur'[v] = cur[v]
  BY <1>0, <1>c DEF TypeOK
<1>1. TypeOK'
  <2>1. /\ runningTasks' \subseteq Tasks /\ canceledTasks' \subseteq Tasks
        /\ taskMutex' \in [Tasks -> Workers \cup {NULL}]
        /\ cur' \in [Workers -> Tasks \cup {NULL}]
    BY <1>0, <1>b, <1>c DEF FinishCanceled, TypeOK
  <2>2. UNCHANGED <<supMutex, readyTasks, waitingTasks, finishedTasks, status, links,
                    allowed, interrupt, exception, target, toCancel, toStart, script>>
    BY DEF FinishCanceled, Finished, flags
  <2> QED
    BY <1>0, <1>a, <2>1, <2>2 DEF TypeOK, status, links
<1>2. ControlInv'
  BY <1>0, <1>a, <1>c, <1>d, Distinct DEF ControlInv, Free, InCall, Targeting
<1>3. CallInv'
  BY <1>0, <1>a, <1>b, Distinct DEF CallInv, FinishCanceled, TypeOK, Call, Caller,
     Finished, InCall, flags, links, status
<1>4. QueueInv'
  <2>1. \A i \in DOMAIN readyTasks : readyTasks[i] # cur[w]
    BY <1>0, <1>b, Distinct DEF HeldInv
  <2> QED
    BY <1>0, <1>c, <2>1 DEF QueueInv
<1>5. HeldInv'
  BY <1>0, <1>a, <1>b, <1>c, <1>d, Distinct DEF HeldInv, Notifying
<1>6. FiledInv'
  BY <1>0, <1>a, <1>b, Distinct DEF FiledInv, FinishCanceled, HeldInv, Finished, flags,
     links, status
<1>7. DoneInv'
  BY <1>0, <1>a, <1>b, Distinct DEF DoneInv, FinishCanceled, Finished, flags, links,
     status
<1>8. ThreadInv'
  BY <1>0, <1>a, <1>b, <1>c, <1>d, Distinct DEF ThreadInv, Notifying, TypeOK
<1> QED
  BY <1>1, <1>2, <1>3, <1>4, <1>5, <1>6, <1>7, <1>8 DEF SupervisorInv

\* The next task to cancel becomes the target.
LEMMA NotifyCancelInv ==
    ASSUME NEW w \in Workers, SupervisorInv, NotifyCancel(w)
    PROVE  SupervisorInv'
<1>0. /\ TypeOK /\ ControlInv /\ CallInv /\ QueueInv
      /\ HeldInv /\ FiledInv /\ DoneInv /\ ThreadInv
  BY DEF SupervisorInv
<1>1. TypeOK'
  BY <1>0, Distinct DEF NotifyCancel, TypeOK, Goto, Locations, flags, links, lists, status
<1>2. ControlInv'
  BY <1>0, Distinct DEF ControlInv, NotifyCancel, TypeOK, Free, Goto, flags, links, lists,
     status
<1>3. CallInv'
  BY <1>0, Distinct DEF CallInv, NotifyCancel, Call, Caller, Goto, InCall, flags, links,
     lists, status
<1>4. QueueInv'
  BY <1>0 DEF NotifyCancel, QueueInv, Goto, flags, links, lists, status
<1>5. HeldInv'
  BY <1>0, Distinct DEF HeldInv, NotifyCancel, Goto, Notifying, flags, links, lists,
     status
<1>6. FiledInv'
  BY <1>0 DEF FiledInv, NotifyCancel, Goto, flags, links, lists, status
<1>7. DoneInv'
  BY <1>0 DEF DoneInv, NotifyCancel, Goto, flags, links, lists, status
<1>8. ThreadInv'
  BY <1>0, Distinct DEF NotifyCancel, ThreadInv, Goto, Notifying, flags, links, lists,
     status
<1> QED
  BY <1>1, <1>2, <1>3, <1>4, <1>5, <1>6, <1>7, <1>8 DEF SupervisorInv

\* The next task to start becomes the target.
LEMMA NotifyStartInv ==
    ASSUME NEW w \in Workers, SupervisorInv, NotifyStart(w)
    PROVE  SupervisorInv'
<1>0. /\ TypeOK /\ ControlInv /\ CallInv /\ QueueInv
      /\ HeldInv /\ FiledInv /\ DoneInv /\ ThreadInv
  BY DEF SupervisorInv
<1>1. TypeOK'
  BY <1>0, Distinct DEF NotifyStart, TypeOK, Goto, Locations, flags, links, lists, status
<1>2. ControlInv'
  BY <1>0, Distinct DEF ControlInv, NotifyStart, TypeOK, Free, Goto, flags, links, lists,
     status
<1>3. CallInv'
  BY <1>0, Distinct DEF CallInv, NotifyStart, Call, Caller, Goto, InCall, flags, links,
     lists, status
<1>4. QueueInv'
  BY <1>0 DEF NotifyStart, QueueInv, Goto, flags, links, lists, status
<1>5. HeldInv'
  BY <1>0, Distinct DEF HeldInv, NotifyStart, Goto, Notifying, flags, links, lists, status
<1>6. FiledInv'
  BY <1>0 DEF FiledInv, NotifyStart, Goto, flags, links, lists, status
<1>7. DoneInv'
  BY <1>0 DEF DoneInv, NotifyStart, Goto, flags, links, lists, status
<1>8. ThreadInv'
  BY <1>0, Distinct DEF NotifyStart, ThreadInv, Goto, Notifying, flags, links, lists,
     status
<1> QED
  BY <1>1, <1>2, <1>3, <1>4, <1>5, <1>6, <1>7, <1>8 DEF SupervisorInv

\* The worker lets its finished task go.
LEMMA NotifyDoneInv ==
    ASSUME NEW w \in Workers, SupervisorInv, NotifyDone(w)
    PROVE  SupervisorInv'
<1>0. /\ TypeOK /\ ControlInv /\ CallInv /\ QueueInv
      /\ HeldInv /\ FiledInv /\ DoneInv /\ ThreadInv
  BY DEF SupervisorInv
<1>1. TypeOK'
  BY <1>0, Distinct DEF NotifyDone, TypeOK, Goto, Locations, flags, links, lists, status
<1>2. ControlInv'
  BY <1>0, Distinct DEF ControlInv, NotifyDone, TypeOK, Free, Goto, Targeting, flags,
     links, lists, status
<1>3. CallInv'
  BY <1>0, Distinct DEF CallInv, NotifyDone, Call, Caller, Goto, InCall, flags, links,
     lists, status
<1>4. QueueInv'
  BY <1>0 DEF NotifyDone, QueueInv, Goto, flags, links, lists, status
<1>5. HeldInv'
  BY <1>0, Distinct DEF HeldInv, NotifyDone, TypeOK, Goto, flags, links, lists, status
<1>6. FiledInv'
  BY <1>0 DEF FiledInv, NotifyDone, Goto, flags, links, lists, status
<1>7. DoneInv'
  BY <1>0 DEF DoneInv, NotifyDone, Goto, flags, links, lists, status
<1>8. ThreadInv'
  BY <1>0, Distinct DEF NotifyDone, ThreadInv, Goto, Notifying, flags, links, lists,
     status
<1> QED
  BY <1>1, <1>2, <1>3, <1>4, <1>5, <1>6, <1>7, <1>8 DEF SupervisorInv

\* A task that is queued by a start was neither queued, held nor filed before,
\* and the dependency that is crossed off is finished.
LEMMA StartTaskInv ==
    ASSUME NEW w \in Workers, SupervisorInv, StartTask(w)
    PROVE  SupervisorInv'
<1>0. /\ TypeOK /\ ControlInv /\ CallInv /\ QueueInv
      /\ HeldInv /\ FiledInv /\ DoneInv /\ ThreadInv
  BY DEF SupervisorInv
<1>a. target[w] \in Tasks /\ cur[w] \in Tasks /\ cur[w] \in finishedTasks
  BY <1>0, Distinct DEF StartTask, TypeOK, ControlInv, HeldInv, Free, Targeting, Notifying
<1>b. /\ pc' \in [Procs -> Locations]
      /\ pc'[w] = "notify"
      /\ \A q \in Procs \ {w} :
            pc'[q] = pc[q] \/ (q \in Workers /\ pc[q] = "asleep" /\ pc'[q] = "get")
  <2>1. \/ pc' = [pc EXCEPT ![w] = "notify"]
        \/ pc' \in SignalReady([pc EXCEPT ![w] = "notify"])
    BY DEF StartTask, Enqueue, Goto
  <2>2. TypeOK /\ w \in Procs /\ "notify" \in Locations
    BY <1>0, Distinct DEF Locations
  <2> QED
    BY <2>1, <2>2, GotoAndSignal
<1>c. \/ UNCHANGED <<readyToRun, readyTasks>>
      \/ /\ ~readyToRun[target[w]]
         /\ readyToRun' = [readyToRun EXCEPT ![target[w]] = TRUE]
         /\ readyTasks' = Append(readyTasks, target[w])
  BY DEF StartTask, Enqueue
<1>t. /\ readyTasks \in Seq(Tasks) /\ readyToRun \in [Tasks -> BOOLEAN]
      /\ target \in [Procs -> Tasks \cup {NULL}] /\ cur \in [Workers -> Tasks \cup {NULL}]
  BY <1>0 DEF TypeOK
<1>f. /\ UNCHANGED <<runningTasks, finishedTasks, canceledTasks, started, done, cur,
                   keepRunning, currentThread, script>>
      /\ pc[w] = "notifyStart"
  BY DEF StartTask
<1>g. /\ target'[w] = NULL
      /\ target' \in [Procs -> Tasks \cup {NULL}]
      /\ \A q \in Procs : q # w => target'[q] = target[q]
  BY <1>t, Distinct DEF StartTask, Leave
<1>h. /\ finishedDependencies' \in [Tasks -> SUBSET Tasks]
      /\ \A t \in Tasks :
            finishedDependencies'[t] \subseteq finishedDependencies[t] \cup {cur[w]}
  <2>1. \/ finishedDependencies' = finishedDependencies
        \/ finishedDependencies' = [finishedDependencies EXCEPT ![target[w]] =
                                      @ \cup (dependencies[target[w]] \cap {cur[w]})]
    BY DEF StartTask, Met
  <2>2. /\ finishedDependencies \in [Tasks -> SUBSET Tasks]
        /\ dependencies[target[w]] \cap {cur[w]} \subseteq Tasks
    BY <1>0, <1>a DEF TypeOK
  <2> QED
    BY <1>a, <2>1, <2>2
<1>1. TypeOK'
  <2>1. readyTasks' \in Seq(Tasks) /\ readyToRun' \in [Tasks -> BOOLEAN]
    <3>1. Append(readyTasks, target[w]) \in Seq(Tasks)
      BY <1>a, <1>t, AppendElements
    <3> QED
      BY <1>t, <1>c, <3>1
  <2>2. dependencies' \in [Tasks -> SUBSET Tasks]
    <3>1. \/ dependencies' = dependencies
          \/ dependencies' = [dependencies EXCEPT ![target[w]] =
                                 dependencies[target[w]] \ (dependencies[target[w]] \cap {cur[w]})]
      BY DEF StartTask, Met
    <3>2. dependencies \in [Tasks -> SUBSET Tasks]
      BY <1>0 DEF TypeOK
    <3>3. dependencies[target[w]] \ (dependencies[target[w]] \cap {cur[w]}) \in SUBSET Tasks
      BY <1>a, <3>2
    <3> QED
      BY <3>1, <3>2, <3>3
  <2>3. waitingTasks' \subseteq Tasks /\ supMutex' = NULL
    BY <1>0 DEF StartTask, TypeOK
  <2>4. UNCHANGED <<taskMutex, runningTasks, finishedTasks, canceledTasks, keepRunning,
                    started, running, done, result, currentThread, startTasks,
                    cancelTasks, allowed, interrupt, exception, cur, toCancel, toStart,
                    script>>
    BY DEF StartTask, flags
  <2> QED
    BY <1>0, <1>b, <1>g, <1>h, <2>1, <2>2, <2>3, <2>4 DEF TypeOK
<1>2. ControlInv'
  BY <1>0, <1>a, <1>b, <1>f, <1>g, Distinct DEF ControlInv, Free, InCall, Targeting
<1>3. CallInv'
  BY <1>0, <1>b, <1>f DEF CallInv, InCall, Call, Caller
<1>4. QueueInv'
  <2> DEFINE x == target[w]
  <2>1. CASE UNCHANGED <<readyToRun, readyTasks>>
    BY <1>0, <1>f, <2>1 DEF QueueInv
  <2>2. CASE /\ ~readyToRun[x]
             /\ readyToRun' = [readyToRun EXCEPT ![x] = TRUE]
             /\ readyTasks' = Append(readyTasks, x)
    <3>1. /\ ~started[x] /\ x \notin runningTasks \cup finishedTasks \cup canceledTasks
          /\ \A i \in DOMAIN readyTasks : readyTasks[i] # x /\ readyTasks[i] \in Tasks
      BY <1>0, <1>a, <1>t, <2>2, SequenceElements DEF QueueInv, FiledInv
    <3>2. \A t \in Tasks : readyToRun[t] => readyToRun'[t]
      BY <1>t, <2>2
    <3>3. readyToRun'[x]
      BY <1>a, <1>t, <2>2
    <3>4. \A i \in DOMAIN readyTasks' :
             \/ i \in DOMAIN readyTasks /\ readyTasks'[i] = readyTasks[i]
             \/ i = Len(readyTasks) + 1 /\ readyTasks'[i] = x
      BY <1>a, <1>t, <2>2, AppendElements
    <3> QED
      BY <1>0, <1>f, <3>1, <3>2, <3>3, <3>4 DEF QueueInv
  <2> QED
    BY <1>c, <2>1, <2>2
<1>5. HeldInv'
  <2> DEFINE x == target[w]
  <2>1. /\ \A t \in Tasks : readyToRun[t] => readyToRun'[t]
        /\ \A i \in DOMAIN readyTasks' :
              \/ i \in DOMAIN readyTasks /\ readyTasks'[i] = readyTasks[i]
              \/ readyTasks'[i] = x /\ ~readyToRun[x]
    BY <1>a, <1>t, <1>c, AppendElements
  <2>2. \A v \in Workers : cur[v] # NULL => cur[v] \in Tasks
    BY <1>t
  <2>3. \A v \in Workers : /\ pc'[v] \in Notifying <=> pc[v] \in Notifying
                           /\ pc'[v] = "begin" => pc[v] = "begin"
    BY <1>b, <1>f, Distinct DEF Notifying
  <2> QED
    BY <1>0, <1>f, <2>1, <2>2, <2>3 DEF HeldInv
<1>6. FiledInv'
  <2>1. \A t \in Tasks : readyToRun[t] => readyToRun'[t]
    BY <1>a, <1>t, <1>c
  <2> QED
    BY <1>0, <1>f, <2>1 DEF FiledInv
<1>7. DoneInv'
  BY <1>0, <1>a, <1>f, <1>h DEF DoneInv
<1>8. ThreadInv'
  <2>1. \A v \in Workers : pc'[v] \in Notifying \cup {"begin"} => pc[v] \in Notifying \cup {"begin"}
    BY <1>b, <1>f, Distinct DEF Notifying
  <2>2. \A t \in Tasks : currentThread[t] # NULL => currentThread[t] \in Workers
    BY <1>0 DEF TypeOK
  <2> QED
    BY <1>0, <1>f, <2>1, <2>2 DEF ThreadInv
<1> QED
  BY <1>1, <1>2, <1>3, <1>4, <1>5, <1>6, <1>7, <1>8 DEF SupervisorInv

\* A call of the interface that takes the supervisor's mutex has a target.
LEMMA EnterSupervisorInv ==
    ASSUME NEW p \in Procs, NEW op \in {"push", "cancel"},
           SupervisorInv, EnterSupervisor(p, op)
    PROVE  SupervisorInv'
<1>0. /\ TypeOK /\ ControlInv /\ CallInv /\ QueueInv
      /\ HeldInv /\ FiledInv /\ DoneInv /\ ThreadInv
  BY DEF SupervisorInv
<1>a. /\ pc[p] = "user" \/ pc[p] \in InCall
      /\ script[Caller(p)] # <<>>
      /\ Call(p).op \in TaskOps
  BY <1>0 DEF CallInv, Call, EnterSupervisor, Calling, TaskOps
<1>b. /\ Caller(p) \in Callers
      /\ Tail(script[Caller(p)]) \in Seq(Calls)
      /\ Call(p).task \in Tasks /\ Call(p).arg \in Tasks
      /\ \A q \in Procs :
            q # p /\ (pc[q] = "user" \/ pc[q] \in InCall) => Caller(q) # Caller(p)
  BY <1>0, <1>a, CallFacts
<1>1. TypeOK'
  BY <1>0, <1>a, <1>b, Distinct DEF EnterSupervisor, TypeOK, Call, Caller, Calling, Goto,
     Locations, flags, links, lists, status
<1>2. ControlInv'
  BY <1>0, <1>a, <1>b, Distinct DEF ControlInv, EnterSupervisor, TypeOK, Call, Caller,
     Calling, Free, Goto, InCall, flags, links, lists, status
<1>3. CallInv'
  BY <1>0, <1>a, <1>b, Distinct DEF CallInv, EnterSupervisor, Call, Caller, Calling, Goto,
     flags, links, lists, status
<1>4. QueueInv'
  BY <1>0 DEF EnterSupervisor, QueueInv, Call, Caller, Calling, Goto, flags, links, lists,
     status
<1>5. HeldInv'
  BY <1>0, <1>a, <1>b, Distinct DEF EnterSupervisor, HeldInv, Call, Caller, Calling, Goto,
     Notifying, flags, links, lists, status
<1>6. FiledInv'
  BY <1>0 DEF EnterSupervisor, FiledInv, Call, Caller, Calling, Goto, flags, links, lists,
     status
<1>7. DoneInv'
  BY <1>0 DEF DoneInv, EnterSupervisor, Call, Caller, Calling, Goto, flags, links, lists,
     status
<1>8. ThreadInv'
  BY <1>0, <1>a, <1>b, Distinct DEF EnterSupervisor, ThreadInv, Call, Caller, Calling,
     Goto, Notifying, flags, links, lists, status
<1> QED
  BY <1>1, <1>2, <1>3, <1>4, <1>5, <1>6, <1>7, <1>8 DEF SupervisorInv

\* A task that is queued by a push was neither queued, held nor filed before.
LEMMA PushTaskInv ==
    ASSUME NEW p \in Procs, SupervisorInv, PushTask(p)
    PROVE  SupervisorInv'
<1>0. /\ TypeOK /\ ControlInv /\ CallInv /\ QueueInv
      /\ HeldInv /\ FiledInv /\ DoneInv /\ ThreadInv
  BY DEF SupervisorInv
<1>k. /\ pc[p] = "user" \/ pc[p] \in InCall
      /\ script[Caller(p)] # <<>>
      /\ Call(p).op \in TaskOps
  BY <1>0 DEF CallInv, Call, PushTask, InCall
<1>l. /\ Caller(p) \in Callers
      /\ Tail(script[Caller(p)]) \in Seq(Calls)
      /\ Call(p).task \in Tasks /\ Call(p).arg \in Tasks
      /\ \A q \in Procs :
            q # p /\ (pc[q] = "user" \/ pc[q] \in InCall) => Caller(q) # Caller(p)
  BY <1>0, <1>k, CallFacts
<1>a. target[p] \in Tasks
  BY <1>0 DEF PushTask, ControlInv, Targeting
<1>b. /\ pc' \in [Procs -> Locations]
      /\ pc'[p] = "user"
      /\ \A q \in Procs \ {p} :
            pc'[q] = pc[q] \/ (q \in Workers /\ pc[q] = "asleep" /\ pc'[q] = "get")
  <2>1. \/ pc' = [pc EXCEPT ![p] = "user"]
        \/ pc' \in SignalReady([pc EXCEPT ![p] = "user"])
    BY DEF PushTask, Enqueue, Goto
  <2>2. TypeOK /\ p \in Procs /\ "user" \in Locations
    BY <1>0, Distinct DEF Locations
  <2> QED
    BY <2>1, <2>2, GotoAndSignal
<1>c. \/ UNCHANGED <<readyToRun, readyTasks>>
      \/ /\ ~readyToRun[target[p]]
         /\ readyToRun' = [readyToRun EXCEPT ![target[p]] = TRUE]
         /\ readyTasks' = Append(readyTasks, target[p])
  BY DEF PushTask, Enqueue
<1>t. /\ readyTasks \in Seq(Tasks) /\ readyToRun \in [Tasks -> BOOLEAN]
      /\ target \in [Procs -> Tasks \cup {NULL}] /\ cur \in [Workers -> Tasks \cup {NULL}]
  BY <1>0 DEF TypeOK
<1>f. /\ UNCHANGED <<runningTasks, finishedTasks, canceledTasks, started, done, cur,
                   keepRunning, currentThread, finishedDependencies>>
      /\ pc[p] = "push"
  BY DEF PushTask, links
<1>g. /\ target'[p] = NULL
      /\ target' \in [Procs -> Tasks \cup {NULL}]
      /\ \A q \in Procs : q # p => target'[q] = target[q]
  BY <1>t, Distinct DEF PushTask, Leave
<1>h. /\ script' \in [Callers -> Seq(Calls)]
      /\ \A c \in Callers : c # Caller(p) => script'[c] = script[c]
  <2>1. script \in [Callers -> Seq(Calls)]
    BY <1>0 DEF TypeOK
  <2>2. script' = [script EXCEPT ![Caller(p)] = Tail(script[Caller(p)])]
    BY DEF PushTask, Return
  <2> QED
    BY <1>l, <2>1, <2>2
<1>1. TypeOK'
  <2>1. readyTasks' \in Seq(Tasks) /\ readyToRun' \in [Tasks -> BOOLEAN]
    <3>1. Append(readyTasks, target[p]) \in Seq(Tasks)
      BY <1>a, <1>t, AppendElements
    <3> QED
      BY <1>t, <1>c, <3>1
  <2>2. waitingTasks' \subseteq Tasks /\ supMutex' = NULL
    BY <1>0, <1>a DEF PushTask, TypeOK
  <2>3. UNCHANGED <<taskMutex, runningTasks, finishedTasks, canceledTasks, keepRunning,
                    started, running, done, result, currentThread, links, allowed,
                    interrupt, exception, cur, toCancel, toStart>>
    BY DEF PushTask, flags
  <2> QED
    BY <1>0, <1>b, <1>g, <1>h, <2>1, <2>2, <2>3 DEF TypeOK, links
<1>2. ControlInv'
  BY <1>0, <1>a, <1>b, <1>f, <1>g, Distinct DEF ControlInv, Free, InCall, Targeting
<1>3. CallInv'
  <2> SUFFICES ASSUME NEW q \in Procs, pc'[q] \in InCall
               PROVE  script'[Caller(q)] # <<>> /\ Call(q)'.op \in TaskOps
    BY <1>f DEF CallInv, Call, Caller
  <2>1. q # p /\ pc[q] \in InCall
    BY <1>b DEF InCall
  <2>2. /\ Caller(q) \in Callers /\ Caller(q) # Caller(p) /\ Caller(q)' = Caller(q)
        /\ script[Caller(q)] # <<>> /\ Call(q).op \in TaskOps
    BY <1>0, <1>l, <1>f, <2>1, CallFacts DEF CallInv, Caller
  <2> QED
    BY <1>h, <2>2 DEF Call
<1>4. QueueInv'
  <2> DEFINE x == target[p]
  <2>1. CASE UNCHANGED <<readyToRun, readyTasks>>
    BY <1>0, <1>f, <2>1 DEF QueueInv
  <2>2. CASE /\ ~readyToRun[x]
             /\ readyToRun' = [readyToRun EXCEPT ![x] = TRUE]
             /\ readyTasks' = Append(readyTasks, x)
    <3>1. /\ ~started[x] /\ x \notin runningTasks \cup finishedTasks \cup canceledTasks
          /\ \A i \in DOMAIN readyTasks : readyTasks[i] # x /\ readyTasks[i] \in Tasks
      BY <1>0, <1>a, <1>t, <2>2, SequenceElements DEF QueueInv, FiledInv
    <3>2. \A t \in Tasks : readyToRun[t] => readyToRun'[t]
      BY <1>t, <2>2
    <3>3. readyToRun'[x]
      BY <1>a, <1>t, <2>2
    <3>4. \A i \in DOMAIN readyTasks' :
             \/ i \in DOMAIN readyTasks /\ readyTasks'[i] = readyTasks[i]
             \/ i = Len(readyTasks) + 1 /\ readyTasks'[i] = x
      BY <1>a, <1>t, <2>2, AppendElements
    <3> QED
      BY <1>0, <1>f, <3>1, <3>2, <3>3, <3>4 DEF QueueInv
  <2> QED
    BY <1>c, <2>1, <2>2
<1>5. HeldInv'
  <2> DEFINE x == target[p]
  <2>1. /\ \A t \in Tasks : readyToRun[t] => readyToRun'[t]
        /\ \A i \in DOMAIN readyTasks' :
              \/ i \in DOMAIN readyTasks /\ readyTasks'[i] = readyTasks[i]
              \/ readyTasks'[i] = x /\ ~readyToRun[x]
    BY <1>a, <1>t, <1>c, AppendElements
  <2>2. \A v \in Workers : cur[v] # NULL => cur[v] \in Tasks
    BY <1>t
  <2>3. \A v \in Workers : /\ pc'[v] \in Notifying <=> pc[v] \in Notifying
                           /\ pc'[v] = "begin" => pc[v] = "begin"
    BY <1>b, <1>f, Distinct DEF Notifying
  <2> QED
    BY <1>0, <1>f, <2>1, <2>2, <2>3 DEF HeldInv
<1>6. FiledInv'
  <2>1. \A t \in Tasks : readyToRun[t] => readyToRun'[t]
    BY <1>a, <1>t, <1>c
  <2> QED
    BY <1>0, <1>f, <2>1 DEF FiledInv
<1>7. DoneInv'
  BY <1>0, <1>f DEF DoneInv
<1>8. ThreadInv'
  <2>1. \A v \in Workers : pc'[v] \in Notifying \cup {"begin"} => pc[v] \in Notifying \cup {"begin"}
    BY <1>b, <1>f, Distinct DEF Notifying
  <2>2. \A t \in Tasks : currentThread[t] # NULL => currentThread[t] \in Workers
    BY <1>0 DEF TypeOK
  <2> QED
    BY <1>0, <1>f, <2>1, <2>2 DEF ThreadInv
<1> QED
  BY <1>1, <1>2, <1>3, <1>4, <1>5, <1>6, <1>7, <1>8 DEF SupervisorInv

\* A canceled task may keep a stale m_CurrentThread, but stays where it is filed.
LEMMA CancelTaskInv ==
    ASSUME NEW p \in Procs, SupervisorInv, CancelTask(p)
    PROVE  SupervisorInv'
<1>0. /\ TypeOK /\ ControlInv /\ CallInv /\ QueueInv
      /\ HeldInv /\ FiledInv /\ DoneInv /\ ThreadInv
  BY DEF SupervisorInv
<1>a. /\ target[p] \in Tasks /\ pc[p] \in {"cancel", "notifyCancel"}
      /\ pc[p] = "notifyCancel" => p \in Workers
  BY <1>0, Distinct DEF CancelTask, ControlInv, Targeting, InCall
<1>b. /\ pc' \in [Procs -> Locations]
      /\ pc'[p] = IF pc[p] = "cancel" THEN "user" ELSE "notify"
      /\ \A q \in Procs : q # p => pc'[q] = pc[q]
  <2>1. pc' = [pc EXCEPT ![p] = IF pc[p] = "cancel" THEN "user" ELSE "notify"]
    BY DEF CancelTask, Goto
  <2> QED
    BY <1>0, <2>1 DEF TypeOK, Locations
<1>f. /\ UNCHANGED <<taskMutex, lists, readyToRun, started, running, done, result,
                   currentThread, links, allowed, cur, toCancel, toStart>>
      /\ supMutex' = NULL
  BY DEF CancelTask
<1>g. /\ target'[p] = NULL
      /\ target' \in [Procs -> Tasks \cup {NULL}]
      /\ \A q \in Procs : q # p => target'[q] = target[q]
  BY <1>0, Distinct DEF CancelTask, Leave, TypeOK
<1>h. /\ script' \in [Callers -> Seq(Calls)]
      /\ \A q \in Procs : q # p /\ pc[q] \in InCall => script'[Caller(q)] = script[Caller(q)]
  <2>1. script \in [Callers -> Seq(Calls)]
    BY <1>0 DEF TypeOK
  <2>2. CASE pc[p] = "cancel"
    <3>1. script[Caller(p)] # <<>>
      BY <1>0, <2>2 DEF CallInv, InCall
    <3>2. /\ Caller(p) \in Callers /\ Tail(script[Caller(p)]) \in Seq(Calls)
          /\ \A q \in Procs : q # p /\ pc[q] \in InCall =>
                Caller(q) # Caller(p) /\ Caller(q) \in Callers
      BY <1>0, <2>2, <3>1, CallFacts DEF InCall
    <3>3. script' = [script EXCEPT ![Caller(p)] = Tail(script[Caller(p)])]
      BY <2>2 DEF CancelTask, Return
    <3> QED
      BY <2>1, <3>2, <3>3
  <2>3. CASE pc[p] = "notifyCancel"
    BY <2>1, <2>3 DEF CancelTask
  <2> QED
    BY <1>a, <2>2, <2>3
<1>k. /\ keepRunning' \in [Tasks -> BOOLEAN]
      /\ \A t \in Tasks : keepRunning'[t] => keepRunning[t]
      /\ interrupt' \in [Workers -> BOOLEAN] /\ exception' \in [Workers -> BOOLEAN]
  BY <1>0, <1>a DEF CancelTask, TypeOK, flags
<1>1. TypeOK'
  BY <1>0, <1>b, <1>f, <1>g, <1>h, <1>k DEF TypeOK, lists, links
<1>2. ControlInv'
  BY <1>0, <1>a, <1>b, <1>f, <1>g, Distinct DEF ControlInv, Free, InCall, Targeting
<1>3. CallInv'
  <2> SUFFICES ASSUME NEW q \in Procs, pc'[q] \in InCall
               PROVE  script'[Caller(q)] # <<>> /\ Call(q)'.op \in TaskOps
    BY <1>f DEF CallInv, Call, Caller
  <2>1. q # p /\ pc[q] \in InCall
    BY <1>b DEF InCall
  <2> QED
    BY <1>0, <1>f, <1>h, <2>1 DEF CallInv, Call, Caller
<1>4. QueueInv'
  BY <1>0, <1>f DEF QueueInv, lists
<1>5. HeldInv'
  <2>1. \A v \in Workers : /\ pc'[v] \in Notifying <=> pc[v] \in Notifying
                           /\ pc'[v] = "begin" => pc[v] = "begin"
    BY <1>a, <1>b, Distinct DEF Notifying
  <2> QED
    BY <1>0, <1>f, <2>1 DEF HeldInv, lists
<1>6. FiledInv'
  BY <1>0, <1>f DEF FiledInv, lists
<1>7. DoneInv'
  BY <1>0, <1>f DEF DoneInv, lists, links
<1>8. ThreadInv'
  <2>1. \A v \in Workers :
           pc'[v] \in Notifying \cup {"begin"} => pc[v] \in Notifying \cup {"begin"}
    BY <1>a, <1>b, Distinct DEF Notifying
  <2>2. \A t \in Tasks : currentThread[t] # NULL => currentThread[t] \in Workers
    BY <1>0 DEF TypeOK
  <2> QED
    BY <1>0, <1>f, <1>k, <2>1, <2>2 DEF ThreadInv
<1> QED
  BY <1>1, <1>2, <1>3, <1>4, <1>5, <1>6, <1>7, <1>8 DEF SupervisorInv

\* A caller of waitOn goes to sleep.
LEMMA WaitBlockInv ==
    ASSUME NEW p \in Procs, SupervisorInv, WaitBlock(p)
    PROVE  SupervisorInv'
<1>0. /\ TypeOK /\ ControlInv /\ CallInv /\ QueueInv
      /\ HeldInv /\ FiledInv /\ DoneInv /\ ThreadInv
  BY DEF SupervisorInv
<1>a. /\ pc[p] = "user" \/ pc[p] \in InCall
      /\ script[Caller(p)] # <<>>
      /\ Call(p).op \in TaskOps
  BY <1>0 DEF CallInv, Call, WaitBlock, WaitOn, Calling, TaskOps, InCall
<1>b. /\ Caller(p) \in Callers
      /\ Tail(script[Caller(p)]) \in Seq(Calls)
      /\ Call(p).task \in Tasks /\ Call(p).arg \in Tasks
      /\ \A q \in Procs :
            q # p /\ (pc[q] = "user" \/ pc[q] \in InCall) => Caller(q) # Caller(p)
  BY <1>0, <1>a, CallFacts
<1>1. TypeOK'
  BY <1>0, <1>a, <1>b, Distinct DEF TypeOK, WaitBlock, Call, Caller, Calling, Goto,
     Locations, WaitOn, flags, links, lists, status
<1>2. ControlInv'
  BY <1>0, <1>a, <1>b, Distinct DEF ControlInv, TypeOK, WaitBlock, Call, Caller, Calling,
     Free, Goto, InCall, WaitOn, flags, links, lists, status
<1>3. CallInv'
  BY <1>0, <1>a, <1>b, Distinct DEF CallInv, WaitBlock, Call, Caller, Calling, Goto,
     WaitOn, flags, links, lists, status
<1>4. QueueInv'
  BY <1>0 DEF QueueInv, WaitBlock, Call, Caller, Calling, Goto, WaitOn, flags, links,
     lists, status
<1>5. HeldInv'
  BY <1>0, <1>a, <1>b, Distinct DEF HeldInv, WaitBlock, Call, Caller, Calling, Goto,
     Notifying, WaitOn, flags, links, lists, status
<1>6. FiledInv'
  BY <1>0 DEF FiledInv, WaitBlock, Call, Caller, Calling, Goto, WaitOn, flags, links,
     lists, status
<1>7. DoneInv'
  BY <1>0 DEF DoneInv, WaitBlock, Call, Caller, Calling, Goto, WaitOn, flags, links,
     lists, status
<1>8. ThreadInv'
  BY <1>0, <1>a, <1>b, Distinct DEF ThreadInv, WaitBlock, Call, Caller, Calling, Goto,
     Notifying, WaitOn, flags, links, lists, status
<1> QED
  BY <1>1, <1>2, <1>3, <1>4, <1>5, <1>6, <1>7, <1>8 DEF SupervisorInv

\* A caller of waitOn returns.
LEMMA WaitReturnInv ==
    ASSUME NEW p \in Procs, SupervisorInv, WaitReturn(p)
    PROVE  SupervisorInv'
<1>0. /\ TypeOK /\ ControlInv /\ CallInv /\ QueueInv
      /\ HeldInv /\ FiledInv /\ DoneInv /\ ThreadInv
  BY DEF SupervisorInv
<1>a. /\ pc[p] = "user" \/ pc[p] \in InCall
      /\ script[Caller(p)] # <<>>
      /\ Call(p).op \in TaskOps
  BY <1>0 DEF CallInv, Call, WaitReturn, WaitOn, Calling, TaskOps, InCall
<1>b. /\ Caller(p) \in Callers
      /\ Tail(script[Caller(p)]) \in Seq(Calls)
      /\ Call(p).task \in Tasks /\ Call(p).arg \in Tasks
      /\ \A q \in Procs :
            q # p /\ (pc[q] = "user" \/ pc[q] \in InCall) => Caller(q) # Caller(p)
  BY <1>0, <1>a, CallFacts
<1>1. TypeOK'
  BY <1>0, <1>a, <1>b, Distinct DEF TypeOK, WaitReturn, Call, Caller, Calling, Goto,
     Leave, Locations, Return, WaitOn, flags, links, lists, status
<1>2. ControlInv'
  BY <1>0, <1>a, <1>b, Distinct DEF ControlInv, TypeOK, WaitReturn, Call, Caller, Calling,
     Free, Goto, Leave, Return, Targeting, WaitOn, flags, links, lists, status
<1>3. CallInv'
  BY <1>0, <1>a, <1>b, Distinct DEF CallInv, TypeOK, WaitReturn, Call, Caller, Calling,
     Goto, InCall, Leave, Return, WaitOn, flags, links, lists, status
<1>4. QueueInv'
  BY <1>0 DEF QueueInv, WaitReturn, Call, Caller, Calling, Goto, Leave, Return, WaitOn,
     flags, links, lists, status
<1>5. HeldInv'
  BY <1>0, <1>a, <1>b, Distinct DEF HeldInv, WaitReturn, Call, Caller, Calling, Goto,
     Leave, Notifying, Return, WaitOn, flags, links, lists, status
<1>6. FiledInv'
  BY <1>0 DEF FiledInv, WaitReturn, Call, Caller, Calling, Goto, Leave, Return, WaitOn,
     flags, links, lists, status
<1>7. DoneInv'
  BY <1>0 DEF DoneInv, WaitReturn, Call, Caller, Calling, Goto, Leave, Return, WaitOn,
     flags, links, lists, status
<1>8. ThreadInv'
  BY <1>0, <1>a, <1>b, Distinct DEF ThreadInv, WaitReturn, Call, Caller, Calling, Goto,
     Leave, Notifying, Return, WaitOn, flags, links, lists, status
<1> QED
  BY <1>1, <1>2, <1>3, <1>4, <1>5, <1>6, <1>7, <1>8 DEF SupervisorInv

\* The start set of a task grows.
LEMMA AddStartTaskInv ==
    ASSUME NEW p \in Procs, SupervisorInv, AddStartTask(p)
    PROVE  SupervisorInv'
<1>0. /\ TypeOK /\ ControlInv /\ CallInv /\ QueueInv
      /\ HeldInv /\ FiledInv /\ DoneInv /\ ThreadInv
  BY DEF SupervisorInv
<1>a. /\ pc[p] = "user" \/ pc[p] \in InCall
      /\ script[Caller(p)] # <<>>
      /\ Call(p).op \in TaskOps
  BY <1>0 DEF CallInv, Call, AddStartTask, Calling, TaskOps
<1>b. /\ Caller(p) \in Callers
      /\ Tail(script[Caller(p)]) \in Seq(Calls)
      /\ Call(p).task \in Tasks /\ Call(p).arg \in Tasks
      /\ \A q \in Procs :
            q # p /\ (pc[q] = "user" \/ pc[q] \in InCall) => Caller(q) # Caller(p)
  BY <1>0, <1>a, CallFacts
<1>1. TypeOK'
  BY <1>0, <1>a, <1>b, Distinct DEF AddStartTask, TypeOK, Call, Caller, Calling, Return,
     flags, lists, locals, status
<1>2. ControlInv'
  BY <1>0 DEF AddStartTask, ControlInv, Call, Caller, Calling, Return, flags, lists,
     locals, status
<1>3. CallInv'
  BY <1>0, <1>a, <1>b, Distinct DEF AddStartTask, CallInv, Call, Caller, Calling, InCall,
     Return, flags, lists, locals, status
<1>4. QueueInv'
  BY <1>0 DEF AddStartTask, QueueInv, Call, Caller, Calling, Return, flags, lists, locals,
     status
<1>5. HeldInv'
  BY <1>0 DEF AddStartTask, HeldInv, Call, Caller, Calling, Return, flags, lists, locals,
     status
<1>6. FiledInv'
  BY <1>0 DEF AddStartTask, FiledInv, Call, Caller, Calling, Return, flags, lists, locals,
     status
<1>7. DoneInv'
  BY <1>0 DEF AddStartTask, DoneInv, Call, Caller, Calling, Return, flags, lists, locals,
     status
<1>8. ThreadInv'
  BY <1>0 DEF AddStartTask, ThreadInv, Call, Caller, Calling, Return, flags, lists,
     locals, status
<1> QED
  BY <1>1, <1>2, <1>3, <1>4, <1>5, <1>6, <1>7, <1>8 DEF SupervisorInv

\* The cancel set of a task grows.
LEMMA AddCancelTaskInv ==
    ASSUME NEW p \in Procs, SupervisorInv, AddCancelTask(p)
    PROVE  SupervisorInv'
<1>0. /\ TypeOK /\ ControlInv /\ CallInv /\ QueueInv
      /\ HeldInv /\ FiledInv /\ DoneInv /\ ThreadInv
  BY DEF SupervisorInv
<1>a. /\ pc[p] = "user" \/ pc[p] \in InCall
      /\ script[Caller(p)] # <<>>
      /\ Call(p).op \in TaskOps
  BY <1>0 DEF CallInv, Call, AddCancelTask, Calling, TaskOps
<1>b. /\ Caller(p) \in Callers
      /\ Tail(script[Caller(p)]) \in Seq(Calls)
      /\ Call(p).task \in Tasks /\ Call(p).arg \in Tasks
      /\ \A q \in Procs :
            q # p /\ (pc[q] = "user" \/ pc[q] \in InCall) => Caller(q) # Caller(p)
  BY <1>0, <1>a, CallFacts
<1>1. TypeOK'
  BY <1>0, <1>a, <1>b, Distinct DEF AddCancelTask, TypeOK, Call, Caller, Calling, Return,
     flags, lists, locals, status
<1>2. ControlInv'
  BY <1>0 DEF AddCancelTask, ControlInv, Call, Caller, Calling, Return, flags, lists,
     locals, status
<1>3. CallInv'
  BY <1>0, <1>a, <1>b, Distinct DEF AddCancelTask, CallInv, Call, Caller, Calling, InCall,
     Return, flags, lists, locals, status
<1>4. QueueInv'
  BY <1>0 DEF AddCancelTask, QueueInv, Call, Caller, Calling, Return, flags, lists,
     locals, status
<1>5. HeldInv'
  BY <1>0 DEF AddCancelTask, HeldInv, Call, Caller, Calling, Return, flags, lists, locals,
     status
<1>6. FiledInv'
  BY <1>0 DEF AddCancelTask, FiledInv, Call, Caller, Calling, Return, flags, lists,
     locals, status
<1>7. DoneInv'
  BY <1>0 DEF AddCancelTask, DoneInv, Call, Caller, Calling, Return, flags, lists, locals,
     status
<1>8. ThreadInv'
  BY <1>0 DEF AddCancelTask, ThreadInv, Call, Caller, Calling, Return, flags, lists,
     locals, status
<1> QED
  BY <1>1, <1>2, <1>3, <1>4, <1>5, <1>6, <1>7, <1>8 DEF SupervisorInv

\* addDependency, first half: the start set of the dependency grows.
LEMMA AddDependencyStartInv ==
    ASSUME NEW p \in Procs, SupervisorInv, AddDependencyStart(p)
    PROVE  SupervisorInv'
<1>0. /\ TypeOK /\ ControlInv /\ CallInv /\ QueueInv
      /\ HeldInv /\ FiledInv /\ DoneInv /\ ThreadInv
  BY DEF SupervisorInv
<1>a. /\ pc[p] = "user" \/ pc[p] \in InCall
      /\ script[Caller(p)] # <<>>
      /\ Call(p).op \in TaskOps
  BY <1>0 DEF CallInv, Call, AddDependencyStart, Calling, TaskOps
<1>b. /\ Caller(p) \in Callers
      /\ Tail(script[Caller(p)]) \in Seq(Calls)
      /\ Call(p).task \in Tasks /\ Call(p).arg \in Tasks
      /\ \A q \in Procs :
            q # p /\ (pc[q] = "user" \/ pc[q] \in InCall) => Caller(q) # Caller(p)
  BY <1>0, <1>a, CallFacts
<1>1. TypeOK'
  BY <1>0, <1>a, <1>b, Distinct DEF AddDependencyStart, TypeOK, Call, Caller, Calling,
     Goto, Locations, flags, lists, locals, status
<1>2. ControlInv'
  BY <1>0, <1>a, <1>b, Distinct DEF AddDependencyStart, ControlInv, Call, Caller, Calling,
     Free, Goto, InCall, Targeting, flags, lists, locals, status
<1>3. CallInv'
  BY <1>0, <1>a, <1>b, Distinct DEF AddDependencyStart, CallInv, Call, Caller, Calling,
     Goto, flags, lists, locals, status
<1>4. QueueInv'
  BY <1>0 DEF AddDependencyStart, QueueInv, Call, Caller, Calling, Goto, flags, lists,
     locals, status
<1>5. HeldInv'
  BY <1>0, <1>a, <1>b, Distinct DEF AddDependencyStart, HeldInv, Call, Caller, Calling,
     Goto, Notifying, flags, lists, locals, status
<1>6. FiledInv'
  BY <1>0 DEF AddDependencyStart, FiledInv, Call, Caller, Calling, Goto, flags, lists,
     locals, status
<1>7. DoneInv'
  BY <1>0 DEF AddDependencyStart, DoneInv, Call, Caller, Calling, Goto, flags, lists,
     locals, status
<1>8. ThreadInv'
  BY <1>0, <1>a, <1>b, Distinct DEF AddDependencyStart, ThreadInv, Call, Caller, Calling,
     Goto, Notifying, flags, lists, locals, status
<1> QED
  BY <1>1, <1>2, <1>3, <1>4, <1>5, <1>6, <1>7, <1>8 DEF SupervisorInv

\* addDependency, second half: the dependencies of the task grow.
LEMMA AddDependencyInv ==
    ASSUME NEW p \in Procs, SupervisorInv, AddDependency(p)
    PROVE  SupervisorInv'
<1>0. /\ TypeOK /\ ControlInv /\ CallInv /\ QueueInv
      /\ HeldInv /\ FiledInv /\ DoneInv /\ ThreadInv
  BY DEF SupervisorInv
<1>a. /\ pc[p] = "user" \/ pc[p] \in InCall
      /\ script[Caller(p)] # <<>>
      /\ Call(p).op \in TaskOps
  BY <1>0 DEF CallInv, Call, AddDependency, InCall
<1>b. /\ Caller(p) \in Callers
      /\ Tail(script[Caller(p)]) \in Seq(Calls)
      /\ Call(p).task \in Tasks /\ Call(p).arg \in Tasks
      /\ \A q \in Procs :
            q # p /\ (pc[q] = "user" \/ pc[q] \in InCall) => Caller(q) # Caller(p)
  BY <1>0, <1>a, CallFacts
<1>1. TypeOK'
  BY <1>0, <1>a, <1>b, Distinct DEF AddDependency, TypeOK, Call, Caller, Goto, Locations,
     Return, flags, lists, locals, status
<1>2. ControlInv'
  BY <1>0, <1>a, <1>b, Distinct DEF AddDependency, ControlInv, Call, Caller, Free, Goto,
     Return, Targeting, flags, lists, locals, status
<1>3. CallInv'
  BY <1>0, <1>a, <1>b, Distinct DEF AddDependency, CallInv, TypeOK, Call, Caller, Goto,
     InCall, Return, flags, lists, locals, status
<1>4. QueueInv'
  BY <1>0 DEF AddDependency, QueueInv, Call, Caller, Goto, Return, flags, lists, locals,
     status
<1>5. HeldInv'
  BY <1>0, <1>a, <1>b, Distinct DEF AddDependency, HeldInv, Call, Caller, Goto, Notifying,
     Return, flags, lists, locals, status
<1>6. FiledInv'
  BY <1>0 DEF AddDependency, FiledInv, Call, Caller, Goto, Return, flags, lists, locals,
     status
<1>7. DoneInv'
  BY <1>0 DEF AddDependency, DoneInv, Call, Caller, Goto, Return, flags, lists, locals,
     status
<1>8. ThreadInv'
  BY <1>0, <1>a, <1>b, Distinct DEF AddDependency, ThreadInv, Call, Caller, Goto,
     Notifying, Return, flags, lists, locals, status
<1> QED
  BY <1>1, <1>2, <1>3, <1>4, <1>5, <1>6, <1>7, <1>8 DEF SupervisorInv

\* The allowance changes within its range.
LEMMA SetAllowableThreadsInv ==
    ASSUME NEW p \in Procs, SupervisorInv, SetAllowableThreads(p)
    PROVE  SupervisorInv'
<1>0. /\ TypeOK /\ ControlInv /\ CallInv /\ QueueInv
      /\ HeldInv /\ FiledInv /\ DoneInv /\ ThreadInv
  BY DEF SupervisorInv
<1>a. /\ pc[p] = "user" \/ pc[p] \in InCall
      /\ script[Caller(p)] # <<>>
      /\ Call(p).op \in {"setAllowable"}
  BY <1>0 DEF CallInv, Call, SetAllowableThreads, Calling, InCall
<1>b. /\ Caller(p) \in Callers
      /\ Tail(script[Caller(p)]) \in Seq(Calls)
      /\ Call(p).arg \in 1 .. NumThreads
      /\ \A q \in Procs :
            q # p /\ (pc[q] = "user" \/ pc[q] \in InCall) => Caller(q) # Caller(p)
  BY <1>0, <1>a, CallFacts
<1>1. TypeOK'
  BY <1>0, <1>a, <1>b, Distinct DEF SetAllowableThreads, TypeOK, Call, Caller, Calling,
     Return, flags, links, lists, locals, status
<1>2. ControlInv'
  BY <1>0 DEF ControlInv, SetAllowableThreads, Call, Caller, Calling, Return, flags,
     links, lists, locals, status
<1>3. CallInv'
  BY <1>0, <1>a, <1>b, Distinct DEF CallInv, SetAllowableThreads, Call, Caller, Calling,
     InCall, Return, flags, links, lists, locals, status
<1>4. QueueInv'
  BY <1>0 DEF QueueInv, SetAllowableThreads, Call, Caller, Calling, Return, flags, links,
     lists, locals, status
<1>5. HeldInv'
  BY <1>0 DEF HeldInv, SetAllowableThreads, Call, Caller, Calling, Return, flags, links,
     lists, locals, status
<1>6. FiledInv'
  BY <1>0 DEF FiledInv, SetAllowableThreads, Call, Caller, Calling, Return, flags, links,
     lists, locals, status
<1>7. DoneInv'
  BY <1>0 DEF DoneInv, SetAllowableThreads, Call, Caller, Calling, Return, flags, links,
     lists, locals, status
<1>8. ThreadInv'
  BY <1>0 DEF SetAllowableThreads, ThreadInv, Call, Caller, Calling, Return, flags, links,
     lists, locals, status
<1> QED
  BY <1>1, <1>2, <1>3, <1>4, <1>5, <1>6, <1>7, <1>8 DEF SupervisorInv

-----------------------------------------------------------------------------
(***************************************************************************)
(* The invariant of the specification and its consequences.                *)
(***************************************************************************)
\* The initial states satisfy the invariant.
LEMMA InitInv == Init => SupervisorInv
<1> SUFFICES ASSUME Init PROVE SupervisorInv
  OBVIOUS
<1>1. TypeOK
  <2>1. script \in [Callers -> Seq(Calls)]
    BY SupervisorAssumption DEF Init
  <2>2. pc \in [Procs -> Locations] /\ readyTasks \in Seq(Tasks)
    BY DEF Init, Locations
  <2> QED
    BY <2>1, <2>2, Distinct DEF Init, TypeOK
<1>2. \A p \in Procs : pc[p] = IF p \in Workers THEN "loop" ELSE "user"
  BY DEF Init
<1>3. ControlInv
  BY <1>2, Distinct DEF Init, ControlInv, Free, Targeting
<1>4. CallInv
  BY <1>2 DEF CallInv, InCall
<1>5. QueueInv
  BY DEF Init, QueueInv
<1>6. HeldInv
  BY DEF Init, HeldInv
<1>7. FiledInv /\ DoneInv /\ ThreadInv
  BY DEF Init, FiledInv, DoneInv, ThreadInv
<1> QED
  BY <1>1, <1>3, <1>4, <1>5, <1>6, <1>7 DEF SupervisorInv

\* Every step, of a worker, of a caller or of nobody, keeps the invariant.
LEMMA NextInv == SupervisorInv /\ [Next]_vars => SupervisorInv'
<1> SUFFICES ASSUME SupervisorInv, [Next]_vars PROVE SupervisorInv'
  OBVIOUS
<1>1. ASSUME NEW w \in Workers, WorkerStep(w) PROVE SupervisorInv'
  BY <1>1, LoopTopInv, GetTaskInv, GetTaskWaitInv, RunBeginInv, RunCanceledInv,
     ObserveExceptionInv, FuncReturnInv, RunEndInv, FinishDoneInv, FinishCanceledInv,
     NotifyCancelInv, NotifyStartInv, NotifyDoneInv, StartTaskInv DEF WorkerStep
<1>2. ASSUME NEW p \in Procs, CallStep(p) PROVE SupervisorInv'
  BY <1>2, EnterSupervisorInv, PushTaskInv, CancelTaskInv, WaitBlockInv, WaitReturnInv,
     AddStartTaskInv, AddCancelTaskInv, AddDependencyStartInv, AddDependencyInv,
     SetAllowableThreadsInv DEF CallStep
<1>3. ASSUME NEW p \in Procs, SpuriousWakeup(p) PROVE SupervisorInv'
  BY <1>3, SpuriousWakeupInv
<1>4. CASE UNCHANGED vars
  BY <1>4 DEF vars, lists, status, links, flags, locals, SupervisorInv, TypeOK,
     ControlInv, CallInv, Call, Caller, QueueInv, HeldInv, FiledInv, DoneInv, ThreadInv
<1>5. ASSUME NEW w \in Workers, Sleep(w) PROVE SupervisorInv'
  BY <1>4, <1>5 DEF Sleep
<1> QED
  BY <1>1, <1>2, <1>3, <1>4, <1>5 DEF Next

\* The inductive invariant holds in every reachable state.
THEOREM Invariance == Spec => []SupervisorInv
<1>1. SupervisorInv /\ [Next]_vars => SupervisorInv'
  BY NextInv
<1> QED
  BY InitInv, <1>1, PTL DEF Spec

\* Every variable keeps its type.
THEOREM Typing == Spec => []TypeOK
<1>1. SupervisorInv => TypeOK
  BY DEF SupervisorInv
<1> QED
  BY <1>1, Invariance, PTL

\* No task is lost from its worker, queued twice or run twice.
THEOREM RunsOnce == Spec => []RunOnce
<1>1. ASSUME SupervisorInv PROVE RunOnce
  <2>1. QueueInv /\ HeldInv /\ \A i \in DOMAIN readyTasks : readyTasks[i] \in Tasks
    BY <1>1, SequenceElements DEF SupervisorInv, TypeOK
  <2>2. \A i \in DOMAIN readyTasks : \A w \in Workers : cur[w] # readyTasks[i]
    BY <2>1, Distinct DEF HeldInv
  <2> QED
    BY <2>1, <2>2 DEF QueueInv, HeldInv, RunOnce
<1> QED
  BY <1>1, Invariance, PTL

\* The first cancellation of a task finds the worker that runs it.
THEOREM CurrentThreadNamesWorker == Spec => []CurrentThreadRuns
<1>1. SupervisorInv => CurrentThreadRuns
  BY DEF SupervisorInv, ThreadInv, CurrentThreadRuns
<1> QED
  BY <1>1, Invariance, PTL

\* Only two operations put a task into the ready queue.
LEMMA ReadySteps ==
    ASSUME [Next]_vars
    PROVE  \/ UNCHANGED readyToRun
           \/ \E w \in Workers : StartTask(w)
           \/ \E p \in Procs : PushTask(p)
<1>1. ASSUME NEW w \in Workers, WorkerStep(w) PROVE UNCHANGED readyToRun \/ StartTask(w)
  BY <1>1 DEF WorkerStep, LoopTop, GetTask, GetTaskWait, RunBegin, RunCanceled,
     ObserveException, FuncReturn, RunEnd, FinishDone, FinishCanceled, NotifyCancel,
     NotifyStart, NotifyDone, status
<1>2. ASSUME NEW p \in Procs, CallStep(p) PROVE UNCHANGED readyToRun \/ PushTask(p)
  BY <1>2 DEF CallStep, EnterSupervisor, CancelTask, WaitBlock, WaitReturn, AddStartTask,
     AddCancelTask, AddDependencyStart, AddDependency, SetAllowableThreads, status
<1>3. ASSUME NEW p \in Procs, SpuriousWakeup(p) PROVE UNCHANGED readyToRun
  BY <1>3 DEF SpuriousWakeup, status
<1>4. CASE UNCHANGED vars
  BY <1>4 DEF vars, status
<1>5. ASSUME NEW w \in Workers, Sleep(w) PROVE UNCHANGED readyToRun
  BY <1>5 DEF Sleep, vars, status
<1> QED
  BY <1>1, <1>2, <1>3, <1>4, <1>5 DEF Next

\* Tasks are queued when no dependency is left, and only tasks that ran to
\* their end count as met dependencies.
THEOREM DependenciesRespected == Spec => QueuedWhenDue
<1>1. ASSUME SupervisorInv, [Next]_vars PROVE DependencyOrder
  <2>0. TypeOK /\ ControlInv /\ HeldInv /\ DoneInv
    BY <1>1 DEF SupervisorInv
  <2>1. ASSUME NEW w \in Workers, StartTask(w) PROVE DependencyOrder
    <3>1. cur[w] \in Tasks /\ target[w] \in Tasks /\ cur[w] \in finishedTasks
      BY <2>0, <2>1, Distinct DEF StartTask, TypeOK, ControlInv, HeldInv, Free, Targeting,
         Notifying
    <3>2. \/ UNCHANGED readyToRun
          \/ /\ readyToRun' = [readyToRun EXCEPT ![target[w]] = TRUE]
             /\ dependencies' = [dependencies EXCEPT ![target[w]] = {}]
             /\ finishedDependencies' = [finishedDependencies EXCEPT ![target[w]] =
                                          @ \cup (dependencies[target[w]] \cap {cur[w]})]
      BY <2>1 DEF StartTask, Enqueue, Met
    <3> SUFFICES ASSUME NEW t \in Tasks, ~readyToRun[t], readyToRun'[t]
                 PROVE  /\ dependencies'[t] = {}
                        /\ \A d \in finishedDependencies'[t] : done[d]
      BY DEF DependencyOrder
    <3>3. /\ t = target[w]
          /\ dependencies'[t] = {}
          /\ finishedDependencies'[t] \subseteq finishedDependencies[t] \cup {cur[w]}
      BY <2>0, <3>1, <3>2 DEF TypeOK
    <3>4. finishedDependencies[t] \cup {cur[w]} \subseteq finishedTasks \cap Tasks
      BY <2>0, <3>1 DEF TypeOK, DoneInv
    <3> QED
      BY <2>0, <3>3, <3>4 DEF DoneInv
  <2>2. ASSUME NEW p \in Procs, PushTask(p) PROVE DependencyOrder
    <3>1. target[p] \in Tasks
      BY <2>0, <2>2 DEF PushTask, ControlInv, Targeting
    <3>2. /\ UNCHANGED <<dependencies, finishedDependencies>>
          /\ \/ UNCHANGED readyToRun
             \/ /\ readyToRun' = [readyToRun EXCEPT ![target[p]] = TRUE]
                /\ dependencies[target[p]] = {}
      BY <2>2 DEF PushTask, Enqueue, links
    <3> QED
      BY <2>0, <3>1, <3>2 DEF TypeOK, DoneInv, DependencyOrder
  <2> QED
    BY <1>1, <2>1, <2>2, ReadySteps DEF DependencyOrder
<1> QED
  BY <1>1, Invariance, PTL DEF Spec, QueuedWhenDue

\* The steps that begin a task, end one or cross off a dependency.
LEMMA ProgressSteps ==
    ASSUME [Next]_vars
    PROVE  /\ UNCHANGED started \/ \E w \in Workers : RunBegin(w)
           /\ UNCHANGED done \/ \E w \in Workers : FinishDone(w)
           /\ UNCHANGED finishedDependencies \/ \E w \in Workers : StartTask(w)
           /\ UNCHANGED keepRunning \/ \E p \in Procs : CancelTask(p)
<1>1. ASSUME NEW w \in Workers, WorkerStep(w)
      PROVE  /\ UNCHANGED started \/ RunBegin(w)
             /\ UNCHANGED done \/ FinishDone(w)
             /\ UNCHANGED finishedDependencies \/ StartTask(w)
             /\ UNCHANGED keepRunning
  BY <1>1 DEF WorkerStep, LoopTop, GetTask, GetTaskWait, RunBegin, RunCanceled,
     ObserveException, FuncReturn, RunEnd, FinishDone, FinishCanceled, NotifyCancel,
     NotifyStart, NotifyDone, StartTask, status, links
<1>2. ASSUME NEW p \in Procs, CallStep(p)
      PROVE  /\ UNCHANGED <<started, done, finishedDependencies>>
             /\ UNCHANGED keepRunning \/ CancelTask(p)
  BY <1>2 DEF CallStep, EnterSupervisor, PushTask, CancelTask, WaitBlock, WaitReturn,
     AddStartTask, AddCancelTask, AddDependencyStart, AddDependency, SetAllowableThreads,
     status, links
<1>3. ASSUME NEW p \in Procs, SpuriousWakeup(p)
      PROVE  UNCHANGED <<started, done, finishedDependencies, keepRunning>>
  BY <1>3 DEF SpuriousWakeup, status, links
<1>4. CASE UNCHANGED vars
  BY <1>4 DEF vars, status, links
<1>5. ASSUME NEW w \in Workers, Sleep(w)
      PROVE  UNCHANGED <<started, done, finishedDependencies, keepRunning>>
  BY <1>5 DEF Sleep, vars, status, links
<1> QED
  BY <1>1, <1>2, <1>3, <1>4, <1>5 DEF Next

\* A canceled task stays canceled, and what had not happened to it never does.
THEOREM CancellationFinal == Spec => CancelIsFinal
<1>1. ASSUME SupervisorInv, [Next]_vars PROVE CancelFinal
  <2> SUFFICES ASSUME NEW t \in Tasks, ~keepRunning[t]
               PROVE  /\ ~keepRunning'[t]
                      /\ ~started[t] => ~started'[t]
                      /\ ~done[t] =>
                            ~done'[t] /\ \A u \in Tasks : t \notin finishedDependencies'[u]
    BY DEF CancelFinal
  <2>0. TypeOK /\ ControlInv /\ HeldInv /\ DoneInv
    BY <1>1 DEF SupervisorInv
  <2>1. ~keepRunning'[t]
    BY <1>1, <2>0, ProgressSteps DEF CancelTask, TypeOK
  <2>2. ~started[t] => ~started'[t]
    <3>1. ASSUME NEW w \in Workers, RunBegin(w), ~started[t] PROVE ~started'[t]
      <4>1. /\ started' = [started EXCEPT ![cur[w]] = TRUE]
            /\ t # cur[w]
        BY <3>1 DEF RunBegin
      <4> QED
        BY <2>0, <3>1, <4>1 DEF TypeOK
    <3> QED
      BY <1>1, <3>1, ProgressSteps
  <2>3. ~done[t] => ~done'[t]
    <3>1. ASSUME NEW w \in Workers, FinishDone(w), ~done[t] PROVE ~done'[t]
      <4>1. /\ done' = [done EXCEPT ![cur[w]] = TRUE]
            /\ t # cur[w]
        BY <3>1 DEF FinishDone
      <4> QED
        BY <2>0, <3>1, <4>1 DEF TypeOK
    <3> QED
      BY <1>1, <3>1, ProgressSteps
  <2>4. ASSUME ~done[t], NEW u \in Tasks PROVE t \notin finishedDependencies'[u]
    <3>1. t \notin finishedDependencies[u]
      BY <2>0, <2>4 DEF DoneInv
    <3>2. ASSUME NEW w \in Workers, StartTask(w) PROVE t \notin finishedDependencies'[u]
      <4>1. t # cur[w] /\ target[w] \in Tasks
        BY <2>0, <2>4, <3>2, Distinct DEF StartTask, ControlInv, HeldInv, DoneInv,
           Targeting, Notifying
      <4>2. \/ finishedDependencies' = finishedDependencies
            \/ finishedDependencies' = [finishedDependencies EXCEPT ![target[w]] =
                                          @ \cup (dependencies[target[w]] \cap {cur[w]})]
        BY <3>2 DEF StartTask, Met
      <4> QED
        BY <2>0, <3>1, <4>1, <4>2 DEF TypeOK
    <3> QED
      BY <1>1, <3>1, <3>2, ProgressSteps
  <2> QED
    BY <2>1, <2>2, <2>3, <2>4
<1> QED
  BY <1>1, Invariance, PTL DEF Spec, CancelIsFinal
=============================================================================
