--------------------------- MODULE TaskCells_proofs ---------------------------
(***************************************************************************)
(* Proofs about tasks of the interpreter, for any tasks and threads.       *)
(***************************************************************************)
EXTENDS TaskCells, TLAPS

-----------------------------------------------------------------------------
(* A function is applied once                                              *)

\* A task that has not started has not been run, and one that runs for the first
\* time has not been either.
RunInv ==
    /\ runs \in [Tasks -> Nat] /\ DOMAIN outcome = Tasks
    /\ \A t \in Tasks :
         /\ t \notin started => runs[t] = 0 /\ t \notin running
         /\ t \in running /\ outcome[t] = "none" => runs[t] = 0
         /\ runs[t] <= 1

\* No thread of the interpreter applies a function, or makes a task anew.
LEMMA ThreadsRunNothing ==
    ASSUME NEW h \in Threads, ThreadStep(h) \/ Calls(h)
    PROVE  UNCHANGED <<runs, outcome, started, running, done>>
<1> USE DEF flags, cells, links, history
<1>1. ASSUME NEW t \in Tasks, NEW op \in Operations, Call(h, op, t)
      PROVE  UNCHANGED <<runs, outcome, started, running, done>>
  BY <1>1 DEF Call
<1>2. ASSUME NEW t \in Tasks, NEW u \in Tasks, NEW kind \in {"starts", "cancels", "depends"},
             Link(h, t, u, kind)
      PROVE  UNCHANGED <<runs, outcome, started, running, done>>
  BY <1>2 DEF Link
<1>3. CASE Schedule(h)
  BY <1>3 DEF Schedule, Push
<1>4. CASE Cancel(h)
  BY <1>4 DEF Cancel
<1>5. CASE Ask(h)
  BY <1>5 DEF Ask
<1>6. CASE ResultTests(h)
  BY <1>6 DEF ResultTests
<1>7. CASE ResultWait(h)
  BY <1>7 DEF ResultWait
<1>8. CASE ResultTake(h)
  BY <1>8 DEF ResultTake
<1>9. QED
  BY <1>1, <1>2, <1>3, <1>4, <1>5, <1>6, <1>7, <1>8 DEF ThreadStep, Calls

\* A task is begun once, and its function applied once between its beginning and end.
LEMMA TasksRunOnce ==
    ASSUME RunInv, NEW t \in Tasks, TaskStep(t)
    PROVE  RunInv'
<1>1. CASE Begin(t)
  <2>1. /\ t \notin started /\ started' = started \cup {t} /\ running' = running \cup {t}
        /\ outcome' = [outcome EXCEPT ![t] = "none"] /\ runs' = runs
    BY <1>1 DEF Begin
  <2>2. QED
    BY <2>1 DEF RunInv
<1>2. CASE Startup(t)
  <2>1. PICK r \in {"value", "null"} : outcome' = [outcome EXCEPT ![t] = r]
    BY <1>2 DEF Startup
  <2>2. /\ t \in running /\ outcome[t] = "none" /\ runs' = [runs EXCEPT ![t] = @ + 1]
        /\ started' = started /\ running' = running
    BY <1>2 DEF Startup, flags
  <2>3. runs[t] = 0 /\ t \in started
    BY <2>2 DEF RunInv
  <2>4. runs' \in [Tasks -> Nat] /\ runs'[t] = 1 /\ outcome'[t] = r
    BY <2>1, <2>2, <2>3 DEF RunInv
  <2>5. \A u \in Tasks : u # t => runs'[u] = runs[u] /\ outcome'[u] = outcome[u]
    BY <2>1, <2>2 DEF RunInv
  <2>6. QED
    BY <2>1, <2>2, <2>3, <2>4, <2>5 DEF RunInv
<1>3. CASE End(t)
  <2>1. started' = started /\ running' = running \ {t} /\ outcome' = outcome /\ runs' = runs
    BY <1>3 DEF End, history
  <2>2. QED
    BY <2>1 DEF RunInv
<1>4. QED
  BY <1>1, <1>2, <1>3 DEF TaskStep

\* The function of a task is applied once, however it is scheduled, linked, canceled
\* and asked about, and by however many threads.
THEOREM RunsOnce == Spec => []FunctionRunsOnce
<1>1. Init => RunInv
  BY DEF Init, RunInv
<1>2. RunInv /\ [Next]_vars => RunInv'
  <2> SUFFICES ASSUME RunInv, [Next]_vars PROVE RunInv'
      OBVIOUS
  <2>1. ASSUME NEW t \in Tasks, TaskStep(t) PROVE RunInv'
    BY <2>1, TasksRunOnce
  <2>2. ASSUME NEW h \in Threads, ThreadStep(h) \/ Calls(h) PROVE RunInv'
    BY <2>2, ThreadsRunNothing DEF RunInv
  <2>3. CASE UNCHANGED vars
    BY <2>3 DEF vars, history, flags, RunInv
  <2>4. QED
    BY <2>1, <2>2, <2>3 DEF Next
<1>3. RunInv => FunctionRunsOnce
  BY DEF RunInv, FunctionRunsOnce
<1>4. QED
  BY <1>1, <1>2, <1>3, PTL DEF Spec

-----------------------------------------------------------------------------
(* A result is delivered once                                              *)

Taking(h, t) == pc[h].op = "result" /\ pc[h].on = t

Before == {"scheduled?", "canceled?", "done?", "wait", "take", "reset", "mark"}
Holding == {"reset", "mark", "forget"}

PlaceInv ==
    /\ DOMAIN pc = Threads
    /\ \A h \in Threads :
         /\ DOMAIN pc[h] = {"op", "on", "at", "has"}
         /\ pc[h].op # "none" => pc[h].on \in Tasks

\* One thread at a time takes the result of a task.
TakerInv ==
    \A g, h \in Threads, t \in Tasks : Taking(g, t) /\ Taking(h, t) => g = h

\* A task that is done has returned, and will not be begun again.
DoneInv ==
    /\ DOMAIN outcome = Tasks /\ DOMAIN value = Tasks /\ DOMAIN answers = Tasks
    /\ retrieved \subseteq done /\ done \subseteq started
    /\ \A t \in Tasks :
         /\ outcome[t] \in {"none", "value", "null"}
         /\ t \notin started => t \notin running /\ outcome[t] = "none"
         /\ t \in done => t \notin running /\ outcome[t] # "none"

\* The value is in the cell until the thread that takes it has read it.
ValueInv ==
    \A t \in Tasks :
        \/ t \in retrieved
        \/ \E h \in Threads : Taking(h, t) /\ pc[h].at = "mark"
        \/ value[t] = IF outcome[t] = "value" THEN "value" ELSE "null"

TakeInv ==
    \A h \in Threads, t \in Tasks :
        Taking(h, t) =>
            /\ pc[h].at \in Before => t \notin retrieved
            /\ pc[h].at \in Holding \cup {"take"} => t \in done
            /\ pc[h].at \in Holding => pc[h].has = outcome[t]
            /\ pc[h].at = "forget" => t \in retrieved /\ answers[t] = << >>

AnswerInv ==
    \A t \in Tasks :
        /\ t \notin retrieved => answers[t] = << >>
        /\ answers[t] = << >> \/ answers[t] = <<outcome[t]>>

ResultInv == PlaceInv /\ TakerInv /\ DoneInv /\ ValueInv /\ TakeInv /\ AnswerInv
\* What most steps of a thread leave alone.
Frame == UNCHANGED <<value, retrieved, answers, done, outcome, started, running>>

\* A thread begins, goes on with, or ends something other than taking a result.
LEMMA OtherMove ==
    ASSUME ResultInv, NEW h \in Threads, Frame,
           NEW r, DOMAIN r = {"op", "on", "at", "has"}, r.op # "result",
           r.op # "none" => r.on \in Tasks,
           pc' = [pc EXCEPT ![h] = r], pc[h].op = "result" => pc[h].at # "mark"
    PROVE  ResultInv'
<1> USE DEF ResultInv, Frame, Taking
<1>1. /\ DOMAIN pc' = Threads /\ pc'[h] = r
      /\ \A g \in Threads : g # h => pc'[g] = pc[g]
  BY DEF PlaceInv
<1>2. PlaceInv'
  BY <1>1 DEF PlaceInv
<1>3. TakerInv'
  BY <1>1 DEF TakerInv
<1>4. DoneInv' /\ AnswerInv'
  BY DEF DoneInv, AnswerInv
<1>5. ValueInv'
  <2>1. ASSUME NEW t \in Tasks, NEW g \in Threads, Taking(g, t), pc[g].at = "mark"
        PROVE  Taking(g, t)' /\ pc'[g].at = "mark"
    BY <1>1, <2>1
  <2>2. QED
    BY <2>1 DEF ValueInv
<1>6. TakeInv'
  BY <1>1 DEF TakeInv
<1>7. QED
  BY <1>2, <1>3, <1>4, <1>5, <1>6

\* A thread that takes a result goes on to place l, before it reads the value.
LEMMA TakerMove ==
    ASSUME ResultInv, NEW h \in Threads, Frame, NEW l,
           pc[h].op = "result", pc[h].at # "mark", l \notin Holding,
           l \in Before => On(h) \notin retrieved, l = "take" => On(h) \in done,
           Goto(h, l)
    PROVE  ResultInv'
<1> USE DEF ResultInv, Frame, Taking
<1>1. /\ DOMAIN pc' = Threads /\ DOMAIN pc'[h] = DOMAIN pc[h]
      /\ pc'[h].at = l /\ pc'[h].op = "result" /\ pc'[h].on = pc[h].on
      /\ \A g \in Threads : g # h => pc'[g] = pc[g]
  BY DEF PlaceInv, Goto
<1>2. PlaceInv'
  BY <1>1 DEF PlaceInv
<1>3. TakerInv'
  BY <1>1 DEF TakerInv
<1>4. DoneInv' /\ AnswerInv'
  BY DEF DoneInv, AnswerInv
<1>5. ValueInv'
  <2>1. ASSUME NEW t \in Tasks, NEW g \in Threads, Taking(g, t), pc[g].at = "mark"
        PROVE  Taking(g, t)' /\ pc'[g].at = "mark"
    BY <1>1, <2>1
  <2>2. QED
    BY <2>1 DEF ValueInv
<1>6. TakeInv'
  <2>1. l \notin Holding /\ l # "forget"
    BY DEF Holding
  <2>2. QED
    BY <1>1, <2>1 DEF TakeInv, On
<1>7. QED
  BY <1>2, <1>3, <1>4, <1>5, <1>6

\* The task goes on.
LEMMA TaskKeepsResults ==
    ASSUME ResultInv, NEW t \in Tasks, TaskStep(t)
    PROVE  ResultInv'
<1> USE DEF ResultInv, Taking
<1>0. /\ UNCHANGED <<pc, retrieved, answers>> /\ PlaceInv' /\ TakerInv'
  BY DEF TaskStep, Begin, Startup, End, cells, history, PlaceInv, TakerInv
<1>1. CASE Begin(t)
  <2>1. /\ t \notin started /\ started' = started \cup {t} /\ running' = running \cup {t}
        /\ UNCHANGED <<done, value>>
    BY <1>1 DEF Begin, cells
  <2>2. DOMAIN outcome' = Tasks /\ \A u \in Tasks : outcome'[u] = outcome[u]
    BY <1>1, <2>1 DEF Begin, DoneInv
  <2>3. DoneInv'
    BY <1>0, <2>1, <2>2 DEF DoneInv
  <2>4. ValueInv' /\ TakeInv' /\ AnswerInv'
    BY <1>0, <2>1, <2>2 DEF ValueInv, TakeInv, AnswerInv
  <2>5. QED
    BY <1>0, <2>3, <2>4
<1>2. CASE Startup(t)
  <2>1. PICK r \in {"value", "null"} :
            /\ outcome' = [outcome EXCEPT ![t] = r]
            /\ value' = IF r = "null" THEN value ELSE [value EXCEPT ![t] = r]
    BY <1>2 DEF Startup
  <2>2. /\ t \in running /\ outcome[t] = "none" /\ UNCHANGED <<done, started, running>>
    BY <1>2 DEF Startup, flags
  <2>3. t \notin done /\ t \notin retrieved
    BY <2>2 DEF DoneInv
  <2>4. /\ DOMAIN outcome' = Tasks /\ DOMAIN value' = Tasks
        /\ outcome'[t] = r /\ value'[t] = IF r = "null" THEN value[t] ELSE r
        /\ \A u \in Tasks : u # t => outcome'[u] = outcome[u] /\ value'[u] = value[u]
    BY <2>1 DEF DoneInv
  <2>5. \A h \in Threads : Taking(h, t) => pc[h].at \notin Holding
    BY <2>3 DEF TakeInv
  <2>6. DoneInv'
    BY <1>0, <2>2, <2>3, <2>4 DEF DoneInv
  <2>7. ValueInv'
    <3>1. value[t] = "null"
      BY <2>2, <2>3, <2>5 DEF ValueInv, Holding
    <3>2. QED
      BY <1>0, <2>4, <3>1 DEF ValueInv
  <2>8. TakeInv'
    BY <1>0, <2>2, <2>4, <2>5 DEF TakeInv
  <2>9. AnswerInv'
    BY <1>0, <2>3, <2>4 DEF AnswerInv
  <2>10. QED
    BY <1>0, <2>6, <2>7, <2>8, <2>9
<1>3. CASE End(t)
  <2>1. /\ t \in running /\ outcome[t] # "none" /\ UNCHANGED <<value, outcome, started>>
        /\ running' = running \ {t} /\ (done' = done \cup {t} \/ done' = done)
    BY <1>3 DEF End, cells, history
  <2>2. t \in started
    BY <2>1 DEF DoneInv
  <2>3. DoneInv'
    BY <1>0, <2>1, <2>2 DEF DoneInv
  <2>4. ValueInv' /\ AnswerInv'
    BY <1>0, <2>1 DEF ValueInv, AnswerInv
  <2>5. TakeInv'
    BY <1>0, <2>1 DEF TakeInv
  <2>6. QED
    BY <1>0, <2>3, <2>4, <2>5
<1>4. QED
  BY <1>1, <1>2, <1>3 DEF TaskStep

\* An operation begins; that of taking a result only if nobody takes it.
LEMMA CallsKeepResults ==
    ASSUME OneTaker, ResultInv, NEW h \in Threads, Calls(h)
    PROVE  ResultInv'
<1>1. ASSUME NEW t \in Tasks, NEW op \in Operations, Call(h, op, t)
      PROVE  ResultInv'
  <2> DEFINE r == [op |-> op, on |-> t, at |-> "start", has |-> "null"]
  <2>1. pc[h].op = "none" /\ pc' = [pc EXCEPT ![h] = r] /\ Frame
    BY <1>1 DEF Call, cells, flags, history, Frame
  <2>2. CASE op # "result"
    <3>1. DOMAIN r = {"op", "on", "at", "has"} /\ r.op # "result" /\ r.on \in Tasks
      BY <2>2
    <3> HIDE DEF r
    <3>2. QED
      BY <2>1, <3>1, OtherMove
  <2>3. CASE op = "result"
    <3> USE DEF ResultInv, Taking, Frame
    <3>1. \A g \in Threads : ~Taking(g, t)
      BY <1>1, <2>3 DEF Call, On
    <3>2. /\ DOMAIN pc' = Threads /\ DOMAIN pc'[h] = {"op", "on", "at", "has"}
          /\ pc'[h].op = "result" /\ pc'[h].on = t /\ pc'[h].at = "start"
          /\ \A g \in Threads : g # h => pc'[g] = pc[g]
      BY <2>1, <2>3 DEF PlaceInv
    <3>3. PlaceInv'
      BY <3>2 DEF PlaceInv
    <3>4. TakerInv'
      BY <3>1, <3>2 DEF TakerInv
    <3>5. DoneInv' /\ AnswerInv'
      BY <2>1 DEF DoneInv, AnswerInv
    <3>6. ValueInv'
      <4>1. ASSUME NEW u \in Tasks, NEW g \in Threads, Taking(g, u), pc[g].at = "mark"
            PROVE  Taking(g, u)' /\ pc'[g].at = "mark"
        BY <2>1, <3>2, <4>1
      <4>2. QED
        BY <2>1, <4>1 DEF ValueInv
    <3>7. TakeInv'
      BY <2>1, <3>2 DEF TakeInv, Before, Holding
    <3>8. QED
      BY <3>3, <3>4, <3>5, <3>6, <3>7
  <2>4. QED
    BY <2>2, <2>3
<1>2. ASSUME NEW t \in Tasks, NEW u \in Tasks, NEW kind \in {"starts", "cancels", "depends"},
             Link(h, t, u, kind)
      PROVE  ResultInv'
  <2>1. pc' = pc /\ Frame
    BY <1>2 DEF Link, cells, flags, history, Frame
  <2>2. QED
    BY <2>1 DEF ResultInv, Frame, Taking, PlaceInv, TakerInv, DoneInv, ValueInv, TakeInv,
                AnswerInv
<1>3. QED
  BY <1>1, <1>2 DEF Calls

\* Scheduling, canceling and asking take no result.
LEMMA OthersKeepResults ==
    ASSUME ResultInv, NEW h \in Threads, Schedule(h) \/ Cancel(h) \/ Ask(h)
    PROVE  ResultInv'
<1>1. /\ Frame /\ pc[h].op # "result" /\ pc[h].op # "none"
      /\ Return(h) \/ (\E l : Goto(h, l))
  <2> USE DEF At, Frame, cells, flags, links, history
  <2>1. CASE Schedule(h)
    BY <2>1 DEF Schedule, Push
  <2>2. CASE Cancel(h)
    BY <2>2 DEF Cancel
  <2>3. CASE Ask(h)
    BY <2>3 DEF Ask
  <2>4. QED
    BY <2>1, <2>2, <2>3
<1>2. CASE Return(h)
  <2>1. DOMAIN Idle = {"op", "on", "at", "has"} /\ Idle.op = "none"
    BY DEF Idle
  <2>2. QED
    BY <1>1, <1>2, <2>1, OtherMove DEF Return
<1>3. ASSUME NEW l, Goto(h, l) PROVE ResultInv'
  <2> DEFINE r == [pc[h] EXCEPT !.at = l]
  <2>1. /\ DOMAIN r = {"op", "on", "at", "has"} /\ r.op = pc[h].op /\ r.on \in Tasks
    BY <1>1 DEF ResultInv, PlaceInv
  <2>2. pc' = [pc EXCEPT ![h] = r]
    BY <1>3 DEF Goto
  <2> HIDE DEF r
  <2>3. QED
    BY <1>1, <2>1, <2>2, OtherMove
<1>4. QED
  BY <1>1, <1>2, <1>3
\* Before it has taken the value, a thread tests and waits.
LEMMA TestsKeepResults ==
    ASSUME ResultInv, NEW h \in Threads, ResultTests(h) \/ ResultWait(h)
    PROVE  ResultInv'
<1>1. Frame /\ pc[h].op = "result" /\ pc[h].at # "mark"
  BY DEF ResultTests, ResultWait, At, Frame, cells, flags, history
<1>2. On(h) \in Tasks /\ (pc[h].at \in Before => On(h) \notin retrieved)
  BY <1>1 DEF ResultInv, PlaceInv, TakeInv, Taking, On
<1>3. CASE Return(h)
  <2>1. DOMAIN Idle = {"op", "on", "at", "has"} /\ Idle.op = "none"
    BY DEF Idle
  <2>2. QED
    BY <1>1, <1>3, <2>1, OtherMove DEF Return
<1>4. ASSUME NEW l, Goto(h, l), l \notin Holding,
             l \in Before => On(h) \notin retrieved, l = "take" => On(h) \in done
      PROVE  ResultInv'
  BY <1>1, <1>4, TakerMove
<1>5. CASE ResultTests(h)
  <2>1. CASE At(h, "result", "start")
    <3>1. Return(h) \/ (Goto(h, "scheduled?") /\ On(h) \notin retrieved)
      BY <1>5, <2>1 DEF ResultTests, At
    <3>2. QED
      BY <1>3, <1>4, <3>1 DEF Holding
  <2>2. CASE At(h, "result", "scheduled?")
    <3>1. On(h) \notin retrieved /\ (Return(h) \/ Goto(h, "canceled?"))
      BY <1>2, <1>5, <2>2 DEF ResultTests, At, Before
    <3>2. QED
      BY <1>3, <1>4, <3>1 DEF Holding
  <2>3. CASE At(h, "result", "canceled?")
    <3>1. On(h) \notin retrieved /\ (Return(h) \/ Goto(h, "done?"))
      BY <1>2, <1>5, <2>3 DEF ResultTests, At, Before
    <3>2. QED
      BY <1>3, <1>4, <3>1 DEF Holding
  <2>4. CASE At(h, "result", "done?")
    <3>1. /\ On(h) \notin retrieved
          /\ (Goto(h, "take") /\ On(h) \in done) \/ Goto(h, "wait")
      BY <1>2, <1>5, <2>4 DEF ResultTests, At, Before
    <3>2. QED
      BY <1>4, <3>1 DEF Holding
  <2>5. QED
    BY <1>5, <2>1, <2>2, <2>3, <2>4 DEF ResultTests
<1>6. CASE ResultWait(h)
  <2>1. Goto(h, "start")
    BY <1>6 DEF ResultWait
  <2>2. QED
    BY <1>4, <2>1 DEF Before, Holding
<1>7. QED
  BY <1>5, <1>6

\* The value is read, reset, marked as retrieved, and delivered.
LEMMA TakeKeepsResults ==
    ASSUME ResultInv, NEW h \in Threads, ResultTake(h)
    PROVE  ResultInv'
<1> USE DEF ResultInv, Taking, flags, cells
<1> DEFINE t == pc[h].on
<1>0. /\ UNCHANGED <<done, outcome, started, running>>
      /\ pc[h].op = "result" /\ t \in Tasks /\ Taking(h, t)
      /\ \A g \in Threads : Taking(g, t) => g = h
  BY DEF ResultTake, At, history, PlaceInv, TakerInv
<1>1. CASE At(h, "result", "take")
  <2>1. /\ pc[h].at = "take" /\ UNCHANGED <<value, retrieved, answers>>
        /\ pc' = [pc EXCEPT ![h].at = "reset", ![h].has = value[t]]
    BY <1>1 DEF ResultTake, At, history, On
  <2>2. t \in done /\ t \notin retrieved
    BY <1>0, <2>1 DEF TakeInv, Before
  <2>3. value[t] = outcome[t]
    <3>1. outcome[t] \in {"value", "null"}
      BY <1>0, <2>2 DEF DoneInv
    <3>2. QED
      BY <1>0, <2>1, <2>2, <3>1 DEF ValueInv
  <2>4. /\ DOMAIN pc' = Threads /\ DOMAIN pc'[h] = DOMAIN pc[h]
        /\ pc'[h].op = "result" /\ pc'[h].on = t /\ pc'[h].at = "reset" /\ pc'[h].has = outcome[t]
        /\ \A g \in Threads : g # h => pc'[g] = pc[g]
    BY <1>0, <2>1, <2>3 DEF PlaceInv
  <2>5. PlaceInv' /\ TakerInv'
    BY <1>0, <2>4 DEF PlaceInv, TakerInv
  <2>6. DoneInv' /\ AnswerInv'
    BY <1>0, <2>1 DEF DoneInv, AnswerInv
  <2>7. ValueInv'
    <3>1. ASSUME NEW u \in Tasks, NEW g \in Threads, Taking(g, u), pc[g].at = "mark"
          PROVE  Taking(g, u)' /\ pc'[g].at = "mark"
      BY <2>1, <2>4, <3>1
    <3>2. UNCHANGED <<value, outcome, retrieved>>
      BY <1>0, <2>1
    <3> HIDE DEF t
    <3>3. QED
      BY <3>1, <3>2 DEF ValueInv
  <2>8. TakeInv'
    BY <1>0, <2>1, <2>2, <2>4 DEF TakeInv
  <2>9. QED
    BY <2>5, <2>6, <2>7, <2>8
<1>2. CASE At(h, "result", "reset")
  <2>1. /\ pc[h].at = "reset" /\ UNCHANGED <<retrieved, answers>>
        /\ value' = [value EXCEPT ![t] = "null"] /\ pc' = [pc EXCEPT ![h].at = "mark"]
    BY <1>2 DEF ResultTake, At, history, On, Goto
  <2>2. t \in done /\ t \notin retrieved /\ pc[h].has = outcome[t]
    BY <1>0, <2>1 DEF TakeInv, Before, Holding
  <2>3. /\ DOMAIN pc' = Threads /\ DOMAIN pc'[h] = DOMAIN pc[h]
        /\ pc'[h].op = "result" /\ pc'[h].on = t /\ pc'[h].at = "mark" /\ pc'[h].has = outcome[t]
        /\ \A g \in Threads : g # h => pc'[g] = pc[g]
    BY <1>0, <2>1, <2>2 DEF PlaceInv
  <2>4. DOMAIN value' = Tasks /\ \A u \in Tasks : u # t => value'[u] = value[u]
    BY <2>1 DEF DoneInv
  <2>5. PlaceInv' /\ TakerInv'
    BY <1>0, <2>3 DEF PlaceInv, TakerInv
  <2>6. DoneInv' /\ AnswerInv'
    BY <1>0, <2>1, <2>4 DEF DoneInv, AnswerInv
  <2>7. ValueInv'
    <3>1. ASSUME NEW u \in Tasks, NEW g \in Threads, Taking(g, u), pc[g].at = "mark"
          PROVE  Taking(g, u)' /\ pc'[g].at = "mark"
      BY <2>1, <2>3, <3>1
    <3>2. Taking(h, t)' /\ pc'[h].at = "mark"
      BY <2>3
    <3>3. QED
      BY <1>0, <2>1, <2>4, <3>1, <3>2 DEF ValueInv
  <2>8. TakeInv'
    BY <1>0, <2>1, <2>2, <2>3 DEF TakeInv
  <2>9. QED
    BY <2>5, <2>6, <2>7, <2>8
<1>3. CASE At(h, "result", "mark")
  <2>1. /\ pc[h].at = "mark" /\ UNCHANGED <<value, answers>>
        /\ retrieved' = retrieved \cup {t} /\ pc' = [pc EXCEPT ![h].at = "forget"]
    BY <1>3 DEF ResultTake, At, history, On, Goto
  <2>2. t \in done /\ t \notin retrieved /\ pc[h].has = outcome[t] /\ answers[t] = << >>
    BY <1>0, <2>1 DEF TakeInv, Before, Holding, AnswerInv
  <2>3. /\ DOMAIN pc' = Threads /\ DOMAIN pc'[h] = DOMAIN pc[h]
        /\ pc'[h].op = "result" /\ pc'[h].on = t /\ pc'[h].at = "forget" /\ pc'[h].has = outcome[t]
        /\ \A g \in Threads : g # h => pc'[g] = pc[g]
    BY <1>0, <2>1, <2>2 DEF PlaceInv
  <2>4. PlaceInv' /\ TakerInv'
    BY <1>0, <2>3 DEF PlaceInv, TakerInv
  <2>5. DoneInv'
    BY <1>0, <2>1, <2>2 DEF DoneInv
  <2>6. AnswerInv'
    BY <1>0, <2>1, <2>2 DEF AnswerInv
  <2>7. ValueInv'
    <3>1. ASSUME NEW u \in Tasks, NEW g \in Threads, u # t, Taking(g, u), pc[g].at = "mark"
          PROVE  Taking(g, u)' /\ pc'[g].at = "mark"
      BY <2>3, <3>1
    <3>2. QED
      BY <1>0, <2>1, <3>1 DEF ValueInv
  <2>8. TakeInv'
    <3> SUFFICES ASSUME NEW g \in Threads, NEW u \in Tasks, Taking(g, u)'
                 PROVE  /\ pc'[g].at \in Before => u \notin retrieved'
                        /\ pc'[g].at \in Holding \cup {"take"} => u \in done'
                        /\ pc'[g].at \in Holding => pc'[g].has = outcome'[u]
                        /\ pc'[g].at = "forget" => u \in retrieved' /\ answers'[u] = << >>
        BY DEF TakeInv
    <3>1. CASE g = h
      BY <1>0, <2>1, <2>2, <2>3, <3>1 DEF Before
    <3>2. CASE g # h
      <4>1. Taking(g, u) /\ pc'[g] = pc[g] /\ u # t
        BY <1>0, <2>3, <3>2
      <4>2. QED
        BY <1>0, <2>1, <4>1 DEF TakeInv
    <3>3. QED
      BY <3>1, <3>2
  <2>9. QED
    BY <2>4, <2>5, <2>6, <2>7, <2>8
<1>4. CASE At(h, "result", "forget")
  <2>1. /\ pc[h].at = "forget" /\ UNCHANGED <<value, retrieved>>
        /\ answers' = [answers EXCEPT ![t] = Append(@, pc[h].has)]
        /\ pc' = [pc EXCEPT ![h] = Idle]
    BY <1>4 DEF ResultTake, At, On, Return
  <2>2. t \in done /\ t \in retrieved /\ pc[h].has = outcome[t] /\ answers[t] = << >>
    BY <1>0, <2>1 DEF TakeInv, Holding
  <2>3. /\ DOMAIN pc' = Threads /\ DOMAIN pc'[h] = {"op", "on", "at", "has"}
        /\ pc'[h].op = "none"
        /\ \A g \in Threads : g # h => pc'[g] = pc[g]
    BY <2>1 DEF PlaceInv, Idle
  <2>4. /\ DOMAIN answers' = Tasks /\ answers'[t] = Append(<< >>, outcome[t])
        /\ \A u \in Tasks : u # t => answers'[u] = answers[u]
    BY <1>0, <2>1, <2>2 DEF DoneInv
  <2>5. answers'[t] = <<outcome[t]>>
    BY <2>4
  <2>6. PlaceInv' /\ TakerInv'
    BY <1>0, <2>3 DEF PlaceInv, TakerInv
  <2>7. DoneInv'
    BY <1>0, <2>1, <2>4 DEF DoneInv
  <2>8. AnswerInv'
    BY <1>0, <2>1, <2>2, <2>4, <2>5 DEF AnswerInv
  <2>9. ValueInv'
    <3>1. ASSUME NEW u \in Tasks, NEW g \in Threads, Taking(g, u), pc[g].at = "mark"
          PROVE  Taking(g, u)' /\ pc'[g].at = "mark"
      BY <2>1, <2>3, <3>1
    <3>2. QED
      BY <1>0, <2>1, <3>1 DEF ValueInv
  <2>10. TakeInv'
    <3> SUFFICES ASSUME NEW g \in Threads, NEW u \in Tasks, Taking(g, u)'
                 PROVE  /\ pc'[g].at \in Before => u \notin retrieved'
                        /\ pc'[g].at \in Holding \cup {"take"} => u \in done'
                        /\ pc'[g].at \in Holding => pc'[g].has = outcome'[u]
                        /\ pc'[g].at = "forget" => u \in retrieved' /\ answers'[u] = << >>
        BY DEF TakeInv
    <3>1. Taking(g, u) /\ pc'[g] = pc[g] /\ u # t
      BY <1>0, <2>3
    <3>2. QED
      BY <1>0, <2>1, <2>4, <3>1 DEF TakeInv
  <2>11. QED
    BY <2>6, <2>7, <2>8, <2>9, <2>10
<1>5. QED
  BY <1>1, <1>2, <1>3, <1>4 DEF ResultTake

\* taskResult delivers a value once, and the value that the function returned, if one
\* thread at a time asks for the result of a task.
THEOREM ResultsDeliveredOnce == OneTaker /\ Spec => []ResultOnce
<1> SUFFICES ASSUME OneTaker PROVE Spec => []ResultOnce
    OBVIOUS
<1>1. Init => ResultInv
  BY DEF Init, Idle, ResultInv, PlaceInv, TakerInv, DoneInv, ValueInv, TakeInv, AnswerInv, Taking
<1>2. ResultInv /\ [Next]_vars => ResultInv'
  <2> SUFFICES ASSUME ResultInv, [Next]_vars PROVE ResultInv'
      OBVIOUS
  <2>1. ASSUME NEW t \in Tasks, TaskStep(t) PROVE ResultInv'
    BY <2>1, TaskKeepsResults
  <2>2. ASSUME NEW h \in Threads, ThreadStep(h) \/ Calls(h) PROVE ResultInv'
    BY <2>2, CallsKeepResults, OthersKeepResults, TestsKeepResults, TakeKeepsResults DEF ThreadStep
  <2>3. CASE UNCHANGED vars
    BY <2>3 DEF vars, cells, flags, history, ResultInv, PlaceInv, TakerInv, DoneInv, ValueInv,
                TakeInv, AnswerInv, Taking
  <2>4. QED
    BY <2>1, <2>2, <2>3 DEF Next
<1>3. ResultInv => ResultOnce
  <2> SUFFICES ASSUME ResultInv, NEW t \in Tasks
               PROVE  /\ Len(answers[t]) <= 1
                      /\ \A i \in 1..Len(answers[t]) : answers[t][i] = outcome[t]
      BY DEF ResultOnce
  <2>1. CASE answers[t] = << >>
    BY <2>1
  <2>2. CASE answers[t] = <<outcome[t]>>
    BY <2>2
  <2>3. QED
    BY <2>1, <2>2 DEF ResultInv, AnswerInv
<1>4. QED
  BY <1>1, <1>2, <1>3, PTL DEF Spec
=============================================================================
