--------------------------- MODULE TaskLifecycle ----------------------------
(***************************************************************************)
(* What the supervisor promises about a task, with no threads and no       *)
(* mutexes: tasks are queued at most once, taken in the order in which     *)
(* they were queued, and each ends exactly once, finished if nobody asked  *)
(* to cancel it before its end and canceled otherwise; a task asked to be  *)
(* canceled before it began never begins.                                  *)
(***************************************************************************)
EXTENDS Sequences

CONSTANT Tasks

VARIABLES
    queue,       \* the tasks to run, oldest first
    phase,       \* how far each task has come
    wanted       \* FALSE once somebody has asked to cancel the task

vars == <<queue, phase, wanted>>

Phases == {"new", "queued", "taken", "running", "finished", "canceled"}

Init ==
    /\ queue = <<>>
    /\ phase = [t \in Tasks |-> "new"]
    /\ wanted = [t \in Tasks |-> TRUE]

Move(t, from, to) ==
    /\ phase[t] = from
    /\ phase' = [phase EXCEPT ![t] = to]

Queue(t) ==
    /\ Move(t, "new", "queued")
    /\ queue' = Append(queue, t)
    /\ UNCHANGED wanted

Take ==
    /\ queue # <<>>
    /\ Move(Head(queue), "queued", "taken")
    /\ queue' = Tail(queue)
    /\ UNCHANGED wanted

Begin(t) ==
    /\ wanted[t]
    /\ Move(t, "taken", "running")
    /\ UNCHANGED <<queue, wanted>>

Finish(t) ==
    /\ wanted[t]
    /\ Move(t, "running", "finished")
    /\ UNCHANGED <<queue, wanted>>

Drop(t) ==
    /\ ~wanted[t]
    /\ Move(t, "taken", "canceled") \/ Move(t, "running", "canceled")
    /\ UNCHANGED <<queue, wanted>>

Cancel(t) ==
    /\ wanted' = [wanted EXCEPT ![t] = FALSE]
    /\ UNCHANGED <<queue, phase>>

Next ==
    \/ Take
    \/ \E t \in Tasks : Queue(t) \/ Begin(t) \/ Finish(t) \/ Drop(t) \/ Cancel(t)

Spec == Init /\ [][Next]_vars
=============================================================================
