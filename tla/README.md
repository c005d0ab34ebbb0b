# TLA+ specifications of the Macaulay2 engine and interpreter

Macaulay2 is a computer algebra system: an interpreter, written in the `d`
language, over a C++ engine. Most of it is sequential algebra, for which unit
tests and mathematics are the right tools. What tests reach badly is the code
that runs on several threads, that is interrupted in the middle, that stops and
resumes, or that keeps counters and indices by hand over long sequences of
calls. This project models that code.

Paths below are relative to `src/M2/Macaulay2`.

## Inventory

| Component | State | Operations | Talks to | Hard behaviour | What makes it correct |
|---|---|---|---|---|---|
| Thread supervisor (`system/supervisor.*`) | five lists of tasks, a flag set per task, links between tasks, a pool of workers, one mutex for the lists and one per task, two kinds of conditions | push, cancel, wait, addStart, addCancel, addDependency, setAllowableThreads; the worker loop | C interface called by the interpreter, by tests, and by functions of tasks | interleavings, nested mutexes, lost wakeups, cancellation at any moment | tasks run once, in dependency order; waiters return; cancellation is final |
| Interpreter tasks (`d/pthread.d`) | a cell per task: pointer, result, "retrieved" flag | createTask, schedule, cancelTask, taskResult, isReady, isCanceled, finalizer | supervisor, garbage collector | check-then-act on an unlocked cell, pointer reset after retrieval | one result, delivered once |
| Interrupt flags (`d/interrupts.d`, `bin/main.cpp`) | interrupt, exception, stepping and alarm flags, a shield with a pending flag | set and clear each flag, shield, signal handlers | evaluator, supervisor, engine | a signal between any two steps | no interrupt lost, none seen inside a shield |
| Evaluator (`d/evaluate.d`) | frames, flags | evaluate, raise errors | all | where it meets the flags | the flags it clears are those it reports |
| Files (`system/m2file.cpp`, `d/stdio.d`) | thread mode, owner, recursion counts, a state per thread | get and release state, start and end input and output, set mode | interpreter threads | mode changes while somebody waits, counts that wrap | one writer, counts that match the brackets |
| Mutexes (`system/mutexclass.hpp`, `system/mutex.h`) | - | lock, unlock, read and write locks | all | - | - |
| Mutable hash tables (`d/hashtables.dd`, `d/sets.dd`) | buckets, number of entries, a read-write lock | store, remove, look up, grow, shrink, copy, freeze, make a set | evaluator | thresholds met exactly, counters kept by hand, a copy without the lock | every key found, exact counts, equality of content |
| Parser, binder, main loop, settings (`d/parser.d`, `d/binding.d`, `d/interp.dd`, `d/actors5.d`) | dictionaries, settings | - | evaluator | - | - |
| Groebner bases (`e/gb-default.cpp`, `e/comp*.cpp`) | a state machine, queues of pairs, counters, a status, stop conditions | start, stop at a limit or an interrupt, resume, be given a Hilbert function | interpreter, interrupt flags | resuming in the middle of a loop, criteria that discard pairs | COMP_DONE means a Groebner basis |
| Schreyer resolutions (`e/schreyer-resolution`) | a status per degree and level, a graph of dependencies, a table of Betti numbers | fill, reduce, rank; in parallel | TBB | order of cells, indices from different origins, several calls | no cell before those it depends on, each rank once |
| F4, noncommutative F4 (`e/f4`, `e/NCAlgebras`) | matrices | - | - | data | algebra |
| Rings, matrices (`e`) | values | - | - | - | algebra |
| Compiler of `d` (`c`), core and packages (`m2`, `packages`) | - | - | - | - | - |

`PROJECT.json` repeats the list with the status of each, and names under
"hazards" the places in the code that a test would hardly reach.

## Modules and plan

| Component | Modules | Runs |
|---|---|---|
| Supervisor | `ThreadSupervisor`, `TaskLifecycle` (abstract), `ThreadSupervisorInv`, `ThreadSupervisor_proofs`, `SupervisorPromises_proofs`, `MCThreadSupervisor` | `safety`, `liveness`, `deadlock`, `interrupt` |
| Groebner bases | `GBComputation`, `GBComputation_proofs`, `MCGBComputation` | `gb_resume`, `gb_hint` |
| Files | `M2File`, `M2File_proofs`, `MCM2File` | `file_modes` |
| Hash tables | `HashTable`, `FiniteMap` (abstract), `HashTable_proofs`, `MCHashTable` | `hash_tables` |
| Resolutions | `SchreyerFrame`, `SchreyerFrame_proofs`, `MCSchreyerFrame` | `res_calls`, `res_degree` |
| Interpreter tasks | `TaskCells`, `TaskCells_proofs`, `MCTaskCells` | `task_cells` |
| Interrupt flags | `InterruptFlags`, `InterruptFlags_proofs`, `MCInterruptFlags` | `interrupt_flags` |

Every component whose behaviour the inventory calls hard has a module. What
remains worth doing, in this order:

1. `TaskCells` over `ThreadSupervisor` itself in the place of its summary of it;
2. inhomogeneous Groebner bases, where a reduction may be given up and an
   element replaced;
3. weaker disciplines for the users of the supervisor: `Disciplined` excludes
   cancel sets altogether, where it would be enough that no task in a cancel set
   is at its end.

No module uses RECURSIVE operators, so that theorems can be stated about all.

## The supervisor

A fixed pool of workers runs tasks (`ThreadTask`). Everybody calls the same
interface: threads outside the pool, and the functions of running tasks. In the
program itself the interpreter is such a function (`bin/main.cpp` pushes it as
a task). A task may be pushed, linked to others (when it ends it starts some
and cancels some; it may depend on some), canceled and waited for.

Two conditions connect the threads: `m_TaskReadyToRunCondition`, on which idle
workers sleep under the supervisor's mutex, and the `m_FinishCondition` of each
task, on which its waiters sleep under the task's mutex.

| Variables | Code |
|---|---|
| `supMutex`, `taskMutex` | holder of `ThreadSupervisor::m_Mutex` and of each `ThreadTask::m_Mutex`, across the steps that hold them |
| `readyTasks`, `waitingTasks`, `runningTasks`, `finishedTasks`, `canceledTasks` | the lists of `ThreadSupervisor`. Only the order of the first one is observed, so the others are sets (`m_WaitingTasks` may hold a task twice; `remove` removes both) |
| `keepRunning`, `readyToRun`, `started`, `running`, `done`, `result`, `currentThread` | the fields of `ThreadTask` |
| `dependencies`, `finishedDependencies`, `startTasks`, `cancelTasks` | the sets of `ThreadTask` |
| `allowed` | `currentAllowedThreads` |
| `interrupt`, `exception` | the thread-local flags each worker points to |
| `pc`, `cur`, `target`, `toCancel`, `toStart` | where each thread is: the task a worker has, the task a nested call is about, what the loops of `run` have left |
| `script` | the interface calls each user has still to make |

A step is a critical section: it needs the mutexes the code locks to be free.
Where the code locks a second mutex inside the first, the first is taken by an
action of its own (`EnterSupervisor`, `NotifyCancel`, `NotifyStart`, `RunEnd`,
`RunCanceled`) and is seen as held in between, so that all orders of locking
are explored, the deadlocking ones too. The mutexes are default pthread
mutexes, not recursive: a thread that asks for one it holds blocks.

* worker loop, `threadEntryPoint` and `getTask`: `Sleep`, `LoopTop`, `GetTask`,
  `GetTaskWait`;
* `ThreadTask::run`: `RunBegin` or `RunCanceled`, the calls of the function,
  `FuncReturn`, `RunEnd`, `FinishDone` or `FinishCanceled`, then one
  `NotifyCancel` and `CancelTask` per task to cancel, one `NotifyStart` and
  `StartTask` per task to start, and `NotifyDone`;
* interface: `EnterSupervisor`, `PushTask`, `CancelTask`, `WaitBlock`,
  `WaitReturn`, `AddStartTask`, `AddCancelTask`, `AddDependencyStart` and
  `AddDependency` (the two critical sections of `addDependency`),
  `SetAllowableThreads`;
* environment: `SpuriousWakeup` of `pthread_cond_wait`, and
  `ObserveException`, where the evaluator meets the exception flag, clears both
  flags and raises an error the function may or may not catch.

`m_Done = true` and `m_CurrentThread = NULL` follow `_i_finished` after the
supervisor's mutex was released, but both are under the task's mutex, which all
their readers take; `FinishDone` therefore does all of it in one step. The
queries (`taskDone` and so on) change nothing and are left out. Nothing forces
`ObserveException`: the cancellation of a task whose function never notices it
is included.

## Interpreter tasks

`TaskCells` is the layer above: the cells that hold a task's pointer, value and
"retrieved" flag, shared by interpreter threads without any lock. `pointer`,
`retrieved` and `value` are the fields of `TaskCellBody`; `ready`, `started`,
`running`, `keep`, `done` and the links are the fields of the task behind it.
The supervisor's calls, which lock the task they are about, are one step each
here; `Begin`, `Startup` and `End` are the worker. `schedule`, `cancelTask`
(which is also the finalizer), `isReady`, `isCanceled` and `taskResult` are
several steps, one per supervisor call or access to the cell, so that the task
and other threads go on in between. Following a null pointer sets `crashed`.

## Interrupt flags

`InterruptFlags` has one step per store to a flag. `at` is the place of the
evaluator in the code that stores them: `readeval` at the prompt, `evalraw` at
the top of each code, `handleError`, `shieldfun`, `clearAllFlags`,
`determineExceptionFlag`; `then` is the return address of the last two.
`Interrupt` and `alarm_handler` come between any two steps and run from
beginning to end, as signal handlers do on the interpreter thread (`tryGlobal...`
forwards them there). A second interrupt asks the user (`Ask`): exit, go on, or
abort to the top level; without a terminal the program ends.

An abort is a `longjmp` over the frames of the evaluator; `frame` says that
one of them is a `shieldfun` that has raised the shield and will lower it. Before
the jump `main.cpp:278-279` clears `interruptPending` and `interruptShield`, but
these are the globals of `main.cpp:50-51`, which nothing reads: the flags of the
interpreter are the thread-local ones of `interrupts.d:6-7`. So an abort from
within a shielded evaluation leaves the shield up for good (`Abandoned`); every later
interrupt is then pending, and the prompt drops it. The properties say what holds
until then.

## Files

`M2File` has the three thread modes of a file. `owner`, `recurse`, `exclusive`,
`states`, `mutex` are the fields of `M2File`; `held` is the stack of brackets a
thread is in: "common" and "own" between `GetState` and `ReleaseState`, for the
output state it got, and "io" between `StartInput` and `EndInput` or
`StartOutput` and `EndOutput`. The mode is read without the mutex, as in the
code, and each wait is a test, a sleep and a wakeup. `SetThreadMode` clears or
takes the owner without the mutex when it leaves exclusive mode. The counters
wrap at `Wrap`, as `size_t` does.

`M2File_SetThreadMode` tests nothing but the mode, and takes the mutex only in
`setOwnerThread`. Its steps are `ResetMode`, `StoreMode`, `SetOwnerThread`,
`EnterExclusive`, and on the way out of exclusive mode `LeaveExclusive`,
`ClearOwner` and `LeaveWakes` (test, assignment, broadcast, all without the mutex).
They come at any time, whatever the others do; brackets begin and end between
them, and the broadcast may come when a thread has tested and is not asleep yet.
`StartUncounted` and `EndUncounted` are the second load of the test of
`StartInput` and `EndInput`.

The code does not work under all of that, and two history variables say where it
does. `quiet`: every change so far found the others `Idle`, which is outside of
all brackets, or waiting in `StartInput` with no bracket around it (before its
test, falling asleep or asleep), and nothing was begun during a change. `missed`: the
threads that had the mutex at a broadcast made without it. The properties
are conditional on `quiet`, and the liveness of readers on `missed`; the unlisted
configurations below show what happens otherwise.

## Hash tables

`HashTable` has several tables, so that copies and equality can be stated.
`len`, `table`, `count` and `mutable` are the fields of `HashTable`. A bucket is
a set of pairs, for no operation depends on the order of its list. Operations
hold the write lock and are one step each, `enlarge` and `shrink` included; only
`makeSet`, which copies a mutable table without its lock, is one step per bucket
(`SetBegin`, `SetLength`, `SetArray`, `SetBucket`, `SetDone`). It reads the table three
times: the count, the length of the array, and then the array it goes through,
which it keeps when the table is resized meanwhile. When that array is shorter than
the length that was read, the loop begins again on the array of that moment (a
`new array` of `d` repeats its body until it is full); when it is longer, the
rest is not read. `FiniteMap` is what a user is promised.

## Groebner bases

`GBComputation` is `gbA` for homogeneous generators over a field. A monomial is
an element of a lattice with a degree (`Lcm`, `Degree`, `Coprime` are
parameters with assumptions); a polynomial is its lead monomial, and what the
reduction of an S-pair gives is a free choice, zero or any lead in standard
position. So what is shown does not depend on coefficients.

| Variables | Code |
|---|---|
| `gb` | `gb`, the leads of the basis elements |
| `heap`, `lists` | the S-pair set: `heap`, and for the current degree `spair_list`, `gen_list` and their deferred lists |
| `nInDegree`, `nGensLeft`, `nPairs` | `S->n_in_degree`, `n_gens_left`, `n_pairs_computed` |
| `state`, `npI`, `arI`, `arJ` | the state machine of `do_computation` and the indices from which its loops go on |
| `thisDegree`, `completeThru` | `this_degree`, `complete_thru_this_degree` |
| `hilb` | `use_hilb`, `hilb_new_elems`, `hilb_n_in_degree` |
| `call` | the call under way: its stop conditions and the status |
| `hint`, `due`, `handled`, `delayed`, `stops` | history: what the properties speak of |

`Start` is `do_computation` from its beginning; `In(s)` guards each state. One
action per state and way out of it: `MakePairs`, `MakePairsInterrupted` and
`MakePairsDone` (STATE_NEWPAIRS), `Hilb`, `NextDegree`, `PrepareDegree`,
`BeginDegree`, `ResumeDegree`, `ProcessSpair` (with `Defer`, `ReduceToZero`,
`InsertGB`), `Flush`, `DegreeDone`, `AutoReduce`, `AutoReduceDone`, `Done`.
`UpdatePairs` is `update_pairs` with the three criteria of Gebauer and Moeller,
with the strict and weak comparisons of the code, and the choice among pairs of
equal lcm. An interrupt is possible at each place where the code tests for one.

## Resolutions

`SchreyerFrame` starts from any frame (`full`: the cells that are not empty) in
which the generators of level 0 are of one degree (`IsFrame`): a restriction of the
data, as for an ideal; modules with generators of several degrees are left out.
`status` and `minimal` are the status table and the table of Betti numbers;
`vertices` and `edges` the flow graph, `fired` and `running` its run. The calls
are `start_computation` and `minimalBettiNumbers` with their limits, and
`getBetti`. The serial loops visit `todo` in order; a vertex asks for its status
(`NodeAsks`) and constructs (`NodeConstructs`) while others do the same.

## What is checked

| Run | Shows |
|---|---|
| `safety` (`MCsupervisor_safety.cfg`) | two tasks, three workers of which two are allowed at first, two clients. Every combination of 5 ways to set up and push the tasks, 7 interfering programs of the other client and 4 bodies of the first task (140 scripts). The safety properties and the refinement of `TaskLifecycle` hold. Deadlock is not checked in this run: these scripts include the mutex deadlock of the finding below |
| `liveness` (`MCsupervisor_liveness.cfg`) | three tasks, two workers, two clients that keep to a discipline: links are made before either end is pushed (as `system/tests.cpp` does), a task is canceled only before it is pushed, functions do not wait for other tasks. In one script a task has two dependencies that end on two workers at once. No deadlock, no mutex cycle, no orphaned task, nothing queued before its last dependency; every queued or parked task ends and every wait returns |
| `task_cells` (`MCtask_cells.cfg`) | two interpreter threads schedule, cancel, link, ask about and take the results of two tasks. A value is delivered once and only after its function has returned it, a function is applied once, whoever waits for a result gets an answer. Threads may end, so that deadlock is not checked |
| `interrupt_flags` (`MCinterrupt_flags.cfg`) | three interrupts and an alarm between any two stores, except interrupts in the two windows of the section below. An interrupt is reported unless an error or a prompt clears all flags, or the user has aborted a shielded evaluation, none is reported inside the shield it came in, an exception always has a cause. The program may end, so that deadlock is not checked |
| `gb_resume` (`MCgb_resume.cfg`) | three generators of degree 3, all choices of leads in a box of exponents (2,2,1), every stop condition, an interrupt at every place where the code asks, a Hilbert function given before the first call or never. Counters, criteria, handling, degrees and the result are right; COMP_DONE is reached |
| `file_modes` (`MCfile_modes.cfg`) | two threads in up to three nested brackets, six operations in all, every change of mode at any moment. As long as every change found the file `quiet`: one writer, counts that match brackets, no abort; every waiter returns, but a reader that missed the broadcast of a change |
| `hash_tables` (`MChash_tables.cfg`) | two tables, five keys with collisions at every length, all operations in any order, one at a time: no table changes while a set is made. Every key found, counts exact, equal content means equal length, the tables refine `FiniteMap` |
| `res_calls` (`MCres_calls.cfg`) | two calls in a row of any kind with any limits, serial or in the flow graph, on every frame with three degrees, levels 0 to 3 and at most two empty cells. Cells in the order of their dependencies, each rank subtracted once, each call ends |

Four runs exhibit a disagreement of the code with a document, a comment or its
own purpose:

| Run | Property | The disagreement |
|---|---|---|
| `deadlock` (`MCsupervisor_deadlock.cfg`) | `CancelSetsHonored` | A worker cancels and starts other tasks with the mutex of its own task held. If task a ends and has b in its cancel set while b is ending, a's worker holds the supervisor's mutex and asks for b's; b's worker holds b's and asks for the supervisor's in `_i_finished`. Nobody moves again, and the supervisor with them |
| `interrupt` (`MCsupervisor_interrupt.cfg`) | `InterruptsOnlyCanceled` | A cancellation that comes after the function has returned leaves the worker's exception flag set, which only the next task sees. The second cancellation of a canceled task does the same at any time, for `m_CurrentThread` is not reset on that path |
| `gb_hint` (`MCgb_hint.cfg`) | `DoneIsGroebner` | `gb` gives the Hilbert function again on every call, and `set_hilbert_function` puts the state machine back to its Hilbert state: a call that was stopped after it had found elements is resumed past the making of their pairs, and reports COMP_DONE without them |
| `res_degree` (`MCres_degree.cfg`) | `Constructed` | The vertices of the flow graph are labelled from degree 0, the status table is indexed from the lowest degree of the module. With a lowest degree of 1 the process ends; with -1 the lowest cells are never constructed |

The remaining configurations are not part of the list of runs; each shows a
counterexample to the property named in it, at the edge of what the listed runs
assume, and can be run by hand:

| Configuration | Property | What happens |
|---|---|---|
| `MCsupervisor_test2.cfg` | `WaitMeansStopped` | the scenario of `TS_Test2`: `waitOnTask` returns at the cancellation, while the function may still run, so the assertion of the test may fail |
| `MCsupervisor_allowance.cfg` | `AllowanceRespected` | a worker that has passed the test of the allowance runs its next task although the allowance was lowered meanwhile |
| `MCsupervisor_orphan.cfg` | `NoOrphan` | a dependency on a task that has already finished is never crossed off: the dependent task is parked for ever |
| `MCtask_null.cfg` | `NoNullTask` | `taskResult` resets the pointer of the cell; `cancelTask`, `schedule` and `isCanceled` follow it, and those of another thread may be between their test and their use |
| `MCtask_ready.cfg` | `ReadyIsRetrievable` | `cancelTask` tests that the task is not done, the task ends, and is then marked as canceled: `isReady` is true, and `taskResult` says "task canceled" |
| `MCinterrupt_lost.cfg` | `InterruptSeen` | an interrupt in one of the two windows: between the reading of the causes and the store in `determineExceptionFlag`, where the exception flag is overwritten and the interrupt goes unnoticed until another; and between the end of a shield and the store of the pending interrupt, where the interrupt itself is overwritten |
| `MCinterrupt_abort.cfg` | `ShieldIsTemporary` | the user aborts a shielded evaluation to the top level and the shield stays up: `main.cpp:278-279` clears variables nothing reads. `ov_repl.m2:438-439` says the return to top level is possible, and nothing of its price |
| `MCsupervisor_self.cfg` | `NoLockDeadlock` | a task with itself in its start set: its worker asks for the mutex it holds |
| `MCfile_shift.cfg` | `OneWriterAlways` | a writer waits inside its own output state while the owner shifts the file from exclusive to synchronized mode (which `m2file.cpp:52` means to handle); its `ReleaseState` then takes the branch of the new mode and releases the output state of another |
| `MCfile_missed.cfg` | `ReadersReturn` | a reader is between its test and its sleep when the owner leaves exclusive mode; the broadcast, made without the mutex, finds nobody asleep, and the reader sleeps for a file that is free |
| `MChash_array.cfg` | `CellsFound` | `set` of a mutable table reads its length, another thread makes the table shrink or grow, and the buckets of the new array are put where those of the old one were to be: the set does not find its elements |
| `MChash_set.cfg` | `CountExact` | `set` of a mutable table while another thread stores in it has a number of elements that is not its own |

Four more configurations check, on small instances, invariants that are proved in
general and are no property of the runs above, or not under that assumption.

| Configuration | Property | What it says |
|---|---|---|
| `MCsupervisor_discipline.cfg` | `SupervisorInv`, `ProgressInv`, `LocksInv`, `DisciplineInv` and what follows | the inductive invariants of the proofs, and that scripts under the discipline neither deadlock nor leave an orphan |
| `MCfile_sleepers.cfg` | `NoForgottenSleeper` | as long as the file is quiet, whoever sleeps for it has another thread that has yet to wake it, unless it missed the broadcast of a change |
| `MChash_steady.cfg` | `CellsFound` | a set made of a table in which others store meanwhile finds its elements, if the table is not resized between the two readings (`Steady`) |
| `MCinterrupt_kept.cfg` | `NoInterruptLost` | an interrupt stays in a flag that the evaluator sees, outside the two windows and until a shielded evaluation is aborted |

Some definitions are preceded by a variant with a plausible bug. Each property
of a passing run fails with the variant in the place of the definition.

### Bounds

* Supervisor: two tasks suffice for every pairwise relation (each kind of link,
  both orders); the third one of the liveness run makes a task with two
  dependencies and chains of length two. A third worker, above the allowance, is
  there so that `Sleep` and raising the allowance happen; two busy workers are
  enough for every lock cycle, since a cycle always includes the supervisor's
  mutex. Scripts are finite, at most seven calls per user; they are the only
  bound on the length of a behaviour.
* `TaskCells`: `MaxOps` = 4 operations in all, enough for a link, a schedule, a
  cancel and a result, with two of them overlapping. `OneTaker`: one thread at a
  time asks for the result of a task; two at once may both get the value.
  Links are made between tasks whose results nobody has retrieved.
* `InterruptFlags`: `MaxSignals` = 3 (one that is pending, one that asks, one
  after the answer). `MaxAlarms` = 1, because an alarm is not raised again by
  the program before it is reported; `Windows` as above.
* `GBComputation`: `MaxElements` = 4 (a fourth element meets pairs of all three
  others, which is where criteria discard pairs that earlier ones relied on),
  `MaxStops` = 1 call that ends early, `MaxPairs` = 3 pairs counted for the pair
  limit. Three generators in one degree; each may be deferred once.
* `M2File`: `MaxDepth` = 3 (a flush inside an output line inside another
  bracket), `MaxOps` = 6 brackets and changes of both threads, `Wrap` = 8 in the
  place of 2^64: more than the nesting, so that a wrapped counter is no true one.
* `HashTable`: five keys grow a table from 4 to 8 buckets and back; no other
  bound.
* `SchreyerFrame`: three degrees, levels 0 to 3, two empty cells, two calls, one
  of them making the flow graph.
* No symmetry is used.

### Fairness

* `FairSpec` of the supervisor assumes weak fairness of every worker and of every
  caller: the operating system schedules each thread that can run. Weak fairness
  per thread assumes that a thread whose mutex is free gets it, except where the
  steps of others take it again and again, which cannot happen because scripts
  are finite. `FuncReturn` is fair: functions of tasks are assumed to return.
  `Sleep` and `SpuriousWakeup` are not, so that no wakeup the code must send is
  replaced by a spurious one.
* `TaskCells`: weak fairness of each task and of the operation each thread is in;
  beginning an operation is not fair.
* `InterruptFlags`: weak fairness of the evaluator, which is one thread;
  signals are not fair. `InterruptSeen` further assumes that shielded
  evaluations end (`[]<>~frame`), and excepts what follows the abort of one.
* `GBComputation`: weak fairness of the computation, and of a call without
  limits: the user goes on asking. Interrupts are bounded by `MaxStops`.
* `M2File`: weak fairness of the steps of each thread once it is inside an
  operation; each bracket ends.
* `SchreyerFrame`: weak fairness of the call; TBB runs vertices that are ready.

## What is proved

TLAPS checks these theorems for all values of the constants that satisfy the
named assumptions of each module.

| Module | Theorem | States |
|---|---|---|
| `ThreadSupervisor_proofs` | `Invariance` | `Spec => []SupervisorInv` |
| | `Typing` | `Spec => []TypeOK` |
| | `RunsOnce` | `Spec => []RunOnce` |
| | `CurrentThreadNamesWorker` | `Spec => []CurrentThreadRuns` |
| | `DependenciesRespected` | `Spec => QueuedWhenDue`, an action property |
| | `CancellationFinal` | `Spec => CancelIsFinal`, an action property |
| `SupervisorPromises_proofs` | `Progress` | `Spec => []ProgressInv` |
| | `WaitersNotForgotten` | `Spec => []NoForgottenWaiter` |
| | `WaitReturnSettled` | `Spec => WaitReturnsSettled`, an action property |
| | `ImplementsLifecycle` | `Spec => LifecycleKept`, a refinement |
| | `NoSignalLost` | `Spec => []NoLostWakeup` |
| | `Locking` | `Spec => []LocksInv` |
| | `Discipline` | `Spec /\ []Disciplined => []DisciplineInv` |
| | `DisciplinedNoDeadlock` | `Spec /\ []Disciplined => []NoLockDeadlock` |
| | `DisciplinedNoOrphan` | `Spec /\ []Disciplined => []NoOrphan` |
| `GBComputation_proofs` | `TypeCorrect` | `Spec => []TypeOK` |
| | `CriteriaSound` | `Spec => []PairsCovered` |
| | `CountersCorrect` | `Spec => []CountersExact` |
| | `ItemsHandledOnce` | `Spec => []HandledOnce` |
| | `FlushCorrect` | `Spec => []NothingDueIsFlushed` |
| | `DoneCorrect` | `~Rehint /\ Spec => []DoneIsGroebner` |
| | `CompleteThruCorrect` | `~Rehint /\ Spec => []CompleteThruDegree` |
| | `DegreesRise` | `~Rehint /\ Gens # {} /\ Spec => DegreeNeverFalls`, an action property |
| `InterruptFlags_proofs` | `ExceptionsHaveCauses` | `Spec => []CauseKnown` |
| | `ShieldsHold` | `MaxAlarms <= 1 /\ Spec => []ShieldHolds` |
| | `InterruptsNotLost` | `Shut /\ Spec => []NoInterruptLost` |
| `HashTable_proofs` | `CellsAreFound` | `Spec /\ [][Steady]_vars => []CellsFound` |
| | `CountsAreExact` | `~Concurrent /\ Spec => []CountExact` |
| | `LengthsFollowCounts` | `~Concurrent /\ Spec => []LengthByCount` |
| | `EqualityIsExtensional` | `~Concurrent /\ Spec => []EqualIsExtensional` |
| | `TablesAreMaps` | `~Concurrent /\ Spec => AreMaps`, a refinement |
| `TaskCells_proofs` | `RunsOnce` | `Spec => []FunctionRunsOnce` |
| | `ResultsDeliveredOnce` | `OneTaker /\ Spec => []ResultOnce` |
| `M2File_proofs` | `OneWriterAtATime` | `Spec => []OneWriter` |
| | `CountsAreExact` | `Spec => []CountsAreTheOwners` |
| | `NeverAborts` | `Spec => []TypeOK` |
| | `SleepersNotForgotten` | `Spec => []NoForgottenSleeper` |
| `SchreyerFrame_proofs` | `PrerequisitesFirst` | `Modest => (Spec => []Prereqs)` |
| | `AllConstructed` | `Modest => (Spec => []Constructed)` |
| | `AnswersExact` | `Modest => (Spec => []AnswerExact)` |
| | `CallsAreFinite` | `Modest => (Spec => [](Left \in Nat) /\ [][Descent]_vars)` |

### The supervisor

`RunOnce` is not inductive: that a task in the queue was not taken before
depends on `readyToRun`, which must be known to be set for every task that is
queued, held by a worker or filed. `SupervisorInv` therefore has, besides the
types,

* `ControlInv`: a worker has a task exactly between `getTask` and the end of
  `run`, and a nested call has a target;
* `CallInv`: a thread within a call has that call at the head of its script;
* `QueueInv`: no task is queued twice, and queued tasks are marked, have not
  begun and are not filed elsewhere;
* `HeldInv`: workers have different tasks, not queued, filed as running until
  `_i_finished` and as finished or canceled after it;
* `FiledInv`: a task that began or is filed is marked;
* `DoneInv`: done means filed as finished, and crossed-off dependencies are
  finished;
* `ThreadInv`: `m_CurrentThread` of a task that is not canceled names the
  worker that has it.

One lemma per action shows that it keeps each part; lemmas about the two
conditions (`GotoAndSignal`, `GotoAndBroadcast`) and about scripts
(`CallFacts`) are shared. The two action properties follow from the invariant
and from lemmas that list the actions which change the variables concerned.

### What the supervisor promises

`SupervisorPromises_proofs` rests on a lemma about who moves (`Movers`): a step
has one mover, and leaves to every other thread its place and its locals, but
for those it wakes up (`OnlyMoves`). With `WorkerMoves` and `CallMoves`, which
say what the mover of each action does, the invariants follow in layers.

* `ProgressInv`: what runs has begun (`BegunInv`), a result is in place before
  the task is done (`ResultInv`), and who sleeps in `waitOn` sleeps for a task
  that is not filed yet (`WaitInv`). The last is kept because the predicate is
  tested and the sleep begun under the mutex of the task, and a task is filed
  with that mutex taken or in the step that wakes all (`FilingSteps`). Filed
  means put by a worker in the list of the finished or canceled tasks: who waits
  for a task that is canceled while it runs, or was never pushed, sleeps on,
  for `_i_cancelTask` wakes nobody (`supervisor.hpp:63` says otherwise).
* Every step is a step of `TaskLifecycle` or leaves all phases alone
  (`LifecycleStep`): `MoveOfTask` reduces a step to the one task whose phase it
  changes.
* `NoLostWakeup` counts: the workers on their way to the queue are at least as
  many as queued tasks or nobody sleeps. It needs that sets of workers are
  finite; `EnqueueWakes` and `QueueSteps` say how each step changes the two
  numbers.
* `LocksInv`: the supervisor's mutex is held exactly at four places, a task's
  exactly by its worker from the end of its function on (`LockInv`); nested
  calls and the loops of `run` are where they seem to be (`NestedInv`,
  `StartInv`).

`NoLockDeadlock` and `NoOrphan` do not hold for all users: the runs `deadlock`
and `MCsupervisor_orphan.cfg` show scripts for which they fail. What is proved is
that they hold for users who keep to a discipline, stated as the state predicate
`Disciplined` (`ThreadSupervisorInv`): nobody uses cancel sets; a task is pushed
or canceled while it is not in the ready queue, pushed once all its links are
dependencies, and canceled when nobody depends on it; it gets a dependency
before it is ready and before the dependency has ended; and a task that is
started by another without depending on it has no other link. These are rules
about what callers do and when, not about locks: the theorems derive the
absence of deadlock from them. `MCsupervisor_discipline.cfg` checks on the scripts
of the `liveness` run that `Disciplined` holds in all reachable states there, so that
the hypothesis is not empty, together with all invariants.

The argument for deadlock: a thread that waits for a task's mutex with the
supervisor's in its hand is pushing, canceling or starting that task. By
`StarterInv` the task is not ready: whoever will start a task is its dependency,
or the only one who has it in a start set, or has just been linked to it by a
call that is not finished. A task that is not ready has no worker, and by
`LockInv` only a task's worker holds its mutex across steps. So no thread waits
for a mutex while it holds another that the owner of the first waits for. The
argument for orphans: every dependency of a task that is not done has the task
in its start set (`OrphanInv`), and a task that is parked has a dependency;
`addDependency` on a task that has ended, which breaks this, is what the
discipline forbids.

### Groebner bases

The theorems hold for any lattice of monomials (`LcmAssumption`: Lcm is
commutative, associative and idempotent; `DegreeAssumption`: a proper multiple
has a greater degree; `CoprimeAssumption`), any generators and any limits
(`BoundAssumption`). The inductive invariant `GBInv` joins

* `QueueInv`: items are where the state of the machine says, in their degree,
  each once, and the counters are their numbers;
* `DueInv`: what the Hilbert function has still to expect;
* `PairsCovered`, which is the heart: two elements i and j are *linked* when
  every set of elements whose leads divide their lcm, with i in it and j not, is
  left by a pair that is pending, handled or coprime. Each of the criteria keeps links: a pair is removed only when there
  are two links of the same or smaller lcm around it. For the criterion
  applied to new pairs this needs the choice of the first pair in a fixed
  order among those of equal lcm (`LeastCut`), for the one applied to old pairs the
  strictness of its comparisons (`CriteriaKeepLinks`).

`DoneIsGroebner` follows from `MachineInv` and `EndInv`: when the machine is at
its end, nothing is pending and all pairs have been made. It needs `~Rehint`,
the assumption under which the run `gb_hint` is a counterexample to the rest.

`CompleteThruDegree` and `DegreeNeverFalls` need the degrees (`DegreeInv`): the heap
holds what is above the current degree, the lists what is of that degree,
elements whose pairs have not been made are of that degree, and no lead divides a
later one. A new pair is then of a higher degree than its elements, because its
lcm is a proper multiple of the lead of the newer one (`MakePairsDegree`), and the
next degree is above the current one (`BeginDegreeDegree`). Below the current
degree everything in the range of an lcm has had its pairs made and no pair on it
is pending, so that the links of `PairsCovered` are links by what has been
reduced (`HandledLinks`); this holds in every state, also while a call runs.
`DegreesRise` needs a generator: the end of a computation of none sets the degree
it is complete in to -1.


### Interrupt flags

`ExceptionsHaveCauses` and `ShieldsHold` hold for any `Windows`, the known ones
included: what goes wrong in a window is that an interrupt is lost; and after
an abort in a shield, too, for `ShieldsHold` is about evaluations that a `shieldfun` on the
stack has shielded (`frame`). `CauseIInv` adds to `CauseKnown` where the evaluator may
return to (`ReturnInv`) and that, from the store of `determineExceptionFlag` on,
an exception has a cause (`CauseInv`). `ShieldIInv` follows an interrupt that came
in a shield from the pending flag through `shieldfun` and
`determineExceptionFlag` to the exception flag (`PendingInv`), and says that
within the shield only an alarm sets the interrupted flag (`ShieldedInv`). A
second alarm would break that between the two stores of `clearAlarmedFlag`, which
is why `ShieldsHold` assumes one.

`InterruptsNotLost` is the safety half of the liveness property `InterruptSeen`: an
interrupt that is owed is in a flag, and where the evaluator comes across it, until
the user aborts a shielded evaluation (`Abandoned`: the shield is up and no frame will
lower it; then an interrupt is pending until the prompt drops it). `Shut`
assumes that none comes in the two windows, without which TLC finds it violated (the
traces of `MCinterrupt_lost.cfg` begin so); interrupts and alarms elsewhere, and their
numbers, are arbitrary. The strengthening `LiftInv` says that what is owed at work
under the shield is pending, for the evaluator reports before it goes to work what
came before the shield was up. That is why `shieldfun`, which restores the pending
interrupt over the interrupted flag, overwrites nothing that is owed.

### Hash tables

All properties of the run are proved, `CellsFound` also while other threads change
tables that sets are made of, for any finite set of keys and any hash
codes (`HashTableAssumption`). A length is a member of every set of numbers that
contains 4 and is closed under doubling (`Lengths`), which stands for induction:
`LengthsHalve`, `LengthsByFour` and `LengthsApart` follow from it without
recursion. `Fits(c, l)`, that 4c <= 3l and, if l > 4, 8c > 3l, is kept by insertion
(`FitsMore`) and removal (`FitsLess`) although both test for equality only, and two
lengths that fit the same count are equal (`OneLength`).

`Written` and `Rehashed` keep arrays `Proper` (every cell in its bucket, no key
twice); so every operation is a `Change` of the cells of one key. The invariant is
`TableInv`, `SetInv` (the set that is being made, with the array it still reads
after the table was resized), which needs `Steady`: the table has at the second
reading the length it had at the first. Operations one at a time
are steady; without that a set has cells in wrong buckets (`MChash_array.cfg`);
and `CountInv`, which needs `~Concurrent`: a table that is stored in while a set is
made of it gives the set a wrong count (`MChash_set.cfg`).

### Interpreter tasks

`RunInv` for `RunsOnce` says that a task that has not started has not been run,
nor one that runs and has not returned. `ResultInv` for `ResultsDeliveredOnce`
follows a value from the cell (`ValueInv`: the cell has what the function
returned, until the thread that takes it has reset it) to the thread (`TakeInv`:
what it holds is what the function returned) to the caller (`AnswerInv`).
`TakerInv`, one taker at a time, is what `OneTaker` gives; without it two threads
get the same value, or one of them `null`.

### Files

The four properties have the proviso `quiet`, so the invariant is `quiet => FileInv`:
a step that leaves the file quiet found it quiet (`QuietBefore`), and `QuietSteps`
says what such a step may begin. What a change of mode does to a file that is
not quiet is in the model and in `MCfile_shift.cfg`, and outside the theorems. `FileInv` has
two cases. Between changes of the mode, `PlaceInv` says which mode a thread at each place may be in
(a thread that waits for the output state is in mode 1, one that is to leave an
exclusive bracket is the owner in mode 2) and `BracketInv` which brackets are
counted in which mode; while a thread changes the mode, `ChangingInv` says that
nobody is in a bracket but readers who waited for the end of exclusive mode, so
that nothing is left to count when the new mode starts. The counts are cardinalities of the positions of a bracket in the stack
(`NumAppend`, `NumFront`), bounded by its length, which is why `Plus` and `Minus`
never wrap where they matter. `RecordInv` adds, for `NeverAborts`, that whoever is
in a bracket with an output state of its own is in the map.

`SleepersNotForgotten` is the safety half of the liveness property
`WaitersReturn`: a sleeper has another thread that has yet to wake it, or it missed the
broadcast of a change of mode (`missed`, which does happen: `MCfile_missed.cfg`).
`SleepInv` is what it needs beside those two: the mutex is held from one step to the
next only by a thread that falls asleep, who sleeps for the output state sleeps in
mode 1 behind an owner other than itself, and nobody sleeps for a file that it owns.
That the owner still has a bracket to leave is `FileInv`. No run of the list above is
spent on it; `MCfile_sleepers.cfg` checks it on two threads.

### Resolutions

`Modest` assumes that the lowest degree of a module done in parallel is 0 and that
the flow graph is made once (`res_degree` shows what another lowest degree does; a
second graph is among what is not modelled), and that no degree limit is below the
lowest degree. The frame, the number of
degrees and levels, the limits and the calls are arbitrary. The invariant `ResInv`
has four parts beside `FrameInv`:

* `StatusInv`: what has been constructed has its prerequisites;
* `MinimalInv`: `minimal` is the number of elements less the ranks of the cells
  whose status is 3 (`Done`), so that a rank counts once however calls overlap;
* `CallInv`: prerequisites of cells still to be visited are to be visited or are
  there, and the ranks an answer needs are done or to be visited;
* `GraphInv`: the flow graph is a table of n levels and d degrees with the edges
  `makeDependencyGraph` makes, and what has run in it is closed downwards.

`VertexIsReady` needs all degrees below a vertex, although its edges come from two
neighbours only: `Running` therefore says of every vertex that has run that those
below it in its level have run too. `Least` (a set of natural numbers has a least
element, from the library's theorem on well-founded relations) stands for
induction: in `FirstFacts`, that the loop has a first cell, and in `AllFired`, that
when no vertex is ready all have run, because the first that has not would be.
`CallsAreFinite` gives the reason for the liveness property `Returns`: each step of a
call makes `Left`, a natural number, smaller (vertices that have not run, those that
have not begun to, cells on the list, the return). What is left to TLC is that under
fairness of `Steps` a call therefore ends. Indices of vertices are quotients and
remainders; `IndexPlace` and `Neighbours` say
what the provers need of them.

### Only model-checked

All liveness (`ScheduledRuns`, `WaitersReturn`,
`TakersReturn`, `InterruptSeen`, `EventuallyDone`, `Returns`), which is beyond
the prover. Of several of these the part that is not temporal is proved:
`NoLostWakeup` and `NoForgottenWaiter` for the supervisor, `NoForgottenSleeper` for
files, `NoInterruptLost` for interrupts, `Descent` for resolutions. They say that
whoever waits has somebody who has yet to act, or that the steps run out; that the
step is then taken is fairness, and TLC's part.

## Not modelled

* Supervisor: the registration of thread-local variables (`TS_Add_ThreadLocal`,
  before there are threads), the map of outside threads (`delThread`), time
  limits (stored, never used), creation of tasks during a run (all tasks exist
  from the start, unpushed, which nobody can tell apart), and failures of pthread
  calls, on which the code aborts.
* Task cells: serial numbers, printing, threads that take one result at the
  same time.
* Interrupt flags: the stepping flag of the debugger, `stopIfError` (where the
  handler ends the program at once), the jump out of the reading of a line, the
  flags of worker threads (in `ThreadSupervisor`), nested shields (which do
  nothing).
* Files: buffers and system calls of `stdio.d`. Setting exclusive mode when
  the file is exclusive already changes no owner (`m2file.cpp:116`).
* Hash tables: hash codes (a parameter), the lookup through parents, iterations
  under the read lock (a function of the user that stores in the table it
  iterates over blocks its own thread), the dictionaries of the language.
* Groebner bases: coefficients, inhomogeneous input and local orders, syzygies,
  the ring ZZ, quotient rings, the other algorithms of `comp-gb.cpp`, and the
  abort in `hilb.cpp` when a coefficient does not fit.
* Resolutions: the frame itself, linear algebra, the memory of monomials; a
  second parallel call, which adds its vertices to those of the first and
  reports an internal error (`res-dep-graph.cpp:148`); degree limits below the
  lowest degree in the parallel case, where there is no first vertex.
* The evaluator, parser and binder, the compiler of `d`, the core library and the
  packages: sequential programs over trees, tables of functions and algebra,
  whose properties are those of the language or of mathematics, not of a state
  space. Rings, matrices, linear algebra, F4 and noncommutative F4: numerical and
  symbolic data. Together they are almost all of the source, which is why the
  map covers a small part of it.
