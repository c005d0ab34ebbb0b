------------------------------- MODULE M2File --------------------------------
(***************************************************************************)
(* A file that interpreter threads share (system/m2file.cpp, used by       *)
(* d/stdio.d).  In mode 0 nobody waits, in mode 1 one thread at a time has *)
(* the output state, in mode 2 every thread has an output state of its own *)
(* and only the owner of the file reads or writes.                         *)
(*                                                                         *)
(* A thread uses the file in nested brackets: GetState .. ReleaseState     *)
(* around every use of the output state, StartInput .. EndInput or         *)
(* StartOutput .. EndOutput around reading and writing.  The mode is read  *)
(* without the mutex, and the mutex taken afterwards; it is changed        *)
(* without the mutex, too, whatever the other threads do meanwhile.        *)
(***************************************************************************)
EXTENDS Integers, Sequences, FiniteSets

CONSTANTS
    Threads,
    NONE,         \* the cleared pthread_t
    Switches,     \* the modes that may be set
    MaxDepth,     \* bound: nesting of brackets
    MaxOps,       \* bound: brackets and mode changes of all threads
    Wrap          \* the counters are unsigned: 0 - 1 is Wrap - 1

ASSUME FileAssumption ==
    /\ NONE \notin Threads /\ IsFiniteSet(Threads)
    /\ Switches \subseteq 0..2
    /\ {MaxDepth, MaxOps, Wrap} \subseteq Nat \ {0} /\ MaxDepth < Wrap

VARIABLES
    mode,          \* currentThreadMode
    owner,         \* syncOrExclOwner
    recurse,       \* recurseCount
    exclusive,     \* exclusiveRecurseCount
    states,        \* the threads in threadStates
    mutex,         \* who has m_MapMutex
    pc,            \* where each thread is
    held,          \* the brackets each thread is in, innermost last
    ops,           \* brackets and mode changes begun
    aborted,       \* the program has called abort
    quiet,         \* history: every change of mode had the file to itself (Idle)
    missed         \* history: the threads that missed a broadcast made without the mutex

shared == <<mode, owner, recurse, exclusive, states, aborted>>
history == <<quiet, missed>>
vars == <<shared, mutex, pc, held, ops, history>>

Init ==
    /\ mode \in 0..1
    /\ owner = NONE /\ recurse = 0 /\ exclusive = 0 /\ states = {}
    /\ mutex = NONE /\ aborted = FALSE
    /\ quiet = TRUE /\ missed = {}
    /\ pc = [t \in Threads |-> "run"]
    /\ held = [t \in Threads |-> << >>]
    /\ ops = 0

Minus(n) == (n - 1) % Wrap
Plus(n) == (n + 1) % Wrap

At(t, l) == pc[t] = l /\ ~aborted
Goto(t, l) == pc' = [pc EXCEPT ![t] = l]

\* pthread_cond_broadcast on ownerChangeCondition, after which t goes on at l.  A
\* thread that still has the mutex is not waiting yet and misses it.
Awake(u) ==
    CASE mutex # u /\ pc[u] = "acquire sleeps" -> "acquire"
      [] mutex # u /\ pc[u] = "start sleeps" -> "start"
      [] mutex # u /\ pc[u] = "end sleeps" -> "end"
      [] OTHER -> pc[u]
Broadcast(t, l) == pc' = [u \in Threads |-> IF u = t THEN l ELSE Awake(u)]

Enter(t, b) == held' = [held EXCEPT ![t] = Append(@, b)]
Leave(t) == held' = [held EXCEPT ![t] = SubSeq(@, 1, Len(@) - 1)]
Top(t) == IF held[t] = << >> THEN "none" ELSE held[t][Len(held[t])]

Begin(t) ==
    /\ ops < MaxOps /\ Len(held[t]) < MaxDepth
    /\ ops' = ops + 1

\* A thread is inside SetThreadMode.  A bracket begun there finds any of its stages.
Changing == {"store", "enter", "enter mode", "reset", "leave", "clear", "leave wakes"}
Switching == \E t \in Threads : pc[t] \in Changing
BeginQuietly(t) == Begin(t) /\ quiet' = (quiet /\ ~Switching)

-----------------------------------------------------------------------------
(* M2File_GetState and M2File_ReleaseState.  Each reads the mode once: it   *)
(* is a plain field, which optimized code does not load a second time.      *)

GetState(t) ==
    /\ At(t, "run") /\ BeginQuietly(t)
    /\ CASE mode = 0 -> Enter(t, "common") /\ UNCHANGED pc
         [] mode = 1 -> Goto(t, "acquire") /\ UNCHANGED held
         [] mode = 2 -> Goto(t, "find") /\ UNCHANGED held
    /\ UNCHANGED <<shared, mutex, missed>>

\* Variant: the new state is not entered in the map.
FindStateUnrecorded(t) ==
    /\ At(t, "find") /\ mutex = NONE
    /\ Enter(t, "own") /\ Goto(t, "run")
    /\ UNCHANGED <<mode, owner, recurse, exclusive, states, aborted, mutex, ops, history>>

FindState(t) ==
    /\ At(t, "find") /\ mutex = NONE
    /\ states' = states \cup {t}
    /\ Enter(t, "own") /\ Goto(t, "run")
    /\ UNCHANGED <<mode, owner, recurse, exclusive, aborted, mutex, ops, history>>

\* waitThreadAcquire: one turn of its loop, with the mutex.
AcquireFree(t) ==
    /\ At(t, "acquire") /\ mutex = NONE
    /\ owner = NONE /\ exclusive = 0
    /\ owner' = t /\ recurse' = 1
    /\ Enter(t, "common") /\ Broadcast(t, "run")
    /\ UNCHANGED <<mode, exclusive, states, aborted, mutex, ops, history>>

AcquireAgain(t) ==
    /\ At(t, "acquire") /\ mutex = NONE
    /\ owner = t
    /\ recurse' = Plus(recurse)
    /\ Enter(t, "common") /\ Goto(t, "run")
    /\ UNCHANGED <<mode, owner, exclusive, states, aborted, mutex, ops, history>>

AcquireMustWait(t) ==
    /\ At(t, "acquire") /\ mutex = NONE
    /\ owner # t /\ (owner # NONE \/ exclusive # 0)
    /\ mutex' = t /\ Goto(t, "acquire sleeps")
    /\ UNCHANGED <<shared, held, ops, history>>

\* pthread_cond_wait releases the mutex when the thread is asleep.
Sleep(t) ==
    /\ mutex = t /\ ~aborted
    /\ mutex' = NONE
    /\ UNCHANGED <<shared, pc, held, ops, history>>

ReleaseState(t) ==
    /\ At(t, "run") /\ Top(t) \in {"common", "own"}
    /\ CASE mode = 0 -> Leave(t) /\ UNCHANGED pc
         [] mode = 1 -> Goto(t, "release") /\ UNCHANGED held
         [] mode = 2 -> Goto(t, "forget") /\ UNCHANGED held
    /\ UNCHANGED <<shared, mutex, ops, history>>

\* Variant: the owner is cleared whatever its count.
ReleaseThreadCountAtOnce(t) ==
    /\ At(t, "release") /\ mutex = NONE
    /\ recurse' = Minus(recurse)
    /\ owner' = NONE /\ Broadcast(t, "run")
    /\ Leave(t)
    /\ UNCHANGED <<mode, exclusive, states, aborted, mutex, ops, history>>

\* Variant: nobody is woken.
ReleaseThreadCountSilently(t) ==
    /\ At(t, "release") /\ mutex = NONE
    /\ recurse' = Minus(recurse)
    /\ owner' = IF recurse' = 0 THEN NONE ELSE owner
    /\ Goto(t, "run")
    /\ Leave(t)
    /\ UNCHANGED <<mode, exclusive, states, aborted, mutex, ops, history>>

ReleaseThreadCount(t) ==
    /\ At(t, "release") /\ mutex = NONE
    /\ recurse' = Minus(recurse)
    /\ IF recurse' = 0 THEN owner' = NONE /\ Broadcast(t, "run")
                       ELSE UNCHANGED owner /\ Goto(t, "run")
    /\ Leave(t)
    /\ UNCHANGED <<mode, exclusive, states, aborted, mutex, ops, history>>

\* In mode 2 a thread without a state is fatal, and the count is decremented
\* although GetState has not incremented it.
ForgetState(t) ==
    /\ At(t, "forget") /\ mutex = NONE
    /\ IF t \in states
         THEN recurse' = Minus(recurse) /\ Leave(t) /\ Goto(t, "run") /\ UNCHANGED aborted
         ELSE aborted' = TRUE /\ UNCHANGED <<recurse, held, pc>>
    /\ UNCHANGED <<mode, owner, exclusive, states, mutex, ops, history>>

-----------------------------------------------------------------------------
(* M2File_StartInput, StartOutput, EndInput and EndOutput.                 *)

\* The mode is loaded first, and exclusiveRecurseCount if the mode is not 2.
StartIO(t) ==
    /\ At(t, "run") /\ BeginQuietly(t)
    /\ Goto(t, IF mode = 2 THEN "start" ELSE "ask start")
    /\ UNCHANGED <<shared, mutex, held, missed>>

StartUncounted(t) ==
    /\ At(t, "ask start")
    /\ IF exclusive = 0 THEN Enter(t, "io") /\ Goto(t, "run")
                        ELSE Goto(t, "start") /\ UNCHANGED held
    /\ UNCHANGED <<shared, mutex, ops, history>>

EndIO(t) ==
    /\ At(t, "run") /\ Top(t) = "io"
    /\ Goto(t, IF mode = 2 THEN "end" ELSE "ask end")
    /\ UNCHANGED <<shared, mutex, held, ops, history>>

EndUncounted(t) ==
    /\ At(t, "ask end")
    /\ IF exclusive = 0 THEN Leave(t) /\ Goto(t, "run")
                        ELSE Goto(t, "end") /\ UNCHANGED held
    /\ UNCHANGED <<shared, mutex, ops, history>>

\* waitExclusiveThread, one turn of its loop; n is the new count.
Bracket(t) == IF pc[t] = "start" THEN Enter(t, "io") ELSE Leave(t)

\* Variant: the owner is not asked for.
ExclusiveMineAnyway(t) ==
    /\ At(t, "start") \/ At(t, "end")
    /\ mutex = NONE
    /\ exclusive' = IF pc[t] = "start" THEN Plus(exclusive) ELSE Minus(exclusive)
    /\ UNCHANGED owner /\ Goto(t, "run")
    /\ Bracket(t)
    /\ UNCHANGED <<mode, recurse, states, aborted, mutex, ops, history>>

ExclusiveMine(t) ==
    /\ At(t, "start") \/ At(t, "end")
    /\ mutex = NONE
    /\ owner = t
    /\ exclusive' = IF pc[t] = "start" THEN Plus(exclusive) ELSE Minus(exclusive)
    /\ IF exclusive' = 0
         THEN /\ owner' = IF mode # 2 THEN NONE ELSE owner
              /\ Broadcast(t, "run")
         ELSE UNCHANGED owner /\ Goto(t, "run")
    /\ Bracket(t)
    /\ UNCHANGED <<mode, recurse, states, aborted, mutex, ops, history>>

ExclusiveOver(t) ==
    /\ At(t, "start") \/ At(t, "end")
    /\ mutex = NONE
    /\ owner # t /\ mode # 2
    /\ Bracket(t) /\ Goto(t, "run")
    /\ UNCHANGED <<shared, mutex, ops, history>>

ExclusiveMustWait(t) ==
    /\ At(t, "start") \/ At(t, "end")
    /\ mutex = NONE
    /\ owner # t /\ mode = 2
    /\ mutex' = t
    /\ Goto(t, IF pc[t] = "start" THEN "start sleeps" ELSE "end sleeps")
    /\ UNCHANGED <<shared, held, ops, history>>

-----------------------------------------------------------------------------
(* M2File_SetThreadMode: it tests nothing but the mode and takes the mutex   *)
(* in setOwnerThread only.                                                   *)

\* u is outside its brackets, or waits in StartInput, with no bracket around it
\* (getc), until the file is no longer exclusive: it is asleep, or falling asleep
\* with the mutex, or about to test again.
Idle(u) ==
    /\ held[u] = << >>
    /\ pc[u] = "run" \/ (pc[u] \in {"start", "start sleeps"} /\ mode = 2 /\ owner # u)

\* The new mode is chosen when it is stored, but for entering mode 2.
SetThreadMode(t) ==
    /\ At(t, "run") /\ held[t] = << >> /\ Begin(t)
    /\ quiet' = (quiet /\ ~Switching /\ \A u \in Threads \ {t} : Idle(u))
    /\ \/ mode = 2 /\ Switches # {} /\ Goto(t, "reset")
       \/ mode # 2 /\ 2 \in Switches /\ Goto(t, "enter")
       \/ mode # 2 /\ Switches \ {2} # {} /\ Goto(t, "store")
    /\ UNCHANGED <<shared, mutex, held, missed>>

\* From mode 2: only a new mode other than 2 has more to do.
ResetMode(t) ==
    /\ At(t, "reset")
    /\ \E m \in Switches : mode' = m /\ Goto(t, IF m = 2 THEN "run" ELSE "leave")
    /\ UNCHANGED <<owner, recurse, exclusive, states, aborted, mutex, held, ops, history>>

StoreMode(t) ==
    /\ At(t, "store")
    /\ mode' \in Switches \ {2} /\ Goto(t, "run")
    /\ UNCHANGED <<owner, recurse, exclusive, states, aborted, mutex, held, ops, history>>

\* setOwnerThread comes before the mode.
SetOwnerThread(t) ==
    /\ At(t, "enter") /\ mutex = NONE
    /\ owner' = t /\ recurse' = 0
    /\ Broadcast(t, "enter mode")
    /\ UNCHANGED <<mode, exclusive, states, aborted, mutex, held, ops, history>>

EnterExclusive(t) ==
    /\ At(t, "enter mode")
    /\ mode' = 2 /\ Goto(t, "run")
    /\ UNCHANGED <<owner, recurse, exclusive, states, aborted, mutex, held, ops, history>>

\* Leaving mode 2 does not take the mutex: the test, the assignment and the
\* broadcast are three steps.
LeaveExclusive(t) ==
    /\ At(t, "leave")
    /\ Goto(t, IF exclusive = 0 THEN "clear" ELSE "leave wakes")
    /\ UNCHANGED <<shared, mutex, held, ops, history>>

ClearOwner(t) ==
    /\ At(t, "clear")
    /\ owner' = NONE /\ Goto(t, "leave wakes")
    /\ UNCHANGED <<mode, recurse, exclusive, states, aborted, mutex, held, ops, history>>

LeaveWakes(t) ==
    /\ At(t, "leave wakes")
    /\ Broadcast(t, "run")
    /\ missed' = missed \cup ({mutex} \ {NONE})
    /\ UNCHANGED <<shared, mutex, held, ops, quiet>>

-----------------------------------------------------------------------------
ThreadStep(t) ==
    \/ GetState(t) \/ FindState(t)
    \/ AcquireFree(t) \/ AcquireAgain(t) \/ AcquireMustWait(t) \/ Sleep(t)
    \/ ReleaseState(t) \/ ReleaseThreadCount(t) \/ ForgetState(t)
    \/ StartIO(t) \/ StartUncounted(t) \/ EndIO(t) \/ EndUncounted(t)
    \/ ExclusiveMine(t) \/ ExclusiveOver(t) \/ ExclusiveMustWait(t)
    \/ ResetMode(t) \/ StoreMode(t) \/ SetOwnerThread(t) \/ EnterExclusive(t)
    \/ LeaveExclusive(t) \/ ClearOwner(t) \/ LeaveWakes(t)

Next == \E t \in Threads : ThreadStep(t) \/ SetThreadMode(t)

Spec == Init /\ [][Next]_vars /\ \A t \in Threads : WF_vars(ThreadStep(t))

-----------------------------------------------------------------------------
(* Properties *)

Brackets(t, S) == Cardinality({k \in 1..Len(held[t]) : held[t][k] \in S})

\* Every variable has its type, and abort is never called while changes of mode have
\* the file to themselves: a thread that leaves a bracket in exclusive mode has an
\* output state in the map.
TypeOK ==
    /\ mode \in 0..2 /\ owner \in Threads \cup {NONE} /\ mutex \in Threads \cup {NONE}
    /\ recurse \in 0..Wrap-1 /\ exclusive \in 0..Wrap-1
    /\ states \subseteq Threads /\ missed \subseteq Threads
    /\ held \in [Threads -> Seq({"common", "own", "io"})]
    /\ ops \in 0..MaxOps
    /\ pc \in [Threads -> Changing \cup
                {"run", "acquire", "acquire sleeps", "find", "release", "forget",
                 "ask start", "start", "start sleeps", "ask end", "end", "end sleeps"}]
    /\ quiet \in BOOLEAN /\ aborted \in BOOLEAN /\ (quiet => ~aborted)

\* In synchronized mode one thread at a time has the output state of the file
\* ("output complete lines only", setIOSynchronized), whatever modes it went through
\* and whoever waited to read through a change, as long as no bracket was open or
\* begun during a change.
OneWriter ==
    quiet /\ mode = 1 =>
       \A t, u \in Threads :
          Brackets(t, {"common"}) > 0 /\ Brackets(u, {"common"}) > 0 => t = u

\* The same without the proviso.  It does not hold: a writer that sleeps in StartOutput
\* through the shift from exclusive to synchronized mode, "the case" that
\* waitExclusiveThread handles, releases the output state of another.
OneWriterAlways ==
    mode = 1 => \A t, u \in Threads :
                    Brackets(t, {"common"}) > 0 /\ Brackets(u, {"common"}) > 0 => t = u

\* recurseCount and exclusiveRecurseCount are the numbers of brackets their owner
\* is in, although ReleaseState in exclusive mode decrements the first below
\* zero: nobody else is in one that counts.
CountsAreTheOwners ==
    quiet =>
       /\ mode = 1 /\ ~Switching =>
            \A t \in Threads :
               Brackets(t, {"common"}) = IF t = owner THEN recurse ELSE 0
       /\ mode = 2 =>
            \A t \in Threads : Brackets(t, {"io"}) = IF t = owner THEN exclusive ELSE 0

\* A thread is forgotten asleep only if it missed the broadcast of a change of mode:
\* one that sleeps for the output state sleeps while another is in a bracket with it,
\* one that sleeps until the file is no longer exclusive sleeps while another owns it,
\* is about to wake it, or has called out before it was asleep; and only a thread
\* that is falling asleep holds the mutex across steps.
NoForgottenSleeper ==
    quiet =>
       \A t \in Threads :
          /\ mutex = t => pc[t] \in {"acquire sleeps", "start sleeps"}
          /\ pc[t] = "acquire sleeps" =>
                \E u \in Threads \ {t} : mode = 1 /\ owner = u /\ Brackets(u, {"common"}) > 0
          /\ pc[t] = "start sleeps" =>
                \/ mode = 2 /\ owner \in Threads \ {t}
                \/ \E u \in Threads : pc[u] \in {"leave", "clear", "leave wakes"}
                \/ t \in missed
          /\ pc[t] # "end sleeps"

\* A thread that waits for the output state gets it, and one that waits for the file
\* returns once the file is no longer exclusive, unless it missed the broadcast of
\* that change, or a bracket was open or begun during one.
WaitersReturn ==
    \A t \in Threads :
        /\ pc[t] \in {"acquire", "acquire sleeps"} ~> pc[t] = "run" \/ ~quiet
        /\ pc[t] \in {"start", "start sleeps"} /\ mode # 2 ~>
              pc[t] = "run" \/ ~quiet \/ t \in missed

\* The same for every waiting reader.  It does not hold: the broadcast of a change of
\* mode, made without the mutex, is missed by a thread between its test and its sleep.
ReadersReturn ==
    \A t \in Threads :
        pc[t] \in {"start", "start sleeps"} /\ mode # 2 ~> pc[t] = "run" \/ ~quiet
=============================================================================
