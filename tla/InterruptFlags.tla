--------------------------- MODULE InterruptFlags ---------------------------
(***************************************************************************)
(* The flags by which signals reach the interpreter thread                 *)
(* (d/interrupts.d, the handlers of bin/main.cpp), and the evaluator that  *)
(* reads and clears them (d/evaluate.d, d/interp.dd).  Each store to a     *)
(* flag is a step of the evaluator; a handler runs between two of them,    *)
(* from beginning to end, on the same thread.                              *)
(*                                                                         *)
(* Stepping (a mode of the debugger) and stopIfError (where the handler    *)
(* ends the program) are left out.                                         *)
(***************************************************************************)
EXTENDS Naturals

CONSTANTS
    Windows,       \* places where no interrupt comes
    MaxSignals,    \* bound: interrupts
    MaxAlarms      \* bound: alarms

ASSUME FlagsAssumption == {MaxSignals, MaxAlarms} \subseteq Nat

VARIABLES
    interrupted, exception, alarmed, pending, shield,
    at,         \* where the evaluator is
    then,       \* and where it goes after determineExceptionFlag or clearAllFlags
    reg,        \* the value it has read and not yet stored
    unwinding,  \* an error is being passed up
    frame,      \* shieldfun has raised the shield and is on the stack to lower it
    terminal,   \* stdin and stdout are terminals
    ended,      \* the program has ended
    signals,    \* interrupts that have come
    alarms,     \* and alarms
    owed,       \* history: an interrupt has come, and since then it was not reported,
                \* nor the user asked, nor all flags cleared (on an error, at a prompt)
    inside      \* history: it came while the shield was up

flags == <<interrupted, exception, alarmed, pending, shield>>
place == <<at, then, reg, unwinding, frame>>
history == <<owed, inside>>
vars == <<flags, place, terminal, ended, signals, alarms, history>>

Init ==
    /\ interrupted = FALSE /\ exception = FALSE /\ alarmed = FALSE
    /\ pending = FALSE /\ shield = FALSE
    /\ at = "top" /\ then = "read" /\ reg = FALSE
    /\ unwinding = FALSE /\ frame = FALSE /\ ended = FALSE
    /\ signals = 0 /\ alarms = 0 /\ terminal \in BOOLEAN
    /\ owed = FALSE /\ inside = FALSE

-----------------------------------------------------------------------------
(* The handlers *)

Settled == owed' = FALSE /\ inside' = FALSE

\* A second interrupt: the user is asked whether to exit, to go on, or to abort to
\* the top level; without a terminal the program ends.  An abort jumps over every
\* frame of the evaluator.  The pending flag and the shield that it clears are globals
\* of main.cpp which nothing reads: those of the thread stay as they are.
Ask ==
    /\ Settled
    /\ \/ terminal /\ UNCHANGED <<flags, place, ended>>
       \/ ended' = TRUE /\ UNCHANGED <<flags, place>>
       \/ /\ terminal
          /\ interrupted' = FALSE /\ exception' = FALSE /\ alarmed' = FALSE
          /\ at' = "top" /\ then' = "read" /\ unwinding' = FALSE /\ frame' = FALSE
          /\ UNCHANGED <<pending, shield, reg, ended>>

\* setInterruptFlag
SetInterruptFlag == interrupted' = TRUE /\ exception' = TRUE

\* Variant: the shield is not looked at.
interrupt_handler_unshielded ==
    IF interrupted \/ pending
      THEN Ask
      ELSE /\ owed' = TRUE /\ inside' = shield
           /\ SetInterruptFlag
           /\ UNCHANGED <<alarmed, pending, shield, place, ended>>

interrupt_handler ==
    IF interrupted \/ pending
      THEN Ask
      ELSE /\ owed' = TRUE /\ inside' = shield
           /\ IF shield THEN pending' = TRUE /\ UNCHANGED <<interrupted, exception>>
                        ELSE SetInterruptFlag /\ UNCHANGED pending
           /\ UNCHANGED <<alarmed, shield, place, ended>>

Interrupt ==
    /\ ~ended /\ signals < MaxSignals /\ at \notin Windows
    /\ signals' = signals + 1 /\ UNCHANGED alarms
    /\ interrupt_handler

alarm_handler ==
    /\ ~ended /\ alarms < MaxAlarms
    /\ alarms' = alarms + 1 /\ UNCHANGED signals
    /\ interrupted' = TRUE /\ alarmed' = TRUE /\ exception' = TRUE
    /\ UNCHANGED <<pending, shield, place, ended, history>>

-----------------------------------------------------------------------------
(* The evaluator *)

At(l) == at = l /\ ~ended
Goto(l) == at' = l /\ UNCHANGED <<then, reg, unwinding, frame>>
GotoThen(l, m) == at' = l /\ then' = m /\ UNCHANGED <<reg, unwinding, frame>>
Quiet == UNCHANGED <<ended, signals, alarms>>

\* determineExceptionFlag reads the causes and then stores what it has read.
determineExceptionFlag ==
    /\ \/ At("determine") /\ at' = "store" /\ reg' = (interrupted \/ alarmed)
          /\ UNCHANGED exception
       \/ At("store") /\ at' = then /\ exception' = reg
          /\ UNCHANGED reg
    /\ UNCHANGED <<interrupted, alarmed, pending, shield, then, unwinding, frame, history>>

\* clearAllFlags, in its order.
clearAllFlags ==
    \/ /\ At("clear exception")
       /\ exception' = FALSE /\ Goto("clear interrupted")
       /\ UNCHANGED <<interrupted, alarmed, pending, shield, history>>
    \/ /\ At("clear interrupted")
       /\ interrupted' = FALSE /\ Goto("clear alarmed")
       /\ UNCHANGED <<exception, alarmed, pending, shield, history>>
    \/ /\ At("clear alarmed")
       /\ alarmed' = FALSE /\ Goto("clear pending")
       /\ UNCHANGED <<interrupted, exception, pending, shield, history>>
    \/ /\ At("clear pending")
       /\ pending' = FALSE /\ Goto(then) /\ Settled
       /\ UNCHANGED <<interrupted, exception, alarmed, shield>>

\* The top of evalraw, and evalexcept at the end of an expression.
evalraw ==
    /\ \/ At("eval") /\ Goto(IF exception THEN "cause" ELSE "work")
       \/ At("last") /\ IF exception THEN Goto("cause") ELSE GotoThen("clear exception", "read")
    /\ UNCHANGED <<flags, history>>

Cause ==
    /\ At("cause")
    /\ CASE alarmed -> Goto("alarm")
         [] ~alarmed /\ interrupted -> Goto("interrupt")
         [] OTHER -> GotoThen("clear exception", "error")
    /\ UNCHANGED <<flags, history>>

\* The interrupt is reported: an error that "try" does not catch.
clearInterruptFlag ==
    /\ At("interrupt")
    /\ interrupted' = FALSE /\ GotoThen("determine", "error") /\ Settled
    /\ UNCHANGED <<exception, alarmed, pending, shield>>

\* Variant: the exception flag is left as it is.
clearAlarmedFlagOnly ==
    \/ /\ At("alarm")
       /\ interrupted' = FALSE /\ Goto("alarm reported") /\ Settled
       /\ UNCHANGED <<exception, alarmed, pending, shield>>
    \/ /\ At("alarm reported")
       /\ alarmed' = FALSE /\ Goto("alarm error")
       /\ UNCHANGED <<interrupted, exception, pending, shield, history>>

\* An alarm is reported, with the interrupt that may have come with it.
clearAlarmedFlag ==
    \/ /\ At("alarm")
       /\ interrupted' = FALSE /\ Goto("alarm reported") /\ Settled
       /\ UNCHANGED <<exception, alarmed, pending, shield>>
    \/ /\ At("alarm reported")
       /\ alarmed' = FALSE /\ GotoThen("determine", "alarm error")
       /\ UNCHANGED <<interrupted, exception, pending, shield, history>>

\* handleError clears all flags, unless errors are suppressed by "try".
handleError ==
    /\ \/ At("error") /\ at' = "clear exception" /\ then' = "unwind" /\ unwinding' = TRUE
       \/ At("alarm error") /\ at' = "clear exception" /\ then' = "unwind" /\ unwinding' = TRUE
       \/ At("alarm error") /\ at' = "eval" /\ UNCHANGED <<then, unwinding>>
       \/ At("unwind") /\ at' = (IF frame THEN "unshield" ELSE "top")
          /\ UNCHANGED <<then, unwinding>>
    /\ UNCHANGED <<flags, reg, frame, history>>

\* The operator of a code: it evaluates others, or is a shield, or ends.  A shield
\* that finds itself raised already only evaluates.
Work ==
    /\ At("work")
    /\ \/ Goto("eval")
       \/ ~shield /\ Goto("shield")
       \/ ~frame /\ Goto("last")
       \/ frame /\ Goto("unshield")
    /\ UNCHANGED <<flags, history>>

\* shieldfun, before and after its operand.
Shield ==
    \/ /\ At("shield")
       /\ pending' = interrupted /\ Goto("raise")
       /\ UNCHANGED <<interrupted, exception, alarmed, shield, history>>
    \/ /\ At("raise")
       /\ shield' = TRUE /\ frame' = TRUE
       /\ at' = "eval" /\ UNCHANGED <<then, reg, unwinding>>
       /\ UNCHANGED <<interrupted, exception, alarmed, pending, history>>

\* Variant: the pending interrupt is forgotten.
UnshieldForgetful ==
    /\ \/ At("unshield") /\ shield' = FALSE /\ frame' = FALSE
          /\ at' = "lowered" /\ UNCHANGED <<interrupted, then, reg, unwinding>>
       \/ At("lowered") /\ at' = "restore" /\ reg' = pending
          /\ UNCHANGED <<interrupted, shield, then, unwinding, frame>>
       \/ At("restore") /\ interrupted' = FALSE /\ GotoThen("determine", "lifted")
          /\ UNCHANGED shield
    /\ UNCHANGED <<exception, alarmed, pending, history>>

Unshield ==
    /\ \/ At("unshield") /\ shield' = FALSE /\ frame' = FALSE
          /\ at' = "lowered" /\ UNCHANGED <<interrupted, then, reg, unwinding>>
       \/ At("lowered") /\ at' = "restore" /\ reg' = pending
          /\ UNCHANGED <<interrupted, shield, then, unwinding, frame>>
       \/ At("restore") /\ interrupted' = reg /\ GotoThen("determine", "lifted")
          /\ UNCHANGED shield
    /\ UNCHANGED <<exception, alarmed, pending, history>>

\* Without a terminal a pending interrupt ends the program here.
Lifted ==
    /\ At("lifted")
    /\ IF interrupted /\ ~terminal THEN ended' = TRUE /\ Settled /\ UNCHANGED place
       ELSE /\ Goto(IF unwinding THEN "top" ELSE "eval")
            /\ UNCHANGED <<ended, history>>
    /\ UNCHANGED flags

\* readeval: flags are cleared, a token is read, the flags are determined, and an
\* interrupt that came meanwhile means a new prompt.
readeval ==
    \/ /\ At("top")
       /\ at' = "clear exception" /\ then' = "read" /\ unwinding' = FALSE
       /\ UNCHANGED <<flags, reg, frame, history>>
    \/ /\ At("read")
       /\ pending' = FALSE /\ GotoThen("determine", "token")
       /\ UNCHANGED <<interrupted, exception, alarmed, shield, history>>
    \/ /\ At("token") /\ interrupted
       /\ interrupted' = FALSE /\ GotoThen("determine", "top") /\ Settled
       /\ UNCHANGED <<exception, alarmed, pending, shield>>
    \/ /\ At("token") /\ ~interrupted
       /\ Goto("eval")
       /\ UNCHANGED <<flags, history>>

Evaluator ==
    \/ Lifted /\ UNCHANGED <<signals, alarms>>
    \/ /\ Quiet
       /\ \/ determineExceptionFlag \/ clearAllFlags \/ evalraw \/ Cause
          \/ clearInterruptFlag \/ clearAlarmedFlag \/ handleError
          \/ Work \/ Shield \/ Unshield \/ readeval

Next == (Interrupt \/ alarm_handler \/ Evaluator) /\ UNCHANGED terminal

Spec == Init /\ [][Next]_vars /\ WF_vars(Evaluator /\ UNCHANGED terminal)

-----------------------------------------------------------------------------
(* Properties *)

\* An abort has jumped over the shieldfun that would have lowered the shield: it stays
\* up from now on, for no evaluation raises or lowers it again.
Abandoned == shield /\ ~frame

\* An interrupt is reported in the end, or the user is asked what to do, or an error
\* or a new prompt clears all flags: no store to a flag overwrites it and leaves the
\* evaluation running.  (Outside of Windows, if no shielded evaluation goes on for
\* ever, and until the user aborts one: after that nothing is promised, for the
\* shield is never lowered and the prompt drops what came under it.)
InterruptSeen == ([]<>~frame) => (owed ~> (~owed \/ Abandoned))

\* An interrupt that is owed is still in the flags, and where the evaluator will see
\* it: with the exception flag set or about to be, or pending while the shield is up
\* and on the way back from it, unless all flags are being cleared: no store to a
\* flag takes it away.  (Outside of Windows, and until the user aborts a shielded
\* evaluation.)
NoInterruptLost ==
    owed /\ ~Abandoned =>
      \/ interrupted /\ (IF at = "store" THEN reg ELSE exception \/ at = "determine")
      \/ pending /\ (shield \/ at \in {"raise", "lowered"})
      \/ at = "restore" /\ reg
      \/ at \in {"clear exception", "clear interrupted", "clear alarmed", "clear pending"}

\* An interrupt that comes in a shielded evaluation is not reported in it
\* ("temporarily ignoring interrupts").
ShieldHolds == at = "interrupt" /\ frame => ~inside

\* The ignoring is temporary: at the prompt the shield is down, which main.cpp sees to
\* where the user aborts to the top level.  It clears another variable, and this does
\* not hold (no run expects it to: MCinterrupt_abort.cfg shows how it fails).
ShieldIsTemporary == at = "read" => ~shield

\* An exception has a cause: the evaluator never has to report an "unknown
\* exception", whatever moment the signals come at.
CauseKnown == at = "cause" => alarmed \/ interrupted
=============================================================================
