------------------------ MODULE InterruptFlags_proofs ------------------------
(***************************************************************************)
(* Theorems about InterruptFlags: an exception has a cause, and a shield   *)
(* holds, for any number of interrupts at any moment, the known windows    *)
(* included; and outside of these no interrupt is lost, until the user     *)
(* aborts a shielded evaluation.                                           *)
(***************************************************************************)
EXTENDS InterruptFlags, TLAPS

Clearing == {"clear exception", "clear interrupted", "clear alarmed", "clear pending"}
Determining == {"determine", "store"}
Evaluating == {"eval", "work", "last", "shield", "raise", "cause"}
Prompting == {"top", "read", "token"}

\* Where determineExceptionFlag and clearAllFlags return to.
ReturnInv ==
    /\ at \in Determining => then \in {"error", "alarm error", "lifted", "token", "top"}
    /\ at \in Clearing => then \in {"read", "error", "unwind"}

\* After determineExceptionFlag has stored what it read, and until the flags are
\* cleared, an exception has a cause.
Settling == Evaluating \cup {"alarm error", "lifted", "token"}

CauseInv ==
    /\ at = "store" /\ reg => interrupted \/ alarmed
    /\ at \in Settling /\ exception => interrupted \/ alarmed
    /\ at = "cause" => interrupted \/ alarmed

CauseIInv == ReturnInv /\ CauseInv

\* The invariant holds at the beginning.
LEMMA CauseBegins == Init => CauseIInv
BY DEF Init, CauseIInv, ReturnInv, CauseInv, Clearing, Determining,
       Evaluating, Prompting, Settling

\* An interrupt sets both flags, or the pending flag, or all flags are cleared.
LEMMA CauseSignals ==
    CauseIInv /\ (Interrupt \/ alarm_handler) /\ UNCHANGED terminal
        => CauseIInv'
<1> SUFFICES ASSUME CauseIInv, Interrupt \/ alarm_handler, UNCHANGED terminal
             PROVE  CauseIInv'
    OBVIOUS
<1> USE FlagsAssumption DEF CauseIInv, ReturnInv, CauseInv, Settled, flags, place, history
<1>1. CASE Interrupt
  <2>1. CASE Ask
    <3>1. CASE UNCHANGED <<flags, place>>
      BY <3>1
    <3>2. CASE at' = "top" /\ ~exception'
      BY <3>2 DEF Clearing, Determining, Settling, Evaluating
    <3>3. QED
      BY <2>1, <3>1, <3>2 DEF Ask
  <2>2. CASE ~(interrupted \/ pending)
    BY <1>1, <2>2 DEF Interrupt, interrupt_handler, SetInterruptFlag
  <2>3. QED
    BY <1>1, <2>1, <2>2 DEF Interrupt, interrupt_handler
<1>2. CASE alarm_handler
  BY <1>2 DEF alarm_handler
<1>3. QED
  BY <1>1, <1>2

\* No step of the evaluator leaves an exception without a cause.
LEMMA CauseEvaluator ==
    CauseIInv /\ Evaluator /\ UNCHANGED terminal => CauseIInv'
<1> SUFFICES ASSUME CauseIInv, Evaluator, UNCHANGED terminal
             PROVE  CauseIInv'
    OBVIOUS
<1> USE DEF CauseIInv, ReturnInv, CauseInv, Settled, flags, place, history, At, Goto,
            GotoThen, Quiet, Clearing, Determining, Evaluating,
            Prompting, Settling
<1>1. CASE Lifted /\ UNCHANGED <<signals, alarms>>
  BY <1>1 DEF Lifted
<1>2. CASE Quiet /\ determineExceptionFlag
  <2>1. CASE At("determine") /\ at' = "store" /\ reg' = (interrupted \/ alarmed)
    BY <1>2, <2>1 DEF determineExceptionFlag
  <2>2. CASE At("store") /\ at' = then /\ exception' = reg
    BY <1>2, <2>2 DEF determineExceptionFlag
  <2>3. QED
    BY <1>2, <2>1, <2>2 DEF determineExceptionFlag
<1>3. CASE Quiet /\ clearAllFlags
  BY <1>3 DEF clearAllFlags
<1>4. CASE Quiet /\ evalraw
  BY <1>4 DEF evalraw
<1>5. CASE Quiet /\ Cause
  BY <1>5 DEF Cause
<1>6. CASE Quiet /\ clearInterruptFlag
  BY <1>6 DEF clearInterruptFlag
<1>7. CASE Quiet /\ clearAlarmedFlag
  BY <1>7 DEF clearAlarmedFlag
<1>8. CASE Quiet /\ handleError
  BY <1>8 DEF handleError
<1>9. CASE Quiet /\ Work
  BY <1>9 DEF Work
<1>10. CASE Quiet /\ Shield
  <2>1. CASE At("shield")
    BY <1>10, <2>1 DEF Shield
  <2>2. CASE At("raise")
    BY <1>10, <2>2 DEF Shield
  <2>3. QED
    BY <1>10, <2>1, <2>2 DEF Shield
<1>11. CASE Quiet /\ Unshield
  BY <1>11 DEF Unshield
<1>12. CASE Quiet /\ readeval
  <2>1. CASE At("top")
    BY <1>12, <2>1 DEF readeval
  <2>2. CASE At("read")
    BY <1>12, <2>2 DEF readeval
  <2>3. CASE At("token") /\ interrupted
    <3>1. at' = "determine" /\ then' = "top"
      BY <1>12, <2>3 DEF readeval
    <3>2. QED
      BY <3>1
  <2>4. CASE At("token") /\ ~interrupted
    <3>1. at' = "eval" /\ UNCHANGED flags
      BY <1>12, <2>4 DEF readeval
    <3>2. QED
      BY <2>4, <3>1
  <2>5. QED
    BY <1>12, <2>1, <2>2, <2>3, <2>4 DEF readeval
<1>13. QED
  BY <1>1, <1>2, <1>3, <1>4, <1>5, <1>6, <1>7, <1>8, <1>9, <1>10, <1>11, <1>12 DEF Evaluator

\* The exception flag is never set without a cause when the evaluator looks at it:
\* the "unknown exception" of evalraw and evalexcept does not happen.
THEOREM ExceptionsHaveCauses == Spec => []CauseKnown
<1>1. Init => CauseIInv
  BY CauseBegins
<1>2. CauseIInv /\ [Next]_vars => CauseIInv'
  <2> SUFFICES ASSUME CauseIInv, [Next]_vars PROVE CauseIInv'
      OBVIOUS
  <2>1. CASE Next
    BY <2>1, CauseSignals, CauseEvaluator DEF Next
  <2>2. CASE UNCHANGED vars
    BY <2>2 DEF vars, flags, place, history, CauseIInv, ReturnInv, CauseInv
  <2>3. QED
    BY <2>1, <2>2
<1>3. CauseIInv => CauseKnown
  BY DEF CauseIInv, CauseInv, CauseKnown
<1>4. QED
  BY <1>1, <1>2, <1>3, PTL DEF Spec

-----------------------------------------------------------------------------
(* Shields *)

\* Places that are not within a shield.
Outside == Prompting \cup {"last", "shield", "raise", "lowered", "restore", "lifted"}

\* The frame that will lower the shield is there while it is up, except after an abort.
FrameInv ==
    /\ frame => shield
    /\ at \in {"shield", "raise"} => ~shield
    /\ at = "unshield" => frame

\* Once abandoned, the shield stays up: every frame that could lower it is gone, and no
\* evaluation raises it a second time.
LEMMA FrameSteps ==
    ReturnInv /\ FrameInv /\ (Interrupt \/ alarm_handler \/ Evaluator)
        => ReturnInv' /\ FrameInv' /\ (Abandoned => Abandoned')
<1> SUFFICES ASSUME ReturnInv, FrameInv, Interrupt \/ alarm_handler \/ Evaluator
             PROVE  ReturnInv' /\ FrameInv' /\ (Abandoned => Abandoned')
    OBVIOUS
<1> USE DEF ReturnInv, FrameInv, Abandoned, Settled, flags, place, history, At, Goto,
            GotoThen, Quiet, Clearing, Determining
<1>0. ASSUME UNCHANGED <<shield, frame>>, ReturnInv',
             at' \notin {"shield", "raise", "unshield"} \/ at' = at
      PROVE  ReturnInv' /\ FrameInv' /\ (Abandoned => Abandoned')
  <2>1. frame' = frame /\ shield' = shield
    BY <1>0
  <2>2. (frame' <=> frame) /\ (shield' <=> shield)
    BY <2>1
  <2>3. FrameInv'
    BY <1>0, <2>2, Zenon
  <2>4. Abandoned => Abandoned'
    BY <2>2, Zenon
  <2>5. QED
    BY <1>0, <2>3, <2>4, Zenon
<1>1. CASE Interrupt
  <2>1. CASE Ask
    <3>1. CASE UNCHANGED <<flags, place>>
      BY <1>0, <3>1
    <3>2. CASE at' = "top" /\ ~frame' /\ shield' = shield
      BY <3>2
    <3>3. QED
      BY <2>1, <3>1, <3>2 DEF Ask
  <2>2. CASE ~(interrupted \/ pending)
    <3>1. UNCHANGED <<shield, at, then, frame>>
      BY <1>1, <2>2 DEF Interrupt, interrupt_handler
    <3>2. QED
      BY <1>0, <3>1
  <2>3. QED
    BY <1>1, <2>1, <2>2 DEF Interrupt, interrupt_handler
<1>2. CASE alarm_handler
  BY <1>0, <1>2 DEF alarm_handler
<1>3. CASE Lifted
  BY <1>0, <1>3 DEF Lifted
<1>4. CASE determineExceptionFlag
  <2>1. CASE At("determine")
    BY <1>0, <1>4, <2>1 DEF determineExceptionFlag
  <2>2. CASE At("store")
    BY <1>0, <1>4, <2>2 DEF determineExceptionFlag
  <2>3. QED
    BY <1>4, <2>1, <2>2 DEF determineExceptionFlag
<1>5. CASE clearAllFlags
  BY <1>0, <1>5 DEF clearAllFlags
<1>6. CASE evalraw
  BY <1>0, <1>6 DEF evalraw
<1>7. CASE Cause
  BY <1>0, <1>7 DEF Cause
<1>8. CASE clearInterruptFlag
  BY <1>0, <1>8 DEF clearInterruptFlag
<1>9. CASE clearAlarmedFlag
  BY <1>0, <1>9 DEF clearAlarmedFlag
<1>10. CASE handleError
  <2>1. CASE At("unwind")
    <3>1. /\ at' = (IF frame THEN "unshield" ELSE "top")
          /\ UNCHANGED <<shield, frame, then>>
      BY <1>10, <2>1 DEF handleError
    <3>2. QED
      BY <3>1
  <2>2. CASE ~At("unwind")
    BY <1>0, <1>10, <2>2 DEF handleError
  <2>3. QED
    BY <2>1, <2>2
<1>11. CASE Work
  <2>1. UNCHANGED <<shield, frame, then>> /\ at' \in {"eval", "shield", "last", "unshield"}
    BY <1>11 DEF Work
  <2>2. at' = "shield" => ~shield
    BY <1>11 DEF Work
  <2>3. at' = "unshield" => frame
    BY <1>11 DEF Work
  <2>4. QED
    BY <2>1, <2>2, <2>3
<1>12. CASE Shield
  <2>1. CASE At("shield")
    <3>1. at' = "raise" /\ UNCHANGED <<shield, frame, then>>
      BY <1>12, <2>1 DEF Shield
    <3>2. QED
      BY <2>1, <3>1
  <2>2. CASE At("raise")
    <3>1. at' = "eval" /\ shield' /\ frame' /\ ~shield /\ UNCHANGED then
      BY <1>12, <2>2 DEF Shield
    <3>2. QED
      BY <3>1
  <2>3. QED
    BY <1>12, <2>1, <2>2 DEF Shield
<1>13. CASE Unshield
  <2>1. CASE At("unshield")
    <3>1. at' = "lowered" /\ ~shield' /\ ~frame' /\ frame /\ UNCHANGED then
      BY <1>13, <2>1 DEF Unshield
    <3>2. QED
      BY <3>1
  <2>2. CASE At("lowered")
    BY <1>0, <1>13, <2>2 DEF Unshield
  <2>3. CASE At("restore")
    BY <1>0, <1>13, <2>3 DEF Unshield
  <2>4. QED
    BY <1>13, <2>1, <2>2, <2>3 DEF Unshield
<1>14. CASE readeval
  <2>1. /\ UNCHANGED <<shield, frame>>
        /\ \/ at' = "clear exception" /\ then' = "read"
           \/ at' = "determine" /\ then' \in {"token", "top"}
           \/ at' = "eval"
    BY <1>14 DEF readeval
  <2>2. ReturnInv'
    BY <2>1
  <2>3. QED
    BY <1>0, <2>1, <2>2
<1>15. QED
  BY <1>1, <1>2, <1>3, <1>4, <1>5, <1>6, <1>7, <1>8, <1>9, <1>10, <1>11, <1>12, <1>13,
     <1>14 DEF Evaluator

\* An interrupt that came in a shield waits in the pending flag until the shield
\* is lowered, and then for the evaluator to see the exception; meanwhile the
\* interrupted flag is set by an alarm only, and the alarmed flag with it.
OutsideInv ==
    /\ at \in Outside => ~shield
    /\ at \in Determining /\ then \in {"lifted", "token", "top"} => ~shield
    /\ at \in Clearing /\ then = "read" => ~shield

AlarmInv ==
    /\ at = "interrupt" => interrupted
    /\ at = "alarm" => alarmed
    /\ at = "alarm reported" \/ alarmed => alarms > 0

\* Before the evaluator has seen the exception: the flags that remember it.
PendingInv ==
    /\ inside /\ (shield \/ at = "lowered") => pending
    /\ inside /\ at = "restore" => reg
    /\ inside /\ at = "determine" /\ then = "lifted" => interrupted
    /\ inside /\ at = "store" /\ then = "lifted" => reg
    /\ inside /\ (at = "lifted" \/ (at = "eval" /\ ~shield)) => exception
    /\ inside /\ at \in {"work", "last", "shield", "raise", "unshield",
                           "alarm reported", "alarm error", "read", "token"} => shield
    /\ inside /\ at \in Determining /\ then \in {"alarm error", "token"} => shield

ShieldedInv ==
    inside /\ shield =>
        /\ at # "interrupt"
        /\ interrupted => (alarmed \/ at = "clear pending") /\ at # "alarm reported"

ShieldCore ==
    /\ alarms \in Nat
    /\ ReturnInv /\ OutsideInv /\ AlarmInv /\ PendingInv /\ ShieldedInv

ShieldIInv == ReturnInv /\ FrameInv /\ (Abandoned \/ ShieldCore)

\* The invariant holds at the beginning.
LEMMA ShieldBegins == Init => ShieldIInv
BY DEF Init, ShieldIInv, FrameInv, Abandoned, ShieldCore, ReturnInv, OutsideInv, AlarmInv, PendingInv, ShieldedInv,
       Clearing, Determining, Outside, Prompting

\* Below a bound of one there is only zero.
LEMMA OneAlarm ==
    ASSUME NEW m \in Nat, m <= 1, NEW k \in Nat, k < m
    PROVE  /\ ~(k > 0)
           /\ k + 1 \in Nat /\ k + 1 > 0
OBVIOUS

\* An interrupt in a shield becomes pending; an alarm comes at most once.
LEMMA ShieldSignals ==
    MaxAlarms <= 1 /\ FrameInv /\ ~Abandoned /\ ShieldCore /\ (Interrupt \/ alarm_handler)
        /\ UNCHANGED terminal => Abandoned' \/ ShieldCore'
<1> SUFFICES ASSUME MaxAlarms <= 1, FrameInv, ~Abandoned, ShieldCore,
                    Interrupt \/ alarm_handler, UNCHANGED terminal, ~Abandoned'
             PROVE  ShieldCore'
    OBVIOUS
<1>0. MaxAlarms \in Nat
  BY FlagsAssumption
<1> USE DEF ShieldCore, ReturnInv, OutsideInv, AlarmInv, PendingInv,
        ShieldedInv, Settled, flags, place, history
<1>1. CASE Interrupt
  <2>0. alarms' = alarms
    BY <1>1 DEF Interrupt
  <2>1. CASE Ask
    <3>1. CASE UNCHANGED <<flags, place>>
      BY <2>0, <2>1, <3>1 DEF Ask
    <3>2. CASE at' = "top" /\ ~frame' /\ ~alarmed'
      <4>1. ~shield'
        BY <3>2 DEF Abandoned
      <4>2. QED
        BY <2>0, <2>1, <3>2, <4>1 DEF Ask, Clearing, Determining
    <3>3. QED
      BY <2>1, <3>1, <3>2 DEF Ask
  <2>2. CASE ~(interrupted \/ pending) /\ shield
    <3>1. pending' /\ UNCHANGED <<interrupted, exception, alarmed, shield, place>>
      BY <1>1, <2>2 DEF Interrupt, interrupt_handler
    <3>2. at # "interrupt" /\ ~interrupted
      BY <2>2
    <3>3. QED
      <4>1. alarms' \in Nat
        BY <2>0, <2>2, <3>1, <3>2
      <4>2. ReturnInv'
        BY <2>0, <2>2, <3>1, <3>2
      <4>3. OutsideInv'
        BY <2>0, <2>2, <3>1, <3>2
      <4>4. AlarmInv'
        BY <2>0, <2>2, <3>1, <3>2
      <4>5. PendingInv'
        <5>1. /\ at \notin {"raise", "lowered", "restore", "lifted"}
              /\ ~(at \in Determining /\ then \in {"lifted", "token", "top"})
          BY <2>2 DEF Outside, Determining
        <5>2. pending' /\ shield' /\ at' = at /\ then' = then
          BY <2>2, <3>1
        <5>3. QED
          BY <5>1, <5>2 DEF Determining
      <4>6. ShieldedInv'
        BY <2>0, <2>2, <3>1, <3>2
      <4>7. QED
        BY <4>1, <4>2, <4>3, <4>4, <4>5, <4>6
  <2>3. CASE ~(interrupted \/ pending) /\ ~shield
    BY <1>1, <2>0, <2>3 DEF Interrupt, interrupt_handler, SetInterruptFlag
  <2>4. QED
    BY <1>1, <2>1, <2>2, <2>3 DEF Interrupt, interrupt_handler
<1>2. CASE alarm_handler
  <2>1. alarms \in Nat /\ alarms < MaxAlarms /\ alarms' = alarms + 1
    BY <1>2 DEF alarm_handler
  <2>2. ~(alarms > 0) /\ alarms' \in Nat /\ alarms' > 0
    <3>1. ~(alarms > 0) /\ alarms + 1 \in Nat /\ alarms + 1 > 0
      BY <1>0, <2>1, OneAlarm
    <3>2. QED
      BY <2>1, <3>1
  <2>3. at # "alarm reported" /\ ~alarmed
    BY <2>2
  <2>4. interrupted' /\ alarmed' /\ exception' /\ UNCHANGED <<pending, shield, place, inside>>
    BY <1>2 DEF alarm_handler
  <2>5. QED
    <3>1. alarms' \in Nat
      BY <2>2, <2>3, <2>4
    <3>2. ReturnInv'
      BY <2>2, <2>3, <2>4
    <3>3. OutsideInv'
      BY <2>2, <2>3, <2>4
    <3>4. AlarmInv'
      BY <2>2, <2>3, <2>4
    <3>5. PendingInv'
      BY <2>2, <2>3, <2>4
    <3>6. ShieldedInv'
      BY <2>2, <2>3, <2>4
    <3>7. QED
      BY <3>1, <3>2, <3>3, <3>4, <3>5, <3>6
<1>3. QED
  BY <1>1, <1>2

\* A step of the evaluator.
LEMMA ShieldEvaluator ==
    FrameInv /\ ~Abandoned /\ ShieldCore /\ Evaluator /\ UNCHANGED terminal
        => ShieldCore'
<1> SUFFICES ASSUME FrameInv, ~Abandoned, ShieldCore, Evaluator, UNCHANGED terminal
             PROVE  ShieldCore'
    OBVIOUS
<1> USE DEF ShieldCore, ReturnInv, OutsideInv, AlarmInv, PendingInv, ShieldedInv,
            Settled, flags, place, history, At, Goto, GotoThen, Quiet, Clearing,
            Determining, Outside, Prompting
<1>0. shield = TRUE <=> frame = TRUE
  BY DEF FrameInv, Abandoned
<1>1. CASE Lifted /\ UNCHANGED <<signals, alarms>>
  BY <1>1 DEF Lifted
<1>2. CASE Quiet /\ clearAllFlags
  <2>1. CASE At("clear exception")
    <3>1. /\ at' = "clear interrupted" /\ ~exception'
          /\ UNCHANGED <<interrupted, alarmed, pending, shield, then, reg, inside, alarms>>
      BY <1>2, <2>1 DEF clearAllFlags
    <3>2. QED
      BY <2>1, <3>1
  <2>2. CASE At("clear interrupted")
    <3>1. /\ at' = "clear alarmed" /\ ~interrupted'
          /\ UNCHANGED <<exception, alarmed, pending, shield, then, reg, inside, alarms>>
      BY <1>2, <2>2 DEF clearAllFlags
    <3>2. QED
      BY <2>2, <3>1
  <2>3. CASE At("clear alarmed")
    <3>1. /\ at' = "clear pending" /\ ~alarmed'
          /\ UNCHANGED <<interrupted, exception, pending, shield, then, reg, inside, alarms>>
      BY <1>2, <2>3 DEF clearAllFlags
    <3>2. QED
      BY <2>3, <3>1
  <2>4. CASE At("clear pending")
    <3>1. /\ at' = then /\ ~inside' /\ UNCHANGED <<interrupted, alarmed, shield, then, alarms>>
      BY <1>2, <2>4 DEF clearAllFlags
    <3>2. QED
      BY <2>4, <3>1
  <2>5. QED
    BY <1>2, <2>1, <2>2, <2>3, <2>4 DEF clearAllFlags
<1>3. CASE Quiet /\ determineExceptionFlag
  <2>1. CASE At("determine")
    BY <1>3, <2>1 DEF determineExceptionFlag
  <2>2. CASE At("store")
    BY <1>3, <2>2 DEF determineExceptionFlag
  <2>3. QED
    BY <1>3, <2>1, <2>2 DEF determineExceptionFlag
<1>4. CASE Quiet /\ evalraw
  <2>1. CASE At("eval")
    BY <1>4, <2>1 DEF evalraw
  <2>2. CASE At("last")
    BY <1>4, <2>2 DEF evalraw
  <2>3. QED
    BY <1>4, <2>1, <2>2 DEF evalraw
<1>5. CASE Quiet /\ Cause
  BY <1>5 DEF Cause
<1>6. CASE Quiet /\ clearInterruptFlag
  BY <1>6 DEF clearInterruptFlag
<1>7. CASE Quiet /\ clearAlarmedFlag
  <2>1. CASE At("alarm")
    BY <1>7, <2>1 DEF clearAlarmedFlag
  <2>2. CASE At("alarm reported")
    <3>1. /\ at' = "determine" /\ then' = "alarm error" /\ ~alarmed'
          /\ UNCHANGED <<interrupted, pending, shield, inside, alarms>>
      BY <1>7, <2>2 DEF clearAlarmedFlag
    <3>2. QED
      BY <2>2, <3>1
  <2>3. QED
    BY <1>7, <2>1, <2>2 DEF clearAlarmedFlag
<1>8. CASE Quiet /\ handleError
  <2>1. CASE At("error")
    BY <1>8, <2>1 DEF handleError
  <2>2. CASE At("alarm error")
    BY <1>8, <2>2 DEF handleError
  <2>3. CASE At("unwind")
    BY <1>0, <1>8, <2>3 DEF handleError
  <2>4. QED
    BY <1>8, <2>1, <2>2, <2>3 DEF handleError
<1>9. CASE Quiet /\ Work
  BY <1>0, <1>9 DEF Work
<1>10. CASE Quiet /\ Shield
  <2>1. CASE At("shield")
    BY <1>10, <2>1 DEF Shield
  <2>2. CASE At("raise")
    BY <1>10, <2>2 DEF Shield
  <2>3. QED
    BY <1>10, <2>1, <2>2 DEF Shield
<1>11. CASE Quiet /\ Unshield
  <2>1. CASE At("unshield")
    BY <1>11, <2>1 DEF Unshield
  <2>2. CASE At("lowered")
    BY <1>11, <2>2 DEF Unshield
  <2>3. CASE At("restore")
    BY <1>11, <2>3 DEF Unshield
  <2>4. QED
    BY <1>11, <2>1, <2>2, <2>3 DEF Unshield
<1>12. CASE Quiet /\ readeval
  <2>1. CASE At("top")
    <3>1. /\ at' = "clear exception" /\ then' = "read"
          /\ UNCHANGED <<flags, inside, alarms>>
      BY <1>12, <2>1 DEF readeval
    <3>2. QED
      BY <2>1, <3>1
  <2>2. CASE At("read")
    BY <1>12, <2>2 DEF readeval
  <2>3. CASE At("token") /\ interrupted
    <3>1. at' = "determine" /\ then' = "top" /\ ~inside' /\ UNCHANGED <<alarmed, shield, alarms>>
      BY <1>12, <2>3 DEF readeval
    <3>2. QED
      BY <2>3, <3>1
  <2>4. CASE At("token") /\ ~interrupted
    <3>1. at' = "eval" /\ UNCHANGED <<flags, inside, alarms>>
      BY <1>12, <2>4 DEF readeval
    <3>2. QED
      BY <2>4, <3>1
  <2>5. QED
    BY <1>12, <2>1, <2>2, <2>3, <2>4 DEF readeval
<1>13. QED
  BY <1>1, <1>2, <1>3, <1>4, <1>5, <1>6, <1>7, <1>8, <1>9, <1>10, <1>11, <1>12 DEF Evaluator

\* An interrupt that comes in a shielded evaluation is not reported in it, if at
\* most one alarm comes (once an abort has left the shield up no evaluation is shielded
\* by a frame of its own, and nothing is said): a second one, between the two stores that report the first,
\* would pass for an interrupt.
THEOREM ShieldsHold == MaxAlarms <= 1 /\ Spec => []ShieldHolds
<1> SUFFICES ASSUME MaxAlarms <= 1 PROVE Spec => []ShieldHolds
    OBVIOUS
<1>1. Init => ShieldIInv
  BY ShieldBegins
<1>2. ShieldIInv /\ [Next]_vars => ShieldIInv'
  <2> SUFFICES ASSUME ShieldIInv, [Next]_vars PROVE ShieldIInv'
      OBVIOUS
  <2>1. CASE Next
    <3>1. ReturnInv' /\ FrameInv' /\ (Abandoned => Abandoned')
      BY <2>1, FrameSteps DEF Next, ShieldIInv
    <3>2. ~Abandoned => Abandoned' \/ ShieldCore'
      BY <2>1, ShieldSignals, ShieldEvaluator DEF Next, ShieldIInv
    <3>3. QED
      BY <3>1, <3>2 DEF ShieldIInv
  <2>2. CASE UNCHANGED vars
    <3>1. UNCHANGED <<interrupted, exception, alarmed, pending, shield, at, then, reg, frame,
                      inside, alarms>>
      BY <2>2 DEF vars, flags, place, history
    <3>2. ReturnInv' /\ FrameInv' /\ (Abandoned => Abandoned')
      BY <3>1 DEF ShieldIInv, ReturnInv, FrameInv, Abandoned
    <3>3. ASSUME ShieldCore PROVE ShieldCore'
      <4>1. ReturnInv /\ OutsideInv /\ AlarmInv /\ PendingInv /\ ShieldedInv /\ alarms \in Nat
        BY <3>3 DEF ShieldCore
      <4>2. alarms' \in Nat
        BY <3>1, <4>1
      <4>3. OutsideInv'
        BY <3>1, <4>1 DEF OutsideInv
      <4>4. AlarmInv'
        BY <3>1, <4>1 DEF AlarmInv
      <4>5. PendingInv'
        BY <3>1, <4>1 DEF PendingInv
      <4>6. ShieldedInv'
        BY <3>1, <4>1 DEF ShieldedInv
      <4>7. QED
        BY <3>2, <4>2, <4>3, <4>4, <4>5, <4>6 DEF ShieldCore
    <3>4. QED
      BY <3>2, <3>3 DEF ShieldIInv
  <2>3. QED
    BY <2>1, <2>2
<1>3. ShieldIInv => ShieldHolds
  BY DEF ShieldIInv, FrameInv, Abandoned, ShieldCore, ShieldedInv, ShieldHolds
<1>4. QED
  BY <1>1, <1>2, <1>3, PTL DEF Spec

-----------------------------------------------------------------------------
(* No interrupt is lost *)

\* No interrupt comes between the reading and the storing of the exception flag, nor
\* between the lowering of the shield and the storing of the pending interrupt.
Shut == {"store", "lowered", "restore"} \subseteq Windows

\* An interrupt that is owed when the shield is about to be lowered, or an operator
\* under the shield is at work, is pending: the evaluator would have reported one that
\* came before the shield.
LiftInv ==
    /\ at = "unshield" => shield
    /\ owed /\ (at \in {"unshield", "lowered"} \/ (shield /\ at \in {"work", "unwind"}))
         => pending
    /\ owed /\ at = "restore" => reg

KeptCore == ReturnInv /\ OutsideInv /\ LiftInv /\ NoInterruptLost

KeptIInv == ReturnInv /\ FrameInv /\ (Abandoned \/ KeptCore)

\* An interrupt sets both flags, or the pending flag under the shield; an alarm takes
\* nothing away.
LEMMA KeptSignals ==
    Shut /\ FrameInv /\ ~Abandoned /\ KeptCore /\ (Interrupt \/ alarm_handler)
        /\ UNCHANGED terminal => Abandoned' \/ KeptCore'
<1> SUFFICES ASSUME Shut, FrameInv, ~Abandoned, KeptCore, Interrupt \/ alarm_handler,
                    UNCHANGED terminal, ~Abandoned'
             PROVE  KeptCore'
    OBVIOUS
<1> USE DEF KeptCore, ReturnInv, OutsideInv, LiftInv, NoInterruptLost, Settled, flags,
            place, history
<1>1. CASE Interrupt
  <2>0. at \notin {"store", "lowered", "restore"}
    BY <1>1 DEF Interrupt, Shut
  <2>1. CASE Ask
    <3>1. CASE UNCHANGED <<flags, place>>
      BY <2>1, <3>1 DEF Ask
    <3>2. CASE at' = "top" /\ ~frame'
      <4>1. ~shield'
        BY <3>2 DEF Abandoned
      <4>2. QED
        BY <2>1, <3>2, <4>1 DEF Ask, Clearing, Determining
    <3>3. QED
      BY <2>1, <3>1, <3>2 DEF Ask
  <2>2. CASE ~(interrupted \/ pending) /\ shield
    <3>1. pending' /\ UNCHANGED <<interrupted, exception, alarmed, shield, place>>
      BY <1>1, <2>2 DEF Interrupt, interrupt_handler
    <3>2. QED
      BY <2>0, <2>2, <3>1
  <2>3. CASE ~(interrupted \/ pending) /\ ~shield
    <3>1. interrupted' /\ exception' /\ UNCHANGED <<pending, alarmed, shield, place>>
      BY <1>1, <2>3 DEF Interrupt, interrupt_handler, SetInterruptFlag
    <3>2. QED
      BY <2>0, <2>3, <3>1
  <2>4. QED
    BY <1>1, <2>1, <2>2, <2>3 DEF Interrupt, interrupt_handler
<1>2. CASE alarm_handler
  <2>1. interrupted' /\ exception' /\ UNCHANGED <<pending, shield, place, owed>>
    BY <1>2 DEF alarm_handler
  <2>2. QED
    BY <2>1
<1>3. QED
  BY <1>1, <1>2

\* No step of the evaluator takes an owed interrupt away.
LEMMA KeptEvaluator ==
    FrameInv /\ ~Abandoned /\ KeptCore /\ Evaluator /\ UNCHANGED terminal => KeptCore'
<1> SUFFICES ASSUME FrameInv, ~Abandoned, KeptCore, Evaluator, UNCHANGED terminal
             PROVE  KeptCore'
    OBVIOUS
<1> USE DEF KeptCore, ReturnInv, OutsideInv, LiftInv, NoInterruptLost,
            Settled, flags, place, history, At, Goto, GotoThen, Quiet, Clearing,
            Determining, Outside, Prompting
<1>0. shield = TRUE <=> frame = TRUE
  BY DEF FrameInv, Abandoned
<1>1. CASE Lifted /\ UNCHANGED <<signals, alarms>>
  BY <1>1 DEF Lifted
<1>2. CASE Quiet /\ clearAllFlags
  <2>1. CASE At("clear exception")
    <3>1. /\ at' = "clear interrupted" /\ ~exception'
          /\ UNCHANGED <<interrupted, alarmed, pending, shield, then, reg, owed>>
      BY <1>2, <2>1 DEF clearAllFlags
    <3>2. QED
      BY <2>1, <3>1
  <2>2. CASE At("clear interrupted")
    <3>1. /\ at' = "clear alarmed" /\ ~interrupted'
          /\ UNCHANGED <<exception, alarmed, pending, shield, then, reg, owed>>
      BY <1>2, <2>2 DEF clearAllFlags
    <3>2. QED
      BY <2>2, <3>1
  <2>3. CASE At("clear alarmed")
    <3>1. /\ at' = "clear pending" /\ ~alarmed'
          /\ UNCHANGED <<interrupted, exception, pending, shield, then, reg, owed>>
      BY <1>2, <2>3 DEF clearAllFlags
    <3>2. QED
      BY <2>3, <3>1
  <2>4. CASE At("clear pending")
    <3>1. /\ at' = then /\ ~owed' /\ UNCHANGED <<interrupted, alarmed, shield, then>>
      BY <1>2, <2>4 DEF clearAllFlags
    <3>2. QED
      BY <2>4, <3>1
  <2>5. QED
    BY <1>2, <2>1, <2>2, <2>3, <2>4 DEF clearAllFlags
<1>3. CASE Quiet /\ determineExceptionFlag
  <2>1. CASE At("determine")
    BY <1>3, <2>1 DEF determineExceptionFlag
  <2>2. CASE At("store")
    BY <1>3, <2>2 DEF determineExceptionFlag
  <2>3. QED
    BY <1>3, <2>1, <2>2 DEF determineExceptionFlag
<1>4. CASE Quiet /\ evalraw
  <2>1. CASE At("eval")
    BY <1>4, <2>1 DEF evalraw
  <2>2. CASE At("last")
    BY <1>4, <2>2 DEF evalraw
  <2>3. QED
    BY <1>4, <2>1, <2>2 DEF evalraw
<1>5. CASE Quiet /\ Cause
  BY <1>5 DEF Cause
<1>6. CASE Quiet /\ clearInterruptFlag
  BY <1>6 DEF clearInterruptFlag
<1>7. CASE Quiet /\ clearAlarmedFlag
  <2>1. CASE At("alarm")
    BY <1>7, <2>1 DEF clearAlarmedFlag
  <2>2. CASE At("alarm reported")
    <3>1. /\ at' = "determine" /\ then' = "alarm error" /\ ~alarmed'
          /\ UNCHANGED <<interrupted, pending, shield, owed>>
      BY <1>7, <2>2 DEF clearAlarmedFlag
    <3>2. QED
      BY <2>2, <3>1
  <2>3. QED
    BY <1>7, <2>1, <2>2 DEF clearAlarmedFlag
<1>8. CASE Quiet /\ handleError
  <2>1. CASE At("error")
    BY <1>8, <2>1 DEF handleError
  <2>2. CASE At("alarm error")
    BY <1>8, <2>2 DEF handleError
  <2>3. CASE At("unwind")
    BY <1>0, <1>8, <2>3 DEF handleError
  <2>4. QED
    BY <1>8, <2>1, <2>2, <2>3 DEF handleError
<1>9. CASE Quiet /\ Work
  BY <1>0, <1>9 DEF Work
<1>10. CASE Quiet /\ Shield
  <2>1. CASE At("shield")
    BY <1>10, <2>1 DEF Shield
  <2>2. CASE At("raise")
    BY <1>10, <2>2 DEF Shield
  <2>3. QED
    BY <1>10, <2>1, <2>2 DEF Shield
<1>11. CASE Quiet /\ Unshield
  <2>1. CASE At("unshield")
    BY <1>11, <2>1 DEF Unshield
  <2>2. CASE At("lowered")
    BY <1>11, <2>2 DEF Unshield
  <2>3. CASE At("restore")
    BY <1>11, <2>3 DEF Unshield
  <2>4. QED
    BY <1>11, <2>1, <2>2, <2>3 DEF Unshield
<1>12. CASE Quiet /\ readeval
  <2>1. CASE At("top")
    <3>1. /\ at' = "clear exception" /\ then' = "read"
          /\ UNCHANGED <<flags, owed>>
      BY <1>12, <2>1 DEF readeval
    <3>2. QED
      BY <2>1, <3>1
  <2>2. CASE At("read")
    BY <1>12, <2>2 DEF readeval
  <2>3. CASE At("token") /\ interrupted
    <3>1. at' = "determine" /\ then' = "top" /\ ~owed' /\ UNCHANGED <<alarmed, shield>>
      BY <1>12, <2>3 DEF readeval
    <3>2. QED
      BY <2>3, <3>1
  <2>4. CASE At("token") /\ ~interrupted
    <3>1. at' = "eval" /\ UNCHANGED <<flags, owed>>
      BY <1>12, <2>4 DEF readeval
    <3>2. QED
      BY <2>4, <3>1
  <2>5. QED
    BY <1>12, <2>1, <2>2, <2>3, <2>4 DEF readeval
<1>13. QED
  BY <1>1, <1>2, <1>3, <1>4, <1>5, <1>6, <1>7, <1>8, <1>9, <1>10, <1>11, <1>12 DEF Evaluator

\* An interrupt that has come is in the flags, where the evaluator sees it, until it is
\* reported, the user is asked, or all flags are cleared: the safety half of
\* InterruptSeen, for any number of interrupts and alarms outside the known windows,
\* until the user aborts a shielded evaluation (whose shield then stays up for good).
THEOREM InterruptsNotLost == Shut /\ Spec => []NoInterruptLost
<1> SUFFICES ASSUME Shut PROVE Spec => []NoInterruptLost
    OBVIOUS
<1>1. Init => KeptIInv
  BY DEF Init, KeptIInv, FrameInv, KeptCore, Abandoned, ReturnInv, OutsideInv, LiftInv, NoInterruptLost, Clearing,
         Determining, Outside, Prompting
<1>2. KeptIInv /\ [Next]_vars => KeptIInv'
  <2> SUFFICES ASSUME KeptIInv, [Next]_vars PROVE KeptIInv'
      OBVIOUS
  <2>1. CASE Next
    <3>1. ReturnInv' /\ FrameInv' /\ (Abandoned => Abandoned')
      BY <2>1, FrameSteps DEF Next, KeptIInv
    <3>2. ~Abandoned => Abandoned' \/ KeptCore'
      BY <2>1, KeptSignals, KeptEvaluator DEF Next, KeptIInv
    <3>3. QED
      BY <3>1, <3>2 DEF KeptIInv
  <2>2. CASE UNCHANGED vars
    BY <2>2 DEF vars, flags, place, history, KeptIInv, FrameInv, KeptCore, Abandoned, ReturnInv,
                OutsideInv, LiftInv, NoInterruptLost
  <2>3. QED
    BY <2>1, <2>2
<1>3. KeptIInv => NoInterruptLost
  BY DEF KeptIInv, KeptCore, NoInterruptLost
<1>4. QED
  BY <1>1, <1>2, <1>3, PTL DEF Spec
=============================================================================
