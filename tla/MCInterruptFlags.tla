-------------------------- MODULE MCInterruptFlags --------------------------
(***************************************************************************)
(* Small instances of InterruptFlags.                                      *)
(***************************************************************************)
EXTENDS InterruptFlags, TLC

\* Between the reading of the causes and the store to the exception flag, and
\* between the lowering of the shield and the store of the pending interrupt.
KnownWindows == {"store", "lowered", "restore"}
=============================================================================
