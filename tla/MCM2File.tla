------------------------------ MODULE MCM2File ------------------------------
(***************************************************************************)
(* Small instances of M2File: two threads, every mode, counters that wrap  *)
(* at 8.                                                                   *)
(***************************************************************************)
EXTENDS M2File, TLC

AllModes == 0..2

\* The mode is changed, and brackets are begun, only while the other threads are
\* outside their brackets or asleep in StartInput or StartOutput.
OverSleepers ==
    ops' # ops => ~Switching /\
        (Switching' => \A u \in Threads : pc[u] = "start sleeps" \/ (pc[u] = "run" /\ held[u] = << >>))
=============================================================================
