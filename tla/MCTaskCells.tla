----------------------------- MODULE MCTaskCells -----------------------------
(***************************************************************************)
(* Small instances of TaskCells: two tasks and two interpreter threads.    *)
(***************************************************************************)
EXTENDS TaskCells, TLC
=============================================================================
