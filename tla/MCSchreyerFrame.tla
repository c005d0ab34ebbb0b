--------------------------- MODULE MCSchreyerFrame ---------------------------
(***************************************************************************)
(* Small instances of SchreyerFrame: three degrees and levels 0 to 3.      *)
(***************************************************************************)
EXTENDS SchreyerFrame, TLC

AnyLo == {-1, 0, 1}
Positive == {1}
UptoHighest == 0..3
AnyLimit == -1..3
=============================================================================
