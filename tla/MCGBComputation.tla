--------------------------- MODULE MCGBComputation ---------------------------
(***************************************************************************)
(* Small instances of GBComputation: monomials in three variables as         *)
(* exponent vectors in a box, and three generators of degree 3.  Leads     *)
(* such as x^2 z, y^2 z, x y z and x^2 y make every criterion discard      *)
(* pairs, and make pairs with equal lcms.                                  *)
(***************************************************************************)
EXTENDS GBComputation, TLC

MaxExponents == <<2, 2, 1>>   \* bound: exponents of lead monomials
MCMonomials == {x \in [1..3 -> 0..2] : \A v \in 1..3 : x[v] <= MaxExponents[v]}
MCLcm(x, y) == [v \in 1..3 |-> IF x[v] < y[v] THEN y[v] ELSE x[v]]
MCDegree(x) == x[1] + x[2] + x[3]
MCCoprime(x, y) == \A v \in 1..3 : x[v] = 0 \/ y[v] = 0

ThreeGens == {1, 2, 3}
ThreeDegrees == <<3, 3, 3>>

Limit(k, n) == [kind |-> k, n |-> n]
NoLimits == {Limit("none", 0)}
Limits == NoLimits \cup {Limit("always", 0), Limit("degree", 4), Limit("elements", 2),
                         Limit("pairs", 3), Limit("mingens", 0)}
=============================================================================
