------------------------------ MODULE FiniteMap ------------------------------
(***************************************************************************)
(* What hash tables promise: a family of finite maps that change one key   *)
(* at a time, are copied as a whole, and no longer change when frozen.     *)
(***************************************************************************)
CONSTANTS Tables, Keys, Values, Missing, One

VARIABLES map, frozen

Nothing == [k \in Keys |-> Missing]

Init ==
    /\ map = [n \in Tables |-> Nothing]
    /\ frozen = [n \in Tables |-> FALSE]

Assign(n, k, v) ==
    /\ ~frozen[n]
    /\ map' = [map EXCEPT ![n][k] = v]
    /\ UNCHANGED frozen

Become(m, f, b) ==
    /\ map' = [map EXCEPT ![m] = f]
    /\ frozen' = [frozen EXCEPT ![m] = b]

Renew(m) == Become(m, Nothing, FALSE)
Duplicate(n, m) == Become(m, map[n], FALSE)
Freeze(n) == Become(n, map[n], TRUE)
SetOf(n, m) == Become(m, [k \in Keys |-> IF map[n][k] = Missing THEN Missing ELSE One], TRUE)

Next ==
    \/ \E n \in Tables, k \in Keys, v \in Values \cup {Missing} : Assign(n, k, v)
    \/ \E m \in Tables : Renew(m) \/ Freeze(m)
    \/ \E n, m \in Tables : Duplicate(n, m) \/ SetOf(n, m)

Spec == Init /\ [][Next]_<<map, frozen>>
=============================================================================
