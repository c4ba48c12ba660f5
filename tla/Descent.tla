------------------------------ MODULE Descent -------------------------------
(***************************************************************************)
(* Why loops end: what is left to do, as a tuple of naturals that are      *)
(* compared in lexicographic order, gets less with every step.             *)
(***************************************************************************)
EXTENDS Integers

Tuples(size) == [1 .. size -> Nat]

\* a is less than b.
Below(a, b) ==
    \E k \in DOMAIN b : a[k] < b[k] /\ \A j \in 1 .. k - 1 : a[j] = b[j]

\* How far it is from a to b.
Left(a, b) == IF a < b THEN b - a ELSE 0
=============================================================================
