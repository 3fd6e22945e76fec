------------------------------ MODULE VoteMath ------------------------------
(***************************************************************************)
(* The loop of apply_vote_type (contracts/governor/src/lib.rs) that takes   *)
(* the integer square root of a weight under quadratic voting: Newton's     *)
(* iteration from above, stopping when it no longer falls.                  *)
(***************************************************************************)
EXTENDS Integers, FiniteSets

\* Loop[n, x, y] is the x with which the loop ends when it is at x and y.
Loop[n \in Nat, x \in Nat, y \in Nat] ==
    IF y < x THEN Loop[n, y, (y + n \div y) \div 2] ELSE x

newton(n) == IF n = 0 THEN 0 ELSE Loop[n, n, (n + 1) \div 2]

MaxRoot == 300   \* bound on the weights that are tried

\* The loop returns the integer square root.
ASSUME NewtonIsRoot ==
    \A n \in 0..MaxRoot : newton(n) = Cardinality({r \in 1..n : r * r <= n})
=============================================================================
