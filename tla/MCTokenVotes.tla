---------------------------- MODULE MCTokenVotes ----------------------------
(* Small instances of TokenVotes for TLC. *)
EXTENDS TokenVotes, TLC

CONSTANTS a1, a2, a3

Part(b, bps) == [delegatee |-> b, weight_bps |-> bps]

ThreeHoldings == a1 :> 2 @@ a2 :> 0 @@ a3 :> 0
\* An uneven split, of which rounding leaves something over, and one part.
UnevenSplits == {<<Part(a2, 3334), Part(a3, 6666)>>, <<Part(a3, 10000)>>}
=============================================================================
