------------------------------ MODULE MerkleDrop ------------------------------
(***************************************************************************)
(* The reward split and the Merkle tree of backend/src/voting-rewards      *)
(* (eligibility.ts, merkle.ts).  A hash is the term it was computed from:  *)
(* two hashes are equal when their terms are.  Addresses are numbers, so   *)
(* that they can be sorted.                                                *)
(***************************************************************************)
EXTENDS Integers, Sequences, SequencesExt, FiniteSetsExt

\* Votes are records [voter, weight]; several votes of one voter add up.
Weight(votes, v) == MapThenSumSet(LAMBDA x : x.weight, {x \in votes : x.voter = v /\ x.weight > 0})
Share(votes, v, budget) ==
  LET total == MapThenSumSet(LAMBDA x : x.weight, {x \in votes : x.weight > 0})
  IN  IF total = 0 \/ budget <= 0 THEN 0 ELSE (budget * Weight(votes, v)) \div total

\* The addresses with a positive share, sorted, with their amounts.
computeProportionalRewards(votes, budget) ==
  LET paid == {v \in {x.voter : x \in votes} : Share(votes, v, budget) > 0}
      order == SetToSortSeq(paid, <)
  IN  [i \in DOMAIN order |-> [address |-> order[i], amount |-> Share(votes, order[i], budget)]]
TotalReward(allocations) == FoldSeq(LAMBDA a, acc : a.amount + acc, 0, allocations)

computeLeaf(address, epoch, amount) == [kind |-> "leaf", of |-> <<address, epoch, amount>>]
\* The pair is sorted before it is hashed: a set.
hashPair(a, b) == [kind |-> "pair", of |-> {a, b}]

\* Mutant of nextLevel: an odd trailing node is paired with itself.
nextLevel_doubled(level) ==
  [i \in 1..(Len(level) + 1) \div 2 |->
     IF 2 * i <= Len(level) THEN hashPair(level[2 * i - 1], level[2 * i])
                            ELSE hashPair(level[2 * i - 1], level[2 * i - 1])]

nextLevel(level) ==
  [i \in 1..(Len(level) + 1) \div 2 |->
     IF 2 * i <= Len(level) THEN hashPair(level[2 * i - 1], level[2 * i]) ELSE level[2 * i - 1]]

\* The levels from the leaves to the root, which the last ones repeat.
Levels(leaves) ==
  LET level[d \in 0..Len(leaves)] == IF d = 0 THEN leaves ELSE nextLevel(level[d - 1])
  IN  level
Height(leaves) == Min({d \in 0..Len(leaves) : Len(Levels(leaves)[d]) <= 1})

EMPTY_EPOCH_ROOT == [kind |-> "zeros"]
buildMerkleTree(entries, epoch) ==
  LET leaves == [i \in DOMAIN entries |-> computeLeaf(entries[i].address, epoch, entries[i].amount)]
      levels == Levels(leaves)
      height == Height(leaves)
      \* the index, counted from one, of the leaf's ancestor at depth d
      at(i, d) == ((i - 1) \div 2^d) + 1
      sibling(i, d) == IF at(i, d) % 2 = 1 THEN at(i, d) + 1 ELSE at(i, d) - 1
      path[i \in DOMAIN entries, d \in 0..height] ==
        IF d = 0 THEN << >>
        ELSE path[i, d - 1] \o IF sibling(i, d - 1) <= Len(levels[d - 1])
                               THEN <<levels[d - 1][sibling(i, d - 1)]>> ELSE << >>
  IN  [root |-> IF leaves = << >> THEN EMPTY_EPOCH_ROOT ELSE levels[height][1],
       proofs |-> [i \in DOMAIN entries |-> path[i, height]]]

verifyProof(leaf, proof, root) == FoldLeft(hashPair, leaf, proof) = root
=============================================================================
