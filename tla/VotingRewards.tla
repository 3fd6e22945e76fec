---------------------------- MODULE VotingRewards ----------------------------
(***************************************************************************)
(* The voting-rewards epoch job of the backend (jobs/voting-rewards-epoch, *)
(* voting-rewards): it computes the epochs that are over and indexed,    *)
(* stores their trees and proofs, and publishes the roots, itself or by a  *)
(* governance proposal.  The job may stop between any two of its awaits.   *)
(***************************************************************************)
EXTENDS MerkleDrop, FiniteSets

CONSTANTS
  RewardAdmins,     \* who may be the contract's admin: "relayer", "governor", "other"
  RewardVoters,     \* numbers
  RewardWeight,     \* by voter
  EPOCH_BUDGET,
  InitialPool,
  EpochLength, LastRewardLedger, MaxPublishProposals, MaxRewardStops

VARIABLES
  rewAdmin,    \* the contract's admin
  rewLedger,   \* the ledger being closed
  rewIndexed,  \* indexer_state.last_ledger
  rewVotes,    \* votes: records [voter, weight, ledger]
  epochs,      \* the contract's epochs, the last one current
  available,   \* the contract's pool less what is allocated
  stored,      \* voting_reward_epochs and voting_reward_claims by epoch
  publishing,  \* proposals made by the job: records [epoch, root, total, state]
  cycle,       \* the job's cycle in progress
  rewStops     \* crashes and failed calls so far

rewVars == <<rewAdmin, rewLedger, rewIndexed, rewVotes, epochs, available, stored, publishing, cycle, rewStops>>
rewChainVars == <<rewAdmin, rewLedger, rewIndexed, rewVotes, epochs, available>>

NewEpoch(start) ==
  [start |-> start, end |-> start + EpochLength, root |-> EMPTY_EPOCH_ROOT, published |-> FALSE, total |-> 0,
   finalized |-> FALSE]
IdleCycle == [pc |-> "idle", current |-> 0, height |-> 0, epoch |-> 0, finalized |-> FALSE, budget |-> 0, proposal |-> 0]

RewInit ==
  /\ rewAdmin \in RewardAdmins
  /\ rewLedger = 0 /\ rewIndexed = 0 /\ rewVotes = {}
  /\ epochs = <<NewEpoch(0)>>
  /\ available = InitialPool
  /\ stored = << >> /\ publishing = << >>
  /\ cycle = IdleCycle /\ rewStops = 0

---------------------------------------------------------------------------
\* The chain and the indexer.

RewCloseLedger ==
  /\ rewLedger < LastRewardLedger
  /\ rewLedger' = rewLedger + 1
  /\ UNCHANGED <<rewAdmin, rewIndexed, rewVotes, epochs, available, stored, publishing, cycle, rewStops>>
RewIndex ==
  /\ rewIndexed < rewLedger
  /\ rewIndexed' = rewIndexed + 1
  /\ UNCHANGED <<rewAdmin, rewLedger, rewVotes, epochs, available, stored, publishing, cycle, rewStops>>
\* A vote of the ledger being closed: its event is indexed with a later one.
RewVote(v, w) ==
  /\ \A x \in rewVotes : x.voter # v
  /\ rewVotes' = rewVotes \cup {[voter |-> v, weight |-> w, ledger |-> rewLedger + 1]}
  /\ UNCHANGED <<rewAdmin, rewLedger, rewIndexed, epochs, available, stored, publishing, cycle, rewStops>>

\* publish_epoch_root: an empty epoch stays unfinalized.
PublishAllowed(e, total) ==
  /\ ~epochs[e].finalized /\ rewLedger >= epochs[e].end /\ total <= available
publish_epoch_root(e, root, total) ==
  /\ epochs' = [epochs EXCEPT ![e] = [@ EXCEPT !.root = root, !.published = TRUE, !.total = total,
                                              !.finalized = total > 0]]
  /\ available' = available - total

\* A proposal of the job is executed, or ends without being.
RewResolve(p) ==
  /\ publishing[p].state = "open"
  /\ \/ /\ PublishAllowed(publishing[p].epoch, publishing[p].total)
        /\ publish_epoch_root(publishing[p].epoch, publishing[p].root, publishing[p].total)
        /\ publishing' = [publishing EXCEPT ![p].state = "executed"]
     \/ /\ publishing' = [publishing EXCEPT ![p].state = "closed"]
        /\ UNCHANGED <<epochs, available>>
  /\ UNCHANGED <<rewAdmin, rewLedger, rewIndexed, rewVotes, stored, cycle, rewStops>>

---------------------------------------------------------------------------
\* The job.

Published(e) == e \in DOMAIN stored /\ stored[e].published
HighestPublished == Max({0} \cup {e \in DOMAIN stored : Published(e)})
fetchEpochVotes(e) ==
  {[voter |-> x.voter, weight |-> x.weight] :
     x \in {y \in rewVotes : y.ledger >= epochs[e].start /\ y.ledger < epochs[e].end /\ y.ledger <= rewIndexed}}

Goto(pc) == cycle' = [cycle EXCEPT !.pc = pc]
NextEpoch == cycle' = [cycle EXCEPT !.pc = "epoch", !.epoch = @ + 1, !.finalized = FALSE, !.budget = 0, !.proposal = 0]

\* tick: one cycle at a time.
RewTick ==
  /\ cycle.pc = "idle"
  /\ cycle' = [IdleCycle EXCEPT !.pc = "epoch", !.current = Len(epochs), !.height = rewIndexed,
                                !.epoch = HighestPublished + 1]
  /\ UNCHANGED <<rewChainVars, stored, publishing, rewStops>>

\* The epoch as the contract has it now, and whether it is stored yet.
ReadEpoch(height) ==
  IF cycle.epoch > cycle.current \/ height < epochs[cycle.epoch].end THEN Goto("roll")
  ELSE cycle' = [cycle EXCEPT !.pc = IF cycle.epoch \in DOMAIN stored THEN "decide" ELSE "budget",
                              !.finalized = epochs[cycle.epoch].finalized]
\* Mutant of RunEpoch: the indexer need not have reached the epoch's end.
RunEpoch_eager ==
  /\ cycle.pc = "epoch"
  /\ ReadEpoch(rewLedger)
  /\ UNCHANGED <<rewChainVars, stored, publishing, rewStops>>

\* runCycle's loop: an epoch that is not over, or not indexed to its end, ends it.
RunEpoch ==
  /\ cycle.pc = "epoch"
  /\ ReadEpoch(cycle.height)
  /\ UNCHANGED <<rewChainVars, stored, publishing, rewStops>>

\* computeEpoch: never commit more than the pool of the moment.
ReadPool ==
  /\ cycle.pc = "budget"
  /\ cycle' = [cycle EXCEPT !.pc = "save", !.budget = Min({EPOCH_BUDGET, available})]
  /\ UNCHANGED <<rewChainVars, stored, publishing, rewStops>>
saveComputedEpoch ==
  /\ cycle.pc = "save"
  /\ \E entries \in {computeProportionalRewards(fetchEpochVotes(cycle.epoch), cycle.budget)} :
     \E tree \in {buildMerkleTree(entries, cycle.epoch)} :
       stored' = (cycle.epoch :> [root |-> tree.root, total |-> TotalReward(entries), published |-> FALSE,
                                  proposal |-> 0,
                                  claims |-> [i \in DOMAIN entries |-> entries[i] @@ [proof |-> tree.proofs[i]]]])
                 @@ stored
  /\ Goto("decide")
  /\ UNCHANGED <<rewChainVars, publishing, rewStops>>

markEpochPublished(e) == stored' = [stored EXCEPT ![e].published = TRUE]
\* An epoch that was finalized when it was read is marked, whatever its root;
\* another one is published.
Decide ==
  /\ cycle.pc = "decide"
  /\ IF cycle.finalized
     THEN markEpochPublished(cycle.epoch) /\ NextEpoch
     ELSE Goto(CASE rewAdmin = "relayer" -> "publish"
                 [] rewAdmin = "governor" -> "pending"
                 [] OTHER -> "roll")
              /\ UNCHANGED stored
  /\ UNCHANGED <<rewChainVars, publishing, rewStops>>

\* publishEpochRoot, as the contract's admin; a call that fails ends the cycle
\* (RewStop).
publishEpochRoot ==
  /\ cycle.pc = "publish"
  /\ LET e == cycle.epoch
     IN  PublishAllowed(e, stored[e].total) /\ publish_epoch_root(e, stored[e].root, stored[e].total)
  /\ Goto("mark")
  /\ UNCHANGED <<rewAdmin, rewLedger, rewIndexed, rewVotes, stored, publishing, rewStops>>
MarkPublished ==
  /\ cycle.pc = "mark"
  /\ markEpochPublished(cycle.epoch) /\ NextEpoch
  /\ UNCHANGED <<rewChainVars, publishing, rewStops>>

\* findUnresolvedPublishProposal: an open proposal ends the cycle's loop.
findUnresolvedPublishProposal ==
  /\ cycle.pc = "pending"
  /\ LET p == stored[cycle.epoch].proposal
     IN  Goto(IF p > 0 /\ publishing[p].state = "open" THEN "roll" ELSE "propose")
  /\ UNCHANGED <<rewChainVars, stored, publishing, rewStops>>
ProposePublish ==
  /\ cycle.pc = "propose" /\ Len(publishing) < MaxPublishProposals
  /\ publishing' = Append(publishing, [epoch |-> cycle.epoch, root |-> stored[cycle.epoch].root,
                                       total |-> stored[cycle.epoch].total, state |-> "open"])
  /\ cycle' = [cycle EXCEPT !.pc = "record", !.proposal = Len(publishing')]
  /\ UNCHANGED <<rewChainVars, stored, rewStops>>
recordPublishProposal ==
  /\ cycle.pc = "record"
  /\ stored' = [stored EXCEPT ![cycle.epoch].proposal = cycle.proposal]
  /\ NextEpoch
  /\ UNCHANGED <<rewChainVars, publishing, rewStops>>

\* maybeRollEpoch ends the cycle; a refused start_next_epoch is only logged.
maybeRollEpoch ==
  /\ cycle.pc = "roll"
  /\ epochs' = IF cycle.height >= epochs[cycle.current].end /\ rewLedger >= epochs[Len(epochs)].end
                  /\ epochs[Len(epochs)].end < LastRewardLedger
               THEN Append(epochs, NewEpoch(epochs[Len(epochs)].end)) ELSE epochs
  /\ cycle' = IdleCycle
  /\ UNCHANGED <<rewAdmin, rewLedger, rewIndexed, rewVotes, available, stored, publishing, rewStops>>

\* The process stops, or a call fails, between two steps of a cycle.
RewStop ==
  /\ cycle.pc # "idle" /\ rewStops < MaxRewardStops
  /\ rewStops' = rewStops + 1
  /\ cycle' = IdleCycle
  /\ UNCHANGED <<rewChainVars, stored, publishing>>

RewNext ==
  \/ RewCloseLedger \/ RewIndex \/ \E v \in RewardVoters : RewVote(v, RewardWeight[v])
  \/ \E p \in DOMAIN publishing : RewResolve(p)
  \/ RewTick \/ RunEpoch \/ ReadPool \/ saveComputedEpoch \/ Decide \/ publishEpochRoot \/ MarkPublished
  \/ findUnresolvedPublishProposal \/ ProposePublish \/ recordPublishProposal \/ maybeRollEpoch \/ RewStop

---------------------------------------------------------------------------
\* Every vote of an epoch earns: once an epoch is finalized the backend has, for
\* each voter with a share in the epoch's complete votes, a proof of that share
\* that the contract accepts, and the shares add up to what was allocated
\* (computeEpoch, buildMerkleTree, publishEpochRoot).
AllVotes(e) == {[voter |-> x.voter, weight |-> x.weight] :
                  x \in {y \in rewVotes : y.ledger >= epochs[e].start /\ y.ledger < epochs[e].end}}
Accepted(e, c) == verifyProof(computeLeaf(c.address, e, c.amount), c.proof, epochs[e].root)
ClaimableShares ==
  \A e \in DOMAIN epochs : epochs[e].finalized =>
    /\ e \in DOMAIN stored
    /\ \A i \in DOMAIN stored[e].claims : Accepted(e, stored[e].claims[i])
    /\ \E b \in 0..EPOCH_BUDGET :
         [i \in DOMAIN stored[e].claims |-> [address |-> stored[e].claims[i].address, amount |-> stored[e].claims[i].amount]]
           = computeProportionalRewards(AllVotes(e), b)
    /\ TotalReward(stored[e].claims) = epochs[e].total

\* An epoch's publication is executed once: after it the job moves on.
PublishedAtMostOnce ==
  \A e \in DOMAIN epochs : Cardinality({p \in DOMAIN publishing : publishing[p].epoch = e /\ publishing[p].state = "executed"}) <= 1
=============================================================================
