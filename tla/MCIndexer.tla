------------------------------ MODULE MCIndexer ------------------------------
EXTENDS Indexer

\* An event in the form its handler was written for, which is that of every
\* contract's events but those told apart by Struct and OneTopic.
Ev(n, ledger, contract, topic, d) ==
  [id |-> n, ledger |-> ledger, contract |-> contract, topic |-> topic, topics |-> 2, form |-> "tuple", d |-> d]
Struct(e) == [e EXCEPT !.form = "struct"]
OneTopic(e) == [e EXCEPT !.topics = 1]
Prop(a) == [id |-> "p1", proposer |-> a]
Vote(v, s, w) == [id |-> "p1", voter |-> v, support |-> s, weight |-> w]
Move(f) == [delegator |-> "ann", from |-> f, to |-> "bob"]

\* The governor's events as tuples, as the indexer's tests publish them.
GovChain ==
  << Ev(1, 1, "governor", "prop_crtd", Prop("ann")),
     Ev(2, 1, "governor", "vote", Vote("bob", 1, 2)),
     Ev(3, 2, "governor", "ProposalQueued", [id |-> "p1"]) >>
VoteChain ==
  << Ev(1, 1, "governor", "ProposalCreated", Prop("ann")),
     Ev(2, 2, "governor", "VoteCastWithReason", Vote("ann", 0, 1)),
     Ev(3, 2, "tokenVotes", "del_chsh", Move("cy")) >>
StateChain ==
  << Ev(1, 1, "governor", "ProposalCreated", Prop("ann")),
     Ev(2, 1, "governor", "ProposalExecuted", [id |-> "p1"]),
     Ev(3, 2, "governor", "ProposalCancelled", [id |-> "p1"]) >>

\* The events as the contracts publish them, a vote whose proposal was created
\* before the indexer's first ledger, a cancellation without an id.
Created == Struct(Ev(1, 1, "governor", "ProposalCreated", Prop("ann")))
PublishedVote ==
  << Created, Struct(Ev(2, 1, "governor", "VoteCast", Vote("bob", 1, 2))),
     OneTopic(Struct(Ev(3, 2, "governor", "ProposalExecuted", [id |-> "p1"]))) >>
PublishedReason == << Created, OneTopic(Struct(Ev(2, 2, "governor", "VoteCastWithReason", Vote("bob", 1, 2)))) >>
PublishedQueue ==
  << Created, OneTopic(Struct(Ev(2, 2, "governor", "ProposalQueued", [id |-> "p1"]))),
     OneTopic(Struct(Ev(3, 2, "governor", "ProposalExecuted", [id |-> "p1"]))) >>
PublishedExecution == << Created, OneTopic(Struct(Ev(2, 2, "governor", "ProposalExecuted", [id |-> "p1"]))) >>
PublishedTransfer ==
  << OneTopic(Ev(1, 1, "treasury", "bat_xfer", [hash |-> "h", amount |-> 2])),
     Ev(2, 2, "treasury", "stream_created", [stream |-> "t1"]) >>
FirstDelegation ==
  << Ev(1, 1, "tokenVotes", "DelegateChanged", Move("null")), Ev(2, 2, "tokenVotes", "DelegateChanged", Move("cy")) >>
OrphanVote ==
  << Ev(1, 1, "governor", "VoteCast", Vote("bob", 1, 2)), Ev(2, 2, "governor", "ProposalCreated", Prop("ann")) >>
BadChain == << Created, Ev(2, 2, "governor", "ProposalCancelled", [none |-> 0]) >>
SettingsChain ==
  << Ev(1, 1, "governor", "config_updated", [parses |-> TRUE, settings |-> "s"]),
     Ev(2, 1, "governor", "ConfigUpdated", [parses |-> FALSE]),
     Ev(3, 2, "governor", "upgraded", [hash |-> "h"]),
     Ev(4, 2, "governor", "EffectiveThresholdChanged", [proposer |-> "ann", new |-> 3]) >>
ReputationChain ==
  << Ev(1, 1, "governor", "ReputationUpdated", [proposer |-> "ann", old |-> 0, new |-> 5]),
     Ev(2, 2, "governor", "ReputationUpdated", [proposer |-> "ann", old |-> 5, new |-> 4]) >>
DelegationChain ==
  << Ev(1, 1, "tokenVotes", "DelegationRegistered", [delegator |-> "ann", to |-> "bob", power |-> 2]),
     Ev(2, 1, "tokenVotes", "SplitDelegated",
        [delegator |-> "ann", splits |-> <<[to |-> "bob", bps |-> 6000], [to |-> "cy", bps |-> 4000]>>]),
     Ev(3, 2, "tokenVotes", "SplitUndelegated", [delegator |-> "ann"]) >>
RevokedChain ==
  << Ev(1, 1, "tokenVotes", "DelegationRegistered", [delegator |-> "ann", to |-> "bob", power |-> 2]),
     Ev(2, 2, "tokenVotes", "DelegationRevoked", [delegator |-> "ann", to |-> "bob"]) >>
RelayerChain ==
  << Ev(1, 1, "tokenVotes", "RelayerWhitelistUpdated", [relayer |-> "rel", whitelisted |-> TRUE]),
     Ev(2, 1, "tokenVotes", "DelegatedBySig", [delegator |-> "ann", relayer |-> "rel", nonce |-> 1]),
     Ev(3, 2, "tokenVotes", "PermitsInvalidated", [none |-> 0]),
     Ev(4, 2, "tokenVotes", "DelegationDepthLimitUpdated", [none |-> 0]) >>
WrapperChain ==
  << Ev(1, 1, "wrapper", "deposit", [account |-> "ann", amount |-> 2]),
     Ev(2, 2, "wrapper", "Withdraw", [account |-> "ann", amount |-> 1]),
     Ev(3, 2, "wrapper", "DelegateChanged", Move("cy")) >>
Stake(p, n) == [id |-> p, staker |-> "ann", amount |-> n]
ConvictionChain ==
  << Ev(1, 1, "conviction", "ProposalCreated", [id |-> "c1"]), Ev(2, 1, "conviction", "StakeUpdated", Stake("c1", 2)),
     Ev(3, 1, "conviction", "ConvictionUpdated", [id |-> "c1", conviction |-> 7]),
     Ev(4, 1, "conviction", "StakeUpdated", Stake("c1", 0)), Ev(5, 2, "conviction", "ProposalExecuted", [id |-> "c1"]) >>
RestakeChain ==
  << Ev(1, 1, "conviction", "ProposalCreated", [id |-> "c1"]), Ev(2, 1, "conviction", "ProposalCreated", [id |-> "c2"]),
     Ev(3, 1, "conviction", "StakeUpdated", Stake("c1", 2)), Ev(4, 1, "conviction", "StakeUpdated", Stake("c2", 2)),
     Ev(5, 2, "conviction", "ProposalCancelled", [id |-> "c1"]) >>
OptimisticChain ==
  << Ev(1, 1, "optimistic", "ProposalCreated", [id |-> "o1"]),
     Ev(2, 1, "optimistic", "ObjectionCast", [id |-> "o1", objector |-> "ann", weight |-> 2, total |-> 2]),
     Ev(3, 2, "optimistic", "ProposalObjected", [id |-> "o1"]),
     Ev(4, 2, "optimistic", "ProposalCancelled", [id |-> "o1"]) >>
PassedChain ==
  << Ev(1, 1, "optimistic", "ProposalCreated", [id |-> "o1"]), Ev(2, 1, "optimistic", "ProposalPassed", [id |-> "o1"]),
     Ev(3, 2, "optimistic", "ProposalExecuted", [id |-> "o1"]) >>
Sponsor(t) == [id |-> "d1", sponsor |-> "bob", power |-> 2, total |-> t]
DraftChain ==
  << Ev(1, 1, "coSponsorship", "DraftCreated", [id |-> "d1", creator |-> "ann"]),
     Ev(2, 1, "coSponsorship", "CoSponsored", Sponsor(2)), Ev(3, 1, "coSponsorship", "CoSponsorshipWithdrawn", Sponsor(0)),
     Ev(4, 2, "coSponsorship", "DraftFinalized", [id |-> "d1"]) >>
ClosedDraftChain ==
  << Ev(1, 1, "coSponsorship", "DraftCreated", [id |-> "d1", creator |-> "ann"]),
     Ev(2, 2, "coSponsorship", "DraftCancelled", [id |-> "d1"]), Ev(3, 2, "coSponsorship", "DraftExpired", [id |-> "d1"]) >>
BondChain ==
  << Ev(1, 1, "proposalBonds", "BondLocked", [hash |-> "h1", proposer |-> "ann"]),
     Ev(2, 1, "proposalBonds", "BondRefunded", [hash |-> "h1"]),
     Ev(3, 2, "proposalBonds", "BondLocked", [hash |-> "h2", proposer |-> "ann"]),
     Ev(4, 2, "proposalBonds", "BondSlashed", [hash |-> "h2"]) >>
AnchorChain ==
  << Ev(1, 1, "signalAnchor", "ResultAnchored", [id |-> "s1", hash |-> "h"]),
     Ev(2, 2, "treasuryStrategies", "StratReg", [id |-> "y1"]) >>
EscrowChain ==
  << Ev(1, 1, "voteEscrow", "LockCreated", [owner |-> "ann", amount |-> 2]),
     Ev(2, 1, "voteEscrow", "LockWithdrawn", [owner |-> "ann"]),
     Ev(3, 2, "voteEscrow", "LockCreated", [owner |-> "ann", amount |-> 3]),
     Ev(4, 2, "voteEscrow", "Unknown", [owner |-> ""]) >>
StreamChain ==
  << Ev(1, 1, "treasury", "stream_created", [stream |-> "t1"]), Ev(2, 2, "treasury", "stream_spend", [stream |-> "t1"]) >>
TransferChain ==
  << Ev(1, 1, "treasury", "bat_xfer", [hash |-> "h", amount |-> 2]),
     Ev(2, 1, "liquidity", "LiquidityAdded", [account |-> "ann", amount |-> 2]),
     Ev(3, 1, "liquidity", "Swap", [account |-> "ann", amount |-> 1]),
     Ev(4, 1, "liquidity", "LiquidityRemoved", [account |-> "ann", amount |-> 1]),
     Ev(5, 2, "liquidity", "PoolFeeUpdated", [fee |-> 3]) >>
Op(r) == [op |-> "x", ready |-> r]
OpsChain ==
  << Ev(1, 1, "timelock", "OperationScheduled", Op(5)), Ev(2, 1, "timelock", "OperationCancelled", Op(0)),
     Ev(3, 1, "timelock", "OperationScheduled", Op(6)), Ev(4, 1, "timelock", "OperationExecuted", Op(0)),
     Ev(5, 2, "timelock", "MinDelayUpdated", [none |-> 0]) >>
BOp == [batch |-> "b1", ready |-> 5, total |-> 2, completed |-> 1, retries |-> 1, ok |-> TRUE]
BatchChain ==
  << Ev(1, 1, "timelock", "BatchOperationScheduled", BOp), Ev(2, 1, "timelock", "BatchOperationExecuted", BOp),
     Ev(3, 1, "timelock", "DependencyDagValidated", BOp), Ev(4, 1, "timelock", "CycleDetected", BOp),
     Ev(5, 2, "timelock", "BatchOperationCancelled", BOp) >>
PartialChain ==
  << Ev(1, 1, "timelock", "PartialBatchStarted", BOp), Ev(2, 1, "timelock", "PartialOpSucceeded", BOp),
     Ev(3, 2, "timelock", "PartialOpFailed", BOp), Ev(4, 2, "timelock", "BatchRecoveryEntered", BOp) >>
RecoveryChain ==
  << Ev(1, 1, "timelock", "PartialBatchStarted", BOp), Ev(2, 1, "timelock", "FailedOpRetried", BOp),
     Ev(3, 2, "timelock", "FailedOpSkipped", BOp), Ev(4, 2, "timelock", "BatchFullyComplete", BOp) >>

\* A quiet scenario has one failed call; a rough one a crash too and two batches in flight.
Quiet(chn, route) == [chain |-> chn, watched |-> route, batches |-> 1, faults |-> 1, crashes |-> 0]
Rough(chn, route) == [chain |-> chn, watched |-> route, batches |-> 2, faults |-> 0, crashes |-> 0]
Crashing(chn, route) == [chain |-> chn, watched |-> route, batches |-> 1, faults |-> 1, crashes |-> 1]

MCScenarios ==
  {Quiet(VoteChain, getTopVoters), Quiet(StateChain, getProposals), Quiet(BadChain, getProfile("ann")),
   Quiet(SettingsChain, getConfigHistory), Quiet(ReputationChain, getReputation("ann")),
   Quiet(DelegationChain, getSplitsOut("ann")), Quiet(RelayerChain, getRelayers), Quiet(WrapperChain, getProfile("ann")),
   Quiet(ConvictionChain, getConvictionStakes("c1")), Quiet(RestakeChain, getStaker("ann")),
   Quiet(OptimisticChain, getObjections("o1")), Quiet(PassedChain, getOptimisticProposal("o1")),
   Quiet(DraftChain, getDrafts), Quiet(ClosedDraftChain, getDraft("d1")), Quiet(BondChain, getProposalBonds),
   Quiet(AnchorChain, getSignalAnchor("s1")), Quiet(EscrowChain, getLocks), Quiet(TransferChain, getTreasuryTransfers),
   Quiet(OpsChain, getTimelockOperation("x")), Quiet(BatchChain, getTimelockBatch("b1")),
   Quiet(PartialChain, getTimelockPartialState("b1")), Quiet(RecoveryChain, getConfigHistory),
   Quiet(RevokedChain, getDelegates), Quiet(PublishedVote, getProposals), Quiet(PublishedReason, getProposalVotes("p1")),
   Quiet(PublishedQueue, getProposals), Quiet(PublishedExecution, getProposals),
   Quiet(PublishedTransfer, getTreasuryTransfers), Quiet(FirstDelegation, getDelegates),
   Quiet(OrphanVote, getProposalVotes("p1")),
   Crashing(GovChain, getProposalVotes("p1")), Rough(StreamChain, getConfigHistory), Crashing(StreamChain, getStreamEvents("t1"))}
MCPublished == {Quiet(PublishedVote, getProposals)}

\* In every scenario a page ends with a ledger, as LogComplete needs.
ASSUME PagesAreWhole == WholePages
=============================================================================
