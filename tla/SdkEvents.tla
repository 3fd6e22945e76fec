----------------------------- MODULE SdkEvents -----------------------------
(***************************************************************************)
(* The events the contracts emit and the SDK's readers for them.  An event *)
(* has a topic and a value: a record, of which a reader needs the numbers, *)
(* an array, of which it needs a length and the numbers at some places, or *)
(* a single value.  A reader is the set of the shapes it accepts; on any   *)
(* other event it answers null.                                            *)
(***************************************************************************)
EXTENDS Integers, FiniteSets, Functions

Event(topic, shape, length, numbers) == [topic |-> topic, shape |-> shape, length |-> length, numbers |-> numbers]
Record(topic, fields) == Event(topic, "record", 0, fields)
Array(topic, length, places) == Event(topic, "array", length, places)
Single(topic, number) == Event(topic, "single", 0, IF number THEN {"value"} ELSE {})
Anything(topic) == Event(topic, "any", 0, {})

(* The value has the shape, at least the length, and numbers where numbers are needed. *)
Fits(e, wanted) ==
  /\ e.topic = wanted.topic /\ wanted.shape \in {"any", e.shape}
  /\ e.length >= wanted.length /\ wanted.numbers \subseteq e.numbers
Reads(reader, e) == \E wanted \in reader : Fits(e, wanted)

(***************************************************************************)
(* The topics, by the name the SDK has for them.                           *)
(***************************************************************************)
TOPICS ==
  [proposalCreated |-> "ProposalCreated", voteCast |-> "VoteCast",
   voteCastWithReason |-> "VoteCastWithReason", proposalQueued |-> "ProposalQueued",
   proposalExecuted |-> "ProposalExecuted", proposalCancelled |-> "ProposalCancelled",
   proposalExpired |-> "ProposalExpired", governorUpgraded |-> "GovernorUpgraded",
   configUpdated |-> "ConfigUpdated", paused |-> "Paused", unpaused |-> "Unpaused",
   reputationUpdated |-> "ReputationUpdated", effectiveThresholdChanged |-> "EffectiveThresholdChanged",
   legacyProposalCreated |-> "prop_crtd", legacyVoteCast |-> "vote", legacyProposalExecuted |-> "execute"]
COSPONSOR_TOPICS ==
  [draftCreated |-> "DraftCreated", coSponsored |-> "CoSponsored",
   coSponsorshipWithdrawn |-> "CoSponsorshipWithdrawn", draftFinalized |-> "DraftFinalized",
   draftCancelled |-> "DraftCancelled", draftExpired |-> "DraftExpired"]
DELEGATION_SIG_TOPICS ==
  [delegatedBySig |-> "DelegatedBySig", permitsInvalidated |-> "PermitsInvalidated",
   relayerWhitelistUpdated |-> "RelayerWhitelistUpdated"]
STREAM_TOPICS ==
  [streamCreated |-> "stream_created", streamSpend |-> "stream_spend",
   streamBatchSpend |-> "stream_batch", streamRevoked |-> "stream_revoked",
   streamExtended |-> "stream_extended", streamToppedUp |-> "stream_topped_up",
   streamExhausted |-> "stream_exhausted", streamExpired |-> "stream_expired"]
TIMELOCK_TOPICS ==
  [operationScheduled |-> "OperationScheduled", operationExecuted |-> "OperationExecuted",
   operationCancelled |-> "OperationCancelled", batchOperationScheduled |-> "BatchOperationScheduled",
   batchOperationExecuted |-> "BatchOperationExecuted",
   batchOperationCancelled |-> "BatchOperationCancelled", minDelayUpdated |-> "MinDelayUpdated",
   dependencyDagValidated |-> "DependencyDagValidated", cycleDetected |-> "CycleDetected",
   partialBatchStarted |-> "PartialBatchStarted", partialOpSucceeded |-> "PartialOpSucceeded",
   partialOpFailed |-> "PartialOpFailed", batchRecoveryEntered |-> "BatchRecoveryEntered",
   failedOpRetried |-> "FailedOpRetried", failedOpSkipped |-> "FailedOpSkipped",
   batchFullyComplete |-> "BatchFullyComplete"]
SIGNAL_ANCHOR_TOPICS ==
  [resultAnchored |-> "ResultAnchored"]
VOTE_ESCROW_TOPICS ==
  [lockCreated |-> "LockCreated", lockIncreased |-> "LockIncreased", lockExtended |-> "LockExtended",
   lockWithdrawn |-> "LockWithdrawn"]
VOTING_REWARDS_TOPICS ==
  [epochStarted |-> "EpochStarted", epochRootPublished |-> "EpochRootPublished",
   rewardClaimed |-> "RewardClaimed", poolFunded |-> "PoolFunded"]

(***************************************************************************)
(* The readers, by the part of the file they stand in.  Two older shapes are*)
(* read as well: arrays under the short topics of the first contracts.     *)
(***************************************************************************)
toGovernorSettings == {"voting_delay", "voting_period", "quorum_numerator", "proposal_threshold", "proposal_grace_period"}
(* No contract emits this one. *)
vetoReaders ==
  [parseProposalVetoedEvent |-> {Array("veto", 3, {"1", "2", "3"})}]
proposalReaders ==
  [parseProposalCreatedEvent |->
      {Record(TOPICS.proposalCreated, {"proposal_id", "start_ledger", "end_ledger"}), Array(TOPICS.legacyProposalCreated, 7, {"1", "6", "7"})},
   parseVoteCastEvent |->
      {Record(TOPICS.voteCast, {"proposal_id", "support", "weight"}), Array(TOPICS.legacyVoteCast, 3, {"1", "3"})},
   parseVoteCastWithReasonEvent |-> {Record(TOPICS.voteCastWithReason, {"proposal_id", "support", "weight"})},
   parseProposalQueuedEvent |->
      {Record(TOPICS.proposalQueued, {"proposal_id", "eta"}), Array(TOPICS.proposalQueued, 0, {"1", "2"})},
   parseProposalExecutedEvent |->
      {Record(TOPICS.proposalExecuted, {"proposal_id"}), Single(TOPICS.legacyProposalExecuted, TRUE)}]
governorReaders ==
  [parseProposalCancelledEvent |-> {Record(TOPICS.proposalCancelled, {"proposal_id"})},
   parseProposalExpiredEvent |-> {Record(TOPICS.proposalExpired, {"proposal_id", "expired_at_ledger"})},
   parseGovernorUpgradedEvent |-> {Record(TOPICS.governorUpgraded, {})},
   parseConfigUpdatedEvent |-> {Record(TOPICS.configUpdated, toGovernorSettings)}]
moderationReaders ==
  [parseReputationUpdatedEvent |-> {Record(TOPICS.reputationUpdated, {"old_score", "new_score"})},
   parseEffectiveThresholdChangedEvent |->
      {Record(TOPICS.effectiveThresholdChanged, {"old_threshold", "new_threshold"})},
   parsePauseEvent |-> {Record(TOPICS.paused, {"ledger"})},
   parseUnpauseEvent |-> {Record(TOPICS.unpaused, {"ledger"})}]
coSponsorshipReaders ==
  [parseDraftCreatedEvent |->
      {Record(COSPONSOR_TOPICS.draftCreated, {"draft_id", "created_ledger", "expiry_ledger"})},
   parseCoSponsoredEvent |-> {Array(COSPONSOR_TOPICS.coSponsored, 3, {"1", "2", "3"})},
   parseCoSponsorshipWithdrawnEvent |-> {Array(COSPONSOR_TOPICS.coSponsorshipWithdrawn, 3, {"1", "2", "3"})},
   parseDraftFinalizedEvent |-> {Array(COSPONSOR_TOPICS.draftFinalized, 2, {"1", "2"})},
   parseDraftCancelledEvent |-> {Array(COSPONSOR_TOPICS.draftCancelled, 2, {"1"})},
   parseDraftExpiredEvent |-> {Array(COSPONSOR_TOPICS.draftExpired, 2, {"1", "2"})}]
permitReaders ==
  [parseDelegatedBySigEvent |-> {Record(DELEGATION_SIG_TOPICS.delegatedBySig, {"nonce"})},
   parsePermitsInvalidatedEvent |-> {Record(DELEGATION_SIG_TOPICS.permitsInvalidated, {"new_nonce"})},
   parseRelayerWhitelistUpdatedEvent |-> {Record(DELEGATION_SIG_TOPICS.relayerWhitelistUpdated, {})}]
streamReaders ==
  [parseStreamCreatedEvent |-> {Array(STREAM_TOPICS.streamCreated, 3, {"1"})},
   parseStreamSpendEvent |-> {Array(STREAM_TOPICS.streamSpend, 3, {"1", "3"})},
   parseStreamBatchSpendEvent |-> {Array(STREAM_TOPICS.streamBatchSpend, 3, {"1", "2", "3"})},
   parseStreamRevokedEvent |-> {Array(STREAM_TOPICS.streamRevoked, 3, {"1", "3"})},
   parseStreamExtendedEvent |-> {Array(STREAM_TOPICS.streamExtended, 3, {"1", "2", "3"})},
   parseStreamToppedUpEvent |-> {Array(STREAM_TOPICS.streamToppedUp, 3, {"1", "2", "3"})},
   parseStreamExhaustedEvent |-> {Single(STREAM_TOPICS.streamExhausted, TRUE)},
   parseStreamExpiredEvent |-> {Array(STREAM_TOPICS.streamExpired, 2, {"1", "2"})}]
timelockReaders ==
  [parseOperationScheduledEvent |-> {Record(TIMELOCK_TOPICS.operationScheduled, {"ready_at", "expires_at"})},
   parseOperationExecutedEvent |-> {Record(TIMELOCK_TOPICS.operationExecuted, {})},
   parseOperationCancelledEvent |-> {Record(TIMELOCK_TOPICS.operationCancelled, {})},
   parseBatchOperationScheduledEvent |->
      {Record(TIMELOCK_TOPICS.batchOperationScheduled, {"ready_at", "expires_at"})},
   parseBatchOperationExecutedEvent |-> {Record(TIMELOCK_TOPICS.batchOperationExecuted, {})},
   parseBatchOperationCancelledEvent |-> {Record(TIMELOCK_TOPICS.batchOperationCancelled, {})},
   parseMinDelayUpdatedEvent |-> {Record(TIMELOCK_TOPICS.minDelayUpdated, {"old_delay", "new_delay"})}]
batchReaders ==
  [parseDependencyDagValidatedEvent |-> {Array(TIMELOCK_TOPICS.dependencyDagValidated, 2, {"2"})},
   parseCycleDetectedEvent |-> {Array(TIMELOCK_TOPICS.cycleDetected, 0, {})},
   parsePartialBatchStartedEvent |-> {Array(TIMELOCK_TOPICS.partialBatchStarted, 2, {"2"})},
   parsePartialOpSucceededEvent |-> {Array(TIMELOCK_TOPICS.partialOpSucceeded, 4, {"3", "4"})},
   parsePartialOpFailedEvent |-> {Array(TIMELOCK_TOPICS.partialOpFailed, 2, {})},
   parseBatchRecoveryEnteredEvent |-> {Array(TIMELOCK_TOPICS.batchRecoveryEntered, 2, {"2"})},
   parseFailedOpRetriedEvent |-> {Array(TIMELOCK_TOPICS.failedOpRetried, 4, {"3"})},
   parseFailedOpSkippedEvent |-> {Array(TIMELOCK_TOPICS.failedOpSkipped, 2, {})},
   parseBatchFullyCompleteEvent |-> {Anything(TIMELOCK_TOPICS.batchFullyComplete)}]
anchorReaders ==
  [parseResultAnchoredEvent |-> {Array(SIGNAL_ANCHOR_TOPICS.resultAnchored, 3, {"1", "3"})}]
lockReaders ==
  [parseLockCreatedEvent |->
      {Record(VOTE_ESCROW_TOPICS.lockCreated, {"amount", "end_ledger", "initial_voting_power"})},
   parseLockIncreasedEvent |-> {Record(VOTE_ESCROW_TOPICS.lockIncreased, {"added_amount", "new_voting_power"})},
   parseLockExtendedEvent |-> {Record(VOTE_ESCROW_TOPICS.lockExtended, {"old_end_ledger", "new_end_ledger"})},
   parseLockWithdrawnEvent |-> {Record(VOTE_ESCROW_TOPICS.lockWithdrawn, {"amount"})}]
(* Place "0" is the second topic, which carries the epoch. *)
rewardReaders ==
  [parseEpochStartedEvent |-> {Array(VOTING_REWARDS_TOPICS.epochStarted, 2, {"0", "1", "2"})},
   parseEpochRootPublishedEvent |-> {Array(VOTING_REWARDS_TOPICS.epochRootPublished, 2, {"0", "2"})},
   parseRewardClaimedEvent |-> {Array(VOTING_REWARDS_TOPICS.rewardClaimed, 2, {"1", "2"})},
   parsePoolFundedEvent |-> {Single(VOTING_REWARDS_TOPICS.poolFunded, TRUE)}]

(* What the contracts emit, with the numbers in it. *)
GovernorEvents ==
  {Record("ProposalCreated", {"proposal_id", "start_ledger", "end_ledger"}),
   Record("VoteCast", {"proposal_id", "support", "weight"}),
   Record("VoteCastWithReason", {"proposal_id", "support", "weight"}),
   Record("ProposalQueued", {"proposal_id", "eta"}), Record("ProposalExecuted", {"proposal_id"}),
   Record("ProposalCancelled", {"proposal_id"}),
   Record("ProposalExpired", {"proposal_id", "expired_at_ledger"}), Record("GovernorUpgraded", {}),
   Record("ConfigUpdated", {"voting_delay", "voting_period", "quorum_numerator", "proposal_threshold", "proposal_grace_period"}),
   Record("GuardianChanged", {}), Record("Paused", {"ledger"}), Record("Unpaused", {"ledger"}),
   Array("PauserChanged", 2, {}), Record("ReputationUpdated", {"old_score", "new_score"}),
   Record("EffectiveThresholdChanged", {"old_threshold", "new_threshold"}),
   Array("VoteCommitted", 2, {"1"}), Array("VoteRevealed", 3, {"1", "2", "3"}),
   Array("CommitPhaseStarted", 2, {"0", "1", "2"})}
TimelockEvents ==
  {Record("OperationScheduled", {"ready_at", "expires_at"}), Record("OperationExecuted", {}),
   Record("OperationCancelled", {}), Record("BatchOperationScheduled", {"ready_at", "expires_at"}),
   Record("BatchOperationExecuted", {}), Record("BatchOperationCancelled", {}),
   Record("MinDelayUpdated", {"old_delay", "new_delay"}), Array("DependencyDagValidated", 2, {"2"}),
   Array("CycleDetected", 0, {}), Array("PartialBatchStarted", 2, {"2"}),
   Array("PartialOpSucceeded", 4, {"3", "4"}), Array("PartialOpFailed", 2, {}),
   Array("BatchRecoveryEntered", 2, {"2"}), Array("FailedOpRetried", 4, {"3"}),
   Array("FailedOpSkipped", 2, {}), Single("BatchFullyComplete", FALSE)}
TokenVotesEvents ==
  {Record("DelegatedBySig", {"nonce"}), Record("PermitsInvalidated", {"new_nonce"}),
   Record("RelayerWhitelistUpdated", {})}
CoSponsorshipEvents ==
  {Record("DraftCreated", {"draft_id", "created_ledger", "expiry_ledger"}),
   Array("CoSponsored", 3, {"1", "2", "3"}), Array("CoSponsorshipWithdrawn", 3, {"1", "2", "3"}),
   Array("DraftFinalized", 2, {"1", "2"}), Array("DraftCancelled", 2, {"1"}),
   Array("DraftExpired", 2, {"1", "2"})}
StreamEvents ==
  {Array("stream_created", 3, {"1"}), Array("stream_spend", 3, {"1", "3"}),
   Array("stream_batch", 3, {"1", "2", "3"}), Array("stream_revoked", 3, {"1", "3"}),
   Array("stream_extended", 3, {"1", "2", "3"}), Array("stream_topped_up", 3, {"1", "2", "3"}),
   Single("stream_exhausted", TRUE)}
SignalAnchorEvents ==
  {Array("ResultAnchored", 3, {"1", "3"})}
VoteEscrowEvents ==
  {Record("LockCreated", {"amount", "end_ledger", "initial_voting_power"}),
   Record("LockIncreased", {"added_amount", "new_voting_power"}),
   Record("LockExtended", {"old_end_ledger", "new_end_ledger"}), Record("LockWithdrawn", {"amount"})}
VotingRewardsEvents ==
  {Array("EpochStarted", 2, {"0", "1", "2"}), Array("EpochRootPublished", 2, {"0", "2"}),
   Array("RewardClaimed", 2, {"1", "2"}), Single("PoolFunded", TRUE), Single("EpochSwept", TRUE),
   Single("AdminSet", FALSE), Single("EpochDurationUpdated", TRUE)}
ContractEvents ==
  UNION {GovernorEvents, TimelockEvents, TokenVotesEvents, CoSponsorshipEvents, StreamEvents,
         SignalAnchorEvents, VoteEscrowEvents, VotingRewardsEvents}

(***************************************************************************)
(* The subscriptions: a topic, the reader of its events, and whether the   *)
(* subscription itself reads them to keep those of one proposal.  Only the *)
(* reader's verdict on what the contracts emit matters to the subscription.*)
(***************************************************************************)
Subscription(topic, reader, filtered) ==
  [readable |-> \A e \in ContractEvents : e.topic = topic => Reads(reader, e), filtered |-> filtered]
proposalSubscriptions ==
  [subscribeToProposals |->
      Subscription(TOPICS.proposalCreated, proposalReaders.parseProposalCreatedEvent, FALSE),
   subscribeToVotes |-> Subscription(TOPICS.voteCast, proposalReaders.parseVoteCastEvent, TRUE),
   subscribeToVoteCastWithReason |->
      Subscription(TOPICS.voteCastWithReason, proposalReaders.parseVoteCastWithReasonEvent, TRUE)]
governorSubscriptions ==
  [subscribeToProposalQueued |->
      Subscription(TOPICS.proposalQueued, proposalReaders.parseProposalQueuedEvent, FALSE),
   subscribeToProposalExecuted |->
      Subscription(TOPICS.proposalExecuted, proposalReaders.parseProposalExecutedEvent, FALSE),
   subscribeToProposalCancelled |->
      Subscription(TOPICS.proposalCancelled, governorReaders.parseProposalCancelledEvent, FALSE),
   subscribeToProposalExpired |->
      Subscription(TOPICS.proposalExpired, governorReaders.parseProposalExpiredEvent, FALSE),
   subscribeToGovernorUpgraded |->
      Subscription(TOPICS.governorUpgraded, governorReaders.parseGovernorUpgradedEvent, FALSE),
   subscribeToConfigUpdated |->
      Subscription(TOPICS.configUpdated, governorReaders.parseConfigUpdatedEvent, FALSE)]
moderationSubscriptions ==
  [subscribeToReputationUpdated |->
      Subscription(TOPICS.reputationUpdated, moderationReaders.parseReputationUpdatedEvent, FALSE),
   subscribeToEffectiveThresholdChanged |->
      Subscription(TOPICS.effectiveThresholdChanged, moderationReaders.parseEffectiveThresholdChangedEvent, FALSE),
   subscribeToPauseEvents |-> Subscription(TOPICS.paused, moderationReaders.parsePauseEvent, FALSE),
   subscribeToUnpauseEvents |-> Subscription(TOPICS.unpaused, moderationReaders.parseUnpauseEvent, FALSE)]
coSponsorshipSubscriptions ==
  [subscribeToDraftCreated |->
      Subscription(COSPONSOR_TOPICS.draftCreated, coSponsorshipReaders.parseDraftCreatedEvent, FALSE),
   subscribeToCoSponsored |->
      Subscription(COSPONSOR_TOPICS.coSponsored, coSponsorshipReaders.parseCoSponsoredEvent, FALSE),
   subscribeToCoSponsorshipWithdrawn |->
      Subscription(COSPONSOR_TOPICS.coSponsorshipWithdrawn, coSponsorshipReaders.parseCoSponsorshipWithdrawnEvent, FALSE),
   subscribeToDraftFinalized |->
      Subscription(COSPONSOR_TOPICS.draftFinalized, coSponsorshipReaders.parseDraftFinalizedEvent, FALSE),
   subscribeToDraftCancelled |->
      Subscription(COSPONSOR_TOPICS.draftCancelled, coSponsorshipReaders.parseDraftCancelledEvent, FALSE),
   subscribeToDraftExpired |->
      Subscription(COSPONSOR_TOPICS.draftExpired, coSponsorshipReaders.parseDraftExpiredEvent, FALSE)]
permitSubscriptions ==
  [subscribeToDelegatedBySig |->
      Subscription(DELEGATION_SIG_TOPICS.delegatedBySig, permitReaders.parseDelegatedBySigEvent, FALSE),
   subscribeToPermitsInvalidated |->
      Subscription(DELEGATION_SIG_TOPICS.permitsInvalidated, permitReaders.parsePermitsInvalidatedEvent, FALSE),
   subscribeToRelayerWhitelistUpdated |->
      Subscription(DELEGATION_SIG_TOPICS.relayerWhitelistUpdated, permitReaders.parseRelayerWhitelistUpdatedEvent, FALSE)]
streamSubscriptions ==
  [subscribeToStreamCreated |->
      Subscription(STREAM_TOPICS.streamCreated, streamReaders.parseStreamCreatedEvent, FALSE),
   subscribeToStreamSpend |->
      Subscription(STREAM_TOPICS.streamSpend, streamReaders.parseStreamSpendEvent, FALSE),
   subscribeToStreamBatchSpend |->
      Subscription(STREAM_TOPICS.streamBatchSpend, streamReaders.parseStreamBatchSpendEvent, FALSE),
   subscribeToStreamRevoked |->
      Subscription(STREAM_TOPICS.streamRevoked, streamReaders.parseStreamRevokedEvent, FALSE),
   subscribeToStreamExtended |->
      Subscription(STREAM_TOPICS.streamExtended, streamReaders.parseStreamExtendedEvent, FALSE),
   subscribeToStreamToppedUp |->
      Subscription(STREAM_TOPICS.streamToppedUp, streamReaders.parseStreamToppedUpEvent, FALSE),
   subscribeToStreamExhausted |->
      Subscription(STREAM_TOPICS.streamExhausted, streamReaders.parseStreamExhaustedEvent, FALSE),
   subscribeToStreamExpired |->
      Subscription(STREAM_TOPICS.streamExpired, streamReaders.parseStreamExpiredEvent, FALSE)]
timelockSubscriptions ==
  [subscribeToOperationScheduled |->
      Subscription(TIMELOCK_TOPICS.operationScheduled, timelockReaders.parseOperationScheduledEvent, FALSE),
   subscribeToOperationExecuted |->
      Subscription(TIMELOCK_TOPICS.operationExecuted, timelockReaders.parseOperationExecutedEvent, FALSE),
   subscribeToOperationCancelled |->
      Subscription(TIMELOCK_TOPICS.operationCancelled, timelockReaders.parseOperationCancelledEvent, FALSE),
   subscribeToBatchOperationScheduled |->
      Subscription(TIMELOCK_TOPICS.batchOperationScheduled, timelockReaders.parseBatchOperationScheduledEvent, FALSE),
   subscribeToBatchOperationExecuted |->
      Subscription(TIMELOCK_TOPICS.batchOperationExecuted, timelockReaders.parseBatchOperationExecutedEvent, FALSE),
   subscribeToBatchOperationCancelled |->
      Subscription(TIMELOCK_TOPICS.batchOperationCancelled, timelockReaders.parseBatchOperationCancelledEvent, FALSE),
   subscribeToMinDelayUpdated |->
      Subscription(TIMELOCK_TOPICS.minDelayUpdated, timelockReaders.parseMinDelayUpdatedEvent, FALSE)]
batchSubscriptions ==
  [subscribeToDependencyDagValidated |->
      Subscription(TIMELOCK_TOPICS.dependencyDagValidated, batchReaders.parseDependencyDagValidatedEvent, FALSE),
   subscribeToCycleDetected |->
      Subscription(TIMELOCK_TOPICS.cycleDetected, batchReaders.parseCycleDetectedEvent, FALSE),
   subscribeToPartialBatchStarted |->
      Subscription(TIMELOCK_TOPICS.partialBatchStarted, batchReaders.parsePartialBatchStartedEvent, FALSE),
   subscribeToPartialOpSucceeded |->
      Subscription(TIMELOCK_TOPICS.partialOpSucceeded, batchReaders.parsePartialOpSucceededEvent, FALSE),
   subscribeToPartialOpFailed |->
      Subscription(TIMELOCK_TOPICS.partialOpFailed, batchReaders.parsePartialOpFailedEvent, FALSE),
   subscribeToBatchRecoveryEntered |->
      Subscription(TIMELOCK_TOPICS.batchRecoveryEntered, batchReaders.parseBatchRecoveryEnteredEvent, FALSE),
   subscribeToFailedOpRetried |->
      Subscription(TIMELOCK_TOPICS.failedOpRetried, batchReaders.parseFailedOpRetriedEvent, FALSE),
   subscribeToFailedOpSkipped |->
      Subscription(TIMELOCK_TOPICS.failedOpSkipped, batchReaders.parseFailedOpSkippedEvent, FALSE),
   subscribeToBatchFullyComplete |->
      Subscription(TIMELOCK_TOPICS.batchFullyComplete, batchReaders.parseBatchFullyCompleteEvent, FALSE)]
anchorSubscriptions ==
  [subscribeToResultAnchored |->
      Subscription(SIGNAL_ANCHOR_TOPICS.resultAnchored, anchorReaders.parseResultAnchoredEvent, FALSE)]
lockSubscriptions ==
  [subscribeToLockCreated |->
      Subscription(VOTE_ESCROW_TOPICS.lockCreated, lockReaders.parseLockCreatedEvent, FALSE),
   subscribeToLockIncreased |->
      Subscription(VOTE_ESCROW_TOPICS.lockIncreased, lockReaders.parseLockIncreasedEvent, FALSE),
   subscribeToLockExtended |->
      Subscription(VOTE_ESCROW_TOPICS.lockExtended, lockReaders.parseLockExtendedEvent, FALSE),
   subscribeToLockWithdrawn |->
      Subscription(VOTE_ESCROW_TOPICS.lockWithdrawn, lockReaders.parseLockWithdrawnEvent, FALSE)]
rewardSubscriptions ==
  [subscribeToEpochStarted |->
      Subscription(VOTING_REWARDS_TOPICS.epochStarted, rewardReaders.parseEpochStartedEvent, FALSE),
   subscribeToEpochRootPublished |->
      Subscription(VOTING_REWARDS_TOPICS.epochRootPublished, rewardReaders.parseEpochRootPublishedEvent, FALSE),
   subscribeToRewardClaimed |->
      Subscription(VOTING_REWARDS_TOPICS.rewardClaimed, rewardReaders.parseRewardClaimedEvent, FALSE),
   subscribeToPoolFunded |->
      Subscription(VOTING_REWARDS_TOPICS.poolFunded, rewardReaders.parsePoolFundedEvent, FALSE)]

Subscriptions ==
  UNION {Range(proposalSubscriptions), Range(governorSubscriptions), Range(moderationSubscriptions),
  Range(coSponsorshipSubscriptions), Range(permitSubscriptions), Range(streamSubscriptions),
  Range(timelockSubscriptions), Range(batchSubscriptions), Range(anchorSubscriptions),
  Range(lockSubscriptions), Range(rewardSubscriptions)}

(* Every subscription reads its events with a reader made for the topic it asks for. *)
ASSUME ReadersUnderstand == \A s \in Subscriptions : s.readable
=============================================================================
