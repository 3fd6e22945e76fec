--------------------------- MODULE SdkVotes ---------------------------
(***************************************************************************)
(* The SDK's clients for voting power: delegation, permits, locks and      *)
(* reputation, laid out like those of SdkGovernance.                       *)
(***************************************************************************)
EXTENDS SdkMethods

(* VotesClient: nothing waits for confirmation; isRetryableSubmissionError also retries typed SDK errors. *)
votes_delegation ==
  [undelegate |-> Unconfirmed(Write("votes", "undelegate", "votes")),
   revokeDelegation |-> Unconfirmed(Write("votes", "undelegate", "votes")),
   undelegateWithSign |-> WithSign(Unconfirmed(Write("votes", "undelegate", "votes"))),
   delegate |-> Unconfirmed(Write("votes", "delegate", "votes")),
   delegateWithSign |-> WithSign(Unconfirmed(Write("votes", "delegate", "votes")))]
votes_splits ==
  [transferAndDelegate |-> Unconfirmed(Write("votes", "transfer_and_delegate", "votes")),
   delegateSplit |-> Unconfirmed(Write("votes", "delegate_split", "votes")),
   delegateSplitWithSign |-> WithSign(Unconfirmed(Write("votes", "delegate_split", "votes")))]
votes_splitsEnd ==
  [undelegateSplit |-> Unconfirmed(Write("votes", "undelegate_split", "votes")),
   undelegateSplitWithSign |-> WithSign(Unconfirmed(Write("votes", "undelegate_split", "votes")))]
votes_timeWeight ==
  [setTimeWeightEnabled |-> Unconfirmed(Write("votes", "set_time_weight_enabled", "none")),
   setTimeWeightScale |-> Unconfirmed(Write("votes", "set_time_weight_scale", "none"))]
votes_setDelegationDepthLimit == Unconfirmed(Write("votes", "set_delegation_depth_limit", "votes"))
votes_power ==
  [getVotes |-> Read("votes", "get_votes", "network", "default", "default"),
   getPastVotes |-> Read("votes", "get_past_votes", "network", "default", "default"),
   getBaseVotes |-> Read("votes", "get_base_votes", "none", "default", "default"),
   getPastBaseVotes |-> Read("votes", "get_past_base_votes", "none", "default", "default"),
   getDelegatee |-> Read("votes", "delegates", "network", "default", "default")]
votes_supply ==
  [getTotalSupply |-> Read("votes", "total_supply", "network", "default", "default"),
   getPastTotalSupply |-> Read("votes", "get_past_total_supply", "network", "default", "default")]
votes_getDelegatorRecord == Read("votes", "get_delegator_record", "none", "default", "default")
votes_simulateRead(fn) == Read("votes", fn, "network", "default", "default")
votes_getSplitDelegations == votes_simulateRead("get_split_delegations")
votes_registry ==
  [getDelegationHistory |-> votes_simulateRead("get_delegation_history"),
   getRegistryDelegators |-> votes_simulateRead("get_delegators"),
   getDelegatorCount |-> votes_simulateRead("get_delegator_count"),
   getDelegationChain |-> votes_simulateRead("get_delegation_chain"),
   getChainDepth |-> votes_simulateRead("get_chain_depth"),
   getDelegateProfile |-> votes_simulateRead("get_delegate_profile"),
   getReceivedDelegations |-> votes_simulateRead("get_received_delegations"),
   wouldCreateCycle |-> votes_simulateRead("would_create_cycle"),
   getDelegationSnapshot |-> votes_simulateRead("get_delegation_snapshot")]
votes_getDelegationDepthLimit == votes_simulateRead("get_delegation_depth_limit")
votes_getVotesSettings ==
  Several({Read("votes", fn, "none", "typed", "plain") : fn \in {"checkpoint_retention_period", "time_weight_enabled", "time_weight_scale"}})
votes_buildDelegationMapIncremental ==
  Several({Ask("votes", "getLatestLedger", "network"), Ask("votes", "getLatestLedger", "none"), Ask("votes", "getEvents", "network")})
votes_buildDelegationMap == votes_buildDelegationMapIncremental
votes_ranking ==
  [getTopDelegates |->
      Several(votes_buildDelegationMapIncremental.parts \cup {votes_power.getVotes, votes_power.getBaseVotes}),
   getVotingPowerDistribution |->
      Several(votes_buildDelegationMap.parts \cup {votes_supply.getTotalSupply, votes_power.getVotes})]
votes_delegators ==
  [getDelegators |-> Several(votes_buildDelegationMap.parts \cup {votes_power.getVotes}),
   getTopDelegatesByAddresses |-> Several({votes_supply.getTotalSupply, votes_power.getVotes})]

(* DelegationSigClient: permits signed off chain, submitted by a relayer. *)
permits_currentLedger == Ask("permits", "getLatestLedger", "network")
permits_simulateRead(fn) == Read("permits", fn, "network", "quoted", "default")
permits_reads ==
  [getNonce |-> permits_simulateRead("nonce"),
   isNonceUsed |-> permits_simulateRead("is_nonce_used"),
   getDomainSeparator |-> permits_simulateRead("domain_separator"),
   computePermitHash |-> permits_simulateRead("compute_permit_hash"),
   isRelayerAllowed |-> permits_simulateRead("is_relayer_allowed"),
   getDelegationPermitExpiry |-> permits_simulateRead("delegation_permit_expiry")]
permits_signing ==
  [signDelegationPermit |-> MayRefuse(Several({permits_reads.getNonce})),
   delegateBySig |-> Unconfirmed(Write("permits", "delegate_by_sig", "network"))]
permits_relaying ==
  [delegateBatchBySig |-> Checked("before", Unconfirmed(Write("permits", "delegate_batch_by_sig", "network"))),
   setRelayerWhitelistEnabled |-> Unconfirmed(Write("permits", "set_relayer_whitelist_enabled", "network")),
   setRelayerWhitelisted |-> Unconfirmed(Write("permits", "set_relayer_whitelisted", "network"))]
permits_invalidation ==
  [invalidateAllPermits |-> Unconfirmed(Write("permits", "invalidate_all_permits", "network")),
   invalidateAllPermitsWithSign |->
      WithSign(Unconfirmed(Write("permits", "invalidate_all_permits", "network")))]

(* VoteEscrowClient: every error is retried, a refused transaction too. *)
voteEscrow_locks ==
  [createLock |-> Unconfirmed(Write("voteEscrow", "create_lock", "any")),
   createLockWithSign |-> WithSign(Unconfirmed(Write("voteEscrow", "create_lock", "any"))),
   increaseLockAmountWithSign |-> WithSign(Unconfirmed(Write("voteEscrow", "increase_lock_amount", "any"))),
   extendLockWithSign |-> WithSign(Unconfirmed(Write("voteEscrow", "extend_lock", "any")))]
voteEscrow_changes ==
  [withdrawWithSign |-> WithSign(Unconfirmed(Write("voteEscrow", "withdraw", "any"))),
   updateEscrowConfig |-> Unconfirmed(Write("voteEscrow", "update_escrow_config", "any")),
   increaseLockAmount |-> Unconfirmed(Write("voteEscrow", "increase_lock_amount", "any")),
   extendLock |-> Unconfirmed(Write("voteEscrow", "extend_lock", "any"))]
voteEscrow_power ==
  [withdraw |-> Unconfirmed(Write("voteEscrow", "withdraw", "any")),
   getLock |-> Read("voteEscrow", "get_lock", "any", "lookup", "typed"),
   getVotingPower |-> Read("voteEscrow", "get_votes", "any", "lookup", "typed")]
voteEscrow_history ==
  [getEscrowStats |->
      Several({Ask("voteEscrow", "getLatestLedger", "any"), Read("voteEscrow", "get_past_total_supply", "any", "default", "default")}),
   getPastVotes |-> Read("voteEscrow", "get_past_votes", "any", "default", "default"),
   getPastTotalSupply |-> Read("voteEscrow", "get_past_total_supply", "any", "default", "default"),
   getLockHistory |-> Read("voteEscrow", "get_lock_history", "any", "default", "default")]
voteEscrow_getToken == Read("voteEscrow", "token", "any", "default", "default")

(* ReputationClient. *)
reputation_simulate(fn) == Read("reputation", fn, "network", "parsed", "typed")
reputation_submit(fn) == Write("reputation", fn, "network")
reputation_submitWithSign(fn) == WithSign(reputation_submit(fn))
reputation_indexerRequest(path) == Checked("before", Ask("reputation", path, "network"))
reputation_getProposerReputation == reputation_simulate("get_proposer_reputation")
reputation_scores ==
  [getEffectiveThreshold |-> reputation_simulate("get_effective_threshold"),
   applyDecay |-> reputation_submit("apply_reputation_decay"),
   applyDecayWithSign |-> reputation_submitWithSign("apply_reputation_decay"),
   getScore |-> reputation_indexerRequest("/reputation/:address"),
   getScoreHistory |-> reputation_indexerRequest("/reputation/:address/history"),
   getScoreHistoryPage |-> reputation_indexerRequest("/reputation/:address/history")]
reputation_lists ==
  [getLeaderboard |-> reputation_indexerRequest("/reputation/leaderboard"),
   getLeaderboardPage |-> reputation_indexerRequest("/reputation/leaderboard"),
   getThresholdHistory |-> reputation_indexerRequest("/reputation/threshold-history"),
   getThresholdHistoryPage |-> reputation_indexerRequest("/reputation/threshold-history")]

VotesMethods ==
  UNION {Range(votes_delegation), Range(votes_splits), Range(votes_splitsEnd), Range(votes_timeWeight),
  Range(votes_power), Range(votes_supply), Range(votes_registry), Range(votes_ranking),
  Range(votes_delegators), Range(permits_reads), Range(permits_signing), Range(permits_relaying),
  Range(permits_invalidation), Range(voteEscrow_locks), Range(voteEscrow_changes), Range(voteEscrow_power),
  Range(voteEscrow_history), Range(reputation_scores), Range(reputation_lists)}
  \cup {votes_setDelegationDepthLimit, votes_getDelegatorRecord, votes_getSplitDelegations,
  votes_getDelegationDepthLimit, votes_getVotesSettings, votes_buildDelegationMapIncremental,
  votes_buildDelegationMap, permits_currentLedger, voteEscrow_getToken, reputation_getProposerReputation}
=============================================================================
