--------------------------- MODULE SdkTreasury ---------------------------
(***************************************************************************)
(* The SDK's clients for the timelock, the treasury, rewards and liquidity,*)
(* and for the backend and the indexer, laid out like those of SdkGovernance.*)
(***************************************************************************)
EXTENDS SdkMethods

(* TimelockClient: isRetryableSubmissionError also retries typed SDK errors. *)
timelock_scheduling ==
  [schedule |-> Checked("before", Valued("within", Write("timelock", "schedule", "timelock"))),
   scheduleBatch |->
      Checked("within", Refused("quoted", Valued("within", Write("timelock", "schedule_batch", "timelock"))))]
timelock_execution ==
  [executeBatch |-> Write("timelock", "execute_batch", "timelock"),
   execute |-> Write("timelock", "execute", "timelock"),
   cancel |-> Write("timelock", "cancel", "timelock"),
   isReady |-> Read("timelock", "is_ready", "network", "default", "default")]
timelock_status ==
  [isPending |-> Read("timelock", "is_pending", "network", "default", "default"),
   minDelay |-> Read("timelock", "min_delay", "network", "default", "default"),
   executionWindow |-> Read("timelock", "execution_window", "none", "default", "default"),
   scheduleWithDeps |-> Valued("within", Write("timelock", "schedule_with_deps", "timelock"))]
timelock_dependencies ==
  [allPredecessorsDone |-> Read("timelock", "all_predecessors_done", "network", "default", "default"),
   getBatchDependencyGraph |-> Read("timelock", "get_batch_dependency_graph", "network", "default", "default"),
   validateDependencyDag |-> Read("timelock", "validate_dependency_dag", "network", "default", "default")]
timelock_recovery ==
  [executePartialBatch |-> Valued("within", Write("timelock", "execute_batch_partial", "timelock")),
   retryFailedOperation |-> Write("timelock", "retry_failed_operation", "timelock"),
   getPartialBatchState |-> Read("timelock", "get_partial_batch_state", "network", "default", "default")]
timelock_skipFailedOperation == Write("timelock", "skip_failed_operation", "timelock")

(* TreasuryClient: isRetryableSubmissionError also retries typed SDK errors, a confirmation that timed out and refused arguments among them. *)
treasury_spending ==
  [batchTransfer |-> Checked("within", Valued("within", Write("treasury", "batch_transfer", "treasury"))),
   setSpendingCap |-> Unconfirmed(Write("treasury", "set_spending_cap", "treasury")),
   getSpendingCap |-> Read("treasury", "get_spending_cap", "network", "default", "default")]
treasury_signers ==
  [getSpentThisPeriod |-> Read("treasury", "get_spent_this_period", "network", "default", "default"),
   getSpendingRemaining |-> Read("treasury", "get_spending_remaining", "network", "default", "default"),
   getOwners |-> Read("treasury", "owners", "network", "default", "default"),
   getThreshold |-> Read("treasury", "threshold", "network", "default", "default"),
   isOwner |-> Read("treasury", "is_treasury_owner", "network", "default", "default")]
treasury_transactions ==
  [getOwner |-> Read("treasury", "get_owner", "network", "default", "default"),
   isGovernor |-> Several({Read("treasury", "get_owner", "network", "default", "default")}),
   getTxCount |-> Read("treasury", "tx_count", "network", "default", "default"),
   getTx |-> Read("treasury", "get_tx", "network", "typed", "typed")]
treasury_submission ==
  [submitWithLimit |-> Valued("within", Write("treasury", "submit_with_limit", "treasury")),
   getBatchTransferHistory |-> Checked("before", Ask("treasury", "/treasury/transfers", "none"))]
treasury_getStreamHistory ==
  MayRefuse(Several({Checked("before", Ask("treasury", "/treasury/streams", "none"))}))
treasury_streamSpending ==
  [createStream |-> Valued("within", Write("treasury", "create_stream", "treasury")),
   streamSpend |-> Write("treasury", "stream_spend", "treasury")]
treasury_streamChanges ==
  [streamBatchSpend |-> Checked("within", Write("treasury", "stream_batch_spend", "treasury")),
   revokeStream |-> Write("treasury", "revoke_stream", "treasury"),
   extendStream |-> Write("treasury", "extend_stream", "treasury")]
treasury_streams ==
  [topUpStream |-> Write("treasury", "top_up_stream", "treasury"),
   getStream |-> Read("treasury", "get_stream", "network", "typed", "typed"),
   getStreams |-> Read("treasury", "get_streams", "network", "default", "default")]
treasury_streamReports ==
  [getStreamsByOwner |-> Read("treasury", "get_streams_by_owner", "network", "default", "default"),
   getStreamSpends |-> Read("treasury", "get_stream_spends", "network", "default", "default"),
   getStreamReport |-> Read("treasury", "get_stream_report", "network", "typed", "typed")]
treasury_budget ==
  [getBudgetSummary |-> Read("treasury", "get_budget_summary", "network", "default", "default"),
   getStreamRemaining |-> Read("treasury", "get_stream_remaining", "network", "default", "default")]

(* TreasuryStreamsClient: no retries. *)
streams_submit(fn) == Refused("quoted", Write("streams", fn, "none"))
streams_simulate(fn) == Read("streams", fn, "none", "parsed", "typed")
streams_methods ==
  [createStream |-> streams_submit("create_stream"),
   executeStream |-> streams_submit("execute_stream"),
   pauseStream |-> streams_submit("pause_stream"),
   resumeStream |-> streams_submit("resume_stream"),
   cancelStream |-> streams_submit("cancel_stream"),
   getStream |-> streams_simulate("get_stream"),
   getClaimableAmount |-> streams_simulate("get_claimable_amount"),
   getActiveStreams |-> streams_simulate("get_active_streams"),
   getStreamsForRecipient |-> streams_simulate("get_streams_for_recipient")]

(* TreasuryStrategiesClient. *)
strategies_simulate(fn) == Read("strategies", fn, "network", "parsed", "typed")
strategies_submit(fn) == Write("strategies", fn, "network")
strategies_submitWithSign(fn) == WithSign(strategies_submit(fn))
strategies_indexerRequest(path) == Checked("before", Ask("strategies", path, "network"))
strategies_reads ==
  [getStrategy |-> strategies_simulate("get_strategy"),
   getAllocation |-> strategies_simulate("get_allocation"),
   getTotalValue |-> strategies_simulate("get_total_value")]
strategies_withdrawals ==
  [requestWithdrawal |-> Valued("within", Write("strategies", "request_withdrawal", "network")),
   requestWithdrawalWithSign |->
      WithSign(Valued("within", Write("strategies", "request_withdrawal", "network"))),
   claimWithdrawal |-> strategies_submit("claim_withdrawal"),
   claimWithdrawalWithSign |-> strategies_submitWithSign("claim_withdrawal"),
   listStrategies |-> strategies_indexerRequest("/treasury-strategies")]
strategies_history ==
  [getPerformanceHistory |-> strategies_indexerRequest("/treasury-strategies/:id/history"),
   getPerformanceHistoryPage |-> strategies_indexerRequest("/treasury-strategies/:id/history")]

(* VotingRewardsClient. *)
rewards_simulate(fn) == Read("rewards", fn, "network", "parsed", "default")
rewards_submit(fn) == Write("rewards", fn, "network")
rewards_submitWithSign(fn) == WithSign(rewards_submit(fn))
rewards_backendRequest(path) == Checked("before", Ask("rewards", path, "network"))
rewards_methods ==
  [getEpoch |-> MayRefuse(Several({rewards_simulate("get_epoch")})),
   getCurrentEpochId |-> MayRefuse(Several({rewards_simulate("get_current_epoch_id")})),
   getAvailablePool |-> MayRefuse(Several({rewards_simulate("get_available_pool")})),
   getAdmin |-> MayRefuse(Several({rewards_simulate("get_admin")})),
   hasClaimed |-> MayRefuse(Several({rewards_simulate("has_claimed")})),
   claim |-> rewards_submit("claim"),
   claimWithSign |-> rewards_submitWithSign("claim"),
   fundPool |-> rewards_submit("fund_pool"),
   fundPoolWithSign |-> rewards_submitWithSign("fund_pool"),
   startNextEpoch |-> rewards_submit("start_next_epoch")]
rewards_publication ==
  [publishEpochRoot |-> rewards_submit("publish_epoch_root"),
   getClaimableRewards |-> rewards_backendRequest("/voting-rewards/claimable"),
   getEpochLeaderboard |-> rewards_backendRequest("/voting-rewards/leaderboard")]

(* LiquidityClient: reads are retried, submissions are not. *)
liquidity_getPoolSafe == Read("liquidity", "get_pool_safe", "network", "default", "default")
liquidity_getPool == MayRefuse(Several({liquidity_getPoolSafe}))
liquidity_readNative(fn) == Read("liquidity", fn, "network", "typed", "typed")
liquidity_submitWithSign(fn) ==
  WithSign(Refused("text", Untyped(Unconfirmed(Write("liquidity", fn, "none")))))
liquidity_methods ==
  [getLpPosition |-> liquidity_readNative("get_lp_position"),
   getPrice |-> liquidity_readNative("get_price"),
   addLiquidityWithSign |-> liquidity_submitWithSign("add_liquidity"),
   removeLiquidityWithSign |-> liquidity_submitWithSign("remove_liquidity"),
   swapWithSign |-> liquidity_submitWithSign("swap")]

(* TokenVotesWrapperClient: the answer to a submission is not even looked at. *)
wrapper_methods ==
  [deposit |-> Refused("ignored", Unconfirmed(Write("wrapper", "deposit", "none"))),
   withdraw |-> Refused("ignored", Unconfirmed(Write("wrapper", "withdraw", "none"))),
   delegate |-> Refused("ignored", Unconfirmed(Write("wrapper", "delegate", "none"))),
   getVotes |-> Read("wrapper", "get_votes", "none", "plain", "default"),
   getDepositorBalance |-> Read("wrapper", "get_depositor_balance", "none", "plain", "default")]

(* FactoryClient: no retries, plain errors. *)
factory_methods ==
  [getGovernorCount |-> Read("factory", "governor_count", "none", "default", "default"),
   estimateDeployCost |-> Read("factory", "estimate_deploy_cost", "none", "plain", "plain"),
   getGovernor |-> Read("factory", "get_governor", "none", "plain", "plain"),
   getAllGovernors |->
      Several({Read("factory", "governor_count", "none", "default", "default"), Read("factory", "get_governor", "none", "plain", "plain")}),
   deploy |-> Valued("within", Refused("text", Untyped(Write("factory", "deploy", "none"))))]

(* SignalingClient: polls and votes are posted to the backend, a post is retried like a read. *)
signaling_backendRequest(path) == Checked("before", Ask("signaling", path, "network"))
signaling_methods ==
  [createPoll |-> signaling_backendRequest("POST /signaling/polls"),
   castVote |-> signaling_backendRequest("POST /signaling/polls/:id/vote"),
   castVoteWithSign |-> MayRefuse(Several({signaling_backendRequest("POST /signaling/polls/:id/vote")})),
   getPoll |-> signaling_backendRequest("/signaling/polls/:id"),
   listPolls |-> signaling_backendRequest("/signaling/polls"),
   getResults |-> signaling_backendRequest("/signaling/polls/:id/results")]
signaling_getAnchor == Checked("before", Read("signaling", "get_anchor", "network", "parsed", "typed"))

(* GovernanceTuningClient. *)
tuning_backendRequest(path) == Checked("before", Ask("tuning", path, "network"))
tuning_methods ==
  [getLatestRecommendation |-> tuning_backendRequest("/governance-tuning/recommendation"),
   getRecommendationHistory |-> tuning_backendRequest("/governance-tuning/recommendations"),
   getRecommendationHistoryPage |-> tuning_backendRequest("/governance-tuning/recommendations"),
   getConfig |-> tuning_backendRequest("/governance-tuning/config"),
   updateConfig |-> tuning_backendRequest("PUT /governance-tuning/config")]

(* AnalyticsClient. *)
analytics_indexerRequest(path) == Checked("before", Ask("analytics", path, "network"))
analytics_methods ==
  [getSnapshot |-> analytics_indexerRequest("/analytics/snapshots"),
   getLatestSnapshot |-> analytics_indexerRequest("/analytics/snapshots/latest"),
   getSnapshotList |-> analytics_indexerRequest("/analytics/snapshots"),
   getAllTimeStats |-> analytics_indexerRequest("/analytics/all-time-stats"),
   getVoterHistory |-> analytics_indexerRequest("/analytics/voters/:voter/history")]

(* ProposalSimulationClient. *)
simulation_backendRequest(path) == Checked("before", Ask("simulation", path, "network"))
simulation_methods ==
  [previewDraft |-> simulation_backendRequest("POST /proposal-simulation/preview"),
   simulateProposal |-> simulation_backendRequest("/proposal-simulation/:id"),
   getSimulationHistory |-> simulation_backendRequest("/proposal-simulation/:id/history")]

(* AmendmentsClient: no retries, plain errors. *)
amendments_methods ==
  [getAmendments |-> Ask("amendments", "/proposals/:id/amendments", "none"),
   getAmendmentVersion |-> Ask("amendments", "/proposals/:id/amendments/:version", "none"),
   submitAmendment |-> Ask("amendments", "POST /proposals/:id/amend", "none"),
   publishAmendment |-> Ask("amendments", "POST /proposals/:id/publish-amendment/:version", "none"),
   getAmendmentDiff |-> Ask("amendments", "/proposals/:id/amendment-diff/:from/:to", "none")]

TreasuryMethods ==
  UNION {Range(timelock_scheduling), Range(timelock_execution), Range(timelock_status),
  Range(timelock_dependencies), Range(timelock_recovery), Range(treasury_spending),
  Range(treasury_signers), Range(treasury_transactions), Range(treasury_submission),
  Range(treasury_streamSpending), Range(treasury_streamChanges), Range(treasury_streams),
  Range(treasury_streamReports), Range(treasury_budget), Range(streams_methods), Range(strategies_reads),
  Range(strategies_withdrawals), Range(strategies_history), Range(rewards_methods),
  Range(rewards_publication), Range(liquidity_methods), Range(wrapper_methods), Range(factory_methods),
  Range(signaling_methods), Range(tuning_methods), Range(analytics_methods), Range(simulation_methods),
  Range(amendments_methods)}
  \cup {timelock_skipFailedOperation, treasury_getStreamHistory, liquidity_getPoolSafe, liquidity_getPool,
  signaling_getAnchor}
=============================================================================
