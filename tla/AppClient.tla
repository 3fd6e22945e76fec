------------------------------ MODULE AppClient ------------------------------
(***************************************************************************)
(* What the web application does with a wallet, in the vocabulary of       *)
(* SdkMethods: its own treasury client (app/src/lib/treasury-client.ts),   *)
(* which shares nothing with the SDK's and retries nothing, and the hooks  *)
(* that sign and submit.                                                   *)
(***************************************************************************)
EXTENDS SdkVotes, SdkTreasury

(* A read whose simulation fails is null; getAccount and the request itself may throw. *)
app_simulate(fn) == Read("app", fn, "none", "default", "default")

(* Account, preparation, the wallet's signature, the transaction and its confirmation; all errors are plain. *)
app_submitted(fn) == WithSign(Refused("quoted", Untyped(Write("app", fn, "none"))))

app_treasuryReads ==
  [txCount |-> app_simulate("tx_count"),
   threshold |-> app_simulate("threshold"),
   getThreshold |-> app_simulate("threshold"),
   getOwners |-> app_simulate("owners"),
   getTx |-> app_simulate("get_tx"),
   hasApproved |-> app_simulate("has_approved"),
   isTreasuryOwner |-> app_simulate("is_treasury_owner"),
   isOwner |-> app_simulate("is_treasury_owner"),
   getOwner |-> app_simulate("get_owner"),
   isGovernor |-> Several({app_simulate("get_owner")}),
   getSpendingCap |-> app_simulate("get_spending_cap"),
   getSpentThisPeriod |-> app_simulate("get_spent_this_period")]
app_transactions ==
  [submit |-> app_submitted("submit"),
   approve |-> app_submitted("approve")]
app_streamReads ==
  [getStream |-> app_simulate("get_stream"),
   getStreams |-> app_simulate("get_streams"),
   getStreamsByOwner |-> app_simulate("get_streams_by_owner"),
   getStreamSpends |-> app_simulate("get_stream_spends"),
   getStreamReport |-> app_simulate("get_stream_report"),
   getBudgetSummary |-> app_simulate("get_budget_summary"),
   getStreamRemaining |-> app_simulate("get_stream_remaining")]
app_streamWrites ==
  [createStream |-> app_submitted("create_stream"),
   streamSpend |-> app_submitted("stream_spend"),
   revokeStream |-> app_submitted("revoke_stream"),
   extendStream |-> app_submitted("extend_stream")]
app_topUpStream == app_submitted("top_up_stream")

(* hooks/useGaslessDelegation.ts: a wallet signs, the backend's relayer submits. *)
app_backendFetch(path) == Ask("app", path, "none")
app_gaslessDelegation ==
  [preflightDelegatee |-> Settled({votes_registry.wouldCreateCycle, votes_getDelegationDepthLimit, votes_registry.getChainDepth}),
   delegateGasless |->
      MayRefuse(Several({permits_currentLedger, permits_reads.getNonce, app_backendFetch("POST /relayer/delegate")})),
   invalidateAllPermits |-> Checked("before", permits_invalidation.invalidateAllPermitsWithSign)]

(* hooks/useSignalingPolls.ts and useSplitDelegation.ts: the wallet is connected first. *)
app_polls ==
  [createPoll |-> Checked("before", signaling_methods.createPoll),
   castVote |-> MayRefuse(signaling_methods.castVoteWithSign)]
app_splits ==
  [delegateSplit |-> Checked("before", votes_splits.delegateSplitWithSign),
   undelegateSplit |-> Checked("before", votes_splitsEnd.undelegateSplitWithSign)]

AppMethods ==
  UNION {Range(app_treasuryReads), Range(app_transactions), Range(app_streamReads), Range(app_streamWrites),
         Range(app_gaslessDelegation), Range(app_polls), Range(app_splits)}
  \cup {app_topUpStream}
=============================================================================
