--------------------------- MODULE SdkGovernance ---------------------------
(***************************************************************************)
(* The SDK's clients for governance.  The public methods of a client are   *)
(* the fields of a few records, one for each run of methods in its file, and*)
(* a field gives the steps the method's code takes in the vocabulary of    *)
(* SdkMethods.  What several methods of a client call is an operator.      *)
(***************************************************************************)
EXTENDS SdkMethods

(* GovernorClient, proposals: reads are retried on any error, submissions only on what isRetryableSubmissionError lets through, wallet-signed submissions never. *)
governor_propose == Checked("within", Write("governor", "propose", "governor"))
governor_proposeWithSign == Checked("before", WithSign(Write("governor", "propose", "none")))
governor_simulations ==
  [simulateTargetInvocation |-> Read("governor", "any function of any contract", "any", "default", "default"),
   simulateProposal |-> Caught(Read("governor", "any function of any contract", "any", "default", "default"))]
governor_estimateProposeResources == Caught(Read("governor", "propose", "any", "default", "default"))
governor_cancellation ==
  [cancel |-> Refused("quoted", Write("governor", "cancel", "governor")),
   cancelByGovernance |-> Refused("quoted", Write("governor", "cancel_by_governance", "governor")),
   cancelByGovernanceWithSign |->
      WithSign(Refused("quoted", Write("governor", "cancel_by_governance", "none")))]
governor_records ==
  [getProposal |-> Read("governor", "get_proposal", "any", "remote", "plain"),
   getQueueTime |-> Read("governor", "get_queue_time", "none", "default", "default"),
   getQueuedOpIds |-> Read("governor", "get_queued_op_ids", "any", "default", "default")]

(* GovernorClient, queries. *)
governor_status ==
  [proposalThreshold |-> Read("governor", "proposal_threshold", "any", "default", "default"),
   getSettings |-> Read("governor", "get_settings", "any", "remote", "plain"),
   getProposalState |-> Read("governor", "state", "any", "remote", "plain")]
governor_quorum ==
  [getQuorum |-> Read("governor", "get_quorum", "none", "remote", "plain"),
   isQuorumReached |-> Read("governor", "is_quorum_reached", "none", "remote", "plain"),
   getLatestLedger |-> Ask("governor", "getLatestLedger", "any"),
   proposalCount |-> Read("governor", "proposal_count", "any", "default", "default")]
governor_limits ==
  [getProposalFromIndexer |-> Caught(Ask("governor", "/proposals/:id", "none")),
   getLastProposalLedger |-> Read("governor", "last_proposal_ledger", "any", "default", "default"),
   getProposalsInPeriod |-> Read("governor", "proposals_in_period", "any", "default", "default")]

(* GovernorClient, voting: a vote signed by a wallet, or with a reason, is submitted outside the retry loop. *)
governor_voting ==
  [estimateVoteGas |-> Caught(Read("governor", "cast_vote", "any", "default", "default")),
   castVote |-> Write("governor", "cast_vote", "governor")]
governor_reasonedVotes ==
  [castVoteWithSign |-> WithSign(Refused("quoted", Write("governor", "cast_vote", "none"))),
   castVoteWithReason |-> Refused("quoted", Write("governor", "cast_vote_with_reason", "none")),
   castVoteWithReasonAndSign |->
      WithSign(Refused("quoted", Write("governor", "cast_vote_with_reason", "none")))]
governor_ballots ==
  [getProposalVotes |-> Read("governor", "get_proposal", "any", "remote", "plain"),
   hasVoted |-> Caught(Read("governor", "has_voted", "any", "default", "default")),
   canPropose |-> Read("governor", "can_propose", "any", "remote", "plain")]
governor_receipts ==
  [getReceipt |-> Read("governor", "get_receipt", "any", "default", "default"),
   getVoteReason |-> Read("governor", "get_receipt", "any", "default", "default")]
governor_getVotingHistory ==
  Several({Caught(Ask("governor", "/profile/:voter", "none")), Ask("governor", "getEvents", "any")})
governor_getVotesCastByAddress ==
  Several({governor_quorum.getLatestLedger, Ask("governor", "getEvents", "network")})

(* GovernorClient, secret ballots. *)
governor_secretBallots ==
  [commitVote |-> Refused("quoted", Write("governor", "commit_vote", "governor")),
   revealVote |-> Refused("quoted", Write("governor", "reveal_vote", "governor")),
   hasCommitted |-> Caught(Read("governor", "has_committed", "any", "default", "default")),
   getCommitDeadline |-> Read("governor", "get_commit_deadline", "any", "remote", "plain")]
governor_getRevealDeadline == Read("governor", "get_reveal_deadline", "any", "remote", "plain")
governor_getCommitRevealStatus ==
  Several({governor_secretBallots.getCommitDeadline, governor_getRevealDeadline, governor_quorum.getLatestLedger, Caught(Ask("governor", "/governor/commit-reveal/:id", "none"))})

(* GovernorClient, execution and listing. *)
governor_simulateAndSubmit(fn) == Refused("text", Simulated(Write("governor", fn, "governor")))
governor_execute == governor_simulateAndSubmit("execute")
governor_queue == governor_simulateAndSubmit("queue")
governor_listProposals ==
  Several({Read("governor", "get_proposal_list", "none", "default", "default"), Read("governor", "proposal_count", "none", "default", "default"), Read("governor", "get_proposal", "none", "default", "default")})
governor_estimateExecutionGas == Read("governor", "estimate_execution_gas", "any", "remote", "plain")

(* GovernorClient, methods made of other methods. *)
governor_waitForProposalState == MayRefuse(Several({governor_status.getProposalState}))
governor_batches ==
  [getTimelockInfo |->
      MayRefuse(Several({governor_records.getQueueTime, governor_status.getSettings, Read("timelock", "min_delay", "network", "default", "default"), Read("timelock", "execution_window", "none", "default", "default")})),
   getProposalsBatch |-> Settled({governor_records.getProposal}),
   getProposalExpiryLedger |-> Several({governor_records.getProposal, governor_status.getSettings})]
governor_buildUpdateConfigProposal == MayRefuse(Several({}))
governor_onProposalStateChange == Settled({governor_status.getProposalState})
governor_getProposalsSummaryBatch ==
  Settled({governor_status.getProposalState, governor_ballots.getProposalVotes})

(* GovernorClient, scans of the event log. *)
governor_getGuardianActivity ==
  Several({governor_status.getSettings, governor_quorum.getLatestLedger, Ask("governor", "getEvents", "any")})
governor_getProposalsForAddress ==
  Several({governor_quorum.getLatestLedger, Ask("governor", "getEvents", "network"), governor_records.getProposal, governor_status.getProposalState})

(* The upload of a proposal's text, and its hash. *)
metadata_all ==
  [hashDescription |-> MayRefuse(Several({})),
   hashDescriptionSync |-> MayRefuse(Several({})),
   uploadProposalMetadata |-> MayRefuse(Several({Ask("metadata", "the IPFS provider", "none")}))]

(* CoSponsorshipClient. *)
coSponsorship_submit(fn) == Write("coSponsorship", fn, "network")
coSponsorship_submitWithSign(fn) == WithSign(coSponsorship_submit(fn))
coSponsorship_drafts ==
  [createDraft |-> Valued("after", coSponsorship_submit("create_draft")),
   createDraftWithSign |-> Valued("after", coSponsorship_submitWithSign("create_draft")),
   coSponsor |-> coSponsorship_submit("co_sponsor"),
   coSponsorWithSign |-> coSponsorship_submitWithSign("co_sponsor")]
coSponsorship_changes ==
  [withdrawCoSponsorship |-> coSponsorship_submit("withdraw_co_sponsorship"),
   withdrawCoSponsorshipWithSign |-> coSponsorship_submitWithSign("withdraw_co_sponsorship"),
   finalizeDraft |-> Valued("after", coSponsorship_submit("finalize_draft")),
   finalizeDraftWithSign |-> Valued("after", coSponsorship_submitWithSign("finalize_draft")),
   cancelDraft |-> coSponsorship_submit("cancel_draft"),
   cancelDraftWithSign |-> coSponsorship_submitWithSign("cancel_draft"),
   getDraft |-> Read("coSponsorship", "get_draft", "network", "parsed", "plain")]
coSponsorship_reads ==
  [getActiveDrafts |-> Read("coSponsorship", "get_active_drafts", "network", "default", "default"),
   getCoSponsorPower |-> Read("coSponsorship", "get_co_sponsor_power", "network", "default", "default"),
   draftThresholdMet |-> Read("coSponsorship", "draft_threshold_met", "network", "default", "default")]
coSponsorship_indexerRequest(path) == Checked("before", Ask("coSponsorship", path, "network"))
coSponsorship_lists ==
  [listDrafts |-> coSponsorship_indexerRequest("/co-sponsorship/drafts"),
   getDraftsByCreator |-> coSponsorship_indexerRequest("/co-sponsorship/drafts/creator"),
   getDraftCoSponsorHistory |-> coSponsorship_indexerRequest("/co-sponsorship/drafts/history")]

(* ProposalBondsClient. *)
bonds_submit(fn) == Write("bonds", fn, "network")
bonds_submitWithSign(fn) == WithSign(bonds_submit(fn))
bonds_writes ==
  [lockBond |-> bonds_submit("lock_bond"),
   lockBondWithSign |-> bonds_submitWithSign("lock_bond"),
   refundBond |-> bonds_submit("refund_bond"),
   refundBondWithSign |-> bonds_submitWithSign("refund_bond")]
bonds_reads ==
  [getBond |-> Read("bonds", "get_bond", "network", "parsed", "default"),
   getSettings |-> Read("bonds", "get_settings", "network", "parsed", "typed")]
bonds_indexerRequest(path) == Checked("before", Ask("bonds", path, "network"))
bonds_lists ==
  [listBonds |-> bonds_indexerRequest("/proposal-bonds"),
   getBondsByProposer |-> bonds_indexerRequest("/proposal-bonds/proposer"),
   getProposalIdForDescriptionHash |->
      Checked("before", Ask("bonds", "/proposals/by-description-hash", "network"))]

(* GuardianCouncilClient: no retries, plain errors. *)
guardians_submit(fn) == Refused("quoted", Untyped(Write("guardians", fn, "none")))
guardians_submitWithSign(fn) == WithSign(guardians_submit(fn))
guardians_simulate(fn) == Checked("before", Read("guardians", fn, "none", "remote", "plain"))
guardians_writes ==
  [initialize |-> guardians_submit("initialize"),
   proposeAction |-> Valued("after", guardians_submit("propose_action")),
   approveAction |-> guardians_submit("approve_action"),
   revokeApproval |-> guardians_submit("revoke_approval"),
   executeAction |-> guardians_submit("execute_action"),
   proposeActionWithSign |-> Valued("after", guardians_submitWithSign("propose_action")),
   approveActionWithSign |-> guardians_submitWithSign("approve_action"),
   revokeApprovalWithSign |-> guardians_submitWithSign("revoke_approval"),
   executeActionWithSign |-> guardians_submitWithSign("execute_action")]
guardians_reads ==
  [getAction |-> guardians_simulate("get_action"),
   getMembers |-> guardians_simulate("get_members"),
   getThreshold |-> guardians_simulate("get_threshold"),
   getActionTtl |-> guardians_simulate("get_action_ttl"),
   listActions |-> MayRefuse(Several({guardians_simulate("get_action")})),
   getGovernor |-> guardians_simulate("get_governor")]

(* OptimisticGovernorClient: no retries; finalize reads the proposal back. *)
optimistic_submit(fn) == Write("optimistic", fn, "none")
optimistic_submitWithSign(fn) == WithSign(optimistic_submit(fn))
optimistic_simulate(fn) == Read("optimistic", fn, "none", "parsed", "typed")
optimistic_methods ==
  [propose |-> optimistic_submit("propose"),
   object |-> optimistic_submit("object"),
   finalize |-> ReadsBack(optimistic_submit("finalize")),
   execute |-> optimistic_submit("execute"),
   cancel |-> optimistic_submit("cancel"),
   getProposal |-> optimistic_simulate("get_proposal"),
   getConfig |-> optimistic_simulate("get_config"),
   updateConfig |-> optimistic_submit("update_config"),
   listProposals |-> Checked("before", Ask("optimistic", "/optimistic/proposals", "none")),
   getObjections |-> Checked("before", Ask("optimistic", "/optimistic/objections", "none"))]
optimistic_signed ==
  [proposeWithSign |-> optimistic_submitWithSign("propose"),
   objectWithSign |-> optimistic_submitWithSign("object"),
   finalizeWithSign |-> ReadsBack(optimistic_submitWithSign("finalize")),
   executeWithSign |-> optimistic_submitWithSign("execute"),
   cancelWithSign |-> optimistic_submitWithSign("cancel")]

(* ConvictionVotingClient: no retries; a checkpoint reads the proposal back. *)
conviction_submit(fn) == Write("conviction", fn, "none")
conviction_submitWithSign(fn) == WithSign(conviction_submit(fn))
conviction_simulate(fn) == Read("conviction", fn, "none", "parsed", "typed")
conviction_methods ==
  [createProposal |-> conviction_submit("create_proposal"),
   stake |-> conviction_submit("stake"),
   withdrawStake |-> conviction_submit("withdraw_stake"),
   checkpointConviction |-> ReadsBack(conviction_submit("checkpoint_conviction")),
   stakeWithSign |-> conviction_submitWithSign("stake"),
   withdrawStakeWithSign |-> conviction_submitWithSign("withdraw_stake"),
   checkpointConvictionWithSign |-> ReadsBack(conviction_submitWithSign("checkpoint_conviction")),
   getProposal |-> conviction_simulate("get_proposal"),
   getRequiredThreshold |-> conviction_simulate("get_required_threshold"),
   getConvictionHistory |-> Checked("before", Ask("conviction", "/conviction/history", "none"))]

GovernanceMethods ==
  UNION {Range(governor_simulations), Range(governor_cancellation), Range(governor_records),
  Range(governor_status), Range(governor_quorum), Range(governor_limits), Range(governor_voting),
  Range(governor_reasonedVotes), Range(governor_ballots), Range(governor_receipts),
  Range(governor_secretBallots), Range(governor_batches), Range(metadata_all), Range(coSponsorship_drafts),
  Range(coSponsorship_changes), Range(coSponsorship_reads), Range(coSponsorship_lists),
  Range(bonds_writes), Range(bonds_reads), Range(bonds_lists), Range(guardians_writes),
  Range(guardians_reads), Range(optimistic_methods), Range(optimistic_signed), Range(conviction_methods)}
  \cup {governor_propose, governor_proposeWithSign, governor_estimateProposeResources,
  governor_getVotingHistory, governor_getVotesCastByAddress, governor_getRevealDeadline,
  governor_getCommitRevealStatus, governor_execute, governor_queue, governor_listProposals,
  governor_estimateExecutionGas, governor_waitForProposalState, governor_buildUpdateConfigProposal,
  governor_onProposalStateChange, governor_getProposalsSummaryBatch, governor_getGuardianActivity,
  governor_getProposalsForAddress}
=============================================================================
