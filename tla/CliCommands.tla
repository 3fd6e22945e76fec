---------------------------- MODULE CliCommands ----------------------------
(***************************************************************************)
(* The commands of the terminal client, each as the SDK methods its action *)
(* calls.  Before it calls any, an action reads its configuration and its  *)
(* arguments and may refuse them; one that honours --dry-run prints what it*)
(* would send and stops there.                                             *)
(***************************************************************************)
EXTENDS SdkGovernance, SdkVotes, SdkTreasury

(* The steps of a command: those of the methods it calls, with the steps of composed methods. *)
Steps(m) == IF m.kind = "several" THEN m.parts ELSE {m}
Command(methods) == [MayRefuse(Several(UNION {Steps(m) : m \in methods})) EXCEPT !.command = TRUE]
DryRun(c) == [c EXCEPT !.dryRun = TRUE]

(* packages/cli/src/index.ts: the installed program. *)
cli_proposals ==
  [list |-> Command({governor_getProposalsForAddress}),
   get |->
      Command({governor_records.getProposal, governor_status.getProposalState, governor_ballots.getProposalVotes}),
   create |-> DryRun(Command({governor_propose}))]
cli_vote ==
  [cast |-> DryRun(Command({governor_voting.castVote})),
   status |-> Command({governor_ballots.hasVoted})]
cli_delegate ==
  [to |-> DryRun(Command({votes_delegation.delegate})),
   show |-> Command({votes_power.getDelegatee, votes_power.getVotes})]
cli_treasury ==
  [balance |->
      Command({treasury_signers.getOwners, treasury_signers.getThreshold, treasury_transactions.getTxCount,
               treasury_signers.getSpentThisPeriod}),
   batchTransfer |-> DryRun(Command({treasury_spending.batchTransfer}))]
cli_proposalBonds ==
  [list |-> Command({bonds_lists.listBonds}),
   settings |-> Command({bonds_reads.getSettings})]
cli_convictionVoting ==
  [proposal |-> Command({conviction_methods.getProposal}),
   history |-> Command({conviction_methods.getConvictionHistory})]
cli_optimisticGovernor ==
  [list |-> Command({optimistic_methods.listProposals}),
   get |-> Command({optimistic_methods.getProposal}),
   config |-> Command({optimistic_methods.getConfig})]
cli_treasuryStrategies ==
  [list |-> Command({strategies_withdrawals.listStrategies}),
   get |-> Command({strategies_reads.getStrategy})]
cli_signalingPolls ==
  [list |-> Command({signaling_methods.listPolls}),
   get |-> Command({signaling_methods.getPoll}),
   results |-> Command({signaling_methods.getResults})]
cli_drafts ==
  [list |-> Command({coSponsorship_lists.listDrafts}),
   show |-> Command({coSponsorship_changes.getDraft, coSponsorship_reads.draftThresholdMet}),
   create |-> DryRun(Command({coSponsorship_drafts.createDraft})),
   coSponsor |-> DryRun(Command({coSponsorship_drafts.coSponsor})),
   withdraw |-> DryRun(Command({coSponsorship_changes.withdrawCoSponsorship})),
   finalize |-> DryRun(Command({coSponsorship_changes.finalizeDraft})),
   cancel |-> DryRun(Command({coSponsorship_changes.cancelDraft}))]
cli_voteEscrow ==
  [lock |-> DryRun(Command({voteEscrow_locks.createLock})),
   increase |-> DryRun(Command({voteEscrow_changes.increaseLockAmount})),
   extend |-> DryRun(Command({voteEscrow_changes.extendLock})),
   withdraw |-> DryRun(Command({voteEscrow_power.withdraw})),
   show |-> Command({voteEscrow_power.getLock, voteEscrow_power.getVotingPower})]
cli_votingRewards ==
  [epochs |->
      Command({rewards_methods.getEpoch, rewards_methods.getCurrentEpochId, rewards_methods.getAvailablePool}),
   claims |-> Command({rewards_publication.getClaimableRewards}),
   claim |-> DryRun(Command({rewards_methods.claim})),
   fund |-> DryRun(Command({rewards_methods.fundPool}))]

(* packages/cli/src/program.ts: the same program built for the tests, with the commands of four more clients. *)
program_proposals ==
  [list |-> Command({governor_getProposalsForAddress}),
   get |->
      Command({governor_records.getProposal, governor_status.getProposalState, governor_ballots.getProposalVotes}),
   create |-> DryRun(Command({governor_propose}))]
program_vote ==
  [cast |-> DryRun(Command({governor_voting.castVote})),
   status |-> Command({governor_receipts.getReceipt})]
program_delegate ==
  [to |-> DryRun(Command({votes_delegation.delegate})),
   show |-> Command({votes_power.getDelegatee, votes_power.getVotes})]
program_wrapper ==
  [wrap |-> DryRun(Command({wrapper_methods.deposit})),
   unwrap |-> DryRun(Command({wrapper_methods.withdraw})),
   balance |-> Command({wrapper_methods.getDepositorBalance, wrapper_methods.getVotes})]
program_treasury ==
  [balance |->
      Command({treasury_signers.getOwners, treasury_signers.getThreshold, treasury_transactions.getTxCount,
               treasury_signers.getSpentThisPeriod}),
   batchTransfer |-> DryRun(Command({treasury_spending.batchTransfer}))]
program_factory ==
  [deploy |-> DryRun(Command({factory_methods.deploy, factory_methods.getGovernor})),
   list |-> Command({factory_methods.getAllGovernors}),
   show |-> Command({factory_methods.getGovernor})]
program_proposalBonds ==
  [list |-> Command({bonds_lists.listBonds}),
   settings |-> Command({bonds_reads.getSettings})]
program_convictionVoting ==
  [proposal |-> Command({conviction_methods.getProposal}),
   history |-> Command({conviction_methods.getConvictionHistory})]
program_optimisticGovernor ==
  [list |-> Command({optimistic_methods.listProposals}),
   get |-> Command({optimistic_methods.getProposal}),
   config |-> Command({optimistic_methods.getConfig})]
program_treasuryStrategies ==
  [list |-> Command({strategies_withdrawals.listStrategies}),
   get |-> Command({strategies_reads.getStrategy})]
program_signalingPolls ==
  [list |-> Command({signaling_methods.listPolls}),
   get |-> Command({signaling_methods.getPoll}),
   results |-> Command({signaling_methods.getResults})]
program_reputation ==
  [get |-> Command({reputation_getProposerReputation}),
   history |-> Command({reputation_scores.getScoreHistory}),
   threshold |-> Command({reputation_scores.getEffectiveThreshold})]
program_liquidity ==
  [pool |-> Command({liquidity_getPoolSafe}),
   price |-> Command({liquidity_methods.getPrice}),
   position |-> Command({liquidity_methods.getLpPosition}),
   add |-> DryRun(Command({liquidity_methods.addLiquidityWithSign})),
   remove |-> DryRun(Command({liquidity_methods.removeLiquidityWithSign})),
   swap |-> DryRun(Command({liquidity_methods.swapWithSign}))]

(* The commands both programs register from guardianCouncil.ts. *)
council_guardianCouncil ==
  [propose |-> DryRun(Command({guardians_writes.proposeAction})),
   approve |-> DryRun(Command({guardians_writes.approveAction})),
   revoke |-> DryRun(Command({guardians_writes.revokeApproval})),
   execute |-> DryRun(Command({guardians_writes.executeAction})),
   get |-> Command({guardians_reads.getAction}),
   members |-> Command({guardians_reads.getMembers}),
   threshold |-> Command({guardians_reads.getThreshold})]

Commands ==
  UNION {Range(cli_proposals), Range(cli_vote), Range(cli_delegate), Range(cli_treasury),
  Range(cli_proposalBonds), Range(cli_convictionVoting), Range(cli_optimisticGovernor),
  Range(cli_treasuryStrategies), Range(cli_signalingPolls), Range(cli_drafts), Range(cli_voteEscrow),
  Range(cli_votingRewards), Range(program_proposals), Range(program_vote), Range(program_delegate),
  Range(program_wrapper), Range(program_treasury), Range(program_factory), Range(program_proposalBonds),
  Range(program_convictionVoting), Range(program_optimisticGovernor), Range(program_treasuryStrategies),
  Range(program_signalingPolls), Range(program_reputation), Range(program_liquidity),
  Range(council_guardianCouncil)}
=============================================================================
