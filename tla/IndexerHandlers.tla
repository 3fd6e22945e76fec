--------------------------- MODULE IndexerHandlers ---------------------------
(***************************************************************************)
(* What the indexer does with one chain event (packages/indexer/src/       *)
(* events.ts).  A handler is the sequence of the effects it awaits or      *)
(* performs, in order: SQL statements, cache invalidations, the WebSocket  *)
(* broadcast.  No handler opens a transaction (the treasury projection is  *)
(* the exception), so module Indexer runs the effects one at a time.       *)
(*                                                                         *)
(* An event is a record with its RPC id, ledger, contract, raw topic name  *)
(* and the fields d that its value decodes to (legacy tuples and structs   *)
(* decode to the same fields).  A cache key is the sequence of its         *)
(* colon-separated segments.                                               *)
(***************************************************************************)
EXTENDS Integers, Sequences

---------------------------------------------------------------------------
\* The effects of a handler.

\* INSERT ... ON CONFLICT (key) DO NOTHING / DO UPDATE SET set.  ref is the
\* foreign key of the table: a row of ref.tbl matching ref.where must exist.
NoRef == [tbl |-> "none", where |-> <<>>]
Insert(tbl, key, row, ref) ==
    [op |-> "insert", tbl |-> tbl, key |-> key, row |-> row, ref |-> ref]
Upsert(tbl, key, row, set, ref) ==
    [op |-> "upsert", tbl |-> tbl, key |-> key, row |-> row, set |-> set, ref |-> ref]
\* INSERT into a table whose only key is its serial id.
AppendRow(tbl, row, ref) == [op |-> "append", tbl |-> tbl, row |-> row, ref |-> ref]
Update(tbl, where, set) == [op |-> "update", tbl |-> tbl, where |-> where, set |-> set]
Add(tbl, where, col, n) == [op |-> "add", tbl |-> tbl, where |-> where, col |-> col, n |-> n]
Delete(tbl, where) == [op |-> "delete", tbl |-> tbl, where |-> where]
\* SELECT col FROM tbl WHERE where ORDER BY id DESC LIMIT 1, kept by the caller.
Select(tbl, where, col) == [op |-> "select", tbl |-> tbl, where |-> where, col |-> col]
\* INSERT of a row whose column col is the value selected before it.
AppendSelected(tbl, row, col) == [op |-> "appendSelected", tbl |-> tbl, row |-> row, col |-> col]
Invalidate(keys) == [op |-> "invalidate", keys |-> keys]
InvalidatePattern(prefix) == [op |-> "invalidatePattern", prefix |-> prefix]
Broadcast(type) == [op |-> "broadcast", type |-> type]
Throw == [op |-> "throw"]

---------------------------------------------------------------------------
\* Governor.

handleProposalCreated(e) ==
  << InvalidatePattern(<<"proposals">>),
     Insert("proposals", {"id"},
            [id |-> e.d.id, proposer |-> e.d.proposer, votes_for |-> 0,
             votes_against |-> 0, votes_abstain |-> 0,
             queued |-> FALSE, executed |-> FALSE, cancelled |-> FALSE], NoRef),
     Invalidate({<<"profile", e.d.proposer>>}),
     Broadcast("proposal_created") >>

TallyColumn(support) ==
  IF support = 1 THEN "votes_for" ELSE IF support = 0 THEN "votes_against" ELSE "votes_abstain"

VoteEffects(id, voter, support, weight) ==
  << Upsert("votes", {"proposal_id", "voter"},
            [proposal_id |-> id, voter |-> voter, support |-> support, weight |-> weight],
            [support |-> support, weight |-> weight],
            [tbl |-> "proposals", where |-> [id |-> id]]),
     Add("proposals", [id |-> id], TallyColumn(support), weight),
     Invalidate({<<"proposal_votes", id>>, <<"profile", voter>>}),
     InvalidatePattern(<<"proposals">>),
     Broadcast("vote_cast") >>

\* The voter is the second topic, the rest is read by its place in a tuple.  The
\* governor publishes a struct.
handleVoteCast(e) ==
  IF e.topics > 1 /\ e.form = "tuple" THEN VoteEffects(e.d.id, e.d.voter, e.d.support, e.d.weight) ELSE << Throw >>

ProposalFlag(id, set, type) ==
  << Update("proposals", [id |-> id], set),
     Invalidate({<<"proposal_votes", id>>}),
     InvalidatePattern(<<"proposals">>),
     Broadcast(type) >>

\* The id is the second topic.  The governor publishes one topic and a struct.
handleProposalQueued(e) ==
  IF e.topics > 1 THEN ProposalFlag(e.d.id, [queued |-> TRUE], "proposal_queued") ELSE << Throw >>
handleProposalExecuted(e) ==
  IF e.topics > 1 THEN ProposalFlag(e.d.id, [executed |-> TRUE], "proposal_executed") ELSE << Throw >>
handleProposalCancelled(e) ==
  IF "id" \in DOMAIN e.d THEN ProposalFlag(e.d.id, [cancelled |-> TRUE], "proposal_cancelled")
                         ELSE << Throw >>

\* The unparsable old or new settings of a ConfigUpdated are skipped in silence.
handleConfigUpdated(e) ==
  IF e.d.parses THEN << AppendRow("config_updates", [ledger |-> e.ledger, settings |-> e.d.settings], NoRef) >>
                ELSE << >>
handleGovernorUpgraded(e) ==
  << AppendRow("governor_upgrades", [ledger |-> e.ledger, hash |-> e.d.hash], NoRef) >>

handleReputationUpdated(e) ==
  << Upsert("proposer_reputation", {"proposer"},
            [proposer |-> e.d.proposer, score |-> e.d.new, ledger |-> e.ledger],
            [score |-> e.d.new, ledger |-> e.ledger], NoRef),
     AppendRow("reputation_score_history",
            [proposer |-> e.d.proposer, score |-> e.d.new, change |-> e.d.new - e.d.old, ledger |-> e.ledger],
            NoRef),
     Invalidate({<<"reputation", e.d.proposer>>}),
     InvalidatePattern(<<"reputation", "leaderboard">>),
     Broadcast("reputation_updated") >>

handleEffectiveThresholdChanged(e) ==
  << AppendRow("effective_threshold_history", [proposer |-> e.d.proposer, threshold |-> e.d.new, ledger |-> e.ledger],
            NoRef),
     Broadcast("effective_threshold_changed") >>

---------------------------------------------------------------------------
\* Token votes and the wrapper.

\* old_delegatee is NOT NULL: the first delegation of an account, which token
\* votes publish without an old delegatee, is refused.
handleDelegateChanged(e) ==
  IF e.d.from = "null" THEN << Throw >>
  ELSE << AppendRow("delegates", [delegator |-> e.d.delegator, new_delegatee |-> e.d.to, ledger |-> e.ledger], NoRef),
          InvalidatePattern(<<"delegates">>),
          Invalidate({<<"profile", e.d.delegator>>}),
          Broadcast("delegate_changed") >>

handleDelegationRegistered(e) ==
  << AppendRow("delegation_entries",
            [delegator |-> e.d.delegator, delegatee |-> e.d.to, power |-> e.d.power, active |-> TRUE], NoRef),
     InvalidatePattern(<<"delegates">>),
     Invalidate({<<"profile", e.d.delegator>>, <<"profile", e.d.to>>}),
     Broadcast("delegation_registered") >>

handleDelegationRevoked(e) ==
  << Update("delegation_entries", [delegator |-> e.d.delegator, delegatee |-> e.d.to, active |-> TRUE],
            [active |-> FALSE]),
     InvalidatePattern(<<"delegates">>),
     Invalidate({<<"profile", e.d.delegator>>, <<"profile", e.d.to>>}),
     Broadcast("delegation_revoked") >>

handleDelegationDepthLimitUpdated(e) == << Broadcast("delegation_depth_limit_updated") >>

\* The two statements a split adds for one of its (delegatee, weight) entries.
SplitEntry(delegator, s) ==
  << Select("delegation_entries", [delegator |-> delegator, delegatee |-> s.to, active |-> TRUE], "power"),
     AppendSelected("split_delegations",
                    [delegator |-> delegator, delegatee |-> s.to, weight_bps |-> s.bps, active |-> TRUE], "power") >>

SplitInvalidations(e, type) ==
  << InvalidatePattern(<<"delegates">>),
     InvalidatePattern(<<"split-delegations">>),
     Invalidate({<<"profile", e.d.delegator>>}),
     Broadcast(type) >>

DeactivateSplits(e) ==
  << Update("split_delegations", [delegator |-> e.d.delegator, active |-> TRUE], [active |-> FALSE]) >>

handleSplitDelegated(e) ==
  LET statement(k) == SplitEntry(e.d.delegator, e.d.splits[(k + 1) \div 2])[IF k % 2 = 1 THEN 1 ELSE 2]
  IN  DeactivateSplits(e) \o [k \in 1..2 * Len(e.d.splits) |-> statement(k)]
      \o SplitInvalidations(e, "split_delegated")

\* Mutant of handleSplitUndelegated: no key is invalidated.
handleSplitUndelegated_silent(e) == DeactivateSplits(e)

handleSplitUndelegated(e) == DeactivateSplits(e) \o SplitInvalidations(e, "split_undelegated")

handleDelegatedBySig(e) ==
  << AppendRow("delegated_by_sig_events",
            [delegator |-> e.d.delegator, relayer |-> e.d.relayer, nonce |-> e.d.nonce], NoRef),
     InvalidatePattern(<<"delegations_by_sig">>),
     Broadcast("delegated_by_sig") >>

handlePermitsInvalidated(e) == << Broadcast("permits_invalidated") >>

handleRelayerWhitelistUpdated(e) ==
  << AppendRow("relayer_whitelist_history",
            [relayer |-> e.d.relayer, whitelisted |-> e.d.whitelisted, ledger |-> e.ledger], NoRef),
     InvalidatePattern(<<"relayers">>),
     Broadcast("relayer_whitelist_updated") >>

WrapperMove(e, tbl, type) ==
  << AppendRow(tbl, [account |-> e.d.account, amount |-> e.d.amount, ledger |-> e.ledger], NoRef),
     Invalidate({<<"profile", e.d.account>>}),
     Broadcast(type) >>

handleWrapperDeposit(e) == WrapperMove(e, "wrapper_deposits", "wrapper_deposit")
handleWrapperWithdraw(e) == WrapperMove(e, "wrapper_withdrawals", "wrapper_withdrawal")

---------------------------------------------------------------------------
\* Conviction voting and the optimistic governor.

handleConvictionEvent(e, type) ==
  LET ref == [tbl |-> "conviction_proposals", where |-> [proposal_id |-> e.d.id]]
      row == [staker |-> e.d.staker, proposal_id |-> e.d.id, amount |-> e.d.amount]
      tail(ws) == << InvalidatePattern(<<"conviction">>), Broadcast(ws) >>
  IN CASE type = "ProposalCreated" ->
            << Insert("conviction_proposals", {"proposal_id"},
                      [proposal_id |-> e.d.id, conviction |-> 0, executed |-> FALSE, cancelled |-> FALSE], NoRef) >>
            \o tail("conviction_proposal_created")
       [] type = "StakeUpdated" /\ e.d.amount = 0 ->
            << Delete("conviction_stakes", [staker |-> e.d.staker, proposal_id |-> e.d.id]) >>
            \o tail("conviction_stake_updated")
       [] type = "StakeUpdated" /\ e.d.amount # 0 ->
            << Upsert("conviction_stakes", {"staker"}, row,
                      [proposal_id |-> e.d.id, amount |-> e.d.amount], ref) >>
            \o tail("conviction_stake_updated")
       [] type = "ConvictionUpdated" ->
            << Update("conviction_proposals", [proposal_id |-> e.d.id], [conviction |-> e.d.conviction]),
               Upsert("conviction_snapshots", {"proposal_id", "ledger"},
                      [proposal_id |-> e.d.id, ledger |-> e.ledger, conviction |-> e.d.conviction],
                      [conviction |-> e.d.conviction], ref) >>
            \o tail("conviction_conviction_updated")
       [] type = "ProposalExecuted" ->
            << Update("conviction_proposals", [proposal_id |-> e.d.id], [executed |-> TRUE]) >>
            \o tail("conviction_proposal_executed")
       [] type = "ProposalCancelled" ->
            << Update("conviction_proposals", [proposal_id |-> e.d.id], [cancelled |-> TRUE]) >>
            \o tail("conviction_proposal_cancelled")
       [] OTHER -> << >>

handleOptimisticGovernorEvent(e, type) ==
  LET ref == [tbl |-> "optimistic_proposals", where |-> [proposal_id |-> e.d.id]]
      tail(ws) == << InvalidatePattern(<<"optimistic">>), Broadcast(ws) >>
      state(s, ws) == << Update("optimistic_proposals", [proposal_id |-> e.d.id], [state |-> s]) >> \o tail(ws)
  IN CASE type = "ProposalCreated" ->
            << Insert("optimistic_proposals", {"proposal_id"},
                      [proposal_id |-> e.d.id, state |-> "challenge_window", objection_votes |-> 0], NoRef) >>
            \o tail("optimistic_proposal_created")
       [] type = "ObjectionCast" ->
            << Insert("optimistic_objections", {"proposal_id", "objector"},
                      [proposal_id |-> e.d.id, objector |-> e.d.objector, weight |-> e.d.weight], ref),
               Update("optimistic_proposals", [proposal_id |-> e.d.id], [objection_votes |-> e.d.total]) >>
            \o tail("optimistic_objection_cast")
       [] type = "ProposalObjected" -> state("objected", "optimistic_proposal_objected")
       [] type = "ProposalPassed" -> state("passed", "optimistic_proposal_passed")
       [] type = "ProposalExecuted" -> state("executed", "optimistic_proposal_executed")
       [] type = "ProposalCancelled" -> state("cancelled", "optimistic_proposal_cancelled")
       [] OTHER -> << >>

---------------------------------------------------------------------------
\* Drafts, bonds, anchors, vote escrow.

DraftTail(type) == << InvalidatePattern(<<"drafts">>), Broadcast(type) >>

handleDraftCreated(e) ==
  << Insert("drafts", {"draft_id"},
            [draft_id |-> e.d.id, creator |-> e.d.creator, total_power |-> 0, finalized |-> FALSE,
             cancelled |-> FALSE, expired |-> FALSE], NoRef) >> \o DraftTail("draft_created")

handleCoSponsored(e) ==
  << Upsert("draft_co_sponsors", {"draft_id", "sponsor"},
            [draft_id |-> e.d.id, sponsor |-> e.d.sponsor, power |-> e.d.power, withdrawn |-> FALSE],
            [power |-> e.d.power, withdrawn |-> FALSE],
            [tbl |-> "drafts", where |-> [draft_id |-> e.d.id]]),
     Update("drafts", [draft_id |-> e.d.id], [total_power |-> e.d.total]) >> \o DraftTail("co_sponsored")

handleCoSponsorshipWithdrawn(e) ==
  << Update("draft_co_sponsors", [draft_id |-> e.d.id, sponsor |-> e.d.sponsor], [withdrawn |-> TRUE]),
     Update("drafts", [draft_id |-> e.d.id], [total_power |-> e.d.total]) >>
  \o DraftTail("co_sponsorship_withdrawn")

handleDraftFinalized(e) ==
  << Update("drafts", [draft_id |-> e.d.id], [finalized |-> TRUE]) >> \o DraftTail("draft_finalized")
handleDraftCancelled(e) ==
  << Update("drafts", [draft_id |-> e.d.id], [cancelled |-> TRUE]) >> \o DraftTail("draft_cancelled")
handleDraftExpired(e) ==
  << Update("drafts", [draft_id |-> e.d.id], [expired |-> TRUE]) >> \o DraftTail("draft_expired")

BondTail(type) == << InvalidatePattern(<<"proposal-bonds">>), Broadcast(type) >>

handleBondLocked(e) ==
  << Insert("proposal_bonds", {"hash"}, [hash |-> e.d.hash, proposer |-> e.d.proposer, state |-> "locked"], NoRef) >>
  \o BondTail("bond_locked")
handleBondRefunded(e) ==
  << Update("proposal_bonds", [hash |-> e.d.hash], [state |-> "refunded"]) >> \o BondTail("bond_refunded")
handleBondSlashed(e) ==
  << Update("proposal_bonds", [hash |-> e.d.hash], [state |-> "slashed"]) >> \o BondTail("bond_slashed")

\* Mutant of handleResultAnchored: the INSERT has no ON CONFLICT clause.
handleResultAnchored_append(e) ==
  << AppendRow("signal_anchors", [poll_id |-> e.d.id, hash |-> e.d.hash], NoRef) >>

handleResultAnchored(e) ==
  << Insert("signal_anchors", {"poll_id"}, [poll_id |-> e.d.id, hash |-> e.d.hash], NoRef),
     InvalidatePattern(<<"signal-anchors">>),
     Broadcast("result_anchored") >>

\* Every type except LockWithdrawn is taken for the lock as it now stands; the
\* owner's next lock overwrites the row of the one withdrawn.
handleVoteEscrowEvent(e, type) ==
  CASE e.d.owner = "" -> << >>
    [] e.d.owner # "" /\ type = "LockWithdrawn" ->
         << Update("vote_escrow_locks", [owner |-> e.d.owner], [withdrawn |-> TRUE]),
            InvalidatePattern(<<"vote-escrow">>) >>
    [] OTHER ->
         << Upsert("vote_escrow_locks", {"owner"},
                   [owner |-> e.d.owner, amount |-> e.d.amount, withdrawn |-> FALSE],
                   [amount |-> e.d.amount, withdrawn |-> FALSE], NoRef),
            InvalidatePattern(<<"vote-escrow">>) >>

---------------------------------------------------------------------------
\* Treasury, its strategies, the liquidity pools.

\* ON CONFLICT DO NOTHING, but op_hash is not unique: the table takes every row.
\* The token, which is NOT NULL, is the second topic; the treasury publishes one.
handleTreasuryBatchTransfer(e) ==
  IF e.topics > 1 THEN << AppendRow("treasury_transfers", [op_hash |-> e.d.hash, amount |-> e.d.amount], NoRef) >>
                  ELSE << Throw >>

\* The event's receipt is looked up, the stream is read from the chain, and the
\* receipt and the stream's new projection are written in one transaction.
handleTreasuryStreamEvent(e) ==
  << [op |-> "streamExists", id |-> e.id],
     [op |-> "readStream", stream |-> e.d.stream],
     [op |-> "persistStream", id |-> e.id, stream |-> e.d.stream, ledger |-> e.ledger],
     Invalidate({<<"treasury", "stream", e.d.stream>>, <<"treasury", "budget-summary">>}),
     InvalidatePattern(<<"treasury", "streams">>),
     InvalidatePattern(<<"treasury", "stream", e.d.stream, "spends">>),
     InvalidatePattern(<<"treasury", "stream", e.d.stream, "events">>),
     Broadcast("stream_event") >>

StrategyTail(type) == << InvalidatePattern(<<"treasury-strategies">>), Broadcast(type) >>
StrategyRef(id) == [tbl |-> "treasury_strategies", where |-> [strategy_id |-> id]]

handleStrategyRegistered(e) ==
  << Insert("treasury_strategies", {"strategy_id"},
            [strategy_id |-> e.d.id, active |-> TRUE, allocation |-> 0], NoRef) >>
  \o StrategyTail("strategy_registered")
handleStrategyDeactivated(e) ==
  << Update("treasury_strategies", [strategy_id |-> e.d.id], [active |-> FALSE]) >>
  \o StrategyTail("strategy_deactivated")
handleStrategyDeposited(e) ==
  << AppendRow("strategy_allocations", [strategy_id |-> e.d.id, amount |-> e.d.amount], StrategyRef(e.d.id)),
     Add("treasury_strategies", [strategy_id |-> e.d.id], "allocation", e.d.amount) >>
  \o StrategyTail("strategy_deposited")
handleStrategyWithdrawalRequested(e) ==
  << Insert("strategy_withdrawals", {"withdrawal_id"},
            [withdrawal_id |-> e.d.wid, strategy_id |-> e.d.id, amount |-> e.d.amount, claimed |-> FALSE],
            StrategyRef(e.d.id)),
     Add("treasury_strategies", [strategy_id |-> e.d.id], "allocation", -e.d.amount) >>
  \o StrategyTail("strategy_withdrawal_requested")
handleStrategyWithdrawalClaimed(e) ==
  << Update("strategy_withdrawals", [withdrawal_id |-> e.d.wid], [claimed |-> TRUE]) >>
  \o StrategyTail("strategy_withdrawal_claimed")

LiquidityRow(e, kind) == [kind |-> kind, account |-> e.d.account, amount |-> e.d.amount, ledger |-> e.ledger]
handleLiquidityAdded(e) ==
  << AppendRow("liquidity_events", LiquidityRow(e, "add"), NoRef), Broadcast("liquidity_added") >>
handleLiquidityRemoved(e) ==
  << AppendRow("liquidity_events", LiquidityRow(e, "remove"), NoRef), Broadcast("liquidity_removed") >>
handleSwap(e) == << AppendRow("swap_events", LiquidityRow(e, "swap"), NoRef), Broadcast("swap") >>
handlePoolFeeUpdated(e) ==
  << AppendRow("pool_fee_updates", [fee |-> e.d.fee, ledger |-> e.ledger], NoRef), Broadcast("pool_fee_updated") >>

---------------------------------------------------------------------------
\* Timelock.

OpTail(e, type) ==
  << Invalidate({<<"timelock", "op", e.d.op>>}), InvalidatePattern(<<"timelock", "ops">>), Broadcast(type) >>
BatchTail(e, type) ==
  << Invalidate({<<"timelock", "batch", e.d.batch>>}), InvalidatePattern(<<"timelock", "batches">>), Broadcast(type) >>
PartialTail(e, type) == << Invalidate({<<"timelock", "partial_state", e.d.batch>>}), Broadcast(type) >>

\* Scheduling an operation again renews its times and leaves its status.
handleTimelockOperationScheduled(e) ==
  << Upsert("timelock_operations", {"op_id"}, [op_id |-> e.d.op, ready_at |-> e.d.ready, status |-> "scheduled"],
            [ready_at |-> e.d.ready], NoRef) >> \o OpTail(e, "timelock_operation_scheduled")
handleTimelockOperationExecuted(e) ==
  << Update("timelock_operations", [op_id |-> e.d.op], [status |-> "executed"]) >>
  \o OpTail(e, "timelock_operation_executed")
handleTimelockOperationCancelled(e) ==
  << Update("timelock_operations", [op_id |-> e.d.op], [status |-> "cancelled"]) >>
  \o OpTail(e, "timelock_operation_cancelled")

handleTimelockBatchOperationScheduled(e) ==
  << Upsert("timelock_batch_operations", {"batch_op_id"},
            [batch_op_id |-> e.d.batch, ready_at |-> e.d.ready, status |-> "scheduled"],
            [ready_at |-> e.d.ready], NoRef) >> \o BatchTail(e, "timelock_batch_operation_scheduled")
handleTimelockBatchOperationExecuted(e) ==
  << Update("timelock_batch_operations", [batch_op_id |-> e.d.batch], [status |-> "executed"]) >>
  \o BatchTail(e, "timelock_batch_operation_executed")
handleTimelockBatchOperationCancelled(e) ==
  << Update("timelock_batch_operations", [batch_op_id |-> e.d.batch], [status |-> "cancelled"]) >>
  \o BatchTail(e, "timelock_batch_operation_cancelled")

handleTimelockMinDelayUpdated(e) == << Broadcast("timelock_min_delay_updated") >>

handleTimelockDependencyDagValidated(e) ==
  << Insert("timelock_dependency_graphs", {"validation_id"},
            [validation_id |-> e.id, batch_op_id |-> e.d.batch, has_cycle |-> FALSE], NoRef),
     Invalidate({<<"timelock", "dag", e.d.batch>>}),
     Broadcast("timelock_dependency_dag_validated") >>
handleTimelockCycleDetected(e) ==
  << Insert("timelock_dependency_graphs", {"validation_id"},
            [validation_id |-> e.id, batch_op_id |-> "null", has_cycle |-> TRUE], NoRef),
     Broadcast("timelock_cycle_detected") >>

\* A batch started again keeps completed_ops and goes back to in_progress.
handleTimelockPartialBatchStarted(e) ==
  << Upsert("timelock_partial_batch_state", {"batch_op_id"},
            [batch_op_id |-> e.d.batch, total |-> e.d.total, completed |-> 0, retries |-> 0,
             status |-> "in_progress", last_status |-> "null"],
            [total |-> e.d.total, status |-> "in_progress"], NoRef) >>
  \o PartialTail(e, "timelock_partial_batch_started")
PartialUpdate(e, set, type) ==
  << Update("timelock_partial_batch_state", [batch_op_id |-> e.d.batch], set) >> \o PartialTail(e, type)
handleTimelockPartialOpSucceeded(e) ==
  PartialUpdate(e, [completed |-> e.d.completed, total |-> e.d.total, last_status |-> "succeeded"],
                "timelock_partial_op_succeeded")
handleTimelockPartialOpFailed(e) ==
  PartialUpdate(e, [last_status |-> "failed"], "timelock_partial_op_failed")
handleTimelockBatchRecoveryEntered(e) ==
  PartialUpdate(e, [status |-> "recovery"], "timelock_batch_recovery_entered")
handleTimelockFailedOpRetried(e) ==
  PartialUpdate(e, [retries |-> e.d.retries, last_status |-> IF e.d.ok THEN "succeeded" ELSE "failed"],
                "timelock_failed_op_retried")
handleTimelockFailedOpSkipped(e) ==
  PartialUpdate(e, [last_status |-> "skipped"], "timelock_failed_op_skipped")
handleTimelockBatchFullyComplete(e) ==
  << Update("timelock_partial_batch_state", [batch_op_id |-> e.d.batch], [status |-> "completed"]),
     Update("timelock_batch_operations", [batch_op_id |-> e.d.batch], [status |-> "executed"]),
     Invalidate({<<"timelock", "partial_state", e.d.batch>>}) >>
  \o BatchTail(e, "timelock_batch_fully_complete")

---------------------------------------------------------------------------
\* processEvents: which contracts are asked for, and who handles an event.

\* The contracts of the getEvents filter.  treasuryStrategies is configured, has
\* handlers and is not in the filter.
contractIds ==
  {"governor", "wrapper", "treasury", "liquidity", "coSponsorship", "proposalBonds", "tokenVotes",
   "timelock", "conviction", "signalAnchor", "optimistic", "voteEscrow"}

\* Legacy short topics and their canonical names; any other topic is its own.
LegacyTopics ==
  [prop_crtd |-> "ProposalCreated", vote |-> "VoteCast", vote_rsn |-> "VoteCastWithReason",
   queued |-> "ProposalQueued", executed |-> "ProposalExecuted", cancelled |-> "ProposalCancelled",
   delegate |-> "DelegateChanged", del_chsh |-> "DelegateChanged",
   config_updated |-> "ConfigUpdated", upgraded |-> "GovernorUpgraded"]
TOPIC_MAP(raw) == IF raw \in DOMAIN LegacyTopics THEN LegacyTopics[raw] ELSE raw

\* INSERT INTO event_log ... ON CONFLICT (event_id) DO NOTHING.
logToEventLog(e) ==
  << Insert("event_log", {"event_id"}, [event_id |-> e.id, type |-> TOPIC_MAP(e.topic), ledger |-> e.ledger], NoRef) >>

TokenVotesHandler(e, type) ==
  CASE type = "DelegateChanged" -> handleDelegateChanged(e)
    [] type = "DelegationRegistered" -> handleDelegationRegistered(e)
    [] type = "DelegationRevoked" -> handleDelegationRevoked(e)
    [] type = "DelegationDepthLimitUpdated" -> handleDelegationDepthLimitUpdated(e)
    [] type = "DelegatedBySig" -> handleDelegatedBySig(e)
    [] type = "PermitsInvalidated" -> handlePermitsInvalidated(e)
    [] type = "RelayerWhitelistUpdated" -> handleRelayerWhitelistUpdated(e)
    [] type = "SplitDelegated" -> handleSplitDelegated(e)
    [] type = "SplitUndelegated" -> handleSplitUndelegated(e)
    [] OTHER -> << >>

TimelockHandler(e, type) ==
  CASE type = "OperationScheduled" -> handleTimelockOperationScheduled(e)
    [] type = "OperationExecuted" -> handleTimelockOperationExecuted(e)
    [] type = "OperationCancelled" -> handleTimelockOperationCancelled(e)
    [] type = "BatchOperationScheduled" -> handleTimelockBatchOperationScheduled(e)
    [] type = "BatchOperationExecuted" -> handleTimelockBatchOperationExecuted(e)
    [] type = "BatchOperationCancelled" -> handleTimelockBatchOperationCancelled(e)
    [] type = "MinDelayUpdated" -> handleTimelockMinDelayUpdated(e)
    [] type = "DependencyDagValidated" -> handleTimelockDependencyDagValidated(e)
    [] type = "CycleDetected" -> handleTimelockCycleDetected(e)
    [] type = "PartialBatchStarted" -> handleTimelockPartialBatchStarted(e)
    [] type = "PartialOpSucceeded" -> handleTimelockPartialOpSucceeded(e)
    [] type = "PartialOpFailed" -> handleTimelockPartialOpFailed(e)
    [] type = "BatchRecoveryEntered" -> handleTimelockBatchRecoveryEntered(e)
    [] type = "FailedOpRetried" -> handleTimelockFailedOpRetried(e)
    [] type = "FailedOpSkipped" -> handleTimelockFailedOpSkipped(e)
    [] type = "BatchFullyComplete" -> handleTimelockBatchFullyComplete(e)
    [] OTHER -> << >>

\* The small contracts: wrapper, liquidity, drafts, bonds, anchors, strategies.
PeripheryTypes ==
  [wrapper |-> {"deposit", "Deposit", "withdraw", "Withdraw", "DelegateChanged"},
   liquidity |-> {"LiquidityAdded", "LiquidityRemoved", "Swap", "PoolFeeUpdated"},
   coSponsorship |-> {"DraftCreated", "CoSponsored", "CoSponsorshipWithdrawn", "DraftFinalized",
                      "DraftCancelled", "DraftExpired"},
   proposalBonds |-> {"BondLocked", "BondRefunded", "BondSlashed"},
   signalAnchor |-> {"ResultAnchored"},
   treasuryStrategies |-> {"StratReg", "StratDeact", "Deposited", "WdrawReq", "WdrawClaim"}]
PeripheryHandler(e, type) ==
  CASE type \notin PeripheryTypes[e.contract] -> << >>
    [] type \in {"deposit", "Deposit"} -> handleWrapperDeposit(e)
    [] type \in {"withdraw", "Withdraw"} -> handleWrapperWithdraw(e)
    [] type = "DelegateChanged" -> handleDelegateChanged(e)
    [] type = "LiquidityAdded" -> handleLiquidityAdded(e)
    [] type = "LiquidityRemoved" -> handleLiquidityRemoved(e)
    [] type = "Swap" -> handleSwap(e)
    [] type = "PoolFeeUpdated" -> handlePoolFeeUpdated(e)
    [] type = "DraftCreated" -> handleDraftCreated(e)
    [] type = "CoSponsored" -> handleCoSponsored(e)
    [] type = "CoSponsorshipWithdrawn" -> handleCoSponsorshipWithdrawn(e)
    [] type = "DraftFinalized" -> handleDraftFinalized(e)
    [] type = "DraftCancelled" -> handleDraftCancelled(e)
    [] type = "DraftExpired" -> handleDraftExpired(e)
    [] type = "BondLocked" -> handleBondLocked(e)
    [] type = "BondRefunded" -> handleBondRefunded(e)
    [] type = "BondSlashed" -> handleBondSlashed(e)
    [] type = "ResultAnchored" -> handleResultAnchored(e)
    [] type = "StratReg" -> handleStrategyRegistered(e)
    [] type = "StratDeact" -> handleStrategyDeactivated(e)
    [] type = "Deposited" -> handleStrategyDeposited(e)
    [] type = "WdrawReq" -> handleStrategyWithdrawalRequested(e)
    [] type = "WdrawClaim" -> handleStrategyWithdrawalClaimed(e)
    [] OTHER -> << >>

GovernorHandler(e, type) ==
  CASE type = "ProposalCreated" -> handleProposalCreated(e)
    [] type \in {"VoteCast", "VoteCastWithReason"} -> handleVoteCast(e)
    [] type = "ProposalQueued" -> handleProposalQueued(e)
    [] type = "ProposalExecuted" -> handleProposalExecuted(e)
    [] type = "ProposalCancelled" -> handleProposalCancelled(e)
    [] type = "DelegateChanged" -> handleDelegateChanged(e)
    [] type = "ConfigUpdated" -> handleConfigUpdated(e)
    [] type = "GovernorUpgraded" -> handleGovernorUpgraded(e)
    [] type = "ReputationUpdated" -> handleReputationUpdated(e)
    [] type = "EffectiveThresholdChanged" -> handleEffectiveThresholdChanged(e)
    [] OTHER -> << >>

StreamTypes ==
  {"stream_created", "stream_spend", "stream_batch", "stream_revoked", "stream_extended",
   "stream_topped_up", "stream_exhausted", "stream_expired"}

\* Who handles an event.
Handler(e) ==
  LET type == TOPIC_MAP(e.topic)
  IN  CASE e.contract = "conviction" -> handleConvictionEvent(e, type)
        [] e.contract = "treasury" -> CASE type = "bat_xfer" -> handleTreasuryBatchTransfer(e)
                                         [] type \in StreamTypes -> handleTreasuryStreamEvent(e)
                                         [] OTHER -> << >>
        [] e.contract \in DOMAIN PeripheryTypes -> PeripheryHandler(e, type)
        [] e.contract = "tokenVotes" -> TokenVotesHandler(e, type)
        [] e.contract = "timelock" -> TimelockHandler(e, type)
        [] e.contract = "optimistic" -> handleOptimisticGovernorEvent(e, type)
        [] e.contract = "voteEscrow" -> handleVoteEscrowEvent(e, type)
        [] OTHER -> GovernorHandler(e, type)

\* Everything one event makes the batch do, in order: the log entry first.
Effects(e) == logToEventLog(e) \o Handler(e)
=============================================================================
