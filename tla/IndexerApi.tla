------------------------------ MODULE IndexerApi ------------------------------
(***************************************************************************)
(* The routes of packages/indexer/src/api.ts: for each the cache key it    *)
(* answers from (none for a route that always queries), the tables and     *)
(* columns its queries depend on, whether it validates its parameters      *)
(* (400) and whether an empty answer is a 404.                             *)
(***************************************************************************)
EXTENDS Integers, Sequences, SequencesExt

\* reads is a set of <<table, column, value>>: the rows of table whose column has
\* that value, or the whole table for All(table).
All(tbl) == <<tbl, "*", "*">>
By(tbl, col, v) == <<tbl, col, v>>
Cached(key, reads) == [key |-> key, reads |-> reads, checks |-> FALSE, need |-> FALSE]
Direct(reads) == Cached(<<>>, reads)
Checked(r) == [r EXCEPT !.checks = TRUE]
OrNotFound(r) == [r EXCEPT !.need = TRUE]

\* The database is a function from the tables that have had a row to their rows.
Table(d, tbl) == IF tbl \in DOMAIN d THEN d[tbl] ELSE << >>

\* The rows a route's queries return on database db, by their places in the tables.
Selected(rows, q) ==
  {i \in DOMAIN rows : q[2] = "*" \/ (q[2] \in DOMAIN rows[i] /\ rows[i][q[2]] = q[3])}
Rows(route, db) == [q \in route.reads |-> [i \in Selected(Table(db, q[1]), q) |-> Table(db, q[1])[i]]]

\* res.status: an invalid request, a missing row, an answer.
Status(route, valid, rows) ==
  CASE route.checks /\ ~valid -> 400
    [] (~route.checks \/ valid) /\ route.need /\ (\A q \in DOMAIN rows : DOMAIN rows[q] = {}) -> 404
    [] OTHER -> 200

\* Health and statistics.
getHealth == Direct({All("proposals"), All("votes"), All("delegates")})
getStats == Cached(<<"stats">>, {All("proposals"), All("votes"), All("delegates")})
getAnalyticsSummary == Cached(<<"analytics", "summary">>, {All("proposals"), All("votes")})
getAllTimeStats == Cached(<<"analytics", "all-time-stats">>, {All("proposals"), All("votes")})
getParticipation(id) ==
  OrNotFound(Cached(<<"analytics", "participation", id>>, {By("proposals", "id", id), By("votes", "proposal_id", id)}))
getVoterHistory(a) == Cached(<<"analytics", "voter-history", a>>, {By("votes", "voter", a), All("proposals")})
getTopVoters == Cached(<<"analytics", "top-voters">>, {All("votes")})
getVoterLeaderboard == Cached(<<"leaderboard", "voters">>, {All("votes")})
getSnapshots == Cached(<<"analytics", "snapshots">>, {All("governance_snapshots")})
getLatestSnapshot == Cached(<<"analytics", "snapshots", "latest">>, {All("governance_snapshots")})
getConcentrationLatest == Cached(<<"analytics", "concentration", "latest">>, {All("concentration_snapshots")})
getConcentrationHistory == Cached(<<"analytics", "concentration", "history">>, {All("concentration_snapshots")})
getTopHolders == Cached(<<"analytics", "concentration", "top-holders">>, {All("votes")})
getTopDelegates == Cached(<<"analytics", "concentration", "top-delegates">>, {All("votes"), All("delegates")})

\* Proposals, votes, profiles, delegates.
getProposals == Cached(<<"proposals", "page">>, {All("proposals")})
getProposal(id) == OrNotFound(Checked(Direct({By("proposals", "id", id)})))
getProposalByDescriptionHash(id) == OrNotFound(Direct({By("proposals", "id", id)}))
getProposalVotes(id) == Cached(<<"proposal_votes", id>>, {By("votes", "proposal_id", id)})
getDelegates == Cached(<<"delegates", "top">>, {All("delegates")})
getProfile(a) ==
  Cached(<<"profile", a>>,
         {By("proposals", "proposer", a), By("votes", "voter", a), By("delegates", "delegator", a),
          By("wrapper_deposits", "account", a), By("wrapper_withdrawals", "account", a)})
getDelegateProfile(a) == Cached(<<"delegate_profile", a>>, {By("delegation_entries", "delegatee", a)})
getDelegators(a) == Direct({By("delegation_entries", "delegatee", a)})
getDelegateHistory(a) == Direct({By("delegation_entries", "delegatee", a)})
getDelegatorHistory(a) == Direct({By("delegation_entries", "delegator", a)})
getSplitsIn(a) == Cached(<<"split-delegations", "delegatee", a>>, {By("split_delegations", "delegatee", a)})
getSplitsOut(a) == Cached(<<"split-delegations", "delegator", a>>, {By("split_delegations", "delegator", a)})
getDelegationGraph == Cached(<<"delegation_graph">>, {All("delegation_entries")})
getRelayers == Cached(<<"relayers", "all">>, {All("relayer_whitelist_history")})
getDelegationsBySig == Checked(Cached(<<"delegations_by_sig", "all">>, {All("delegated_by_sig_events")}))

\* GET /delegates/:address/chain follows active delegations, one query a hop,
\* until there is no further delegatee or one already visited.
MAX_HOPS == 64
getDelegationChain(db, address) ==
  LET next(a) == SelectSeq(Table(db, "delegation_entries"), LAMBDA r : r.delegator = a /\ r.active)
      chain[n \in 0..MAX_HOPS] ==
        IF n = 0 THEN <<address>>
        ELSE LET c == chain[n - 1]
                 hop == next(c[Len(c)])
             IN  IF hop = << >> \/ Head(hop).delegatee \in ToSet(c) THEN c ELSE c \o <<Head(hop).delegatee>>
  IN  chain[MAX_HOPS]

\* Reputation, the wrapper, the treasury.
getReputationLeaderboard == Cached(<<"reputation", "leaderboard">>, {All("proposer_reputation")})
getReputation(a) == Cached(<<"reputation", a>>, {By("proposer_reputation", "proposer", a)})
getReputationHistory(a) == Direct({By("reputation_score_history", "proposer", a)})
getThresholdHistory(a) == Direct({By("effective_threshold_history", "proposer", a)})
getWrapperDeposits == Direct({All("wrapper_deposits")})
getWrapperWithdrawals == Direct({All("wrapper_withdrawals")})
getTreasuryTransfers == Direct({All("treasury_transfers")})
getStreams == Checked(Cached(<<"treasury", "streams", "all">>, {All("treasury_streams")}))
getStreamSpends(s) ==
  OrNotFound(Checked(Cached(<<"treasury", "stream", s, "spends">>, {By("treasury_streams", "stream", s)})))
getStream(s) == OrNotFound(Checked(Cached(<<"treasury", "stream", s>>, {By("treasury_streams", "stream", s)})))
getStreamEvents(s) ==
  Checked(Cached(<<"treasury", "stream", s, "events">>, {By("treasury_stream_events", "stream", s)}))
getBudgetSummary == Cached(<<"treasury", "budget-summary">>, {All("treasury_streams")})
getConfigHistory == Direct({All("config_updates")})
getUpgradeHistory == Direct({All("governor_upgrades")})
getStrategies == Checked(Cached(<<"treasury-strategies", "all">>, {All("treasury_strategies")}))
getStrategyWithdrawals == Checked(Cached(<<"treasury-strategies", "withdrawals">>, {All("strategy_withdrawals")}))
getStrategy(s) ==
  OrNotFound(Cached(<<"treasury-strategies", "detail", s>>, {By("treasury_strategies", "strategy_id", s)}))
getStrategyPerformance(s) ==
  OrNotFound(Checked(Cached(<<"treasury-strategies", "performance", s>>,
                            {By("treasury_strategies", "strategy_id", s), By("strategy_allocations", "strategy_id", s)})))

\* Drafts, bonds, anchors, the timelock, conviction, optimistic, vote escrow.
getDrafts == Cached(<<"drafts", "list">>, {All("drafts")})
getDraftsByCreator(a) == Direct({By("drafts", "creator", a)})
getDraft(id) == OrNotFound(Direct({By("drafts", "draft_id", id)}))
getCoSponsors(id) == Direct({By("draft_co_sponsors", "draft_id", id)})
getSignalAnchor(id) == OrNotFound(Direct({By("signal_anchors", "poll_id", id)}))
getProposalBonds == Checked(Cached(<<"proposal-bonds", "list">>, {All("proposal_bonds")}))
getBondsByProposer(a) == Direct({By("proposal_bonds", "proposer", a)})
getBond(h) == OrNotFound(Direct({By("proposal_bonds", "hash", h)}))
getTimelockOperation(o) == OrNotFound(Cached(<<"timelock", "op", o>>, {By("timelock_operations", "op_id", o)}))
getTimelockBatch(b) ==
  OrNotFound(Cached(<<"timelock", "batch", b>>, {By("timelock_batch_operations", "batch_op_id", b)}))
getTimelockDag(b) ==
  OrNotFound(Cached(<<"timelock", "dag", b>>, {By("timelock_dependency_graphs", "batch_op_id", b)}))
getTimelockPartialState(b) ==
  OrNotFound(Cached(<<"timelock", "partial_state", b>>, {By("timelock_partial_batch_state", "batch_op_id", b)}))
getConvictionProposals == Checked(Direct({All("conviction_proposals")}))
getConvictionProposal(id) == OrNotFound(Direct({By("conviction_proposals", "proposal_id", id)}))
getConvictionHistory(id) == Direct({By("conviction_snapshots", "proposal_id", id)})
getConvictionStakes(id) == Checked(Direct({By("conviction_stakes", "proposal_id", id)}))
getStaker(a) == Direct({By("conviction_stakes", "staker", a)})
getOptimisticProposals == Checked(Direct({All("optimistic_proposals")}))
getOptimisticProposal(id) == OrNotFound(Direct({By("optimistic_proposals", "proposal_id", id)}))
getObjections(id) == Direct({By("optimistic_objections", "proposal_id", id)})
getLocks == Checked(Direct({All("vote_escrow_locks")}))
getLock(a) == OrNotFound(Direct({By("vote_escrow_locks", "owner", a)}))
getLockStats == Direct({All("vote_escrow_locks")})
=============================================================================
