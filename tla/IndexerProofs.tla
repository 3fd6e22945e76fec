---------------------------- MODULE IndexerProofs ----------------------------
(***************************************************************************)
(* The indexer, for every chain of events, every number of batches in      *)
(* flight and every page size.  The first part goes through the handlers:  *)
(* none of them touches the event log, and only the handler of a stream's  *)
(* events touches the treasury projection.  The second is the invariant    *)
(* behind the cursor and the projection.  The third is about the cache: a  *)
(* handler that changes what a prompt route reads drops its answer later   *)
(* in the same event.                                                      *)
(***************************************************************************)
EXTENDS Indexer, SequenceTheorems, FiniteSetTheorems, TLAPS

-----------------------------------------------------------------------------
(* Lists of effects.                                                       *)

\* The tables that only logToEventLog and the treasury projection write.
Reserved == {"event_log", "treasury_stream_events", "treasury_streams"}
Plain(f) ==
  /\ f.op \notin {"streamExists", "readStream", "persistStream"}
  /\ f.op \in Writes \cup {"snapshot"} => f.tbl \notin Reserved
  /\ f.op = "due" => f.skip \in Nat
PlainList(s) == \E S : s \in Seq(S) /\ \A f \in S : Plain(f)

(* A list over a set of plain effects is plain.                            *)
LEMMA PlainOf == ASSUME NEW s, NEW S, s \in Seq(S), \A f \in S : Plain(f) PROVE PlainList(s)
  BY DEF PlainList

(* Plain lists one after the other are plain.                              *)
LEMMA PlainCat == ASSUME NEW s, NEW t, PlainList(s), PlainList(t) PROVE PlainList(s \o t)
  <1>1. PICK S : s \in Seq(S) /\ \A f \in S : Plain(f)
    BY DEF PlainList
  <1>2. PICK T : t \in Seq(T) /\ \A f \in T : Plain(f)
    BY DEF PlainList
  <1>3. s \in Seq(S \cup T) /\ t \in Seq(S \cup T)
    BY <1>1, <1>2
  <1>4. s \o t \in Seq(S \cup T) /\ \A f \in S \cup T : Plain(f)
    BY <1>1, <1>2, <1>3
  <1>5. QED
    BY <1>4, PlainOf

\* The tables behind the routes whose keys are invalidated promptly.
Prompt ==
  {"votes", "delegates", "split_delegations", "relayer_whitelist_history", "delegated_by_sig_events",
   "proposer_reputation", "treasury_streams", "treasury_stream_events", "drafts", "proposal_bonds",
   "timelock_operations", "timelock_batch_operations", "timelock_dependency_graphs",
   "timelock_partial_batch_state"}
\* Of these tables, f writes none but those in T and deletes from none; it is not one of
\* the effects of a snapshot.
Fine(f, T) ==
  /\ Plain(f) /\ f.op \notin {"due", "snapshot"}
  /\ f.op = "delete" => f.tbl \notin Prompt
  /\ f.op \in Writes => f.tbl \in T \/ f.tbl \notin Prompt
Does(s, T) == \E S : s \in Seq(S) /\ \A f \in S : Fine(f, T)
\* An effect that writes none of them.
Idle(f) == Plain(f) /\ (f.op \in Writes \cup {"snapshot"} => f.tbl \notin Prompt)
IdleList(s) == \E S : s \in Seq(S) /\ \A f \in S : Idle(f)

(* A list over a set of fine effects.                                      *)
LEMMA DoesOf == ASSUME NEW T, NEW s, NEW S, s \in Seq(S), \A f \in S : Fine(f, T) PROVE Does(s, T)
  BY DEF Does

(* What does no more than write some prompt tables is plain.               *)
LEMMA DoesPlain == ASSUME NEW T, NEW s, Does(s, T) PROVE PlainList(s)
  BY DEF Does, Fine, PlainList

(* The empty list.                                                         *)
LEMMA Does0 == ASSUME NEW T PROVE Does(<< >>, T)
  <1>1. PICK S : S = {}
    OBVIOUS
  <1>2. << >> \in Seq(S) /\ \A f \in S : Fine(f, T)
    BY <1>1
  <1>3. QED
    BY <1>2, DoesOf

(* One effect.                                                             *)
LEMMA Does1 ==
    ASSUME NEW T, NEW a, Fine(a, T)
    PROVE  Does(<<a>>, T)
  <1>1. PICK S : S = {a}
    OBVIOUS
  <1>2. <<a>> \in Seq(S) /\ \A f \in S : Fine(f, T)
    BY <1>1
  <1>3. QED
    BY <1>2, DoesOf

(* Two effects.                                                            *)
LEMMA Does2 ==
    ASSUME NEW T, NEW a, NEW b, Fine(a, T), Fine(b, T)
    PROVE  Does(<<a, b>>, T)
  <1>1. PICK S : S = {a, b}
    OBVIOUS
  <1>2. <<a, b>> \in Seq(S) /\ \A f \in S : Fine(f, T)
    BY <1>1
  <1>3. QED
    BY <1>2, DoesOf

(* Three effects.                                                          *)
LEMMA Does3 ==
    ASSUME NEW T, NEW a, NEW b, NEW c, Fine(a, T), Fine(b, T), Fine(c, T)
    PROVE  Does(<<a, b, c>>, T)
  <1>1. PICK S : S = {a, b, c}
    OBVIOUS
  <1>2. <<a, b, c>> \in Seq(S) /\ \A f \in S : Fine(f, T)
    BY <1>1
  <1>3. QED
    BY <1>2, DoesOf

(* Four effects.                                                           *)
LEMMA Does4 ==
    ASSUME NEW T, NEW a, NEW b, NEW c, NEW d, Fine(a, T), Fine(b, T), Fine(c, T), Fine(d, T)
    PROVE  Does(<<a, b, c, d>>, T)
  <1>1. PICK S : S = {a, b, c, d}
    OBVIOUS
  <1>2. <<a, b, c, d>> \in Seq(S) /\ \A f \in S : Fine(f, T)
    BY <1>1
  <1>3. QED
    BY <1>2, DoesOf

(* Five effects.                                                           *)
LEMMA Does5 ==
    ASSUME NEW T, NEW a, NEW b, NEW c, NEW d, NEW e, Fine(a, T), Fine(b, T), Fine(c, T), Fine(d, T), Fine(e, T)
    PROVE  Does(<<a, b, c, d, e>>, T)
  <1>1. PICK S : S = {a, b, c, d, e}
    OBVIOUS
  <1>2. <<a, b, c, d, e>> \in Seq(S) /\ \A f \in S : Fine(f, T)
    BY <1>1
  <1>3. QED
    BY <1>2, DoesOf

(* One list after the other.                                               *)
LEMMA DoesCat == ASSUME NEW T, NEW s, NEW t, Does(s, T), Does(t, T) PROVE Does(s \o t, T)
  <1>1. PICK S : s \in Seq(S) /\ \A f \in S : Fine(f, T)
    BY DEF Does
  <1>2. PICK U : t \in Seq(U) /\ \A f \in U : Fine(f, T)
    BY DEF Does
  <1>3. s \in Seq(S \cup U) /\ t \in Seq(S \cup U)
    BY <1>1, <1>2
  <1>4. s \o t \in Seq(S \cup U) /\ \A f \in S \cup U : Fine(f, T)
    BY <1>1, <1>2, <1>3
  <1>5. QED
    BY <1>4, DoesOf

(* A handler that may throw instead.                                       *)
LEMMA DoesOrThrows ==
    ASSUME NEW T, NEW c, NEW s, Does(s, T)
    PROVE  Does(IF c THEN s ELSE << Throw >>, T)
  <1>1. Fine(Throw, T)
    BY DEF Fine, Plain, Throw, Writes
  <1>2. Does(<< Throw >>, T)
    BY <1>1, Does1
  <1>3. QED
    BY <1>2

(* The governor's events.                                                  *)
LEMMA DoesGovernor == ASSUME NEW e PROVE
    /\ Does(handleProposalCreated(e), {})
    /\ Does(handleVoteCast(e), {"votes"})
    /\ Does(handleProposalQueued(e), {})
    /\ Does(handleProposalExecuted(e), {})
    /\ Does(handleProposalCancelled(e), {})
    /\ Does(handleDelegateChanged(e), {"delegates"})
    /\ Does(handleConfigUpdated(e), {})
    /\ Does(handleGovernorUpgraded(e), {})
    /\ Does(handleReputationUpdated(e), {"proposer_reputation"})
    /\ Does(handleEffectiveThresholdChanged(e), {})
  <1> USE DEF Fine, Prompt, Plain, Reserved, Writes, Insert, Upsert, AppendRow, Update, Add, Delete, Select, AppendSelected, Invalidate, InvalidatePattern, Broadcast, Throw
  <1>1. Does(handleProposalCreated(e), {})
    BY Does4 DEF handleProposalCreated
  <1>2. Does(handleVoteCast(e), {"votes"})
    <2>1. Does(VoteEffects(e.d.id, e.d.voter, e.d.support, e.d.weight), {"votes"})
      BY Does5 DEF VoteEffects
    <2>2. QED
      BY <2>1, DoesOrThrows DEF handleVoteCast
  <1>3. Does(handleProposalQueued(e), {})
    <2>1. Does(ProposalFlag(e.d.id, [queued |-> TRUE], "proposal_queued"), {})
      BY Does4 DEF ProposalFlag
    <2>2. QED
      BY <2>1, DoesOrThrows DEF handleProposalQueued
  <1>4. Does(handleProposalExecuted(e), {})
    <2>1. Does(ProposalFlag(e.d.id, [executed |-> TRUE], "proposal_executed"), {})
      BY Does4 DEF ProposalFlag
    <2>2. QED
      BY <2>1, DoesOrThrows DEF handleProposalExecuted
  <1>5. Does(handleProposalCancelled(e), {})
    BY Does1, Does4 DEF handleProposalCancelled, ProposalFlag
  <1>6. Does(handleDelegateChanged(e), {"delegates"})
    BY Does1, Does4 DEF handleDelegateChanged
  <1>7. Does(handleConfigUpdated(e), {})
    BY Does0, Does1 DEF handleConfigUpdated
  <1>8. Does(handleGovernorUpgraded(e), {})
    BY Does1 DEF handleGovernorUpgraded
  <1>9. Does(handleReputationUpdated(e), {"proposer_reputation"})
    BY Does5 DEF handleReputationUpdated
  <1>10. Does(handleEffectiveThresholdChanged(e), {})
    BY Does2 DEF handleEffectiveThresholdChanged
  <1>11. QED
    BY <1>1, <1>2, <1>3, <1>4, <1>5, <1>6, <1>7, <1>8, <1>9, <1>10

(* Plain all of them.                                                      *)
LEMMA PlainGovernor == ASSUME NEW e, NEW type PROVE PlainList(GovernorHandler(e, type))
  BY DoesGovernor, Does0, DoesPlain DEF GovernorHandler

\* The two ends of what a split does.
(* A split first ends the one before, and last tells the cache.            *)
LEMMA DoesSplitEnds == ASSUME NEW e, NEW type PROVE
    /\ Does(DeactivateSplits(e), {"split_delegations"})
    /\ \A T : Does(SplitInvalidations(e, type), T)
  <1> USE DEF Fine, Prompt, Plain, Reserved, Writes, Insert, Upsert, AppendRow, Update, Add, Delete, Select, AppendSelected, Invalidate, InvalidatePattern, Broadcast, Throw
  <1>1. QED
    BY Does1, Does4 DEF DeactivateSplits, SplitInvalidations

(* A split's entries are pairs of statements.                               *)
LEMMA DoesSplitDelegated ==
    ASSUME NEW e, Len(e.d.splits) \in Nat
    PROVE  \E entries : /\ Does(entries, {"split_delegations"})
                        /\ handleSplitDelegated(e) = DeactivateSplits(e) \o entries \o SplitInvalidations(e, "split_delegated")
  <1> DEFINE statement(k) == SplitEntry(e.d.delegator, e.d.splits[(k + 1) \div 2])[IF k % 2 = 1 THEN 1 ELSE 2]
             entries == [k \in 1..2 * Len(e.d.splits) |-> statement(k)]
  <1>1. ASSUME NEW k PROVE Fine(statement(k), {"split_delegations"})
    <2>1. \/ statement(k) = SplitEntry(e.d.delegator, e.d.splits[(k + 1) \div 2])[1]
          \/ statement(k) = SplitEntry(e.d.delegator, e.d.splits[(k + 1) \div 2])[2]
      OBVIOUS
    <2>2. QED
      BY <2>1 DEF SplitEntry, Fine, Prompt, Plain, Reserved, Writes, Select, AppendSelected
  <1>2. PICK S : S = {statement(k) : k \in 1..2 * Len(e.d.splits)}
    OBVIOUS
  <1>3. entries \in Seq(S) /\ \A f \in S : Fine(f, {"split_delegations"})
    <2>1. \A f \in S : Fine(f, {"split_delegations"})
      BY <1>1, <1>2
    <2>2. 2 * Len(e.d.splits) \in Nat
      OBVIOUS
    <2> HIDE DEF statement
    <2>3. entries \in [1..2 * Len(e.d.splits) -> S]
      BY <1>2
    <2>4. QED
      BY <2>1, <2>2, <2>3
  <1>4. Does(entries, {"split_delegations"})
    BY <1>3, DoesOf
  <1>5. handleSplitDelegated(e) = DeactivateSplits(e) \o entries \o SplitInvalidations(e, "split_delegated")
    BY DEF handleSplitDelegated
  <1> HIDE DEF entries
  <1>6. QED
    BY <1>4, <1>5

(* A split or its end.                                                     *)
LEMMA PlainSplits == ASSUME NEW e PROVE
    /\ Len(e.d.splits) \in Nat => PlainList(handleSplitDelegated(e))
    /\ PlainList(handleSplitUndelegated(e))
  <1>1. PICK a, t, u : a = DeactivateSplits(e) /\ t = SplitInvalidations(e, "split_delegated") /\ u = SplitInvalidations(e, "split_undelegated")
    OBVIOUS
  <1>2. PlainList(a) /\ PlainList(t) /\ PlainList(u)
    BY <1>1, DoesSplitEnds, DoesPlain
  <1>3. ASSUME Len(e.d.splits) \in Nat PROVE PlainList(handleSplitDelegated(e))
    <2>1. PICK s : Does(s, {"split_delegations"}) /\ handleSplitDelegated(e) = a \o s \o t
      BY <1>1, <1>3, DoesSplitDelegated
    <2>2. PlainList(s)
      BY <2>1, DoesPlain
    <2>3. QED
      BY <1>2, <2>1, <2>2, PlainCat
  <1>4. PlainList(handleSplitUndelegated(e))
    BY <1>1, <1>2, PlainCat DEF handleSplitUndelegated
  <1>5. QED
    BY <1>3, <1>4

(* The events of token votes.                                              *)
LEMMA DoesTokenVotes == ASSUME NEW e PROVE
    /\ Does(handleDelegateChanged(e), {"delegates"})
    /\ Does(handleDelegationRegistered(e), {})
    /\ Does(handleDelegationRevoked(e), {})
    /\ Does(handleDelegationDepthLimitUpdated(e), {})
    /\ Does(handleDelegatedBySig(e), {"delegated_by_sig_events"})
    /\ Does(handlePermitsInvalidated(e), {})
    /\ Does(handleRelayerWhitelistUpdated(e), {"relayer_whitelist_history"})
  <1> USE DEF Fine, Prompt, Plain, Reserved, Writes, Insert, Upsert, AppendRow, Update, Add, Delete, Select, AppendSelected, Invalidate, InvalidatePattern, Broadcast, Throw
  <1>1. Does(handleDelegateChanged(e), {"delegates"})
    BY Does1, Does4 DEF handleDelegateChanged
  <1>2. Does(handleDelegationRegistered(e), {})
    BY Does4 DEF handleDelegationRegistered
  <1>3. Does(handleDelegationRevoked(e), {})
    BY Does4 DEF handleDelegationRevoked
  <1>4. Does(handleDelegationDepthLimitUpdated(e), {})
    BY Does1 DEF handleDelegationDepthLimitUpdated
  <1>5. Does(handleDelegatedBySig(e), {"delegated_by_sig_events"})
    BY Does3 DEF handleDelegatedBySig
  <1>6. Does(handlePermitsInvalidated(e), {})
    BY Does1 DEF handlePermitsInvalidated
  <1>7. Does(handleRelayerWhitelistUpdated(e), {"relayer_whitelist_history"})
    BY Does3 DEF handleRelayerWhitelistUpdated
  <1>8. QED
    BY <1>1, <1>2, <1>3, <1>4, <1>5, <1>6, <1>7

(* Plain all of them.                                                      *)
LEMMA PlainTokenVotes == ASSUME NEW e, NEW type, type = "SplitDelegated" => Len(e.d.splits) \in Nat PROVE PlainList(TokenVotesHandler(e, type))
  BY DoesTokenVotes, Does0, DoesPlain, PlainSplits DEF TokenVotesHandler

(* What a handler does last: it tells the cache and the clients.           *)
LEMMA TailsDo == ASSUME NEW e, NEW t, NEW T PROVE
    /\ Does(DraftTail(t), T) /\ Does(BondTail(t), T) /\ Does(StrategyTail(t), T)
    /\ Does(OpTail(e, t), T) /\ Does(BatchTail(e, t), T) /\ Does(PartialTail(e, t), T)
  <1> USE DEF Fine, Plain, Reserved, Writes, Invalidate, InvalidatePattern, Broadcast
  <1>1. Does(DraftTail(t), T) /\ Does(BondTail(t), T) /\ Does(StrategyTail(t), T)
    BY Does2 DEF DraftTail, BondTail, StrategyTail
  <1>2. Does(OpTail(e, t), T) /\ Does(BatchTail(e, t), T) /\ Does(PartialTail(e, t), T)
    BY Does2, Does3 DEF OpTail, BatchTail, PartialTail
  <1>3. QED
    BY <1>1, <1>2

(* Wrapper, liquidity, drafts, bonds, anchors, strategies.                 *)
LEMMA DoesPeriphery == ASSUME NEW e PROVE
    /\ Does(handleWrapperDeposit(e), {})
    /\ Does(handleWrapperWithdraw(e), {})
    /\ Does(handleDelegateChanged(e), {"delegates"})
    /\ Does(handleLiquidityAdded(e), {})
    /\ Does(handleLiquidityRemoved(e), {})
    /\ Does(handleSwap(e), {})
    /\ Does(handlePoolFeeUpdated(e), {})
    /\ Does(handleDraftCreated(e), {"drafts"})
    /\ Does(handleCoSponsored(e), {"drafts"})
    /\ Does(handleCoSponsorshipWithdrawn(e), {"drafts"})
    /\ Does(handleDraftFinalized(e), {"drafts"})
    /\ Does(handleDraftCancelled(e), {"drafts"})
    /\ Does(handleDraftExpired(e), {"drafts"})
    /\ Does(handleBondLocked(e), {"proposal_bonds"})
    /\ Does(handleBondRefunded(e), {"proposal_bonds"})
    /\ Does(handleBondSlashed(e), {"proposal_bonds"})
    /\ Does(handleResultAnchored(e), {})
    /\ Does(handleStrategyRegistered(e), {})
    /\ Does(handleStrategyDeactivated(e), {})
    /\ Does(handleStrategyDeposited(e), {})
    /\ Does(handleStrategyWithdrawalRequested(e), {})
    /\ Does(handleStrategyWithdrawalClaimed(e), {})
  <1> USE DEF Fine, Prompt, Plain, Reserved, Writes, Insert, Upsert, AppendRow, Update, Add, Delete, Select, AppendSelected, Invalidate, InvalidatePattern, Broadcast, Throw
  <1>1. Does(handleWrapperDeposit(e), {})
    BY Does3 DEF handleWrapperDeposit, WrapperMove
  <1>2. Does(handleWrapperWithdraw(e), {})
    BY Does3 DEF handleWrapperWithdraw, WrapperMove
  <1>3. Does(handleDelegateChanged(e), {"delegates"})
    BY Does1, Does4 DEF handleDelegateChanged
  <1>4. Does(handleLiquidityAdded(e), {})
    BY Does2 DEF handleLiquidityAdded
  <1>5. Does(handleLiquidityRemoved(e), {})
    BY Does2 DEF handleLiquidityRemoved
  <1>6. Does(handleSwap(e), {})
    BY Does2 DEF handleSwap
  <1>7. Does(handlePoolFeeUpdated(e), {})
    BY Does2 DEF handlePoolFeeUpdated
  <1>8. Does(handleDraftCreated(e), {"drafts"})
    BY Does1, TailsDo, DoesCat DEF handleDraftCreated
  <1>9. Does(handleCoSponsored(e), {"drafts"})
    BY Does2, TailsDo, DoesCat DEF handleCoSponsored
  <1>10. Does(handleCoSponsorshipWithdrawn(e), {"drafts"})
    BY Does2, TailsDo, DoesCat DEF handleCoSponsorshipWithdrawn
  <1>11. Does(handleDraftFinalized(e), {"drafts"})
    BY Does1, TailsDo, DoesCat DEF handleDraftFinalized
  <1>12. Does(handleDraftCancelled(e), {"drafts"})
    BY Does1, TailsDo, DoesCat DEF handleDraftCancelled
  <1>13. Does(handleDraftExpired(e), {"drafts"})
    BY Does1, TailsDo, DoesCat DEF handleDraftExpired
  <1>14. Does(handleBondLocked(e), {"proposal_bonds"})
    BY Does1, TailsDo, DoesCat DEF handleBondLocked
  <1>15. Does(handleBondRefunded(e), {"proposal_bonds"})
    BY Does1, TailsDo, DoesCat DEF handleBondRefunded
  <1>16. Does(handleBondSlashed(e), {"proposal_bonds"})
    BY Does1, TailsDo, DoesCat DEF handleBondSlashed
  <1>17. Does(handleResultAnchored(e), {})
    BY Does3 DEF handleResultAnchored
  <1>18. Does(handleStrategyRegistered(e), {})
    BY Does1, TailsDo, DoesCat DEF handleStrategyRegistered
  <1>19. Does(handleStrategyDeactivated(e), {})
    BY Does1, TailsDo, DoesCat DEF handleStrategyDeactivated
  <1>20. Does(handleStrategyDeposited(e), {})
    BY Does2, TailsDo, DoesCat DEF handleStrategyDeposited
  <1>21. Does(handleStrategyWithdrawalRequested(e), {})
    BY Does2, TailsDo, DoesCat DEF handleStrategyWithdrawalRequested
  <1>22. Does(handleStrategyWithdrawalClaimed(e), {})
    BY Does1, TailsDo, DoesCat DEF handleStrategyWithdrawalClaimed
  <1>23. QED
    BY <1>1, <1>2, <1>3, <1>4, <1>5, <1>6, <1>7, <1>8, <1>9, <1>10, <1>11, <1>12, <1>13, <1>14, <1>15, <1>16, <1>17, <1>18, <1>19, <1>20, <1>21, <1>22

(* Plain all of them.                                                      *)
LEMMA PlainPeriphery == ASSUME NEW e, NEW type PROVE PlainList(PeripheryHandler(e, type))
  BY DoesPeriphery, Does0, DoesPlain DEF PeripheryHandler

(* The timelock's events.                                                  *)
LEMMA DoesTimelock == ASSUME NEW e PROVE
    /\ Does(handleTimelockOperationScheduled(e), {"timelock_operations"})
    /\ Does(handleTimelockOperationExecuted(e), {"timelock_operations"})
    /\ Does(handleTimelockOperationCancelled(e), {"timelock_operations"})
    /\ Does(handleTimelockBatchOperationScheduled(e), {"timelock_batch_operations"})
    /\ Does(handleTimelockBatchOperationExecuted(e), {"timelock_batch_operations"})
    /\ Does(handleTimelockBatchOperationCancelled(e), {"timelock_batch_operations"})
    /\ Does(handleTimelockMinDelayUpdated(e), {})
    /\ Does(handleTimelockDependencyDagValidated(e), {"timelock_dependency_graphs"})
    /\ Does(handleTimelockCycleDetected(e), {"timelock_dependency_graphs"})
    /\ Does(handleTimelockPartialBatchStarted(e), {"timelock_partial_batch_state"})
    /\ Does(handleTimelockPartialOpSucceeded(e), {"timelock_partial_batch_state"})
    /\ Does(handleTimelockPartialOpFailed(e), {"timelock_partial_batch_state"})
    /\ Does(handleTimelockBatchRecoveryEntered(e), {"timelock_partial_batch_state"})
    /\ Does(handleTimelockFailedOpRetried(e), {"timelock_partial_batch_state"})
    /\ Does(handleTimelockFailedOpSkipped(e), {"timelock_partial_batch_state"})
    /\ Does(handleTimelockBatchFullyComplete(e), {"timelock_partial_batch_state", "timelock_batch_operations"})
  <1> USE DEF Fine, Prompt, Plain, Reserved, Writes, Insert, Upsert, AppendRow, Update, Add, Delete, Select, AppendSelected, Invalidate, InvalidatePattern, Broadcast, Throw
  <1>1. Does(handleTimelockOperationScheduled(e), {"timelock_operations"})
    BY Does1, TailsDo, DoesCat DEF handleTimelockOperationScheduled
  <1>2. Does(handleTimelockOperationExecuted(e), {"timelock_operations"})
    BY Does1, TailsDo, DoesCat DEF handleTimelockOperationExecuted
  <1>3. Does(handleTimelockOperationCancelled(e), {"timelock_operations"})
    BY Does1, TailsDo, DoesCat DEF handleTimelockOperationCancelled
  <1>4. Does(handleTimelockBatchOperationScheduled(e), {"timelock_batch_operations"})
    BY Does1, TailsDo, DoesCat DEF handleTimelockBatchOperationScheduled
  <1>5. Does(handleTimelockBatchOperationExecuted(e), {"timelock_batch_operations"})
    BY Does1, TailsDo, DoesCat DEF handleTimelockBatchOperationExecuted
  <1>6. Does(handleTimelockBatchOperationCancelled(e), {"timelock_batch_operations"})
    BY Does1, TailsDo, DoesCat DEF handleTimelockBatchOperationCancelled
  <1>7. Does(handleTimelockMinDelayUpdated(e), {})
    BY Does1 DEF handleTimelockMinDelayUpdated
  <1>8. Does(handleTimelockDependencyDagValidated(e), {"timelock_dependency_graphs"})
    BY Does3 DEF handleTimelockDependencyDagValidated
  <1>9. Does(handleTimelockCycleDetected(e), {"timelock_dependency_graphs"})
    BY Does2 DEF handleTimelockCycleDetected
  <1>10. Does(handleTimelockPartialBatchStarted(e), {"timelock_partial_batch_state"})
    BY Does1, TailsDo, DoesCat DEF handleTimelockPartialBatchStarted
  <1>11. Does(handleTimelockPartialOpSucceeded(e), {"timelock_partial_batch_state"})
    BY Does1, TailsDo, DoesCat DEF handleTimelockPartialOpSucceeded, PartialUpdate
  <1>12. Does(handleTimelockPartialOpFailed(e), {"timelock_partial_batch_state"})
    BY Does1, TailsDo, DoesCat DEF handleTimelockPartialOpFailed, PartialUpdate
  <1>13. Does(handleTimelockBatchRecoveryEntered(e), {"timelock_partial_batch_state"})
    BY Does1, TailsDo, DoesCat DEF handleTimelockBatchRecoveryEntered, PartialUpdate
  <1>14. Does(handleTimelockFailedOpRetried(e), {"timelock_partial_batch_state"})
    BY Does1, TailsDo, DoesCat DEF handleTimelockFailedOpRetried, PartialUpdate
  <1>15. Does(handleTimelockFailedOpSkipped(e), {"timelock_partial_batch_state"})
    BY Does1, TailsDo, DoesCat DEF handleTimelockFailedOpSkipped, PartialUpdate
  <1>16. Does(handleTimelockBatchFullyComplete(e), {"timelock_partial_batch_state", "timelock_batch_operations"})
    BY Does3, TailsDo, DoesCat DEF handleTimelockBatchFullyComplete
  <1>17. QED
    BY <1>1, <1>2, <1>3, <1>4, <1>5, <1>6, <1>7, <1>8, <1>9, <1>10, <1>11, <1>12, <1>13, <1>14, <1>15, <1>16

(* Plain all of them.                                                      *)
LEMMA PlainTimelock == ASSUME NEW e, NEW type PROVE PlainList(TimelockHandler(e, type))
  BY DoesTimelock, Does0, DoesPlain DEF TimelockHandler

(* Conviction voting.                                                      *)
LEMMA DoesConviction == ASSUME NEW e, NEW type PROVE Does(handleConvictionEvent(e, type), {})
  <1> DEFINE ref == [tbl |-> "conviction_proposals", where |-> [proposal_id |-> e.d.id]]
             row == [staker |-> e.d.staker, proposal_id |-> e.d.id, amount |-> e.d.amount]
             end(ws) == << InvalidatePattern(<<"conviction">>), Broadcast(ws) >>
             created == << Insert("conviction_proposals", {"proposal_id"},
                      [proposal_id |-> e.d.id, conviction |-> 0, executed |-> FALSE, cancelled |-> FALSE], NoRef) >>
             unstaked == << Delete("conviction_stakes", [staker |-> e.d.staker, proposal_id |-> e.d.id]) >>
             staked == << Upsert("conviction_stakes", {"staker"}, row,
                      [proposal_id |-> e.d.id, amount |-> e.d.amount], ref) >>
             updated == << Update("conviction_proposals", [proposal_id |-> e.d.id], [conviction |-> e.d.conviction]),
               Upsert("conviction_snapshots", {"proposal_id", "ledger"},
                      [proposal_id |-> e.d.id, ledger |-> e.ledger, conviction |-> e.d.conviction],
                      [conviction |-> e.d.conviction], ref) >>
             executed == << Update("conviction_proposals", [proposal_id |-> e.d.id], [executed |-> TRUE]) >>
             cancelled == << Update("conviction_proposals", [proposal_id |-> e.d.id], [cancelled |-> TRUE]) >>
  <1>1. \A ws : Does(end(ws), {})
    BY Does2 DEF Fine, Prompt, Plain, Reserved, Writes, InvalidatePattern, Broadcast
  <1>2. Does(created, {}) /\ Does(unstaked, {}) /\ Does(staked, {})
    BY Does1 DEF Fine, Prompt, Plain, Reserved, Writes, Insert, Upsert, Delete
  <1>3. Does(updated, {}) /\ Does(executed, {}) /\ Does(cancelled, {})
    BY Does1, Does2 DEF Fine, Prompt, Plain, Reserved, Writes, Update, Upsert
  <1>4. CASE type = "ProposalCreated"
    <2>1. handleConvictionEvent(e, type) = created \o end("conviction_proposal_created")
      BY <1>4 DEF handleConvictionEvent
    <2> HIDE DEF end, created, unstaked, staked, updated, executed, cancelled
    <2>2. QED
      BY <1>1, <1>2, <1>3, <2>1, DoesCat
  <1>5. CASE type = "StakeUpdated" /\ e.d.amount = 0
    <2>1. handleConvictionEvent(e, type) = unstaked \o end("conviction_stake_updated")
      BY <1>5 DEF handleConvictionEvent
    <2> HIDE DEF end, created, unstaked, staked, updated, executed, cancelled
    <2>2. QED
      BY <1>1, <1>2, <1>3, <2>1, DoesCat
  <1>6. CASE type = "StakeUpdated" /\ e.d.amount # 0
    <2>1. handleConvictionEvent(e, type) = staked \o end("conviction_stake_updated")
      BY <1>6 DEF handleConvictionEvent
    <2> HIDE DEF end, created, unstaked, staked, updated, executed, cancelled
    <2>2. QED
      BY <1>1, <1>2, <1>3, <2>1, DoesCat
  <1>7. CASE type = "ConvictionUpdated"
    <2>1. handleConvictionEvent(e, type) = updated \o end("conviction_conviction_updated")
      BY <1>7 DEF handleConvictionEvent
    <2> HIDE DEF end, created, unstaked, staked, updated, executed, cancelled
    <2>2. QED
      BY <1>1, <1>2, <1>3, <2>1, DoesCat
  <1>8. CASE type = "ProposalExecuted"
    <2>1. handleConvictionEvent(e, type) = executed \o end("conviction_proposal_executed")
      BY <1>8 DEF handleConvictionEvent
    <2> HIDE DEF end, created, unstaked, staked, updated, executed, cancelled
    <2>2. QED
      BY <1>1, <1>2, <1>3, <2>1, DoesCat
  <1>9. CASE type = "ProposalCancelled"
    <2>1. handleConvictionEvent(e, type) = cancelled \o end("conviction_proposal_cancelled")
      BY <1>9 DEF handleConvictionEvent
    <2> HIDE DEF end, created, unstaked, staked, updated, executed, cancelled
    <2>2. QED
      BY <1>1, <1>2, <1>3, <2>1, DoesCat
  <1>10. CASE type \notin {"ProposalCreated", "StakeUpdated", "ConvictionUpdated", "ProposalExecuted", "ProposalCancelled"}
    <2>1. handleConvictionEvent(e, type) = << >>
      BY <1>10 DEF handleConvictionEvent
    <2>2. QED
      BY <2>1, Does0
  <1>11. QED
    BY <1>4, <1>5, <1>6, <1>7, <1>8, <1>9, <1>10

(* The optimistic governor.                                                *)
LEMMA DoesOptimistic == ASSUME NEW e, NEW type PROVE Does(handleOptimisticGovernorEvent(e, type), {})
  <1> DEFINE ref == [tbl |-> "optimistic_proposals", where |-> [proposal_id |-> e.d.id]]
             end(ws) == << InvalidatePattern(<<"optimistic">>), Broadcast(ws) >>
             moved(s) == << Update("optimistic_proposals", [proposal_id |-> e.d.id], [state |-> s]) >>
             created == << Insert("optimistic_proposals", {"proposal_id"},
                      [proposal_id |-> e.d.id, state |-> "challenge_window", objection_votes |-> 0], NoRef) >>
             objection == << Insert("optimistic_objections", {"proposal_id", "objector"},
                      [proposal_id |-> e.d.id, objector |-> e.d.objector, weight |-> e.d.weight], ref),
               Update("optimistic_proposals", [proposal_id |-> e.d.id], [objection_votes |-> e.d.total]) >>
  <1>1. \A ws : Does(end(ws), {})
    BY Does2 DEF Fine, Prompt, Plain, Reserved, Writes, InvalidatePattern, Broadcast
  <1>2. \A s : Does(moved(s), {})
    BY Does1 DEF Fine, Prompt, Plain, Reserved, Writes, Update
  <1>3. Does(created, {}) /\ Does(objection, {})
    BY Does1, Does2 DEF Fine, Prompt, Plain, Reserved, Writes, Insert, Update
  <1>4. CASE type = "ProposalCreated"
    <2>1. handleOptimisticGovernorEvent(e, type) = created \o end("optimistic_proposal_created")
      BY <1>4 DEF handleOptimisticGovernorEvent
    <2> HIDE DEF end, created, objection, moved
    <2>2. QED
      BY <1>1, <1>2, <1>3, <2>1, DoesCat
  <1>5. CASE type = "ObjectionCast"
    <2>1. handleOptimisticGovernorEvent(e, type) = objection \o end("optimistic_objection_cast")
      BY <1>5 DEF handleOptimisticGovernorEvent
    <2> HIDE DEF end, created, objection, moved
    <2>2. QED
      BY <1>1, <1>2, <1>3, <2>1, DoesCat
  <1>6. CASE type = "ProposalObjected"
    <2>1. handleOptimisticGovernorEvent(e, type) = moved("objected") \o end("optimistic_proposal_objected")
      BY <1>6 DEF handleOptimisticGovernorEvent
    <2> HIDE DEF end, created, objection, moved
    <2>2. QED
      BY <1>1, <1>2, <1>3, <2>1, DoesCat
  <1>7. CASE type = "ProposalPassed"
    <2>1. handleOptimisticGovernorEvent(e, type) = moved("passed") \o end("optimistic_proposal_passed")
      BY <1>7 DEF handleOptimisticGovernorEvent
    <2> HIDE DEF end, created, objection, moved
    <2>2. QED
      BY <1>1, <1>2, <1>3, <2>1, DoesCat
  <1>8. CASE type = "ProposalExecuted"
    <2>1. handleOptimisticGovernorEvent(e, type) = moved("executed") \o end("optimistic_proposal_executed")
      BY <1>8 DEF handleOptimisticGovernorEvent
    <2> HIDE DEF end, created, objection, moved
    <2>2. QED
      BY <1>1, <1>2, <1>3, <2>1, DoesCat
  <1>9. CASE type = "ProposalCancelled"
    <2>1. handleOptimisticGovernorEvent(e, type) = moved("cancelled") \o end("optimistic_proposal_cancelled")
      BY <1>9 DEF handleOptimisticGovernorEvent
    <2> HIDE DEF end, created, objection, moved
    <2>2. QED
      BY <1>1, <1>2, <1>3, <2>1, DoesCat
  <1>10. CASE type \notin {"ProposalCreated", "ObjectionCast", "ProposalObjected", "ProposalPassed", "ProposalExecuted", "ProposalCancelled"}
    <2>1. handleOptimisticGovernorEvent(e, type) = << >>
      BY <1>10 DEF handleOptimisticGovernorEvent
    <2>2. QED
      BY <2>1, Does0
  <1>11. QED
    BY <1>4, <1>5, <1>6, <1>7, <1>8, <1>9, <1>10

(* Vote escrow.                                                            *)
LEMMA DoesVoteEscrow == ASSUME NEW e, NEW type PROVE Does(handleVoteEscrowEvent(e, type), {})
  <1>1. PICK a, b, c :
          /\ a = Update("vote_escrow_locks", [owner |-> e.d.owner], [withdrawn |-> TRUE])
          /\ b = Upsert("vote_escrow_locks", {"owner"},
                   [owner |-> e.d.owner, amount |-> e.d.amount, withdrawn |-> FALSE],
                   [amount |-> e.d.amount, withdrawn |-> FALSE], NoRef)
          /\ c = InvalidatePattern(<<"vote-escrow">>)
    OBVIOUS
  <1>2. Fine(a, {}) /\ Fine(b, {}) /\ Fine(c, {})
    BY <1>1 DEF Fine, Prompt, Plain, Reserved, Writes, Update, Upsert, InvalidatePattern
  <1>3. Does(<<a, c>>, {}) /\ Does(<<b, c>>, {})
    BY <1>2, Does2
  <1>4. handleVoteEscrowEvent(e, type) \in {<< >>, <<a, c>>, <<b, c>>}
    BY <1>1 DEF handleVoteEscrowEvent
  <1>5. QED
    BY <1>3, <1>4, Does0

(* Transfers of the treasury.                                              *)
LEMMA DoesTransfer == ASSUME NEW e PROVE Does(handleTreasuryBatchTransfer(e), {})
  BY Does1 DEF handleTreasuryBatchTransfer, Fine, Prompt, Plain, Reserved, Writes, AppendRow, Throw

\* An event of a treasury stream.
StreamEvent(e) == e.contract = "treasury" /\ TOPIC_MAP(e.topic) \in StreamTypes
ListsSplits(e) == e.contract = "tokenVotes" /\ TOPIC_MAP(e.topic) = "SplitDelegated" => Len(e.d.splits) \in Nat

(* Every handler but that of a stream's event leaves the reserved tables alone. *)
LEMMA PlainHandler == ASSUME NEW e, ~StreamEvent(e), ListsSplits(e) PROVE PlainList(Handler(e))
  <1>1. PICK type : type = TOPIC_MAP(e.topic)
    OBVIOUS
  <1>0. DOMAIN PeripheryTypes = {"wrapper", "liquidity", "coSponsorship", "proposalBonds", "signalAnchor", "treasuryStrategies"}
    BY DEF PeripheryTypes
  <1>2. CASE e.contract = "conviction"
    BY <1>0, <1>1, <1>2, DoesConviction, DoesPlain DEF Handler
  <1>3. CASE e.contract = "treasury"
    <2>1. PlainList(handleTreasuryBatchTransfer(e))
      BY DoesTransfer, DoesPlain
    <2>2. Handler(e) = IF type = "bat_xfer" THEN handleTreasuryBatchTransfer(e) ELSE << >>
      BY <1>0, <1>1, <1>3 DEF Handler, StreamEvent
    <2>3. QED
      BY <2>1, <2>2, Does0, DoesPlain
  <1>4. CASE e.contract \in DOMAIN PeripheryTypes
    <2>2. Handler(e) = PeripheryHandler(e, type)
      BY <1>0, <1>1, <1>4 DEF Handler
    <2>3. QED
      BY <2>2, PlainPeriphery
  <1>5. CASE e.contract \notin DOMAIN PeripheryTypes \cup {"conviction", "treasury"}
    <2>1. CASE e.contract = "tokenVotes"
      BY <1>1, <1>5, <2>1, PlainTokenVotes DEF Handler, ListsSplits
    <2>2. CASE e.contract = "timelock"
      BY <1>1, <1>5, <2>2, PlainTimelock DEF Handler
    <2>3. CASE e.contract = "optimistic"
      BY <1>1, <1>5, <2>3, DoesOptimistic, DoesPlain DEF Handler
    <2>4. CASE e.contract = "voteEscrow"
      BY <1>1, <1>5, <2>4, DoesVoteEscrow, DoesPlain DEF Handler
    <2>5. CASE e.contract \notin {"tokenVotes", "timelock", "optimistic", "voteEscrow"}
      BY <1>1, <1>5, <2>5, PlainGovernor DEF Handler
    <2>6. QED
      BY <2>1, <2>2, <2>3, <2>4, <2>5
  <1>6. QED
    BY <1>2, <1>3, <1>4, <1>5

-----------------------------------------------------------------------------
(* The tables.                                                             *)

IsList(s) == \E S : s \in Seq(S)
\* A row for the event id in table t.
OnFile(d, t, id) == \E k \in DOMAIN Table(d, t) : Table(d, t)[k].event_id = id

(* A write changes one table.                                              *)
LEMMA ApplyTable ==
    ASSUME NEW f, NEW d, NEW reg, f.op \in Writes, NEW t
    PROVE  Table(Apply(f, d, reg), t) = IF t = f.tbl THEN Written(f, Table(d, f.tbl), reg) ELSE Table(d, t)
  <1> DEFINE x == Written(f, Table(d, f.tbl), reg)
  <1> HIDE DEF x
  <1>1. Apply(f, d, reg) = Override([u \in {f.tbl} |-> x], d)
    BY DEF Apply, x
  <1>2. QED
    BY <1>1 DEF Table, Override, x

(* An effect that is not a write leaves the tables alone.                  *)
LEMMA ApplyNothing ==
    ASSUME NEW f, NEW d, NEW reg, f.op \notin Writes
    PROVE  Apply(f, d, reg) = d
  BY DEF Apply

(* The two lookups by event id.                                            *)
LEMMA ReceiptLookup ==
    ASSUME NEW d, NEW id
    PROVE  treasuryStreamEventExists(d, id) <=> OnFile(d, "treasury_stream_events", id)
  BY DEF treasuryStreamEventExists, Exists, AnyRow, Matches, OnFile

(* Logged looks an event's id up in the log.                               *)
LEMMA LogLookup ==
    ASSUME NEW i
    PROVE  Logged(i) <=> OnFile(db, "event_log", chain[i].id)
  BY DEF Logged, Exists, AnyRow, Matches, OnFile

(* A row at the end of a table.                                            *)
LEMMA AppendedRow ==
    ASSUME NEW rows, IsList(rows), NEW x
    PROVE  /\ IsList(Append(rows, x))
           /\ DOMAIN rows \subseteq DOMAIN Append(rows, x)
           /\ \A k \in DOMAIN rows : Append(rows, x)[k] = rows[k]
           /\ \E k \in DOMAIN Append(rows, x) : Append(rows, x)[k] = x
           /\ \A k \in DOMAIN Append(rows, x) : k \in DOMAIN rows \/ Append(rows, x)[k] = x
  <1>1. PICK S : rows \in Seq(S)
    BY DEF IsList
  <1>2. PICK T : T = S \cup {x}
    OBVIOUS
  <1>3. rows \in Seq(T) /\ x \in T
    BY <1>1, <1>2
  <1>4. Append(rows, x) \in Seq(T) /\ Len(Append(rows, x)) = Len(rows) + 1 /\ Len(rows) \in Nat
    BY <1>3
  <1>5. /\ DOMAIN rows = 1..Len(rows) /\ DOMAIN Append(rows, x) = 1..Len(rows) + 1
        /\ \A k \in 1..Len(rows) : Append(rows, x)[k] = rows[k]
        /\ Append(rows, x)[Len(rows) + 1] = x
    BY <1>3, <1>4
  <1>6. IsList(Append(rows, x))
    BY <1>4 DEF IsList
  <1>7. QED
    BY <1>4, <1>5, <1>6

\* x is d with an entry for the event id.
Logs(d, x, id) ==
  /\ IsList(Table(x, "event_log"))
  /\ OnFile(x, "event_log", id)
  /\ \A other : OnFile(d, "event_log", other) => OnFile(x, "event_log", other)
  /\ \A t : t # "event_log" => Table(x, t) = Table(d, t)

(* The log entry of an event, once it is written or was there before.       *)
LEMMA LogWritten ==
    ASSUME NEW e, NEW d, NEW reg, IsList(Table(d, "event_log")), NEW f, f = logToEventLog(e)[1]
    PROVE  Logs(d, Apply(f, d, reg), e.id)
  <1> DEFINE row == [event_id |-> e.id, type |-> TOPIC_MAP(e.topic), ledger |-> e.ledger]
             rows == Table(d, "event_log")
             x == Apply(f, d, reg)
  <1>1. f.op = "insert" /\ f.tbl = "event_log" /\ f.key = {"event_id"} /\ f.row = row
    BY DEF logToEventLog, Insert
  <1>2. row.event_id = e.id
    OBVIOUS
  <1>3. \A r : SameKey(r, f.row, f.key) <=> r.event_id = e.id
    BY <1>1 DEF SameKey
  <1> HIDE DEF row
  <1>4. Written(f, rows, reg) = IF \E k \in DOMAIN rows : rows[k].event_id = e.id THEN rows ELSE Append(rows, row)
    BY <1>1, <1>3 DEF Written, AnyRow
  <1>5. \A t : Table(x, t) = IF t = "event_log" THEN Written(f, rows, reg) ELSE Table(d, t)
    BY <1>1, ApplyTable DEF Writes
  <1> HIDE DEF rows, x
  <1>6. PICK new : new = Written(f, rows, reg)
    OBVIOUS
  <1>7. /\ IsList(new) /\ (\E k \in DOMAIN new : new[k].event_id = e.id)
        /\ \A id : (\E k \in DOMAIN rows : rows[k].event_id = id) => \E k \in DOMAIN new : new[k].event_id = id
    <2>1. CASE \E k \in DOMAIN rows : rows[k].event_id = e.id
      BY <1>4, <1>6, <2>1 DEF rows
    <2>2. CASE ~\E k \in DOMAIN rows : rows[k].event_id = e.id
      <3>1. new = Append(rows, row) /\ IsList(rows)
        BY <1>4, <1>6, <2>2 DEF rows
      <3>2. QED
        BY <1>2, <3>1, AppendedRow
    <2>3. QED
      BY <2>1, <2>2
  <1>8. Table(x, "event_log") = new
    BY <1>5, <1>6
  <1>9. QED
    BY <1>5, <1>7, <1>8 DEF OnFile, rows, x, Logs

(* A plain effect leaves the reserved tables alone.                        *)
LEMMA PlainLeaves ==
    ASSUME NEW f, Plain(f), NEW d, NEW reg, NEW t \in Reserved
    PROVE  Table(RunEffect(f, d, reg), t) = Table(d, t)
  <1>1. CASE f.op = "snapshot"
    <2>1. PICK g : g = Insert(f.tbl, {"ledger"}, [ledger |-> f.ledger, value |-> reg], NoRef)
      OBVIOUS
    <2>2. RunEffect(f, d, reg) = Apply(g, d, 0)
      BY <1>1, <2>1 DEF RunEffect
    <2>3. g.op \in Writes /\ g.tbl = f.tbl
      BY <2>1 DEF Insert, Writes
    <2>4. f.tbl # t
      BY <1>1 DEF Plain
    <2>5. QED
      BY <2>2, <2>3, <2>4, ApplyTable
  <1>2. CASE f.op # "snapshot"
    <2>1. RunEffect(f, d, reg) = Apply(f, d, reg)
      BY <1>2 DEF RunEffect, Plain
    <2>2. CASE f.op \in Writes
      BY <2>1, <2>2, ApplyTable DEF Plain
    <2>3. CASE f.op \notin Writes
      BY <2>1, <2>3, ApplyNothing
    <2>4. QED
      BY <2>2, <2>3
  <1>3. QED
    BY <1>1, <1>2

-----------------------------------------------------------------------------
(* The treasury projection.                                                *)

StreamRow(r) == r = [stream |-> r.stream, version |-> r.version, ledger |-> r.ledger] /\ r.version \in Nat
StreamRows(rows) == IsList(rows) /\ \A k \in DOMAIN rows : StreamRow(rows[k])
Receipts(d) == ToSet(Table(d, "treasury_stream_events"))
\* Every stream of S with a receipt has a row that is at least as new as its receipts.
CurrentFor(d, S) ==
  \A r \in Receipts(d) : r.stream \in S =>
    \E k \in DOMAIN Table(d, "treasury_streams") :
      /\ Table(d, "treasury_streams")[k].stream = r.stream
      /\ Table(d, "treasury_streams")[k].version >= Cardinality({q \in Receipts(d) : q.stream = r.stream})
StreamsOf(d) == {r.stream : r \in Receipts(d)}

(* A new version of a row.                                                 *)
LEMMA NewVersion ==
    ASSUME NEW r, StreamRow(r), NEW v \in Nat
    PROVE  /\ StreamRow(Override([version |-> v], r))
           /\ Override([version |-> v], r).stream = r.stream
           /\ Override([version |-> v], r).version = v
  <1>1. PICK s, u, l : r = [stream |-> s, version |-> u, ledger |-> l]
    BY DEF StreamRow
  <1>2. Override([version |-> v], r) = [stream |-> s, version |-> v, ledger |-> l]
    BY <1>1 DEF Override
  <1>3. QED
    BY <1>1, <1>2 DEF StreamRow

\* x is d with version v in the rows of the stream s.
Upserted(d, x, s, v) ==
  LET old == Table(d, "treasury_streams")
      new == Table(x, "treasury_streams")
  IN  /\ \A t : t # "treasury_streams" => Table(x, t) = Table(d, t)
      /\ StreamRows(new)
      /\ \E k \in DOMAIN new : new[k].stream = s /\ new[k].version = v
      /\ \A k \in DOMAIN old : old[k].stream # s => k \in DOMAIN new /\ new[k] = old[k]

(* upsertStream changes the rows of its stream, and nothing else.           *)
LEMMA UpsertStream ==
    ASSUME NEW d, StreamRows(Table(d, "treasury_streams")), NEW s, NEW v \in Nat, NEW l
    PROVE  Upserted(d, upsertStream(d, s, v, l), s, v)
  <1> DEFINE x == upsertStream(d, s, v, l)
             old == Table(d, "treasury_streams")
             new == Table(x, "treasury_streams")
             row == [stream |-> s, version |-> v, ledger |-> l]
  <1>1. PICK f : f = Upsert("treasury_streams", {"stream"}, row, [version |-> v], NoRef)
    OBVIOUS
  <1>2. /\ f.op = "upsert" /\ f.tbl = "treasury_streams" /\ f.key = {"stream"} /\ f.row = row
        /\ f.set = [version |-> v]
    BY <1>1 DEF Upsert
  <1>3. row.stream = s /\ row.version = v /\ StreamRow(row)
    BY DEF StreamRow
  <1>4. x = Apply(f, d, 0)
    BY <1>1 DEF upsertStream
  <1> HIDE DEF row, x
  <1>5. \A t : Table(x, t) = IF t = "treasury_streams" THEN Written(f, old, 0) ELSE Table(d, t)
    BY <1>2, <1>4, ApplyTable DEF Writes
  <1>6. \A r : SameKey(r, f.row, f.key) <=> r.stream = s
    BY <1>2, <1>3 DEF SameKey
  <1>7. new = Written(f, old, 0)
    BY <1>5
  <1>8. Written(f, old, 0) = IF \E k \in DOMAIN old : old[k].stream = s
                             THEN [k \in DOMAIN old |-> IF old[k].stream = s THEN Override([version |-> v], old[k]) ELSE old[k]]
                             ELSE Append(old, row)
    <2>1. AnyRow(old, LAMBDA r : SameKey(r, f.row, f.key)) <=> \E k \in DOMAIN old : old[k].stream = s
      BY <1>6 DEF AnyRow
    <2>2. MapRows(old, LAMBDA r : SameKey(r, f.row, f.key), LAMBDA r : Override(f.set, r))
            = [k \in DOMAIN old |-> IF old[k].stream = s THEN Override([version |-> v], old[k]) ELSE old[k]]
      BY <1>2, <1>6 DEF MapRows
    <2>3. QED
      BY <1>2, <2>1, <2>2 DEF Written
  <1> HIDE DEF old, new
  <1>9. IsList(old) /\ \A k \in DOMAIN old : StreamRow(old[k])
    BY DEF StreamRows, old
  <1>10. CASE \E k \in DOMAIN old : old[k].stream = s
    <2>1. new = [k \in DOMAIN old |-> IF old[k].stream = s THEN Override([version |-> v], old[k]) ELSE old[k]]
      BY <1>7, <1>8, <1>10
    <2>2. DOMAIN new = DOMAIN old /\ \A k \in DOMAIN old : old[k].stream # s => new[k] = old[k]
      BY <2>1
    <2>3. \A k \in DOMAIN old : old[k].stream = s => new[k].stream = s /\ new[k].version = v /\ StreamRow(new[k])
      BY <1>9, <2>1, NewVersion
    <2>4. \A k \in DOMAIN new : StreamRow(new[k])
      BY <1>9, <2>2, <2>3
    <2>5. IsList(new)
      <3>1. PICK S : old \in Seq(S)
        BY <1>9 DEF IsList
      <3>2. PICK T : T = {new[k] : k \in DOMAIN old}
        OBVIOUS
      <3>3. DOMAIN old = 1..Len(old) /\ Len(old) \in Nat
        BY <3>1
      <3>4. new \in [1..Len(old) -> T]
        BY <2>1, <3>2, <3>3
      <3>5. new \in Seq(T)
        BY <3>3, <3>4
      <3>6. QED
        BY <3>5 DEF IsList
    <2>6. QED
      BY <1>5, <1>10, <2>2, <2>3, <2>4, <2>5 DEF StreamRows, old, new, x, Upserted
  <1>11. CASE ~\E k \in DOMAIN old : old[k].stream = s
    <2>1. new = Append(old, row)
      BY <1>7, <1>8, <1>11
    <2>2. StreamRows(new)
      BY <1>3, <1>9, <2>1, AppendedRow DEF StreamRows
    <2>3. \E k \in DOMAIN new : new[k].stream = s /\ new[k].version = v
      BY <1>3, <1>9, <2>1, AppendedRow
    <2>4. \A k \in DOMAIN old : k \in DOMAIN new /\ new[k] = old[k]
      BY <1>9, <2>1, AppendedRow
    <2>5. QED
      BY <1>5, <2>2, <2>3, <2>4 DEF old, new, x, Upserted
  <1>12. QED
    BY <1>10, <1>11 DEF x

(* A version that counts all receipts of its stream makes the stream current. *)
LEMMA UpsertCurrent ==
    ASSUME NEW d, StreamRows(Table(d, "treasury_streams")), NEW s, NEW v \in Nat, NEW l,
           v >= Cardinality({q \in Receipts(d) : q.stream = s}),
           CurrentFor(d, StreamsOf(d) \ {s})
    PROVE  LET x == upsertStream(d, s, v, l)
           IN  /\ \A t : t # "treasury_streams" => Table(x, t) = Table(d, t)
               /\ StreamRows(Table(x, "treasury_streams"))
               /\ CurrentFor(x, StreamsOf(x))
  <1> DEFINE x == upsertStream(d, s, v, l)
             old == Table(d, "treasury_streams")
             new == Table(x, "treasury_streams")
  <1>1. /\ \A t : t # "treasury_streams" => Table(x, t) = Table(d, t)
        /\ StreamRows(new)
        /\ \E k \in DOMAIN new : new[k].stream = s /\ new[k].version = v
        /\ \A k \in DOMAIN old : old[k].stream # s => k \in DOMAIN new /\ new[k] = old[k]
    <2>1. Upserted(d, x, s, v)
      BY UpsertStream
    <2>2. QED
      BY <2>1 DEF Upserted
  <1> HIDE DEF x
  <1>2. Receipts(x) = Receipts(d) /\ StreamsOf(x) = StreamsOf(d)
    BY <1>1 DEF Receipts, StreamsOf
  <1>3. ASSUME NEW r \in Receipts(d)
        PROVE  \E k \in DOMAIN new :
                 /\ new[k].stream = r.stream
                 /\ new[k].version >= Cardinality({q \in Receipts(d) : q.stream = r.stream})
    <2>1. CASE r.stream = s
      BY <1>1, <2>1
    <2>2. CASE r.stream # s
      <3>1. r.stream \in StreamsOf(d) \ {s}
        BY <2>2 DEF StreamsOf
      <3>2. QED
        BY <1>1, <2>2, <3>1 DEF CurrentFor
    <2>3. QED
      BY <2>1, <2>2
  <1>4. CurrentFor(x, StreamsOf(x))
    BY <1>2, <1>3 DEF CurrentFor
  <1>5. QED
    BY <1>1, <1>4 DEF x

Receipt(id, s) == [event_id |-> id, stream |-> s]

(* persistTreasuryStreamEvent writes receipt and projection, or nothing.     *)
LEMMA Persisted ==
    ASSUME NEW d, NEW f, NEW v \in Nat,
           StreamRows(Table(d, "treasury_streams")), IsList(Table(d, "treasury_stream_events")),
           CurrentFor(d, StreamsOf(d)),
           ~OnFile(d, "treasury_stream_events", f.id),
           v >= Cardinality({q \in Receipts(d) \cup {Receipt(f.id, f.stream)} : q.stream = f.stream})
    PROVE  LET x == persistTreasuryStreamEvent(d, f, v)
           IN  /\ Table(x, "event_log") = Table(d, "event_log")
               /\ StreamRows(Table(x, "treasury_streams"))
               /\ IsList(Table(x, "treasury_stream_events"))
               /\ CurrentFor(x, StreamsOf(x))
               /\ Receipts(x) = Receipts(d) \cup {Receipt(f.id, f.stream)}
               /\ OnFile(x, "treasury_stream_events", f.id)
               /\ \A id : OnFile(d, "treasury_stream_events", id) => OnFile(x, "treasury_stream_events", id)
               /\ \A id : OnFile(x, "treasury_stream_events", id) => id = f.id \/ OnFile(d, "treasury_stream_events", id)
  <1> DEFINE row == Receipt(f.id, f.stream)
             rows == Table(d, "treasury_stream_events")
             y == Apply(AppendRow("treasury_stream_events", row, NoRef), d, 0)
             x == upsertStream(y, f.stream, v, f.ledger)
             new == Table(y, "treasury_stream_events")
  <1>1. persistTreasuryStreamEvent(d, f, v) = x
    BY ReceiptLookup DEF persistTreasuryStreamEvent, Receipt
  <1>2. row.event_id = f.id /\ row.stream = f.stream
    BY DEF Receipt
  <1> HIDE DEF row
  <1>3. PICK g : g = AppendRow("treasury_stream_events", row, NoRef)
    OBVIOUS
  <1>4. g.op = "append" /\ g.tbl = "treasury_stream_events" /\ g.row = row
    BY <1>3 DEF AppendRow
  <1>5. y = Apply(g, d, 0)
    BY <1>3
  <1> HIDE DEF y
  <1>6. \A t : Table(y, t) = IF t = "treasury_stream_events" THEN Written(g, rows, 0) ELSE Table(d, t)
    BY <1>4, <1>5, ApplyTable DEF Writes
  <1>7. Written(g, rows, 0) = Append(rows, row)
    BY <1>4 DEF Written
  <1>8. new = Append(rows, row)
    BY <1>6, <1>7
  <1> HIDE DEF new, rows
  <1>9. /\ IsList(new) /\ DOMAIN rows \subseteq DOMAIN new /\ (\A k \in DOMAIN rows : new[k] = rows[k])
        /\ (\E k \in DOMAIN new : new[k] = row)
        /\ \A k \in DOMAIN new : k \in DOMAIN rows \/ new[k] = row
    BY <1>8, AppendedRow DEF rows
  <1>10. Receipts(y) = Receipts(d) \cup {row}
    BY <1>9 DEF Receipts, ToSet, rows, new
  <1>11. Table(y, "treasury_streams") = Table(d, "treasury_streams") /\ Table(y, "event_log") = Table(d, "event_log")
    BY <1>6
  <1>12. CurrentFor(y, StreamsOf(y) \ {f.stream})
    <2>1. ASSUME NEW r \in Receipts(y), r.stream # f.stream
          PROVE  /\ r \in Receipts(d) /\ r.stream \in StreamsOf(d)
                 /\ {q \in Receipts(y) : q.stream = r.stream} = {q \in Receipts(d) : q.stream = r.stream}
      BY <1>2, <1>10, <2>1 DEF StreamsOf
    <2>2. QED
      BY <1>11, <2>1 DEF CurrentFor
  <1>13. v >= Cardinality({q \in Receipts(y) : q.stream = f.stream})
    BY <1>10 DEF row
  <1>14. /\ \A t : t # "treasury_streams" => Table(x, t) = Table(y, t)
         /\ StreamRows(Table(x, "treasury_streams"))
         /\ CurrentFor(x, StreamsOf(x))
    BY <1>11, <1>12, <1>13, UpsertCurrent
  <1> HIDE DEF x
  <1>15. Table(x, "treasury_stream_events") = new /\ Table(x, "event_log") = Table(d, "event_log")
    BY <1>11, <1>14 DEF new
  <1>16. Receipts(x) = Receipts(d) \cup {row}
    BY <1>10, <1>15 DEF Receipts, new
  <1>17. /\ OnFile(x, "treasury_stream_events", f.id)
         /\ \A id : OnFile(d, "treasury_stream_events", id) => OnFile(x, "treasury_stream_events", id)
         /\ \A id : OnFile(x, "treasury_stream_events", id) => id = f.id \/ OnFile(d, "treasury_stream_events", id)
    BY <1>2, <1>9, <1>15 DEF OnFile, rows
  <1>18. QED
    BY <1>1, <1>9, <1>14, <1>15, <1>16, <1>17 DEF row

-----------------------------------------------------------------------------
(* The bootstrap of the projection.                                        *)

Sums == INSTANCE SumTheorems

\* What the projection owes the receipts: rows of streams, as new as the receipts.
Projected(d) == StreamRows(Table(d, "treasury_streams")) /\ CurrentFor(d, StreamsOf(d))
\* The stream events of the chain up to ledger t.
Counted(c, s, t) == {i \in DOMAIN c : c[i].ledger <= t /\ StreamEvent(c[i]) /\ c[i].d.stream = s}
\* No stream has more receipts than events up to ledger t.
Bounded(c, d, t) == \A s : Cardinality({q \in Receipts(d) : q.stream = s}) <= Cardinality(Counted(c, s, t))
SameElsewhere(d, x) == \A t : t # "treasury_streams" => Table(x, t) = Table(d, t)

(* The chain's state of a stream counts its events so far.                 *)
LEMMA StateCounts == ASSUME NEW s PROVE StreamState(s) = Cardinality(Counted(chain, s, tip))
  <1>1. {i \in DOMAIN chain : /\ chain[i].ledger <= tip
                              /\ chain[i].contract = "treasury"
                              /\ TOPIC_MAP(chain[i].topic) \in StreamTypes
                              /\ chain[i].d.stream = s} = Counted(chain, s, tip)
    BY DEF Counted, StreamEvent
  <1>2. QED
    BY <1>1 DEF StreamState

(* The events of a stream are finitely many.                               *)
LEMMA CountedFinite ==
    ASSUME NEW c, Len(c) \in Nat, DOMAIN c = 1..Len(c), NEW s, NEW t
    PROVE  IsFiniteSet(Counted(c, s, t)) /\ Cardinality(Counted(c, s, t)) \in Nat
  <1>1. IsFiniteSet(DOMAIN c)
    BY FS_Interval
  <1>2. Counted(c, s, t) \subseteq DOMAIN c
    BY DEF Counted
  <1>3. QED
    BY <1>1, <1>2, FS_Subset, FS_CardinalityType

(* One upsert of a stream's state keeps the projection.                     *)
LEMMA UpsertKeeps ==
    ASSUME NEW d, Projected(d), NEW c, NEW t, Bounded(c, d, t), NEW s, NEW v \in Nat,
           v = Cardinality(Counted(c, s, t)), NEW l
    PROVE  /\ SameElsewhere(d, upsertStream(d, s, v, l))
           /\ Projected(upsertStream(d, s, v, l))
  <1>1. Cardinality({q \in Receipts(d) : q.stream = s}) <= v
    BY DEF Bounded
  <1>2. CurrentFor(d, StreamsOf(d) \ {s})
    BY DEF Projected, CurrentFor
  <1>3. PICK n : n = Cardinality({q \in Receipts(d) : q.stream = s})
    OBVIOUS
  <1>4. v >= Cardinality({q \in Receipts(d) : q.stream = s})
    BY <1>1, <1>3
  <1>5. StreamRows(Table(d, "treasury_streams"))
    BY DEF Projected
  <1>6. QED
    BY <1>2, <1>4, <1>5, UpsertCurrent DEF SameElsewhere, Projected

(* What writes the projection only leaves the receipts alone.              *)
LEMMA SameReceipts ==
    ASSUME NEW d, NEW x, SameElsewhere(d, x), NEW c, NEW t
    PROVE  Receipts(x) = Receipts(d) /\ (Bounded(c, d, t) => Bounded(c, x, t))
  <1>1. Receipts(x) = Receipts(d)
    BY DEF SameElsewhere, Receipts
  <1>2. QED
    BY <1>1 DEF Bounded

(* The recursion over the streams is a function.                            *)
LEMMA SetToSeqLen == ASSUME NEW T, IsFiniteSet(T) PROVE Len(SetToSeq(T)) \in Nat
  <1>1. PICK n \in Nat : n = Cardinality(T)
    BY FS_CardinalityType
  <1>2. ExistsBijection(1..n, T)
    BY <1>1, FS_CardinalityType
  <1>3. PICK f \in [1..n -> T] : \A a, b \in 1..n : f[a] = f[b] => a = b
    BY <1>2 DEF ExistsBijection, Bijection, Injection, IsInjective
  <1>4. \E g \in [1..n -> T] : IsInjective(g)
    BY <1>3 DEF IsInjective
  <1>5. SetToSeq(T) \in [1..n -> T]
    BY <1>1, <1>4 DEF SetToSeq
  <1>6. SetToSeq(T) \in Seq(T)
    BY <1>1, <1>5
  <1>7. QED
    BY <1>6

Chained(g, N, d, order, t, c) ==
  g = [n \in 0..N |-> IF n = 0 THEN d
                      ELSE upsertStream(g[n - 1], order[n], Cardinality(Counted(c, order[n], t)), t)]

(* The recursion over the streams has a solution.                          *)
LEMMA ChainExists ==
    ASSUME NEW N \in Nat, NEW d, NEW order, NEW t, NEW c PROVE \E g : Chained(g, N, d, order, t, c)
  <1> DEFINE Up1(x, n) == upsertStream(x, order[n], Cardinality(Counted(c, order[n], t)), t)
             P(n) == \E g : g = [k \in 0..n |-> IF k = 0 THEN d ELSE Up1(g[k - 1], k)]
             I == {n \in Nat : P(n)}
  <1> HIDE DEF Up1
  <1>1. 0 \in I
    <2>1. PICK g : g = [k \in 0..0 |-> d]
      OBVIOUS
    <2>2. g = [k \in 0..0 |-> IF k = 0 THEN d ELSE Up1(g[k - 1], k)]
      BY <2>1
    <2>3. QED
      BY <2>2
  <1>2. ASSUME NEW n \in I PROVE n + 1 \in I
    <2>1. n \in Nat /\ P(n)
      OBVIOUS
    <2>2. PICK g : g = [k \in 0..n |-> IF k = 0 THEN d ELSE Up1(g[k - 1], k)]
      BY <2>1
    <2>3. PICK h : h = [k \in 0..n + 1 |-> IF k <= n THEN g[k] ELSE Up1(g[n], k)]
      OBVIOUS
    <2>4. ASSUME NEW k \in 0..n + 1 PROVE h[k] = IF k = 0 THEN d ELSE Up1(h[k - 1], k)
      <3>1. CASE k = 0
        BY <2>1, <2>2, <2>3, <3>1
      <3>2. CASE k # 0 /\ k <= n
        <4>1. k - 1 \in 0..n + 1 /\ k - 1 <= n /\ k \in 0..n
          BY <2>1, <3>2
        <4>2. h[k - 1] = g[k - 1] /\ h[k] = g[k]
          BY <2>3, <3>2, <4>1
        <4>3. QED
          BY <2>2, <3>2, <4>1, <4>2
      <3>3. CASE k = n + 1
        <4>1. k - 1 = n /\ n \in 0..n + 1 /\ ~(k <= n) /\ k # 0
          BY <2>1, <3>3
        <4>2. QED
          BY <2>1, <2>3, <4>1
      <3>4. QED
        BY <2>1, <3>1, <3>2, <3>3
    <2>5. h = [k \in 0..n + 1 |-> IF k = 0 THEN d ELSE Up1(h[k - 1], k)]
      BY <2>3, <2>4
    <2>6. QED
      BY <2>1, <2>5
  <1>3. I \in SUBSET Nat
    OBVIOUS
  <1> HIDE DEF I
  <1>4. I = Nat
    BY <1>1, <1>2, <1>3, Sums!Inductive
  <1>5. QED
    BY <1>4 DEF I, Chained, Up1

(* Every step of the recursion keeps the projection current.               *)
LEMMA ChainKeeps ==
    ASSUME NEW N \in Nat, NEW d, NEW order, NEW t, NEW c, NEW g, Chained(g, N, d, order, t, c),
           Len(c) \in Nat, DOMAIN c = 1..Len(c), Projected(d), Bounded(c, d, t)
    PROVE  SameElsewhere(d, g[N]) /\ Projected(g[N])
  <1> DEFINE I == {n \in Nat : n <= N => SameElsewhere(d, g[n]) /\ Projected(g[n])}
  <1>1. 0 \in I
    <2>1. g[0] = d
      BY DEF Chained
    <2>2. QED
      BY <2>1 DEF SameElsewhere
  <1>2. ASSUME NEW n \in I PROVE n + 1 \in I
    <2>1. SUFFICES ASSUME n + 1 <= N PROVE SameElsewhere(d, g[n + 1]) /\ Projected(g[n + 1])
      OBVIOUS
    <2>2. SameElsewhere(d, g[n]) /\ Projected(g[n])
      BY <2>1
    <2>3. Bounded(c, g[n], t)
      BY <2>2, SameReceipts
    <2>4. PICK v \in Nat : v = Cardinality(Counted(c, order[n + 1], t))
      BY CountedFinite
    <2>5. g[n + 1] = upsertStream(g[n], order[n + 1], v, t)
      <3>1. n + 1 \in 0..N /\ n + 1 # 0 /\ (n + 1) - 1 = n
        BY <2>1
      <3>2. QED
        BY <2>4, <3>1 DEF Chained
    <2>6. SameElsewhere(g[n], g[n + 1]) /\ Projected(g[n + 1])
      BY <2>2, <2>3, <2>4, <2>5, UpsertKeeps
    <2>7. QED
      BY <2>2, <2>6 DEF SameElsewhere
  <1>3. I \in SUBSET Nat
    OBVIOUS
  <1> HIDE DEF I
  <1>4. I = Nat
    BY <1>1, <1>2, <1>3, Sums!Inductive
  <1>5. QED
    BY <1>4 DEF I

(* bootstrapTreasuryProjection goes through the streams on chain, one after another. *)
LEMMA BootChain ==
    ASSUME NEW d, Len(chain) \in Nat, DOMAIN chain = 1..Len(chain)
    PROVE  \E N \in Nat : \E order, g : Chained(g, N, d, order, tip, chain) /\ bootstrapTreasuryProjection(d) = g[N]
  <1> DEFINE order == SetToSeq(StreamsOnChain)
             N == Len(order)
             D(g) == g = [n \in 0..N |-> IF n = 0 THEN d ELSE upsertStream(g[n - 1], order[n], StreamState(order[n]), tip)]
  <1>1. IsFiniteSet(StreamsOnChain)
    <2>1. PICK J : J = {j \in DOMAIN chain : /\ chain[j].ledger <= tip
                                            /\ chain[j].contract = "treasury"
                                            /\ TOPIC_MAP(chain[j].topic) \in StreamTypes}
      OBVIOUS
    <2>2. IsFiniteSet(J)
      <3>1. IsFiniteSet(DOMAIN chain)
        BY FS_Interval
      <3>2. J \subseteq DOMAIN chain
        BY <2>1
      <3>3. QED
        BY <3>1, <3>2, FS_Subset
    <2>3. PICK f : f = [j \in J |-> chain[j].d.stream]
      OBVIOUS
    <2>4. StreamsOnChain = {f[j] : j \in J}
      BY <2>1, <2>3 DEF StreamsOnChain
    <2>5. f \in Surjection(J, StreamsOnChain)
      BY <2>3, <2>4 DEF Surjection
    <2>6. QED
      BY <2>2, <2>5, FS_Surjection
  <1>2. N \in Nat
    BY <1>1, SetToSeqLen
  <1> HIDE DEF order, N
  <1>3. \A n : StreamState(order[n]) = Cardinality(Counted(chain, order[n], tip))
    BY StateCounts
  <1>4. \A g : D(g) <=> Chained(g, N, d, order, tip, chain)
    BY <1>3 DEF Chained
  <1>5. PICK g : g = CHOOSE h : D(h)
    OBVIOUS
  <1>6. Chained(g, N, d, order, tip, chain)
    BY <1>2, <1>4, <1>5, ChainExists
  <1>7. bootstrapTreasuryProjection(d) = g[N]
    BY <1>5 DEF bootstrapTreasuryProjection, order, N
  <1>8. QED
    BY <1>2, <1>6, <1>7

(* It writes the projection only, and keeps it current.                     *)
LEMMA Bootstrapped ==
    ASSUME NEW d, Len(chain) \in Nat, DOMAIN chain = 1..Len(chain), Projected(d), Bounded(chain, d, tip)
    PROVE  SameElsewhere(d, bootstrapTreasuryProjection(d)) /\ Projected(bootstrapTreasuryProjection(d))
  <1>1. PICK N \in Nat : \E order, g : Chained(g, N, d, order, tip, chain) /\ bootstrapTreasuryProjection(d) = g[N]
    BY BootChain
  <1>2. PICK order, g : Chained(g, N, d, order, tip, chain) /\ bootstrapTreasuryProjection(d) = g[N]
    BY <1>1
  <1>3. QED
    BY <1>1, <1>2, ChainKeeps

-----------------------------------------------------------------------------
(* The inductive invariant.                                                *)

\* The event i is in the log, and its receipt on file if it is a stream's.
Settled(c, d, i) ==
  /\ OnFile(d, "event_log", c[i].id)
  /\ StreamEvent(c[i]) => OnFile(d, "treasury_stream_events", c[i].id)

\* Every subscribed event of the ledgers up to n is settled or in E.
CoveredTo(c, d, n, E) ==
  \A i \in DOMAIN c : c[i].contract \in contractIds /\ c[i].ledger <= n => i \in E \/ Settled(c, d, i)

\* A receipt is that of a stream event of the chain, and the receipts of the
\* stream events before it are on file too.
ReceiptsInOrder(c, d, t) ==
  \A r \in Receipts(d) : \E j \in DOMAIN c :
    /\ StreamEvent(c[j]) /\ c[j].ledger <= t /\ r = Receipt(c[j].id, c[j].d.stream)
    /\ \A i \in DOMAIN c : i <= j /\ StreamEvent(c[i]) => OnFile(d, "treasury_stream_events", c[i].id)

TablesOk(c, d, t) ==
  /\ IsList(Table(d, "event_log")) /\ IsList(Table(d, "treasury_stream_events"))
  /\ Projected(d)
  /\ ReceiptsInOrder(c, d, t)

\* How far the handler of the event j is, when todo is left of its effects: before
\* the log entry; inside the handler of a stream event, before the receipt; or
\* with nothing left that touches the log or the projection.
BeforeLog(c, j, todo) == todo = Effects(c[j])
BeforeReceipt(c, d, t, j, todo, reg) ==
  LET s == handleTreasuryStreamEvent(c[j])
  IN  /\ OnFile(d, "event_log", c[j].id) /\ StreamEvent(c[j])
      /\ \/ todo = s \/ todo = Tail(s)
         \/ /\ todo = Tail(Tail(s))
            /\ \E u \in c[j].ledger..t : reg = Cardinality(Counted(c, c[j].d.stream, u))
AfterReceipt(c, d, j, todo) == Settled(c, d, j) /\ PlainList(todo) /\ todo # << >>
Going(c, d, t, j, todo, reg) ==
  BeforeLog(c, j, todo) \/ BeforeReceipt(c, d, t, j, todo, reg) \/ AfterReceipt(c, d, j, todo)

PageOk(c, d, t, evs) ==
  /\ evs \subseteq DOMAIN c
  /\ \A j \in evs : c[j].contract \in contractIds /\ c[j].ledger <= t /\ CoveredTo(c, d, c[j].ledger, evs)

BatchOk(c, d, t, w) ==
  /\ w = [pc |-> w.pc, start |-> w.start, latest |-> w.latest, evs |-> w.evs, todo |-> w.todo, reg |-> w.reg]
  /\ w.pc \in {"idle", "fetch", "run", "cursor", "memory", "post"}
  /\ w.latest \in Nat
  /\ w.pc = "fetch" => w.start = w.latest + 1
  /\ w.pc # "idle" => CoveredTo(c, d, w.latest, w.evs)
  /\ w.pc # "run" => w.evs = {}
  /\ w.pc \notin {"run", "post"} => w.todo = << >>
  /\ w.pc = "post" => PlainList(w.todo)
  /\ w.pc = "run" =>
       /\ PageOk(c, d, t, w.evs)
       /\ w.evs = {} => w.todo = << >>
       /\ w.evs # {} => Going(c, d, t, Min(w.evs), w.todo, w.reg)

Shape ==
  /\ scenario \in Scenarios
  /\ tip \in Nat /\ cursor \in Nat /\ lastLedger \in Nat
  /\ DOMAIN chain # {} => tip <= EndOf(chain)
  /\ batch = [b \in Slots |-> batch[b]]

IndexerInv ==
  /\ Shape
  /\ TablesOk(chain, db, tip)
  /\ CoveredTo(chain, db, cursor, {}) /\ CoveredTo(chain, db, lastLedger, {})
  /\ \A b \in Slots : BatchOk(chain, db, tip, batch[b])

-----------------------------------------------------------------------------
(* What only grows.                                                        *)

\* What the assumption on the scenarios says of a chain.
ChainOk(c) ==
  /\ Len(c) \in Nat /\ DOMAIN c = 1..Len(c)
  /\ \A i \in DOMAIN c : c[i].ledger \in Nat \ {0}
  /\ \A i, j \in DOMAIN c : i <= j => c[i].ledger <= c[j].ledger
  /\ \A i, j \in DOMAIN c : c[i].id = c[j].id => i = j
  /\ \A i \in DOMAIN c : ListsSplits(c[i])

(* The chain of a scenario is as assumed.                                  *)
LEMMA ChainFacts == ASSUME scenario \in Scenarios PROVE ChainOk(chain)
  BY ScenariosAssumption DEF ChainOk, chain, ListsSplits

\* Rows of the log and receipts stay.
Grows(d, x) ==
  \A id : /\ OnFile(d, "event_log", id) => OnFile(x, "event_log", id)
          /\ OnFile(d, "treasury_stream_events", id) => OnFile(x, "treasury_stream_events", id)

(* What is settled stays settled as the log and the receipts grow.         *)
LEMMA SettledGrows ==
    ASSUME NEW c, NEW d, NEW x, Grows(d, x), NEW i, Settled(c, d, i)
    PROVE  Settled(c, x, i)
  BY DEF Settled, Grows

(* What is covered stays covered.                                          *)
LEMMA CoveredGrows ==
    ASSUME NEW c, NEW d, NEW x, Grows(d, x), NEW n, NEW E, CoveredTo(c, d, n, E)
    PROVE  CoveredTo(c, x, n, E)
  BY SettledGrows DEF CoveredTo

(* A page stays in order while ledgers close.                              *)
LEMMA PageGrows ==
    ASSUME NEW c, ChainOk(c), NEW d, NEW x, Grows(d, x), NEW t \in Nat, NEW u \in Nat, t <= u, NEW E, PageOk(c, d, t, E)
    PROVE  PageOk(c, x, u, E)
  <1>1. ASSUME NEW j \in E
        PROVE  c[j].contract \in contractIds /\ c[j].ledger <= u /\ CoveredTo(c, x, c[j].ledger, E)
    <2>1. c[j].contract \in contractIds /\ c[j].ledger <= t /\ CoveredTo(c, d, c[j].ledger, E) /\ j \in DOMAIN c
      BY DEF PageOk
    <2>2. PICK l : l = c[j].ledger
      OBVIOUS
    <2>3. l \in Nat /\ l <= t /\ l <= u
      BY <2>1, <2>2 DEF ChainOk
    <2>4. QED
      BY <2>1, <2>2, <2>3, CoveredGrows
  <1>2. QED
    BY <1>1 DEF PageOk

(* A handler stays where it is while other batches write.                  *)
LEMMA GoingGrows ==
    ASSUME NEW c, ChainOk(c), NEW d, NEW x, Grows(d, x), NEW t \in Nat, NEW u \in Nat, t <= u, NEW j \in DOMAIN c,
           NEW todo, NEW reg, Going(c, d, t, j, todo, reg)
    PROVE  Going(c, x, u, j, todo, reg)
  <1>1. CASE BeforeLog(c, j, todo)
    BY <1>1 DEF Going
  <1>2. CASE BeforeReceipt(c, d, t, j, todo, reg)
    <2>1. PICK l \in Nat : l = c[j].ledger
      BY DEF ChainOk
    <2>2. \A k : k \in l..t => k \in l..u
      BY <2>1
    <2>3. OnFile(x, "event_log", c[j].id)
      BY <1>2 DEF BeforeReceipt, Grows
    <2>4. BeforeReceipt(c, x, u, j, todo, reg)
      BY <1>2, <2>1, <2>2, <2>3 DEF BeforeReceipt
    <2>5. QED
      BY <2>4 DEF Going
  <1>3. CASE AfterReceipt(c, d, j, todo)
    BY <1>3, SettledGrows DEF Going, AfterReceipt
  <1>4. QED
    BY <1>1, <1>2, <1>3 DEF Going

(* The least of a set of places.                                           *)
LEMMA LeastPlace ==
    ASSUME NEW E \in SUBSET Nat, E # {}
    PROVE  Min(E) \in E /\ \A i \in E : Min(E) <= i
  <1>1. \E x \in E : \A y \in E : x <= y
    BY Sums!LeastNat
  <1>2. QED
    BY <1>1 DEF Min

(* The event in hand is the first of the page.                             *)
LEMMA LeastEvent ==
    ASSUME NEW c, ChainOk(c), NEW E, E \subseteq DOMAIN c, E # {}
    PROVE  Min(E) \in E /\ Min(E) \in DOMAIN c /\ \A i \in E : Min(E) <= i
  <1>1. E \in SUBSET Nat
    BY DEF ChainOk
  <1>2. QED
    BY <1>1, LeastPlace

(* A batch stays in order while others write and ledgers close.            *)
LEMMA BatchGrows ==
    ASSUME NEW c, ChainOk(c), NEW d, NEW x, Grows(d, x), NEW t \in Nat, NEW u \in Nat, t <= u, NEW w,
           BatchOk(c, d, t, w)
    PROVE  BatchOk(c, x, u, w)
  <1>1. w.pc # "idle" => CoveredTo(c, x, w.latest, w.evs)
    BY CoveredGrows DEF BatchOk
  <1>2. ASSUME w.pc = "run"
        PROVE  /\ PageOk(c, x, u, w.evs)
               /\ w.evs # {} => Going(c, x, u, Min(w.evs), w.todo, w.reg)
    <2>1. PageOk(c, d, t, w.evs) /\ (w.evs # {} => Going(c, d, t, Min(w.evs), w.todo, w.reg))
      BY <1>2 DEF BatchOk
    <2>2. PageOk(c, x, u, w.evs)
      BY <2>1, PageGrows
    <2>3. ASSUME w.evs # {} PROVE Going(c, x, u, Min(w.evs), w.todo, w.reg)
      <3>1. Min(w.evs) \in DOMAIN c
        BY <2>1, <2>3, LeastEvent DEF PageOk
      <3>2. QED
        BY <2>1, <2>3, <3>1, GoingGrows
    <2>4. QED
      BY <2>2, <2>3
  <1>3. QED
    BY <1>1, <1>2 DEF BatchOk

-----------------------------------------------------------------------------
(* The effects of an event.                                                *)

(* A stream event is handled by handleTreasuryStreamEvent.                 *)
LEMMA StreamHandler ==
    ASSUME NEW e, StreamEvent(e)
    PROVE  Handler(e) = handleTreasuryStreamEvent(e)
  <1>1. DOMAIN PeripheryTypes = {"wrapper", "liquidity", "coSponsorship", "proposalBonds", "signalAnchor", "treasuryStrategies"}
    BY DEF PeripheryTypes
  <1>2. "bat_xfer" \notin StreamTypes
    BY DEF StreamTypes
  <1>3. QED
    BY <1>1, <1>2 DEF Handler, StreamEvent

\* What a stream's event makes the indexer tell the cache and the clients.
StreamTail(e) ==
  << Invalidate({<<"treasury", "stream", e.d.stream>>, <<"treasury", "budget-summary">>}),
     InvalidatePattern(<<"treasury", "streams">>),
     InvalidatePattern(<<"treasury", "stream", e.d.stream, "spends">>),
     InvalidatePattern(<<"treasury", "stream", e.d.stream, "events">>),
     Broadcast("stream_event") >>

(* The effects of a stream event's handler, named.                         *)
LEMMA StreamStages ==
    ASSUME NEW e
    PROVE  LET s == handleTreasuryStreamEvent(e)
           IN  /\ IsList(s)
               /\ s # << >> /\ Head(s) = [op |-> "streamExists", id |-> e.id]
               /\ Tail(s) # << >> /\ Head(Tail(s)) = [op |-> "readStream", stream |-> e.d.stream]
               /\ Tail(Tail(s)) # << >>
               /\ Head(Tail(Tail(s))) = [op |-> "persistStream", id |-> e.id, stream |-> e.d.stream, ledger |-> e.ledger]
               /\ PlainList(Tail(Tail(Tail(s)))) /\ Tail(Tail(Tail(s))) # << >>
               /\ Tail(Tail(Tail(s))) = StreamTail(e) /\ Does(StreamTail(e), {})
  <1>1. PICK a1, a2, a3 : /\ a1 = [op |-> "streamExists", id |-> e.id]
                          /\ a2 = [op |-> "readStream", stream |-> e.d.stream]
                          /\ a3 = [op |-> "persistStream", id |-> e.id, stream |-> e.d.stream, ledger |-> e.ledger]
    OBVIOUS
  <1>2. PICK b1, b2, b3, b4, b5 :
          /\ b1 = Invalidate({<<"treasury", "stream", e.d.stream>>, <<"treasury", "budget-summary">>})
          /\ b2 = InvalidatePattern(<<"treasury", "streams">>)
          /\ b3 = InvalidatePattern(<<"treasury", "stream", e.d.stream, "spends">>)
          /\ b4 = InvalidatePattern(<<"treasury", "stream", e.d.stream, "events">>)
          /\ b5 = Broadcast("stream_event")
    OBVIOUS
  <1>3. PICK s : s = handleTreasuryStreamEvent(e)
    OBVIOUS
  <1>4. s = <<a1, a2, a3, b1, b2, b3, b4, b5>>
    BY <1>1, <1>2, <1>3 DEF handleTreasuryStreamEvent
  <1>5. Fine(b1, {}) /\ Fine(b2, {}) /\ Fine(b3, {}) /\ Fine(b4, {}) /\ Fine(b5, {})
    BY <1>2 DEF Fine, Plain, Invalidate, InvalidatePattern, Broadcast, Writes
  <1>6. Tail(s) = <<a2, a3, b1, b2, b3, b4, b5>> /\ Tail(Tail(s)) = <<a3, b1, b2, b3, b4, b5>>
    BY <1>4
  <1>7. Tail(Tail(Tail(s))) = <<b1, b2, b3, b4, b5>>
    <2>1. Tail(<<a3, b1, b2, b3, b4, b5>>) = <<b1, b2, b3, b4, b5>>
      OBVIOUS
    <2>2. QED
      BY <1>6, <2>1
  <1>8. Does(<<b1, b2, b3, b4, b5>>, {}) /\ PlainList(<<b1, b2, b3, b4, b5>>)
    BY <1>5, Does5, DoesPlain
  <1>13. StreamTail(e) = <<b1, b2, b3, b4, b5>>
    BY <1>2 DEF StreamTail
  <1>9. IsList(s)
    <2>1. PICK T : T = {a1, a2, a3, b1, b2, b3, b4, b5}
      OBVIOUS
    <2>2. s \in Seq(T)
      BY <1>4, <2>1
    <2>3. QED
      BY <2>2 DEF IsList
  <1>10. Head(s) = a1 /\ Head(Tail(s)) = a2 /\ Head(Tail(Tail(s))) = a3
    BY <1>4, <1>6
  <1>11. s # << >> /\ Tail(s) # << >> /\ Tail(Tail(s)) # << >> /\ Tail(Tail(Tail(s))) # << >>
    BY <1>4, <1>6, <1>7
  <1>12. QED
    BY <1>1, <1>3, <1>7, <1>8, <1>9, <1>10, <1>11, <1>13

(* The log entry comes first, the handler after it.                        *)
LEMMA EffectsStages ==
    ASSUME NEW e, ListsSplits(e)
    PROVE  /\ IsList(Effects(e)) /\ Effects(e) # << >> /\ Head(Effects(e)) = logToEventLog(e)[1] /\ Tail(Effects(e)) = Handler(e)
  <1>1. PICK f : f = logToEventLog(e)[1]
    OBVIOUS
  <1>2. logToEventLog(e) = <<f>>
    BY <1>1 DEF logToEventLog
  <1>3. PICK h : h = Handler(e)
    OBVIOUS
  <1>4. IsList(h)
    <2>1. CASE StreamEvent(e)
      BY <1>3, <2>1, StreamHandler, StreamStages
    <2>2. CASE ~StreamEvent(e)
      BY <1>3, <2>2, PlainHandler DEF PlainList, IsList
    <2>3. QED
      BY <2>1, <2>2
  <1>5. PICK T : h \in Seq(T)
    BY <1>4 DEF IsList
  <1>6. PICK R : R = T \cup {f}
    OBVIOUS
  <1>7. h \in Seq(R) /\ f \in R
    BY <1>5, <1>6
  <1>8. PICK s : s = <<f>> \o h
    OBVIOUS
  <1>9. s \in Seq(R) /\ s # << >> /\ Head(s) = f /\ Tail(s) = h
    BY <1>7, <1>8
  <1>10. Effects(e) = s
    BY <1>2, <1>3, <1>8 DEF Effects
  <1>11. QED
    BY <1>1, <1>3, <1>9, <1>10 DEF IsList

(* What is left of a plain list is plain.                                   *)
LEMMA PlainRest ==
    ASSUME NEW s, PlainList(s), s # << >>
    PROVE  Plain(Head(s)) /\ PlainList(Tail(s))
  <1>1. PICK T : s \in Seq(T) /\ \A f \in T : Plain(f)
    BY DEF PlainList
  <1>2. Head(s) \in T /\ Tail(s) \in Seq(T)
    BY <1>1
  <1>3. QED
    BY <1>1, <1>2 DEF PlainList

(* The end of a plain list is plain.                                       *)
LEMMA PlainSub ==
    ASSUME NEW s, PlainList(s), NEW n \in Nat
    PROVE  PlainList(SubSeq(s, n + 1, Len(s)))
  <1>1. PICK T : s \in Seq(T) /\ \A f \in T : Plain(f)
    BY DEF PlainList
  <1>2. PICK m \in Nat : m = Len(s)
    BY <1>1
  <1>3. \A i \in n + 1..m : s[i] \in T
    BY <1>1, <1>2
  <1>4. SubSeq(s, n + 1, m) \in Seq(T)
    BY <1>1, <1>2, <1>3, SubSeqProperties
  <1>5. QED
    BY <1>1, <1>2, <1>4 DEF PlainList

-----------------------------------------------------------------------------
(* The steps of the tables.                                                *)

(* Receipts of counted events are no more than the events.                  *)
LEMMA ReceiptsCount ==
    ASSUME NEW c, ChainOk(c), NEW Q, NEW s, NEW u,
           \A q \in Q : \E k \in Counted(c, s, u) : q = Receipt(c[k].id, c[k].d.stream)
    PROVE  Cardinality(Q) <= Cardinality(Counted(c, s, u)) /\ Cardinality(Q) \in Nat
  <1>1. PICK K : K = Counted(c, s, u)
    OBVIOUS
  <1>2. IsFiniteSet(K)
    BY <1>1, CountedFinite DEF ChainOk
  <1>3. PICK f : f = [k \in K |-> Receipt(c[k].id, c[k].d.stream)]
    OBVIOUS
  <1>4. PICK J : J = {k \in K : f[k] \in Q}
    OBVIOUS
  <1>5. J \subseteq K
    BY <1>4
  <1>6. IsFiniteSet(J) /\ Cardinality(J) <= Cardinality(K)
    BY <1>2, <1>5, FS_Subset
  <1>7. PICK g : g = [k \in J |-> f[k]]
    OBVIOUS
  <1>8. \A q \in Q : \E k \in J : g[k] = q
    BY <1>1, <1>3, <1>4, <1>7
  <1>9. g \in [J -> Q]
    BY <1>4, <1>7
  <1>10. g \in Surjection(J, Q)
    BY <1>8, <1>9 DEF Surjection
  <1>11. IsFiniteSet(Q) /\ Cardinality(Q) <= Cardinality(J)
    BY <1>6, <1>10, FS_Surjection
  <1>12. Cardinality(Q) \in Nat /\ Cardinality(J) \in Nat /\ Cardinality(K) \in Nat
    BY <1>2, <1>6, <1>11, FS_CardinalityType
  <1>13. QED
    BY <1>1, <1>6, <1>11, <1>12

(* No stream has more receipts than events.                                *)
LEMMA ReceiptsBounded ==
    ASSUME NEW c, ChainOk(c), NEW d, NEW t, TablesOk(c, d, t)
    PROVE  Bounded(c, d, t)
  <1>1. ASSUME NEW s PROVE Cardinality({q \in Receipts(d) : q.stream = s}) <= Cardinality(Counted(c, s, t))
    <2>1. PICK Q : Q = {q \in Receipts(d) : q.stream = s}
      OBVIOUS
    <2>2. ASSUME NEW q \in Q PROVE \E k \in Counted(c, s, t) : q = Receipt(c[k].id, c[k].d.stream)
      <3>1. q \in Receipts(d) /\ q.stream = s
        BY <2>1
      <3>2. PICK j \in DOMAIN c : StreamEvent(c[j]) /\ c[j].ledger <= t /\ q = Receipt(c[j].id, c[j].d.stream)
        BY <3>1 DEF TablesOk, ReceiptsInOrder
      <3>3. q.stream = c[j].d.stream
        BY <3>2 DEF Receipt
      <3>4. QED
        BY <3>1, <3>2, <3>3 DEF Counted
    <2>3. QED
      BY <2>1, <2>2, ReceiptsCount
  <1>2. QED
    BY <1>1 DEF Bounded

(* A step that leaves the log and the projection alone.                     *)
LEMMA SameTables ==
    ASSUME NEW c, NEW d, NEW t, TablesOk(c, d, t), NEW x, \A n \in Reserved : Table(x, n) = Table(d, n)
    PROVE  TablesOk(c, x, t) /\ Grows(d, x)
  <1>1. /\ Table(x, "event_log") = Table(d, "event_log") /\ Table(x, "treasury_streams") = Table(d, "treasury_streams")
        /\ Table(x, "treasury_stream_events") = Table(d, "treasury_stream_events")
    BY DEF Reserved
  <1>2. Receipts(x) = Receipts(d) /\ StreamsOf(x) = StreamsOf(d)
    BY <1>1 DEF Receipts, StreamsOf
  <1>3. Projected(x)
    BY <1>1, <1>2 DEF TablesOk, Projected, CurrentFor
  <1>4. \A id : /\ OnFile(x, "event_log", id) <=> OnFile(d, "event_log", id)
                /\ OnFile(x, "treasury_stream_events", id) <=> OnFile(d, "treasury_stream_events", id)
    BY <1>1 DEF OnFile
  <1>5. ReceiptsInOrder(c, x, t)
    BY <1>2, <1>4 DEF TablesOk, ReceiptsInOrder
  <1>6. QED
    BY <1>1, <1>3, <1>4, <1>5 DEF TablesOk, Grows

(* A plain effect leaves the log and the projection alone.                 *)
LEMMA PlainStep ==
    ASSUME NEW c, NEW d, NEW t, TablesOk(c, d, t), NEW f, Plain(f), NEW reg
    PROVE  TablesOk(c, RunEffect(f, d, reg), t) /\ Grows(d, RunEffect(f, d, reg))
  <1>1. \A n \in Reserved : Table(RunEffect(f, d, reg), n) = Table(d, n)
    BY PlainLeaves
  <1>2. QED
    BY <1>1, SameTables

(* A step of the log.                                                      *)
LEMMA LogStep ==
    ASSUME NEW c, NEW d, NEW t, TablesOk(c, d, t), NEW e, NEW f, f = logToEventLog(e)[1], NEW reg
    PROVE  /\ TablesOk(c, RunEffect(f, d, reg), t) /\ Grows(d, RunEffect(f, d, reg))
           /\ OnFile(RunEffect(f, d, reg), "event_log", e.id)
  <1>1. f.op = "insert"
    BY DEF logToEventLog, Insert
  <1>2. PICK x : x = Apply(f, d, reg)
    OBVIOUS
  <1>3. RunEffect(f, d, reg) = x
    BY <1>1, <1>2 DEF RunEffect
  <1>4. IsList(Table(d, "event_log"))
    BY DEF TablesOk
  <1>5. /\ IsList(Table(x, "event_log"))
        /\ OnFile(x, "event_log", e.id)
        /\ \A id : OnFile(d, "event_log", id) => OnFile(x, "event_log", id)
        /\ \A n : n # "event_log" => Table(x, n) = Table(d, n)
    <2>1. Logs(d, x, e.id)
      BY <1>2, <1>4, LogWritten
    <2>2. QED
      BY <2>1 DEF Logs
  <1>6. /\ Table(x, "treasury_streams") = Table(d, "treasury_streams")
        /\ Table(x, "treasury_stream_events") = Table(d, "treasury_stream_events")
    BY <1>5
  <1>7. Receipts(x) = Receipts(d) /\ StreamsOf(x) = StreamsOf(d)
    BY <1>6 DEF Receipts, StreamsOf
  <1>8. Projected(x)
    BY <1>6, <1>7 DEF TablesOk, Projected, CurrentFor
  <1>9. \A id : OnFile(x, "treasury_stream_events", id) <=> OnFile(d, "treasury_stream_events", id)
    BY <1>6 DEF OnFile
  <1>10. ReceiptsInOrder(c, x, t)
    BY <1>7, <1>9 DEF TablesOk, ReceiptsInOrder
  <1>11. QED
    BY <1>3, <1>5, <1>6, <1>8, <1>9, <1>10 DEF TablesOk, Grows

(* A step of the projection: the stream events before this one have their    *)
(* receipts, and the version was read at or after the event's ledger.        *)
LEMMA PersistStep ==
    ASSUME NEW c, ChainOk(c), NEW d, NEW t \in Nat, TablesOk(c, d, t), NEW j \in DOMAIN c, StreamEvent(c[j]),
           c[j].ledger <= t,
           \A i \in DOMAIN c : i < j /\ StreamEvent(c[i]) => OnFile(d, "treasury_stream_events", c[i].id),
           NEW f, f.op = "persistStream", f.id = c[j].id, f.stream = c[j].d.stream,
           ~OnFile(d, "treasury_stream_events", c[j].id),
           NEW u \in c[j].ledger..t, NEW reg, reg = Cardinality(Counted(c, c[j].d.stream, u))
    PROVE  /\ TablesOk(c, RunEffect(f, d, reg), t) /\ Grows(d, RunEffect(f, d, reg))
           /\ OnFile(RunEffect(f, d, reg), "treasury_stream_events", c[j].id)
  <1> DEFINE own == Receipt(f.id, f.stream)
             s == f.stream
             Q == {q \in Receipts(d) \cup {own} : q.stream = s}
  <1>1. ASSUME NEW q \in Q PROVE \E k \in Counted(c, s, u) : q = Receipt(c[k].id, c[k].d.stream)
    <2>1. c[j].ledger \in Nat /\ u \in Int /\ c[j].ledger <= u
      BY DEF ChainOk
    <2>2. CASE q = own
      <3>1. j \in Counted(c, s, u)
        BY <2>1 DEF Counted
      <3>2. QED
        BY <2>2, <3>1
    <2>3. CASE q \in Receipts(d)
      <3>1. PICK k \in DOMAIN c : /\ StreamEvent(c[k]) /\ q = Receipt(c[k].id, c[k].d.stream)
                                  /\ \A i \in DOMAIN c : i <= k /\ StreamEvent(c[i]) => OnFile(d, "treasury_stream_events", c[i].id)
        BY <2>3 DEF TablesOk, ReceiptsInOrder
      <3>2. ~(j <= k) /\ j \in Nat /\ k \in Nat
        BY <3>1 DEF ChainOk
      <3>3. k <= j
        BY <3>2
      <3>4. c[k].ledger \in Nat /\ c[k].ledger <= c[j].ledger
        BY <3>3 DEF ChainOk
      <3>5. c[k].ledger <= u
        BY <2>1, <3>4
      <3>6. q.stream = c[k].d.stream /\ q.stream = s
        BY <3>1 DEF Receipt
      <3>7. QED
        BY <3>1, <3>5, <3>6 DEF Counted
    <2>4. QED
      BY <2>2, <2>3
  <1>2. Cardinality(Q) <= Cardinality(Counted(c, s, u)) /\ Cardinality(Q) \in Nat
    <2> HIDE DEF Q
    <2>1. QED
      BY <1>1, ReceiptsCount
  <1>3. reg \in Nat
    BY CountedFinite DEF ChainOk
  <1>4. reg >= Cardinality(Q)
    <2> HIDE DEF Q
    <2>1. QED
      BY <1>2, <1>3
  <1>5. PICK x : x = persistTreasuryStreamEvent(d, f, reg)
    OBVIOUS
  <1>6. RunEffect(f, d, reg) = x
    BY <1>5 DEF RunEffect
  <1>7. /\ StreamRows(Table(d, "treasury_streams")) /\ IsList(Table(d, "treasury_stream_events"))
        /\ CurrentFor(d, StreamsOf(d))
    BY DEF TablesOk, Projected
  <1>8. /\ Table(x, "event_log") = Table(d, "event_log")
        /\ StreamRows(Table(x, "treasury_streams"))
        /\ IsList(Table(x, "treasury_stream_events"))
        /\ CurrentFor(x, StreamsOf(x))
        /\ Receipts(x) = Receipts(d) \cup {own}
        /\ OnFile(x, "treasury_stream_events", f.id)
        /\ \A id : OnFile(d, "treasury_stream_events", id) => OnFile(x, "treasury_stream_events", id)
    BY <1>3, <1>4, <1>5, <1>7, Persisted
  <1>9. ReceiptsInOrder(c, x, t)
    <2>1. ASSUME NEW r \in Receipts(x)
          PROVE  \E k \in DOMAIN c :
                   /\ StreamEvent(c[k]) /\ c[k].ledger <= t /\ r = Receipt(c[k].id, c[k].d.stream)
                   /\ \A i \in DOMAIN c : i <= k /\ StreamEvent(c[i]) => OnFile(x, "treasury_stream_events", c[i].id)
      <3>1. CASE r = own
        <4>1. \A i \in DOMAIN c : i <= j => i < j \/ i = j
          BY DEF ChainOk
        <4>2. \A i \in DOMAIN c : i <= j /\ StreamEvent(c[i]) => OnFile(x, "treasury_stream_events", c[i].id)
          BY <1>8, <4>1
        <4>3. QED
          BY <3>1, <4>2
      <3>2. CASE r \in Receipts(d)
        BY <1>8, <3>2 DEF TablesOk, ReceiptsInOrder
      <3>3. QED
        BY <1>8, <3>1, <3>2
    <2>2. QED
      BY <2>1 DEF ReceiptsInOrder
  <1>10. \A id : OnFile(d, "event_log", id) => OnFile(x, "event_log", id)
    BY <1>8 DEF OnFile
  <1>11. QED
    BY <1>6, <1>8, <1>9, <1>10 DEF TablesOk, Projected, Grows

(* The bootstrap.                                                          *)
LEMMA BootStep ==
    ASSUME ChainOk(chain), TablesOk(chain, db, tip)
    PROVE  TablesOk(chain, bootstrapTreasuryProjection(db), tip) /\ Grows(db, bootstrapTreasuryProjection(db))
  <1>1. PICK x : x = bootstrapTreasuryProjection(db)
    OBVIOUS
  <1>2. SameElsewhere(db, x) /\ Projected(x)
    BY <1>1, ReceiptsBounded, Bootstrapped DEF ChainOk, TablesOk
  <1>3. Table(x, "event_log") = Table(db, "event_log") /\ Table(x, "treasury_stream_events") = Table(db, "treasury_stream_events")
    BY <1>2 DEF SameElsewhere
  <1>4. Receipts(x) = Receipts(db)
    BY <1>3 DEF Receipts
  <1>5. \A id : /\ OnFile(x, "event_log", id) <=> OnFile(db, "event_log", id)
                /\ OnFile(x, "treasury_stream_events", id) <=> OnFile(db, "treasury_stream_events", id)
    BY <1>3 DEF OnFile
  <1>6. ReceiptsInOrder(chain, x, tip)
    BY <1>4, <1>5 DEF TablesOk, ReceiptsInOrder
  <1>7. QED
    BY <1>1, <1>2, <1>3, <1>5, <1>6 DEF TablesOk, Grows

-----------------------------------------------------------------------------
(* The steps of a batch.                                                   *)

(* The larger of two numbers.                                              *)
LEMMA MaxOfTwo ==
    ASSUME NEW a \in Nat, NEW b \in Nat
    PROVE  Max({a, b}) \in Nat /\ Max({a, b}) >= a /\ Max({a, b}) >= b /\ Max({a, b}) \in {a, b}
  <1>1. \E x \in {a, b} : \A y \in {a, b} : x >= y
    <2>1. CASE a >= b
      BY <2>1
    <2>2. CASE b >= a
      BY <2>2
    <2>3. QED
      BY <2>1, <2>2
  <1>2. QED
    BY <1>1 DEF Max

(* A batch begins an event before its log entry.                           *)
LEMMA FirstGoing ==
    ASSUME NEW x, NEW t, NEW E, NEW reg
    PROVE  /\ E = {} => FirstEffects(E) = << >>
           /\ E # {} => Going(chain, x, t, Min(E), FirstEffects(E), reg)
  BY DEF FirstEffects, Going, BeforeLog

\* A batch record.
IsBatch(v) == v = [pc |-> v.pc, start |-> v.start, latest |-> v.latest, evs |-> v.evs, todo |-> v.todo, reg |-> v.reg]

(* The event in hand is settled, and the next one begins.                   *)
LEMMA EventDone ==
    ASSUME ChainOk(chain), NEW v, IsBatch(v), v.pc = "run", v.latest \in Nat, NEW x,
           CoveredTo(chain, x, v.latest, v.evs), PageOk(chain, x, tip, v.evs), v.evs # {},
           Settled(chain, x, Min(v.evs))
    PROVE  BatchOk(chain, x, tip, Advance(v, << >>))
  <1>1. PICK j, E, l : j = Min(v.evs) /\ E = v.evs \ {j} /\ l = Max({v.latest, chain[j].ledger})
    OBVIOUS
  <1>2. j \in v.evs /\ j \in DOMAIN chain
    BY <1>1, LeastEvent DEF PageOk
  <1>3. chain[j].ledger \in Nat
    BY <1>2 DEF ChainOk
  <1>4. PICK m \in Nat : m = chain[j].ledger
    BY <1>3
  <1>5. l \in Nat /\ l \in {v.latest, m}
    BY <1>1, <1>4, MaxOfTwo
  <1>6. PICK n : n = [pc |-> "run", start |-> v.start, latest |-> l, evs |-> E, todo |-> FirstEffects(E), reg |-> 0]
    OBVIOUS
  <1>7. Advance(v, << >>) = n
    <2>1. Advance(v, << >>) = [v EXCEPT !.latest = l, !.evs = E, !.reg = 0, !.todo = FirstEffects(E)]
      BY <1>1 DEF Advance
    <2>2. PICK a, b, o, q, r : v = [pc |-> "run", start |-> a, latest |-> b, evs |-> o, todo |-> q, reg |-> r]
      BY DEF IsBatch
    <2>3. v.start = a
      BY <2>2
    <2>4. QED
      BY <1>6, <2>1, <2>2, <2>3
  <1>8. ASSUME NEW k, CoveredTo(chain, x, k, v.evs) PROVE CoveredTo(chain, x, k, E)
    BY <1>1, <1>8 DEF CoveredTo
  <1>9. CoveredTo(chain, x, m, v.evs)
    BY <1>2, <1>4 DEF PageOk
  <1>10. CoveredTo(chain, x, l, E)
    BY <1>5, <1>8, <1>9
  <1>11. PageOk(chain, x, tip, E)
    BY <1>1, <1>8 DEF PageOk
  <1>12. /\ n.pc = "run" /\ n.latest = l /\ n.evs = E /\ n.todo = FirstEffects(E) /\ n.start = v.start
    BY <1>6
  <1>13. IsBatch(n)
    BY <1>6 DEF IsBatch
  <1>14. n.evs = {} => n.todo = << >>
    BY <1>12, FirstGoing
  <1>15. n.evs # {} => Going(chain, x, tip, Min(n.evs), n.todo, n.reg)
    BY <1>12, FirstGoing
  <1>16. QED
    BY <1>5, <1>7, <1>10, <1>11, <1>12, <1>13, <1>14, <1>15 DEF BatchOk, IsBatch

(* The handler of the event in hand goes on.                                *)
LEMMA EventGoesOn ==
    ASSUME NEW v, IsBatch(v), v.pc = "run", v.latest \in Nat, NEW x,
           CoveredTo(chain, x, v.latest, v.evs), PageOk(chain, x, tip, v.evs), v.evs # {},
           NEW todo, todo # << >>, Going(chain, x, tip, Min(v.evs), todo, v.reg)
    PROVE  BatchOk(chain, x, tip, Advance(v, todo))
  <1>1. PICK n : n = [pc |-> "run", start |-> v.start, latest |-> v.latest, evs |-> v.evs, todo |-> todo, reg |-> v.reg]
    OBVIOUS
  <1>2. Advance(v, todo) = n
    BY <1>1 DEF Advance, IsBatch
  <1>3. /\ n.pc = "run" /\ n.latest = v.latest /\ n.evs = v.evs /\ n.todo = todo /\ n.reg = v.reg
    BY <1>1
  <1>4. IsBatch(n)
    BY <1>1 DEF IsBatch
  <1>5. QED
    BY <1>2, <1>3, <1>4 DEF BatchOk, IsBatch

(* Snapshots go on.                                                        *)
LEMMA SnapshotsGoOn ==
    ASSUME NEW v, IsBatch(v), v.pc = "post", v.latest \in Nat, v.evs = {}, NEW x,
           CoveredTo(chain, x, v.latest, v.evs), NEW todo, PlainList(todo)
    PROVE  BatchOk(chain, x, tip, Advance(v, todo))
  <1>1. PICK n : n = [pc |-> "post", start |-> v.start, latest |-> v.latest, evs |-> v.evs, todo |-> todo, reg |-> v.reg]
    OBVIOUS
  <1>2. Advance(v, todo) = n
    BY <1>1 DEF Advance, IsBatch
  <1>3. /\ n.pc = "post" /\ n.latest = v.latest /\ n.evs = {} /\ n.todo = todo
    BY <1>1
  <1>4. IsBatch(n)
    BY <1>1 DEF IsBatch
  <1>5. QED
    BY <1>2, <1>3, <1>4 DEF BatchOk, IsBatch

(* What is left after a plain effect.                                      *)
LEMMA RestOfPlain ==
    ASSUME NEW todo, PlainList(todo), todo # << >>, NEW d
    PROVE  PlainList(Rest(Head(todo), todo, d))
  <1>1. PICK f : f = Head(todo)
    OBVIOUS
  <1>2. Plain(f) /\ PlainList(Tail(todo))
    BY <1>1, PlainRest
  <1>3. ASSUME f.op = "due" PROVE PlainList(SubSeq(todo, f.skip + 2, Len(todo)))
    <2>1. PICK n \in Nat : n = f.skip
      BY <1>2, <1>3 DEF Plain
    <2>2. f.skip + 2 = (n + 1) + 1 /\ n + 1 \in Nat
      BY <2>1
    <2>3. QED
      BY <2>2, PlainSub
  <1>4. f.op \notin {"streamExists", "persistStream"}
    BY <1>2 DEF Plain
  <1>5. QED
    BY <1>1, <1>2, <1>3, <1>4 DEF Rest

(* One statement of batch w, on the tables and on the batch.                 *)
LEMMA StatementStep ==
    ASSUME ChainOk(chain), tip \in Nat, TablesOk(chain, db, tip), NEW w, BatchOk(chain, db, tip, w), w.todo # << >>,
           NEW f, f = Head(w.todo), NEW x, x = RunEffect(f, db, w.reg), NEW reg, reg = Register(w, f, db),
           NEW todo, todo = Rest(f, w.todo, db)
    PROVE  /\ TablesOk(chain, x, tip) /\ Grows(db, x)
           /\ BatchOk(chain, x, tip, Advance([w EXCEPT !.reg = reg], todo))
  <1>1. PICK v : v = [pc |-> w.pc, start |-> w.start, latest |-> w.latest, evs |-> w.evs, todo |-> w.todo, reg |-> reg]
    OBVIOUS
  <1>2. [w EXCEPT !.reg = reg] = v
    BY <1>1 DEF BatchOk
  <1>3. v.pc = w.pc /\ v.latest = w.latest /\ v.evs = w.evs /\ v.reg = reg
    BY <1>1
  <1>4. IsBatch(v)
    BY <1>1 DEF IsBatch
  <1>5. /\ w.pc \in {"run", "post"} /\ w.latest \in Nat /\ CoveredTo(chain, db, w.latest, w.evs)
        /\ w.pc = "post" => w.evs = {} /\ PlainList(w.todo)
        /\ w.pc = "run" => PageOk(chain, db, tip, w.evs) /\ w.evs # {} /\ Going(chain, db, tip, Min(w.evs), w.todo, w.reg)
    BY DEF BatchOk
  <1>6. CASE w.pc = "post"
    <2>1. Plain(f) /\ PlainList(todo)
      BY <1>5, <1>6, PlainRest, RestOfPlain
    <2>2. TablesOk(chain, x, tip) /\ Grows(db, x)
      BY <2>1, PlainStep
    <2>3. CoveredTo(chain, x, v.latest, v.evs)
      BY <1>3, <1>5, <2>2, CoveredGrows
    <2>4. BatchOk(chain, x, tip, Advance(v, todo))
      BY <1>3, <1>4, <1>5, <1>6, <2>1, <2>3, SnapshotsGoOn
    <2>5. QED
      BY <1>2, <2>2, <2>4
  <1>7. CASE w.pc = "run"
    <2>1. PICK j : j = Min(w.evs)
      OBVIOUS
    <2>2. /\ PageOk(chain, db, tip, w.evs) /\ w.evs # {} /\ Going(chain, db, tip, j, w.todo, w.reg)
          /\ j \in w.evs /\ j \in DOMAIN chain /\ \A i \in w.evs : j <= i
      BY <1>5, <1>7, <2>1, LeastEvent DEF PageOk
    <2>3. ListsSplits(chain[j]) /\ chain[j].ledger \in Nat /\ chain[j].ledger <= tip /\ chain[j].contract \in contractIds
      BY <2>2 DEF ChainOk, PageOk
    <2>4. SUFFICES /\ TablesOk(chain, x, tip) /\ Grows(db, x)
                   /\ todo = << >> => Settled(chain, x, j)
                   /\ todo # << >> => Going(chain, x, tip, j, todo, reg)
      <3>1. CoveredTo(chain, x, v.latest, v.evs)
        BY <1>3, <1>5, <2>4, CoveredGrows
      <3>2. PageOk(chain, x, tip, v.evs)
        BY <1>3, <2>2, <2>4, PageGrows
      <3>3. CASE todo = << >>
        BY <1>2, <1>3, <1>4, <1>5, <1>7, <2>1, <2>2, <2>4, <3>1, <3>2, <3>3, EventDone
      <3>4. CASE todo # << >>
        BY <1>2, <1>3, <1>4, <1>5, <1>7, <2>1, <2>2, <2>4, <3>1, <3>2, <3>4, EventGoesOn
      <3>5. QED
        BY <3>3, <3>4
    <2>5. CASE BeforeLog(chain, j, w.todo)
      <3>1. f = logToEventLog(chain[j])[1] /\ Tail(w.todo) = Handler(chain[j])
        BY <2>3, <2>5, EffectsStages DEF BeforeLog
      <3>2. f.op = "insert"
        BY <3>1 DEF logToEventLog, Insert
      <3>3. todo = Handler(chain[j])
        BY <3>1, <3>2 DEF Rest
      <3>4. TablesOk(chain, x, tip) /\ Grows(db, x) /\ OnFile(x, "event_log", chain[j].id)
        BY <3>1, LogStep
      <3>5. CASE StreamEvent(chain[j])
        <4>1. todo = handleTreasuryStreamEvent(chain[j]) /\ todo # << >>
          BY <3>3, <3>5, StreamHandler, StreamStages
        <4>2. BeforeReceipt(chain, x, tip, j, todo, reg)
          BY <3>4, <3>5, <4>1 DEF BeforeReceipt
        <4>3. QED
          BY <3>4, <4>1, <4>2 DEF Going
      <3>6. CASE ~StreamEvent(chain[j])
        <4>1. PlainList(todo)
          BY <2>3, <3>3, <3>6, PlainHandler
        <4>2. Settled(chain, x, j)
          BY <3>4, <3>6 DEF Settled
        <4>3. QED
          BY <3>4, <4>1, <4>2 DEF Going, AfterReceipt
      <3>7. QED
        BY <3>5, <3>6
    <2>6. CASE BeforeReceipt(chain, db, tip, j, w.todo, w.reg)
      <3>1. PICK e, s : e = chain[j] /\ s = handleTreasuryStreamEvent(e)
        OBVIOUS
      <3>2. /\ OnFile(db, "event_log", e.id) /\ StreamEvent(e)
            /\ \/ w.todo = s \/ w.todo = Tail(s)
               \/ /\ w.todo = Tail(Tail(s))
                  /\ \E u \in e.ledger..tip : w.reg = Cardinality(Counted(chain, e.d.stream, u))
        BY <2>6, <3>1 DEF BeforeReceipt
      <3>3. /\ s # << >> /\ Head(s) = [op |-> "streamExists", id |-> e.id]
            /\ Tail(s) # << >> /\ Head(Tail(s)) = [op |-> "readStream", stream |-> e.d.stream]
            /\ Tail(Tail(s)) # << >>
            /\ Head(Tail(Tail(s))) = [op |-> "persistStream", id |-> e.id, stream |-> e.d.stream, ledger |-> e.ledger]
            /\ PlainList(Tail(Tail(Tail(s)))) /\ Tail(Tail(Tail(s))) # << >>
        BY <3>1, StreamStages
      <3>0. Head(s).op = "streamExists" /\ Head(Tail(s)).op = "readStream" /\ Head(Tail(Tail(s))).op = "persistStream"
        BY <3>3
      <3>4. CASE f.op # "persistStream" /\ f.op \in {"streamExists", "readStream"}
        <4>1. x = db
          BY <3>4 DEF RunEffect, Apply, Writes
        <4>2. TablesOk(chain, x, tip) /\ Grows(db, x)
          BY <4>1 DEF Grows
        <4>3. CASE w.todo = s
          <5>1. f.op = "streamExists" /\ f.id = e.id
            BY <3>3, <4>3
          <5>2. CASE OnFile(db, "treasury_stream_events", e.id)
            <6>1. todo = << >>
              BY <5>1, <5>2, ReceiptLookup DEF Rest
            <6>2. Settled(chain, x, j)
              BY <3>1, <3>2, <4>1, <5>2 DEF Settled
            <6>3. QED
              BY <4>2, <6>1, <6>2
          <5>3. CASE ~OnFile(db, "treasury_stream_events", e.id)
            <6>1. todo = Tail(s)
              BY <4>3, <5>1, <5>3, ReceiptLookup DEF Rest
            <6>2. BeforeReceipt(chain, x, tip, j, todo, reg)
              BY <3>1, <3>2, <4>1, <6>1 DEF BeforeReceipt
            <6>3. QED
              BY <3>3, <4>2, <6>1, <6>2 DEF Going
          <5>4. QED
            BY <5>2, <5>3
        <4>4. CASE w.todo = Tail(s)
          <5>1. f.op = "readStream" /\ f.stream = e.d.stream
            BY <3>3, <4>4
          <5>2. todo = Tail(Tail(s))
            BY <4>4, <5>1 DEF Rest
          <5>3. reg = Cardinality(Counted(chain, e.d.stream, tip))
            BY <5>1, StateCounts DEF Register
          <5>4. tip \in e.ledger..tip
            BY <2>3, <3>1
          <5>5. BeforeReceipt(chain, x, tip, j, todo, reg)
            BY <3>1, <3>2, <4>1, <5>2, <5>3, <5>4 DEF BeforeReceipt
          <5>6. QED
            BY <3>3, <4>2, <5>2, <5>5 DEF Going
        <4>5. CASE w.todo = Tail(Tail(s))
          BY <3>0, <3>4, <4>5
        <4>6. QED
          BY <3>2, <4>3, <4>4, <4>5
      <3>5. CASE f.op = "persistStream"
        <4>1. w.todo = Tail(Tail(s))
          BY <3>0, <3>2, <3>5
        <4>2. f.id = e.id /\ f.stream = e.d.stream
          BY <3>3, <4>1
        <4>3. PICK u \in e.ledger..tip : w.reg = Cardinality(Counted(chain, e.d.stream, u))
          <5>1. w.todo # s /\ w.todo # Tail(s)
            BY <3>0, <3>5
          <5>2. QED
            BY <3>2, <5>1
        <4>4. CASE OnFile(db, "treasury_stream_events", e.id)
          <5>1. todo = << >>
            BY <3>5, <4>2, <4>4, ReceiptLookup DEF Rest
          <5>2. x = db
            BY <3>5, <4>2, <4>4, ReceiptLookup DEF RunEffect, persistTreasuryStreamEvent
          <5>3. Settled(chain, x, j)
            BY <3>1, <3>2, <4>4, <5>2 DEF Settled
          <5>4. QED
            BY <5>1, <5>2, <5>3 DEF Grows
        <4>5. CASE ~OnFile(db, "treasury_stream_events", e.id)
          <5>1. todo = Tail(Tail(Tail(s)))
            BY <3>5, <4>1, <4>2, <4>5, ReceiptLookup DEF Rest
          <5>2. ASSUME NEW i \in DOMAIN chain, i < j, StreamEvent(chain[i])
                PROVE  OnFile(db, "treasury_stream_events", chain[i].id)
            <6>1. i \in Nat /\ j \in Nat /\ i <= j /\ ~(j <= i)
              BY <2>2, <5>2 DEF ChainOk
            <6>2. chain[i].ledger <= chain[j].ledger /\ i \notin w.evs
              BY <2>2, <6>1 DEF ChainOk
            <6>3. chain[i].contract \in contractIds
              BY <5>2 DEF StreamEvent, contractIds
            <6>4. CoveredTo(chain, db, chain[j].ledger, w.evs)
              BY <2>2 DEF PageOk
            <6>5. QED
              BY <5>2, <6>2, <6>3, <6>4 DEF CoveredTo, Settled
          <5>3. /\ TablesOk(chain, x, tip) /\ Grows(db, x)
                /\ OnFile(x, "treasury_stream_events", e.id)
            BY <2>2, <2>3, <3>1, <3>2, <3>5, <4>2, <4>3, <4>5, <5>2, PersistStep
          <5>4. Settled(chain, x, j)
            BY <3>1, <3>2, <5>3 DEF Settled, Grows
          <5>5. QED
            BY <3>3, <5>1, <5>3, <5>4 DEF Going, AfterReceipt
        <4>6. QED
          BY <4>4, <4>5
      <3>6. QED
        BY <3>0, <3>2, <3>4, <3>5
    <2>7. CASE AfterReceipt(chain, db, j, w.todo)
      <3>1. Plain(f) /\ PlainList(todo)
        BY <2>7, PlainRest, RestOfPlain DEF AfterReceipt
      <3>2. TablesOk(chain, x, tip) /\ Grows(db, x)
        BY <3>1, PlainStep
      <3>3. Settled(chain, x, j)
        BY <2>7, <3>2, SettledGrows DEF AfterReceipt
      <3>4. QED
        BY <3>1, <3>2, <3>3 DEF Going, AfterReceipt
    <2>8. QED
      BY <2>2, <2>5, <2>6, <2>7 DEF Going
  <1>8. QED
    BY <1>5, <1>6, <1>7

-----------------------------------------------------------------------------
(* The other steps of a batch.                                             *)

(* The tail of a list is a list.                                           *)
LEMMA TailIsList == ASSUME NEW s, IsList(s), s # << >> PROVE IsList(Tail(s))
  <1>1. PICK T : s \in Seq(T)
    BY DEF IsList
  <1>2. Tail(s) \in Seq(T)
    BY <1>1
  <1>3. QED
    BY <1>2 DEF IsList

(* What is left of a handler is a list.                                    *)
LEMMA TodoIsList ==
    ASSUME NEW c, ChainOk(c), NEW d, NEW t, NEW j \in DOMAIN c, NEW todo, NEW reg, Going(c, d, t, j, todo, reg)
    PROVE  IsList(todo)
  <1>1. CASE BeforeLog(c, j, todo)
    BY <1>1, EffectsStages DEF BeforeLog, ChainOk
  <1>2. CASE BeforeReceipt(c, d, t, j, todo, reg)
    <2>1. PICK s : s = handleTreasuryStreamEvent(c[j])
      OBVIOUS
    <2>2. IsList(s) /\ s # << >> /\ Tail(s) # << >>
      BY <2>1, StreamStages
    <2>3. IsList(Tail(s)) /\ IsList(Tail(Tail(s)))
      BY <2>2, TailIsList
    <2>4. QED
      BY <1>2, <2>1, <2>2, <2>3 DEF BeforeReceipt
  <1>3. CASE AfterReceipt(c, d, j, todo)
    BY <1>3 DEF AfterReceipt, PlainList, IsList
  <1>4. QED
    BY <1>1, <1>2, <1>3 DEF Going

(* A turn begins with an invalidation or a broadcast.                       *)
LEMMA TurnFacts ==
    ASSUME NEW todo, IsList(todo), Turn(todo) # << >>
    PROVE  todo # << >> /\ Synchronous(Head(todo)) /\ Len(Turn(todo)) \in Nat
  <1>1. PICK T : todo \in Seq(T)
    BY DEF IsList
  <1>2. PICK n \in Nat : n = Len(todo)
    BY <1>1
  <1>3. PICK A : A = {i \in 1..n + 1 : i > n \/ ~Synchronous(todo[i])}
    OBVIOUS
  <1>4. A \in SUBSET Nat /\ n + 1 \in A
    BY <1>2, <1>3
  <1>5. PICK m \in A : m = Min(A) /\ \A i \in A : m <= i
    BY <1>4, LeastPlace
  <1>6. PICK k : k = m - 1
    OBVIOUS
  <1>7. Turn(todo) = SubSeq(todo, 1, k)
    BY <1>2, <1>3, <1>5, <1>6 DEF Turn
  <1>8. k \in Nat /\ k <= n
    BY <1>2, <1>3, <1>5, <1>6
  <1>9. \A i \in 1..k : todo[i] \in T
    BY <1>1, <1>2, <1>8
  <1>10. /\ Turn(todo) \in Seq(T)
         /\ Len(Turn(todo)) = IF 1 <= k THEN k - 1 + 1 ELSE 0
    BY <1>7, <1>8, <1>9, SubSeqProperties
  <1>11. Len(Turn(todo)) = k
    BY <1>8, <1>10
  <1>12. k # 0
    BY <1>10, <1>11
  <1>13. 1 \notin A /\ 1 \in 1..n + 1
    BY <1>2, <1>4, <1>5, <1>6, <1>8, <1>12
  <1>14. n >= 1 /\ Synchronous(todo[1])
    BY <1>2, <1>3, <1>13
  <1>15. todo # << >> /\ Head(todo) = todo[1]
    BY <1>1, <1>2, <1>14
  <1>16. QED
    BY <1>8, <1>11, <1>14, <1>15

(* The first three effects of a stream event are statements.               *)
LEMMA StreamOps ==
    ASSUME NEW e, NEW s, s = handleTreasuryStreamEvent(e)
    PROVE  Head(s).op = "streamExists" /\ Head(Tail(s)).op = "readStream" /\ Head(Tail(Tail(s))).op = "persistStream"
  <1>1. /\ Head(s) = [op |-> "streamExists", id |-> e.id]
        /\ Head(Tail(s)) = [op |-> "readStream", stream |-> e.d.stream]
        /\ Head(Tail(Tail(s))) = [op |-> "persistStream", id |-> e.id, stream |-> e.d.stream, ledger |-> e.ledger]
    BY StreamStages
  <1>2. PICK a1, a2, a3 : a1 = Head(s) /\ a2 = Head(Tail(s)) /\ a3 = Head(Tail(Tail(s)))
    OBVIOUS
  <1>3. a1 = [op |-> "streamExists", id |-> e.id] /\ a2 = [op |-> "readStream", stream |-> e.d.stream]
    BY <1>1, <1>2
  <1>4. a3 = [op |-> "persistStream", id |-> e.id, stream |-> e.d.stream, ledger |-> e.ledger]
    BY <1>1, <1>2
  <1>5. a1.op = "streamExists" /\ a2.op = "readStream"
    BY <1>3
  <1>6. a3.op = "persistStream"
    BY <1>4
  <1>7. QED
    BY <1>2, <1>5, <1>6

(* A turn of invalidations leaves the log and the projection alone.          *)
LEMMA NotifyStep ==
    ASSUME ChainOk(chain), NEW w, BatchOk(chain, db, tip, w),
           NEW turn, turn = Turn(w.todo), turn # << >>, NEW todo, todo = SubSeq(w.todo, Len(turn) + 1, Len(w.todo))
    PROVE  BatchOk(chain, db, tip, Advance(w, todo))
  <1>1. /\ IsBatch(w) /\ w.latest \in Nat
        /\ w.pc \notin {"run", "post"} => w.todo = << >>
        /\ w.pc = "post" => w.evs = {} /\ PlainList(w.todo) /\ CoveredTo(chain, db, w.latest, w.evs)
        /\ w.pc = "run" => /\ PageOk(chain, db, tip, w.evs) /\ CoveredTo(chain, db, w.latest, w.evs)
                           /\ w.evs = {} => w.todo = << >>
                           /\ w.evs # {} => Going(chain, db, tip, Min(w.evs), w.todo, w.reg)
    BY DEF BatchOk, IsBatch
  <1>2. w.pc = "run" /\ w.evs # {} => Min(w.evs) \in DOMAIN chain
    BY <1>1, LeastEvent DEF PageOk
  <1>3. IsList(w.todo)
    <2>1. IsList(<< >>)
      <3>1. PICK T : T = {}
        OBVIOUS
      <3>2. << >> \in Seq(T)
        OBVIOUS
      <3>3. QED
        BY <3>2 DEF IsList
    <2>2. ASSUME PlainList(w.todo) PROVE IsList(w.todo)
      BY <2>2 DEF PlainList, IsList
    <2>3. QED
      BY <1>1, <1>2, <2>1, <2>2, TodoIsList
  <1>4. w.todo # << >> /\ Synchronous(Head(w.todo)) /\ Len(turn) \in Nat
    BY <1>3, TurnFacts
  <1>5. CASE w.pc = "post"
    <2>1. PlainList(todo)
      BY <1>1, <1>4, <1>5, PlainSub
    <2>2. QED
      BY <1>1, <1>5, <2>1, SnapshotsGoOn
  <1>6. CASE w.pc = "run"
    <2>1. PICK j : j = Min(w.evs)
      OBVIOUS
    <2>2. w.evs # {} /\ Going(chain, db, tip, j, w.todo, w.reg) /\ j \in DOMAIN chain
      BY <1>1, <1>2, <1>4, <1>6, <2>1
    <2>3. Head(w.todo).op \in {"invalidate", "invalidatePattern", "broadcast"}
      BY <1>4 DEF Synchronous
    <2>4. ~BeforeLog(chain, j, w.todo)
      <3>1. logToEventLog(chain[j])[1].op = "insert"
        BY DEF logToEventLog, Insert
      <3>2. QED
        BY <2>2, <2>3, <3>1, EffectsStages DEF BeforeLog, ChainOk
    <2>5. ~BeforeReceipt(chain, db, tip, j, w.todo, w.reg)
      <3>1. PICK s : s = handleTreasuryStreamEvent(chain[j])
        OBVIOUS
      <3>2. Head(s).op = "streamExists" /\ Head(Tail(s)).op = "readStream" /\ Head(Tail(Tail(s))).op = "persistStream"
        BY <3>1, StreamOps
      <3>3. QED
        BY <2>3, <3>1, <3>2 DEF BeforeReceipt
    <2>6. Settled(chain, db, j) /\ PlainList(w.todo)
      BY <2>2, <2>4, <2>5 DEF Going, AfterReceipt
    <2>7. PlainList(todo)
      BY <1>4, <2>6, PlainSub
    <2>8. CASE todo = << >>
      BY <1>1, <1>6, <2>1, <2>2, <2>6, <2>8, EventDone
    <2>9. CASE todo # << >>
      <3>1. Going(chain, db, tip, j, todo, w.reg)
        BY <2>6, <2>7, <2>9 DEF Going, AfterReceipt
      <3>2. QED
        BY <1>1, <1>6, <2>1, <2>2, <2>9, <3>1, EventGoesOn
    <2>10. QED
      BY <2>8, <2>9
  <1>7. QED
    BY <1>1, <1>4, <1>5, <1>6

(* The record of a batch that has its page.                                *)
LEMMA FetchedRecord ==
    ASSUME NEW w, IsBatch(w), NEW E, NEW todo
    PROVE  [w EXCEPT !.pc = "run", !.evs = E, !.todo = todo] =
             [pc |-> "run", start |-> w.start, latest |-> w.latest, evs |-> E, todo |-> todo, reg |-> w.reg]
  <1>1. PICK p, a, b, o, q, r : w = [pc |-> p, start |-> a, latest |-> b, evs |-> o, todo |-> q, reg |-> r]
    BY DEF IsBatch
  <1>2. w.start = a /\ w.latest = b /\ w.reg = r
    BY <1>1
  <1>3. PICK x : x = [w EXCEPT !.pc = "run"]
    OBVIOUS
  <1>4. x = [pc |-> "run", start |-> a, latest |-> b, evs |-> o, todo |-> q, reg |-> r]
    BY <1>1, <1>3
  <1>5. PICK y : y = [x EXCEPT !.evs = E]
    OBVIOUS
  <1>6. y = [pc |-> "run", start |-> a, latest |-> b, evs |-> E, todo |-> q, reg |-> r]
    BY <1>4, <1>5
  <1>7. PICK z : z = [y EXCEPT !.todo = todo]
    OBVIOUS
  <1>8. z = [pc |-> "run", start |-> a, latest |-> b, evs |-> E, todo |-> todo, reg |-> r]
    BY <1>6, <1>7
  <1>9. [w EXCEPT !.pc = "run", !.evs = E, !.todo = todo] = z
    BY <1>3, <1>5, <1>7
  <1>10. QED
    BY <1>2, <1>8, <1>9

(* A page leaves out only later ledgers.                                    *)
LEMMA FetchStep ==
    ASSUME WholePages, scenario \in Scenarios, ChainOk(chain), tip \in Nat, DOMAIN chain # {} => tip <= EndOf(chain),
           NEW w, BatchOk(chain, db, tip, w), w.pc = "fetch", NEW evs, evs = Page(chain, w.start, tip)
    PROVE  BatchOk(chain, db, tip, [w EXCEPT !.pc = "run", !.evs = evs, !.todo = FirstEffects(evs)])
  <1>1. /\ IsBatch(w) /\ w.latest \in Nat /\ w.start = w.latest + 1 /\ w.evs = {}
        /\ CoveredTo(chain, db, w.latest, {})
    BY DEF BatchOk, IsBatch
  <1>2. /\ evs \subseteq Visible(chain, w.start, tip)
        /\ Visible(chain, w.start, tip) \subseteq DOMAIN chain
        /\ \A i \in DOMAIN chain : i \in Visible(chain, w.start, tip) <=>
             chain[i].ledger >= w.start /\ chain[i].ledger <= tip /\ chain[i].contract \in contractIds
    BY DEF Page, Visible
  <1>3. ASSUME NEW j \in evs, NEW i \in DOMAIN chain, chain[i].contract \in contractIds, chain[i].ledger <= chain[j].ledger
        PROVE  i \in evs \/ Settled(chain, db, i)
    <2>1. j \in DOMAIN chain /\ chain[j].ledger >= w.start /\ chain[j].ledger <= tip
      BY <1>2
    <2>2. PICK a, b : a = chain[i].ledger /\ b = chain[j].ledger
      OBVIOUS
    <2>3. a \in Nat /\ b \in Nat /\ a <= b /\ b <= tip /\ b >= w.start /\ w.start \in Nat
      BY <1>1, <1>3, <2>1, <2>2 DEF ChainOk
    <2>4. CASE a < w.start
      <3>1. a <= w.latest
        BY <1>1, <2>3, <2>4
      <3>2. QED
        BY <1>1, <1>3, <2>2, <3>1 DEF CoveredTo
    <2>5. CASE a >= w.start
      <3>1. a <= tip
        BY <2>3
      <3>2. i \in Visible(chain, w.start, tip)
        BY <1>2, <1>3, <2>2, <2>5, <3>1
      <3>3. EndOf(chain) \in Nat /\ tip <= EndOf(chain)
        <4>1. Len(chain) \in DOMAIN chain
          BY <2>1 DEF ChainOk
        <4>2. chain # << >>
          BY <4>1
        <4>3. QED
          BY <2>1, <4>1, <4>2 DEF EndOf, ChainOk
      <3>4. w.start \in 1..EndOf(chain) /\ tip \in 1..EndOf(chain)
        BY <1>1, <2>3, <3>3
      <3>5. \A p \in Page(chain, w.start, tip), q \in Visible(chain, w.start, tip) \ Page(chain, w.start, tip) :
              chain[p].ledger < chain[q].ledger
        BY <3>4 DEF WholePages, chain
      <3>6. i \in evs
        <4>1. SUFFICES ASSUME i \notin evs PROVE FALSE
          OBVIOUS
        <4>2. b < a
          BY <2>2, <3>2, <3>5, <4>1
        <4>3. QED
          BY <2>3, <4>2
      <3>7. QED
        BY <3>6
    <2>6. QED
      BY <1>1, <2>3, <2>4, <2>5
  <1>4. PageOk(chain, db, tip, evs)
    BY <1>2, <1>3 DEF PageOk, CoveredTo
  <1>5. CoveredTo(chain, db, w.latest, evs)
    BY <1>1 DEF CoveredTo
  <1>6. PICK n : n = [pc |-> "run", start |-> w.start, latest |-> w.latest, evs |-> evs, todo |-> FirstEffects(evs), reg |-> w.reg]
    OBVIOUS
  <1>7. [w EXCEPT !.pc = "run", !.evs = evs, !.todo = FirstEffects(evs)] = n
    BY <1>1, <1>6, FetchedRecord
  <1>8. n.pc = "run" /\ n.latest = w.latest /\ n.evs = evs /\ n.todo = FirstEffects(evs)
    BY <1>6
  <1>9. IsBatch(n)
    BY <1>6 DEF IsBatch
  <1>10. /\ n.evs = {} => n.todo = << >>
         /\ n.evs # {} => Going(chain, db, tip, Min(n.evs), n.todo, n.reg)
    BY <1>8, FirstGoing
  <1>11. QED
    BY <1>1, <1>4, <1>5, <1>7, <1>8, <1>9, <1>10 DEF BatchOk, IsBatch

(* The snapshots leave the tables of the prompt routes alone.              *)
LEMMA IdleSnapshots ==
    ASSUME NEW l
    PROVE  IdleList(maybeTakeGovernanceSnapshot(l) \o maybeTakeConcentrationSnapshot(l))
  <1> USE DEF Idle, Plain, Prompt, Reserved, Writes, InvalidatePattern, Broadcast
  <1>1. PICK a, b, c, e, f, g, h, i, j, k :
          /\ a = [op |-> "due", tbl |-> "governance_snapshots", ledger |-> l, skip |-> 4]
          /\ b = [op |-> "sumVotes"]
          /\ c = [op |-> "snapshot", tbl |-> "governance_snapshots", ledger |-> l]
          /\ e = InvalidatePattern(<<"analytics">>) /\ f = Broadcast("analytics_snapshot_taken")
          /\ g = [op |-> "due", tbl |-> "concentration_snapshots", ledger |-> l, skip |-> 5]
          /\ h = [op |-> "holders"] /\ i = [op |-> "delegates"]
          /\ j = [op |-> "snapshot", tbl |-> "concentration_snapshots", ledger |-> l]
          /\ k = InvalidatePattern(<<"analytics", "concentration">>)
    OBVIOUS
  <1>2. Idle(a) /\ Idle(b) /\ Idle(c) /\ Idle(e) /\ Idle(f)
    BY <1>1
  <1>3. Idle(g) /\ Idle(h) /\ Idle(i) /\ Idle(j) /\ Idle(k)
    BY <1>1
  <1>4. /\ maybeTakeGovernanceSnapshot(l) = <<a, b, c, e, f>>
        /\ maybeTakeConcentrationSnapshot(l) = <<g, h, i, j, k, f>>
    BY <1>1 DEF maybeTakeGovernanceSnapshot, maybeTakeConcentrationSnapshot
  <1> HIDE DEF Idle, Plain, Prompt, Reserved, Writes, InvalidatePattern, Broadcast
  <1>5. PICK T : T = {a, b, c, e, f, g, h, i, j, k}
    OBVIOUS
  <1>6. \A x \in T : Idle(x)
    BY <1>2, <1>3, <1>5
  <1>7. PICK s, t : s = <<a, b, c, e, f>> /\ t = <<g, h, i, j, k, f>>
    OBVIOUS
  <1>8. s \in Seq(T) /\ t \in Seq(T)
    BY <1>5, <1>7
  <1>9. s \o t \in Seq(T)
    BY <1>8
  <1>10. QED
    BY <1>4, <1>6, <1>7, <1>9 DEF IdleList

(* The snapshots are plain.                                                *)
LEMMA PlainSnapshots ==
    ASSUME NEW l
    PROVE  PlainList(maybeTakeGovernanceSnapshot(l) \o maybeTakeConcentrationSnapshot(l))
  BY IdleSnapshots DEF IdleList, Idle, PlainList

(* A step of one batch keeps the others.                                    *)
LEMMA OthersStay ==
    ASSUME NEW c, ChainOk(c), NEW d, NEW x, Grows(d, x), NEW t \in Nat, NEW u \in Nat, t <= u,
           NEW B, B = [a \in Slots |-> B[a]], \A a \in Slots : BatchOk(c, d, t, B[a]),
           NEW b \in Slots, NEW n, BatchOk(c, x, u, n), NEW D, D = [B EXCEPT ![b] = n]
    PROVE  D = [a \in Slots |-> D[a]] /\ \A a \in Slots : BatchOk(c, x, u, D[a])
  <1>1. D = [a \in Slots |-> D[a]]
    BY Zenon
  <1>2. ASSUME NEW a \in Slots PROVE BatchOk(c, x, u, D[a])
    <2>1. CASE a = b
      BY <2>1
    <2>2. CASE a # b
      <3>1. D[a] = B[a]
        BY <2>2
      <3>2. QED
        BY <3>1, BatchGrows
    <2>3. QED
      BY <2>1, <2>2
  <1>3. QED
    BY <1>1, <1>2

(* No batch is in order.                                                   *)
LEMMA IdleBatch == ASSUME NEW c, NEW d, NEW t PROVE BatchOk(c, d, t, NoBatch)
  BY DEF NoBatch, BatchOk

-----------------------------------------------------------------------------
(* The invariant is inductive.                                             *)

(* The invariant holds at first.                                           *)
LEMMA IndexerInit == Init => IndexerInv
  <1> SUFFICES ASSUME Init PROVE IndexerInv
    OBVIOUS
  <1>1. ChainOk(chain)
    BY ChainFacts DEF Init
  <1>2. \A t : Table(db, t) = << >>
    BY DEF Init, EmptyDb, Table
  <1>3. IsList(<< >>)
    <2>1. PICK T : T = {}
      OBVIOUS
    <2>2. << >> \in Seq(T)
      OBVIOUS
    <2>3. QED
      BY <2>2 DEF IsList
  <1>4. Receipts(db) = {}
    BY <1>2 DEF Receipts, ToSet
  <1>5. TablesOk(chain, db, tip)
    BY <1>2, <1>3, <1>4 DEF TablesOk, Projected, StreamRows, CurrentFor, ReceiptsInOrder
  <1>6. CoveredTo(chain, db, 0, {})
    BY <1>1 DEF CoveredTo, ChainOk
  <1>7. Shape
    <2>1. ASSUME DOMAIN chain # {} PROVE 0 <= EndOf(chain)
      <3>1. Len(chain) \in DOMAIN chain
        BY <1>1, <2>1 DEF ChainOk
      <3>2. chain # << >>
        BY <3>1
      <3>3. QED
        BY <1>1, <3>1, <3>2 DEF EndOf, ChainOk
    <2>2. QED
      BY <2>1 DEF Init, Shape
  <1>8. QED
    BY <1>5, <1>6, <1>7, IdleBatch DEF Init, IndexerInv

(* What the invariant says of a state, and what it takes to get it back when  *)
(* the chain stays, the log grows and time goes on.                         *)
LEMMA InvFacts ==
    ASSUME IndexerInv
    PROVE  /\ scenario \in Scenarios /\ ChainOk(chain)
           /\ tip \in Nat /\ cursor \in Nat /\ lastLedger \in Nat
           /\ DOMAIN chain # {} => tip <= EndOf(chain)
           /\ batch = [b \in Slots |-> batch[b]]
           /\ TablesOk(chain, db, tip)
           /\ CoveredTo(chain, db, cursor, {}) /\ CoveredTo(chain, db, lastLedger, {})
           /\ \A b \in Slots : BatchOk(chain, db, tip, batch[b])
  BY ChainFacts DEF IndexerInv, Shape

(* Steps that leave the tables, the cursors and the batches alone.         *)
LEMMA InvSame ==
    IndexerInv /\ UNCHANGED <<scenario, tip, db, cursor, lastLedger, batch>> => IndexerInv'
  BY DEF IndexerInv, Shape, chain

\* A step of the batches alone.
LEMMA InvBatch ==
    ASSUME IndexerInv, NEW b \in Slots, NEW n, BatchOk(chain, db, tip, n), batch' = [batch EXCEPT ![b] = n],
           UNCHANGED <<scenario, tip, db, cursor, lastLedger>>
    PROVE  IndexerInv'
  <1>1. Grows(db, db) /\ tip \in Nat /\ tip <= tip
    BY InvFacts DEF Grows
  <1>2. batch' = [a \in Slots |-> batch'[a]] /\ \A a \in Slots : BatchOk(chain, db, tip, batch'[a])
    BY <1>1, InvFacts, OthersStay
  <1>3. QED
    BY <1>2, InvFacts DEF IndexerInv, Shape, chain

(* A ledger closes.                                                        *)
LEMMA InvCloseLedger == IndexerInv /\ CloseLedger => IndexerInv'
  <1> SUFFICES ASSUME IndexerInv, CloseLedger PROVE IndexerInv'
    OBVIOUS
  <1>1. /\ tip < EndOf(chain) /\ tip' = tip + 1
        /\ UNCHANGED <<scenario, db, cursor, lastLedger, batch>>
    BY DEF CloseLedger, MaxLedger
  <1>2. tip \in Nat /\ tip + 1 \in Nat /\ tip <= tip + 1 /\ Grows(db, db)
    BY InvFacts DEF Grows
  <1>3. ASSUME DOMAIN chain # {} PROVE tip + 1 <= EndOf(chain)
    <2>1. Len(chain) \in DOMAIN chain
      BY <1>3, InvFacts DEF ChainOk
    <2>2. chain # << >>
      BY <2>1
    <2>3. EndOf(chain) \in Nat
      BY <2>1, <2>2, InvFacts DEF EndOf, ChainOk
    <2>4. QED
      BY <1>1, <1>2, <2>3
  <1>4. \A a \in Slots : BatchOk(chain, db, tip + 1, batch[a])
    BY <1>2, InvFacts, BatchGrows
  <1>5. TablesOk(chain, db, tip + 1)
    <2>1. \A j \in DOMAIN chain : chain[j].ledger <= tip => chain[j].ledger <= tip + 1
      BY <1>2, InvFacts DEF ChainOk
    <2>2. QED
      BY <2>1, InvFacts DEF TablesOk, ReceiptsInOrder
  <1>6. QED
    BY <1>1, <1>2, <1>3, <1>4, <1>5, InvFacts DEF IndexerInv, Shape, chain

(* The projection is hydrated and the cursor read.                         *)
LEMMA InvBoot == IndexerInv /\ Boot => IndexerInv'
  <1> SUFFICES ASSUME IndexerInv, Boot PROVE IndexerInv'
    OBVIOUS
  <1>1. /\ db' = bootstrapTreasuryProjection(db) /\ lastLedger' = cursor
        /\ UNCHANGED <<scenario, tip, cursor, batch>>
    BY DEF Boot, envVars
  <1>2. TablesOk(chain, db', tip) /\ Grows(db, db')
    BY <1>1, InvFacts, BootStep
  <1>3. tip \in Nat /\ tip <= tip
    BY InvFacts
  <1>4. \A a \in Slots : BatchOk(chain, db', tip, batch[a])
    BY <1>2, <1>3, InvFacts, BatchGrows
  <1>5. CoveredTo(chain, db', cursor, {})
    <2>1. PICK N : N = {}
      OBVIOUS
    <2>2. CoveredTo(chain, db, cursor, N)
      BY <2>1, InvFacts
    <2>3. CoveredTo(chain, db', cursor, N)
      BY <1>2, <2>2, CoveredGrows
    <2>4. QED
      BY <2>1, <2>3
  <1>6. QED
    BY <1>1, <1>2, <1>4, <1>5, InvFacts DEF IndexerInv, Shape, chain

(* The process stops or crashes.                                           *)
LEMMA InvReset ==
    IndexerInv /\ Reset /\ UNCHANGED <<scenario, tip, db, cursor, lastLedger>> => IndexerInv'
  <1> SUFFICES ASSUME IndexerInv, Reset, UNCHANGED <<scenario, tip, db, cursor, lastLedger>> PROVE IndexerInv'
    OBVIOUS
  <1>1. batch' = [b \in Slots |-> NoBatch]
    BY DEF Reset
  <1>2. \A b \in Slots : BatchOk(chain, db, tip, batch'[b])
    BY <1>1, IdleBatch
  <1>3. batch' = [b \in Slots |-> batch'[b]]
    BY <1>1
  <1>4. QED
    BY <1>2, <1>3, InvFacts DEF IndexerInv, Shape, chain

(* A poll begins.                                                          *)
LEMMA InvPoll == ASSUME NEW b \in Slots PROVE IndexerInv /\ pollOnce(b) => IndexerInv'
  <1> SUFFICES ASSUME IndexerInv, pollOnce(b) PROVE IndexerInv'
    OBVIOUS
  <1>1. PICK n : n = [pc |-> "fetch", start |-> lastLedger + 1, latest |-> lastLedger, evs |-> {}, todo |-> << >>, reg |-> 0]
    OBVIOUS
  <1>2. [NoBatch EXCEPT !.pc = "fetch", !.start = lastLedger + 1, !.latest = lastLedger] = n
    <2>1. PICK x : x = [NoBatch EXCEPT !.pc = "fetch"]
      OBVIOUS
    <2>2. x = [pc |-> "fetch", start |-> 0, latest |-> 0, evs |-> {}, todo |-> << >>, reg |-> 0]
      BY <2>1 DEF NoBatch
    <2>3. PICK y : y = [x EXCEPT !.start = lastLedger + 1]
      OBVIOUS
    <2>4. y = [pc |-> "fetch", start |-> lastLedger + 1, latest |-> 0, evs |-> {}, todo |-> << >>, reg |-> 0]
      BY <2>2, <2>3
    <2>5. PICK z : z = [y EXCEPT !.latest = lastLedger]
      OBVIOUS
    <2>6. z = n
      <3>1. PICK k : k = lastLedger + 1
        OBVIOUS
      <3>2. y = [pc |-> "fetch", start |-> k, latest |-> 0, evs |-> {}, todo |-> << >>, reg |-> 0]
        BY <2>4, <3>1
      <3>3. z = [pc |-> "fetch", start |-> k, latest |-> lastLedger, evs |-> {}, todo |-> << >>, reg |-> 0]
        BY <2>5, <3>2
      <3>4. QED
        BY <1>1, <3>1, <3>3
    <2>7. QED
      BY <2>1, <2>3, <2>5, <2>6
  <1>3. BatchOk(chain, db, tip, n)
    BY <1>1, InvFacts DEF BatchOk
  <1>4. QED
    BY <1>2, <1>3, InvBatch DEF pollOnce, envVars

(* The page arrives.                                                       *)
LEMMA InvFetch == ASSUME WholePages, NEW b \in Slots PROVE IndexerInv /\ FetchEvents(b) => IndexerInv'
  <1> SUFFICES ASSUME IndexerInv, FetchEvents(b) PROVE IndexerInv'
    OBVIOUS
  <1>1. PICK evs : evs = Page(chain, batch[b].start, tip)
    OBVIOUS
  <1>2. PICK n : n = [batch[b] EXCEPT !.pc = "run", !.evs = evs, !.todo = FirstEffects(evs)]
    OBVIOUS
  <1>3. batch[b].pc = "fetch" /\ BatchOk(chain, db, tip, batch[b])
    BY InvFacts DEF FetchEvents
  <1>4. BatchOk(chain, db, tip, n)
    BY <1>1, <1>2, <1>3, InvFacts, FetchStep
  <1>5. batch' = [batch EXCEPT ![b] = n] /\ UNCHANGED <<scenario, tip, db, cursor, lastLedger>>
    BY <1>1, <1>2, InvFacts DEF FetchEvents, envVars
  <1>6. QED
    BY <1>4, <1>5, InvBatch

(* One statement of a batch.                                               *)
LEMMA InvStatement == ASSUME NEW b \in Slots PROVE IndexerInv /\ Statement(b) => IndexerInv'
  <1> SUFFICES ASSUME IndexerInv, Statement(b) PROVE IndexerInv'
    OBVIOUS
  <1>1. PICK w, f : w = batch[b] /\ f = Head(w.todo)
    OBVIOUS
  <1>2. PICK reg, todo : reg = Register(w, f, db) /\ todo = Rest(f, w.todo, db)
    OBVIOUS
  <1>3. PICK n : n = Advance([w EXCEPT !.reg = reg], todo)
    OBVIOUS
  <1>4. /\ w.todo # << >> /\ db' = RunEffect(f, db, w.reg) /\ batch' = [batch EXCEPT ![b] = n]
        /\ UNCHANGED <<scenario, tip, cursor, lastLedger>>
    BY <1>1, <1>2, <1>3 DEF Statement, envVars
  <1>5. PICK x : x = db'
    OBVIOUS
  <1>6. TablesOk(chain, x, tip) /\ Grows(db, x) /\ BatchOk(chain, x, tip, n)
    BY <1>1, <1>2, <1>3, <1>4, <1>5, InvFacts, StatementStep
  <1>7. tip \in Nat /\ tip <= tip
    BY InvFacts
  <1>8. batch' = [a \in Slots |-> batch'[a]] /\ \A a \in Slots : BatchOk(chain, x, tip, batch'[a])
    <2>1. PICK B, D : B = batch /\ D = batch'
      OBVIOUS
    <2>2. ChainOk(chain) /\ B = [a \in Slots |-> B[a]] /\ \A a \in Slots : BatchOk(chain, db, tip, B[a])
      BY <2>1, InvFacts
    <2>3. D = [B EXCEPT ![b] = n]
      BY <1>4, <2>1
    <2>4. D = [a \in Slots |-> D[a]] /\ \A a \in Slots : BatchOk(chain, x, tip, D[a])
      BY <1>6, <1>7, <2>2, <2>3, OthersStay
    <2>5. QED
      BY <2>1, <2>4
  <1>9. CoveredTo(chain, x, cursor, {}) /\ CoveredTo(chain, x, lastLedger, {})
    <2>1. PICK N : N = {}
      OBVIOUS
    <2>2. CoveredTo(chain, db, cursor, N) /\ CoveredTo(chain, db, lastLedger, N)
      BY <2>1, InvFacts
    <2>3. CoveredTo(chain, x, cursor, N) /\ CoveredTo(chain, x, lastLedger, N)
      BY <1>6, <2>2, CoveredGrows
    <2>4. QED
      BY <2>1, <2>3
  <1>10. QED
    BY <1>4, <1>5, <1>6, <1>8, <1>9, InvFacts DEF IndexerInv, Shape, chain

(* One turn of invalidations of a batch.                                   *)
LEMMA InvNotify == ASSUME NEW b \in Slots PROVE IndexerInv /\ Notify(b) => IndexerInv'
  <1> SUFFICES ASSUME IndexerInv, Notify(b) PROVE IndexerInv'
    OBVIOUS
  <1>1. PICK w, turn : w = batch[b] /\ turn = Turn(w.todo)
    OBVIOUS
  <1>2. PICK todo : todo = SubSeq(w.todo, Len(turn) + 1, Len(w.todo))
    OBVIOUS
  <1>3. PICK n : n = Advance(w, todo)
    OBVIOUS
  <1>4. turn # << >> /\ batch' = [batch EXCEPT ![b] = n] /\ UNCHANGED <<scenario, tip, db, cursor, lastLedger>>
    BY <1>1, <1>2, <1>3, InvFacts DEF Notify, envVars
  <1>5. BatchOk(chain, db, tip, n)
    BY <1>1, <1>2, <1>3, <1>4, InvFacts, NotifyStep
  <1>6. QED
    BY <1>4, <1>5, InvBatch

(* A batch ends.                                                           *)
LEMMA InvEnded ==
    ASSUME NEW b \in Slots
    PROVE  IndexerInv /\ Ended(b) /\ UNCHANGED <<scenario, tip, db, cursor, lastLedger>> => IndexerInv'
  BY IdleBatch, InvBatch DEF Ended

\* A batch that has gone through its events moves to another stage.
LEMMA StageStep ==
    ASSUME NEW w, BatchOk(chain, db, tip, w), w.pc # "idle", w.evs = {}, NEW pc \in {"cursor", "memory"}, w.todo = << >>
    PROVE  BatchOk(chain, db, tip, [w EXCEPT !.pc = pc])
  <1>1. IsBatch(w)
    BY DEF IsBatch, BatchOk
  <1>2. PICK n : n = [pc |-> pc, start |-> w.start, latest |-> w.latest, evs |-> w.evs, todo |-> w.todo, reg |-> w.reg]
    OBVIOUS
  <1>3. [w EXCEPT !.pc = pc] = n
    <2>1. PICK p, a, b, o, q, r : w = [pc |-> p, start |-> a, latest |-> b, evs |-> o, todo |-> q, reg |-> r]
      BY <1>1 DEF IsBatch
    <2>2. w.start = a /\ w.latest = b /\ w.evs = o /\ w.todo = q /\ w.reg = r
      BY <2>1
    <2>3. [w EXCEPT !.pc = pc] = [pc |-> pc, start |-> a, latest |-> b, evs |-> o, todo |-> q, reg |-> r]
      BY <2>1
    <2>4. QED
      BY <1>2, <2>2, <2>3
  <1>4. n.pc = pc /\ n.latest = w.latest /\ n.evs = {} /\ n.todo = << >>
    BY <1>2
  <1>5. IsBatch(n)
    BY <1>2 DEF IsBatch
  <1>6. QED
    BY <1>3, <1>4, <1>5 DEF BatchOk, IsBatch

(* The page is processed.                                                  *)
LEMMA InvCheckAdvance == ASSUME NEW b \in Slots PROVE IndexerInv /\ CheckAdvance(b) => IndexerInv'
  <1> SUFFICES ASSUME IndexerInv, CheckAdvance(b) PROVE IndexerInv'
    OBVIOUS
  <1>1. PICK w : w = batch[b]
    OBVIOUS
  <1>2. w.pc = "run" /\ w.evs = {} /\ BatchOk(chain, db, tip, w) /\ UNCHANGED <<scenario, tip, db, cursor, lastLedger>>
    BY <1>1, InvFacts DEF CheckAdvance, envVars
  <1>3. CASE Ended(b)
    BY <1>2, <1>3, InvEnded
  <1>4. CASE batch' = [batch EXCEPT ![b].pc = "cursor"]
    <2>1. w.todo = << >>
      BY <1>2 DEF BatchOk
    <2>2. PICK n : n = [w EXCEPT !.pc = "cursor"]
      OBVIOUS
    <2>3. BatchOk(chain, db, tip, n)
      BY <1>2, <2>1, <2>2, StageStep
    <2>4. batch' = [batch EXCEPT ![b] = n]
      BY <1>1, <1>4, <2>2, InvFacts
    <2>5. QED
      BY <1>2, <2>3, <2>4, InvBatch
  <1>5. QED
    BY <1>3, <1>4 DEF CheckAdvance

(* The cursor is saved.                                                    *)
LEMMA InvCursor == ASSUME NEW b \in Slots PROVE IndexerInv /\ updateLastIndexedLedger(b) => IndexerInv'
  <1> SUFFICES ASSUME IndexerInv, updateLastIndexedLedger(b) PROVE IndexerInv'
    OBVIOUS
  <1>1. PICK w : w = batch[b]
    OBVIOUS
  <1>2. /\ w.pc = "cursor" /\ cursor' = w.latest /\ BatchOk(chain, db, tip, w)
        /\ UNCHANGED <<scenario, tip, db, lastLedger>> /\ batch' = [batch EXCEPT ![b].pc = "memory"]
    BY <1>1, InvFacts DEF updateLastIndexedLedger, envVars
  <1>3. w.todo = << >> /\ w.evs = {} /\ w.latest \in Nat /\ CoveredTo(chain, db, w.latest, {})
    BY <1>2 DEF BatchOk
  <1>4. PICK n : n = [w EXCEPT !.pc = "memory"]
    OBVIOUS
  <1>5. BatchOk(chain, db, tip, n)
    BY <1>2, <1>3, <1>4, StageStep
  <1>6. batch' = [batch EXCEPT ![b] = n]
    BY <1>1, <1>2, <1>4, InvFacts
  <1>7. Grows(db, db) /\ tip \in Nat /\ tip <= tip
    BY InvFacts DEF Grows
  <1>8. batch' = [a \in Slots |-> batch'[a]] /\ \A a \in Slots : BatchOk(chain, db, tip, batch'[a])
    BY <1>5, <1>6, <1>7, InvFacts, OthersStay
  <1>9. QED
    BY <1>2, <1>3, <1>8, InvFacts DEF IndexerInv, Shape, chain

(* The record of a batch that takes its snapshots.                         *)
LEMMA PostRecord ==
    ASSUME NEW w, IsBatch(w), NEW todo
    PROVE  [w EXCEPT !.pc = "post", !.todo = todo] =
             [pc |-> "post", start |-> w.start, latest |-> w.latest, evs |-> w.evs, todo |-> todo, reg |-> w.reg]
  <1>1. PICK p, a, b, o, q, r : w = [pc |-> p, start |-> a, latest |-> b, evs |-> o, todo |-> q, reg |-> r]
    BY DEF IsBatch
  <1>2. w.start = a /\ w.latest = b /\ w.evs = o /\ w.reg = r
    BY <1>1
  <1>3. PICK x : x = [w EXCEPT !.pc = "post"]
    OBVIOUS
  <1>4. x = [pc |-> "post", start |-> a, latest |-> b, evs |-> o, todo |-> q, reg |-> r]
    BY <1>1, <1>3
  <1>5. PICK y : y = [x EXCEPT !.todo = todo]
    OBVIOUS
  <1>6. y = [pc |-> "post", start |-> a, latest |-> b, evs |-> o, todo |-> todo, reg |-> r]
    BY <1>4, <1>5
  <1>7. [w EXCEPT !.pc = "post", !.todo = todo] = y
    BY <1>3, <1>5
  <1>8. QED
    BY <1>2, <1>6, <1>7

(* The cursor in memory moves.                                             *)
LEMMA InvRemember == ASSUME NEW b \in Slots PROVE IndexerInv /\ Remember(b) => IndexerInv'
  <1> SUFFICES ASSUME IndexerInv, Remember(b) PROVE IndexerInv'
    OBVIOUS
  <1>1. PICK w, todo : w = batch[b] /\ todo = maybeTakeGovernanceSnapshot(batch[b].latest)
                                           \o maybeTakeConcentrationSnapshot(batch[b].latest)
    OBVIOUS
  <1>2. /\ w.pc = "memory" /\ lastLedger' = w.latest /\ BatchOk(chain, db, tip, w)
        /\ UNCHANGED <<scenario, tip, db, cursor>>
        /\ batch' = [batch EXCEPT ![b].pc = "post", ![b].todo = todo]
    BY <1>1, InvFacts DEF Remember, envVars
  <1>3. w.evs = {} /\ w.latest \in Nat /\ CoveredTo(chain, db, w.latest, {}) /\ IsBatch(w)
    BY <1>2 DEF BatchOk, IsBatch
  <1>4. PlainList(todo)
    BY <1>1, PlainSnapshots
  <1>5. PICK n : n = [pc |-> "post", start |-> w.start, latest |-> w.latest, evs |-> w.evs, todo |-> todo, reg |-> w.reg]
    OBVIOUS
  <1>6. PICK m : m = [w EXCEPT !.pc = "post", !.todo = todo]
    OBVIOUS
  <1>7. m = n
    BY <1>3, <1>5, <1>6, PostRecord
  <1>8. BatchOk(chain, db, tip, n)
    <2>1. n.pc = "post" /\ n.latest = w.latest /\ n.evs = {} /\ n.todo = todo
      BY <1>3, <1>5
    <2>2. IsBatch(n)
      BY <1>5 DEF IsBatch
    <2>3. QED
      BY <1>3, <1>4, <2>1, <2>2 DEF BatchOk, IsBatch
  <1>9. batch' = [batch EXCEPT ![b] = n]
    BY <1>1, <1>2, <1>6, <1>7, InvFacts
  <1>10. Grows(db, db) /\ tip \in Nat /\ tip <= tip
    BY InvFacts DEF Grows
  <1>11. batch' = [a \in Slots |-> batch'[a]] /\ \A a \in Slots : BatchOk(chain, db, tip, batch'[a])
    BY <1>8, <1>9, <1>10, InvFacts, OthersStay
  <1>12. QED
    BY <1>2, <1>3, <1>11, InvFacts DEF IndexerInv, Shape, chain

(* Every step of a batch.                                                  *)
LEMMA InvBatchNext == ASSUME WholePages, NEW b \in Slots PROVE IndexerInv /\ (BatchNext(b) \/ Fault(b)) => IndexerInv'
  <1>1. IndexerInv /\ (Finish(b) \/ Exception(b) \/ Fault(b)) => IndexerInv'
    BY InvEnded DEF Finish, Exception, Fault, Abort, envVars
  <1>2. QED
    BY <1>1, InvFetch, InvStatement, InvNotify, InvCheckAdvance, InvCursor, InvRemember DEF BatchNext

(* Every step.                                                             *)
LEMMA InvNext == ASSUME WholePages PROVE IndexerInv /\ [Next]_vars => IndexerInv'
  <1>1. IndexerInv /\ (Exit \/ Crash) => IndexerInv'
    BY InvReset DEF Exit, Crash, envVars
  <1>2. IndexerInv /\ (shutdown \/ Restart \/ ApiRequest \/ ApiQuery \/ ApiStore \/ Expire) => IndexerInv'
    BY InvSame DEF shutdown, Restart, ApiRequest, ApiQuery, ApiStore, Expire, envVars
  <1>3. IndexerInv /\ UNCHANGED vars => IndexerInv'
    BY InvSame DEF vars
  <1>4. QED
    BY <1>1, <1>2, <1>3, InvCloseLedger, InvBoot, InvPoll, InvBatchNext DEF Next

(* The invariant, whenever no page of events ends inside a ledger.           *)
THEOREM IndexerInvariant == WholePages => (Spec => []IndexerInv)
  <1>1. ASSUME WholePages PROVE IndexerInv /\ [Next]_vars => IndexerInv'
    BY <1>1, InvNext
  <1>2. ASSUME WholePages PROVE Spec => []IndexerInv
    BY <1>1, <1>2, IndexerInit, PTL DEF Spec
  <1>3. QED
    BY <1>2

(* LogComplete: what the cursor has passed is in the event log.              *)
THEOREM CursorNeverSkips == WholePages => (Spec => []LogComplete)
  <1>1. IndexerInv => LogComplete
    BY LogLookup DEF IndexerInv, CoveredTo, Settled, LogComplete, Subscribed
  <1>2. QED
    BY <1>1, IndexerInvariant, PTL

(* StreamProjectionCurrent: the projection of a stream is never older than    *)
(* the receipts on file for it.                                             *)
THEOREM ProjectionNeverOlder == WholePages => (Spec => []StreamProjectionCurrent)
  <1>1. IndexerInv => StreamProjectionCurrent
    <2> SUFFICES ASSUME IndexerInv PROVE StreamProjectionCurrent
      OBVIOUS
    <2>1. CurrentFor(db, StreamsOf(db))
      BY DEF IndexerInv, TablesOk, Projected
    <2>2. ASSUME NEW r \in Receipts(db)
          PROVE  \E s \in ToSet(Table(db, "treasury_streams")) :
                   /\ s.stream = r.stream
                   /\ s.version >= Cardinality({q \in Receipts(db) : q.stream = r.stream})
      BY <2>1 DEF CurrentFor, StreamsOf, ToSet
    <2>3. QED
      BY <2>2 DEF StreamProjectionCurrent, Receipts
  <1>2. QED
    BY <1>1, IndexerInvariant, PTL

-----------------------------------------------------------------------------
(* Cached answers: what an effect changes of the watched route's rows.      *)

\* f writes rows of q's table, but none that q asks for.
Beside(f, q) ==
  /\ q[2] # "*"
  /\ \/ f.op \in {"insert", "append"} /\ q[2] \in DOMAIN f.row /\ f.row[q[2]] # q[3]
     \/ /\ f.op = "upsert" /\ q[2] \in f.key /\ q[2] \in DOMAIN f.row /\ f.row[q[2]] # q[3]
        /\ q[2] \notin DOMAIN f.set
     \/ f.op = "update" /\ q[2] \in DOMAIN f.where /\ f.where[q[2]] # q[3] /\ q[2] \notin DOMAIN f.set
Touches(f) == \E q \in watched.reads : f.op \in Writes /\ f.tbl = q[1] /\ ~Beside(f, q)
\* The tables the watched route reads are lists.
ReadsLists(d) == \A q \in watched.reads : IsList(Table(d, q[1]))
ReadsPrompt == \A q \in watched.reads : q[1] \in Prompt
Answer(rows, q) == [i \in Selected(rows, q) |-> rows[i]]

(* A table with other rows in the same places is a list too.               *)
LEMMA MappedList ==
    ASSUME NEW rows, IsList(rows), NEW new, DOMAIN new = DOMAIN rows, new = [k \in DOMAIN rows |-> new[k]]
    PROVE  IsList(new)
  <1>1. PICK S : rows \in Seq(S)
    BY DEF IsList
  <1>2. PICK T : T = {new[k] : k \in DOMAIN rows}
    OBVIOUS
  <1>3. DOMAIN rows = 1..Len(rows) /\ Len(rows) \in Nat
    BY <1>1
  <1>4. new \in [1..Len(rows) -> T]
    BY <1>2, <1>3
  <1>5. new \in Seq(T)
    BY <1>3, <1>4
  <1>6. QED
    BY <1>5 DEF IsList

(* What a statement that deletes nothing makes of a table: it stays as it   *)
(* is, or gets a row at its end, or its rows change in their places.        *)
LEMMA WrittenShapes ==
    ASSUME NEW f, f.op \in Writes, f.op # "delete", NEW rows, NEW reg, NEW new, new = Written(f, rows, reg)
    PROVE  \/ new = rows
           \/ \E r : new = Append(rows, r) /\ (f.op \in {"insert", "upsert", "append"} => r = f.row)
           \/ DOMAIN new = DOMAIN rows /\ new = [k \in DOMAIN rows |-> new[k]]
  <1>1. CASE f.op = "insert"
    <2>1. new = IF AnyRow(rows, LAMBDA r : SameKey(r, f.row, f.key)) THEN rows ELSE Append(rows, f.row)
      BY <1>1 DEF Written
    <2>2. QED
      BY <2>1
  <1>2. CASE f.op = "upsert"
    <2>1. new = IF AnyRow(rows, LAMBDA r : SameKey(r, f.row, f.key))
                THEN [k \in DOMAIN rows |-> IF SameKey(rows[k], f.row, f.key) THEN Override(f.set, rows[k]) ELSE rows[k]]
                ELSE Append(rows, f.row)
      BY <1>2 DEF Written, MapRows
    <2>2. QED
      BY <2>1
  <1>3. CASE f.op = "append"
    <2>1. new = Append(rows, f.row)
      BY <1>3 DEF Written
    <2>2. QED
      BY <2>1
  <1>4. CASE f.op = "appendSelected"
    <2>1. new = Append(rows, Override(f.row, [c \in {f.col} |-> reg]))
      BY <1>4 DEF Written
    <2>2. QED
      BY <1>4, <2>1
  <1>5. CASE f.op = "update"
    <2>1. new = [k \in DOMAIN rows |-> IF Matches(rows[k], f.where) THEN Override(f.set, rows[k]) ELSE rows[k]]
      BY <1>5 DEF Written, MapRows
    <2>2. QED
      BY <2>1
  <1>6. CASE f.op = "add"
    <2>1. new = [k \in DOMAIN rows |-> IF Matches(rows[k], f.where) THEN [rows[k] EXCEPT ![f.col] = @ + f.n] ELSE rows[k]]
      BY <1>6 DEF Written, MapRows
    <2>2. QED
      BY <2>1
  <1>7. QED
    BY <1>1, <1>2, <1>3, <1>4, <1>5, <1>6 DEF Writes

(* A statement that deletes nothing keeps a list a list.                   *)
LEMMA WrittenList ==
    ASSUME NEW f, f.op \in Writes, f.op # "delete", NEW rows, IsList(rows), NEW reg
    PROVE  IsList(Written(f, rows, reg))
  <1>1. PICK new : new = Written(f, rows, reg)
    OBVIOUS
  <1>2. \/ new = rows
        \/ \E r : new = Append(rows, r)
        \/ DOMAIN new = DOMAIN rows /\ new = [k \in DOMAIN rows |-> new[k]]
    BY <1>1, WrittenShapes
  <1>3. QED
    BY <1>1, <1>2, AppendedRow, MappedList

(* A row at the end that q does not ask for leaves its answer alone.        *)
LEMMA AnswerAppend ==
    ASSUME NEW rows, IsList(rows), NEW r, NEW q, q[2] # "*", q[2] \in DOMAIN r => r[q[2]] # q[3]
    PROVE  Answer(Append(rows, r), q) = Answer(rows, q)
  <1>1. PICK new : new = Append(rows, r)
    OBVIOUS
  <1>2. /\ DOMAIN rows \subseteq DOMAIN new /\ \A k \in DOMAIN rows : new[k] = rows[k]
        /\ \A k \in DOMAIN new : k \in DOMAIN rows \/ new[k] = r
    BY <1>1, AppendedRow
  <1>3. Selected(new, q) = Selected(rows, q)
    <2>1. ASSUME NEW k \in Selected(new, q) PROVE k \in Selected(rows, q)
      BY <1>2, <2>1 DEF Selected
    <2>2. ASSUME NEW k \in Selected(rows, q) PROVE k \in Selected(new, q)
      BY <1>2, <2>2 DEF Selected
    <2>3. QED
      BY <2>1, <2>2
  <1>4. \A k \in Selected(rows, q) : new[k] = rows[k]
    BY <1>2 DEF Selected
  <1>5. QED
    BY <1>1, <1>3, <1>4 DEF Answer

(* So do changes in rows that q does not ask for, before or after.          *)
LEMMA AnswerMapped ==
    ASSUME NEW rows, NEW new, NEW q, q[2] # "*", DOMAIN new = DOMAIN rows,
           \A k \in DOMAIN rows : new[k] = rows[k] \/ ( /\ (q[2] \in DOMAIN rows[k] => rows[k][q[2]] # q[3])
                                                        /\ (q[2] \in DOMAIN new[k] => new[k][q[2]] # q[3]) )
    PROVE  Answer(new, q) = Answer(rows, q)
  <1>1. Selected(new, q) = Selected(rows, q)
    <2>1. ASSUME NEW k \in Selected(new, q) PROVE k \in Selected(rows, q)
      BY <2>1 DEF Selected
    <2>2. ASSUME NEW k \in Selected(rows, q) PROVE k \in Selected(new, q)
      BY <2>2 DEF Selected
    <2>3. QED
      BY <2>1, <2>2
  <1>2. \A k \in Selected(rows, q) : new[k] = rows[k]
    BY DEF Selected
  <1>3. QED
    BY <1>1, <1>2 DEF Answer

(* A column that set does not mention keeps its value.                     *)
LEMMA OverrideKeeps ==
    ASSUME NEW set, NEW r, NEW c, c \notin DOMAIN set
    PROVE  /\ c \in DOMAIN Override(set, r) <=> c \in DOMAIN r
           /\ c \in DOMAIN r => Override(set, r)[c] = r[c]
  BY DEF Override

(* A statement beside q leaves q's answer alone.                           *)
LEMMA AnswerBeside ==
    ASSUME NEW f, NEW q, Beside(f, q), NEW rows, IsList(rows), NEW reg
    PROVE  Answer(Written(f, rows, reg), q) = Answer(rows, q)
  <1>1. PICK new : new = Written(f, rows, reg)
    OBVIOUS
  <1>2. CASE f.op = "insert"
    <2>1. new = rows \/ new = Append(rows, f.row)
      BY <1>1, <1>2 DEF Written
    <2>2. q[2] # "*" /\ (q[2] \in DOMAIN f.row => f.row[q[2]] # q[3])
      BY <1>2 DEF Beside
    <2>3. Answer(Append(rows, f.row), q) = Answer(rows, q)
      BY <2>2, AnswerAppend
    <2>4. QED
      BY <1>1, <2>1, <2>3
  <1>3. CASE f.op = "append"
    <2>1. new = Append(rows, f.row)
      BY <1>1, <1>3 DEF Written
    <2>2. QED
      BY <1>1, <1>3, <2>1, AnswerAppend DEF Beside
  <1>4. CASE f.op = "upsert"
    <2>1. CASE AnyRow(rows, LAMBDA r : SameKey(r, f.row, f.key))
      <3>1. new = [k \in DOMAIN rows |-> IF SameKey(rows[k], f.row, f.key) THEN Override(f.set, rows[k]) ELSE rows[k]]
        BY <1>1, <1>4, <2>1 DEF Written, MapRows
      <3>2. /\ q[2] # "*" /\ q[2] \in f.key /\ f.row[q[2]] # q[3] /\ q[2] \notin DOMAIN f.set
        BY <1>4 DEF Beside
      <3>3. ASSUME NEW k \in DOMAIN rows, new[k] # rows[k]
            PROVE  /\ q[2] \in DOMAIN rows[k] => rows[k][q[2]] # q[3]
                   /\ q[2] \in DOMAIN new[k] => new[k][q[2]] # q[3]
        <4>1. SameKey(rows[k], f.row, f.key) /\ new[k] = Override(f.set, rows[k])
          BY <3>1, <3>3
        <4>2. rows[k][q[2]] = f.row[q[2]]
          BY <3>2, <4>1 DEF SameKey
        <4>3. QED
          BY <3>2, <4>1, <4>2, OverrideKeeps
      <3>4. DOMAIN new = DOMAIN rows
        BY <3>1
      <3>5. QED
        BY <1>1, <3>2, <3>3, <3>4, AnswerMapped
    <2>2. CASE ~AnyRow(rows, LAMBDA r : SameKey(r, f.row, f.key))
      <3>1. new = Append(rows, f.row)
        BY <1>1, <1>4, <2>2 DEF Written
      <3>2. QED
        BY <1>1, <1>4, <3>1, AnswerAppend DEF Beside
    <2>3. QED
      BY <2>1, <2>2
  <1>5. CASE f.op = "update"
    <2>1. new = [k \in DOMAIN rows |-> IF Matches(rows[k], f.where) THEN Override(f.set, rows[k]) ELSE rows[k]]
      BY <1>1, <1>5 DEF Written, MapRows
    <2>2. /\ q[2] # "*" /\ q[2] \in DOMAIN f.where /\ f.where[q[2]] # q[3] /\ q[2] \notin DOMAIN f.set
      BY <1>5 DEF Beside
    <2>3. ASSUME NEW k \in DOMAIN rows, new[k] # rows[k]
          PROVE  /\ q[2] \in DOMAIN rows[k] => rows[k][q[2]] # q[3]
                 /\ q[2] \in DOMAIN new[k] => new[k][q[2]] # q[3]
      <3>1. Matches(rows[k], f.where) /\ new[k] = Override(f.set, rows[k])
        BY <2>1, <2>3
      <3>2. rows[k][q[2]] = f.where[q[2]]
        BY <2>2, <3>1 DEF Matches
      <3>3. QED
        BY <2>2, <3>1, <3>2, OverrideKeeps
    <2>4. DOMAIN new = DOMAIN rows
      BY <2>1
    <2>5. QED
      BY <1>1, <2>2, <2>3, <2>4, AnswerMapped
  <1>6. QED
    BY <1>2, <1>3, <1>4, <1>5 DEF Beside

(* A statement that does not touch the watched rows leaves the answer alone, *)
(* and every statement keeps the tables lists.                               *)
LEMMA ApplyKeeps ==
    ASSUME NEW f, NEW d, NEW reg, ReadsLists(d), ReadsPrompt, f.op \in Writes,
           f.op = "delete" => f.tbl \notin Prompt
    PROVE  /\ ReadsLists(Apply(f, d, reg))
           /\ ~Touches(f) => Rows(watched, Apply(f, d, reg)) = Rows(watched, d)
  <1>1. PICK x : x = Apply(f, d, reg)
    OBVIOUS
  <1>2. ASSUME NEW q \in watched.reads
        PROVE  /\ IsList(Table(x, q[1]))
               /\ ~Touches(f) => Answer(Table(x, q[1]), q) = Answer(Table(d, q[1]), q)
    <2>1. IsList(Table(d, q[1])) /\ q[1] \in Prompt
      BY DEF ReadsLists, ReadsPrompt
    <2>2. CASE f.tbl = q[1]
      <3>1. Table(x, q[1]) = Written(f, Table(d, q[1]), reg)
        BY <1>1, <2>2, ApplyTable
      <3>2. IsList(Table(x, q[1]))
        BY <2>1, <2>2, <3>1, WrittenList
      <3>3. ASSUME ~Touches(f) PROVE Answer(Table(x, q[1]), q) = Answer(Table(d, q[1]), q)
        <4>1. Beside(f, q)
          BY <2>2, <3>3 DEF Touches
        <4>2. QED
          BY <2>1, <3>1, <4>1, AnswerBeside
      <3>4. QED
        BY <3>2, <3>3
    <2>3. CASE f.tbl # q[1]
      <3>1. Table(x, q[1]) = Table(d, q[1])
        BY <1>1, <2>3, ApplyTable
      <3>2. QED
        BY <2>1, <3>1
    <2>4. QED
      BY <2>2, <2>3
  <1>3. ReadsLists(x)
    BY <1>2 DEF ReadsLists
  <1>4. ASSUME ~Touches(f) PROVE Rows(watched, x) = Rows(watched, d)
    <2>1. /\ Rows(watched, x) = [q \in watched.reads |-> Answer(Table(x, q[1]), q)]
          /\ Rows(watched, d) = [q \in watched.reads |-> Answer(Table(d, q[1]), q)]
      BY DEF Rows, Answer
    <2>2. QED
      BY <1>2, <1>4, <2>1
  <1>5. QED
    BY <1>1, <1>3, <1>4

(* An effect of a handler or of a snapshot.                                 *)
LEMMA EffectKeeps ==
    ASSUME NEW f, NEW d, NEW reg, ReadsLists(d), ReadsPrompt, Fine(f, Prompt) \/ Idle(f)
    PROVE  /\ ReadsLists(RunEffect(f, d, reg))
           /\ ~Touches(f) \/ Idle(f) => Rows(watched, RunEffect(f, d, reg)) = Rows(watched, d)
  <1>1. Plain(f)
    BY DEF Fine, Idle
  <1>2. CASE f.op = "snapshot"
    <2>1. PICK g : g = Insert(f.tbl, {"ledger"}, [ledger |-> f.ledger, value |-> reg], NoRef)
      OBVIOUS
    <2>2. RunEffect(f, d, reg) = Apply(g, d, 0)
      BY <1>2, <2>1 DEF RunEffect
    <2>3. g.op = "insert" /\ g.tbl = f.tbl
      BY <2>1 DEF Insert
    <2>4. f.tbl \notin Prompt
      BY <1>2 DEF Fine, Idle
    <2>5. ~Touches(g)
      BY <2>3, <2>4 DEF Touches, ReadsPrompt
    <2>6. QED
      BY <2>2, <2>3, <2>5, ApplyKeeps DEF Writes
  <1>3. CASE f.op # "snapshot"
    <2>1. RunEffect(f, d, reg) = Apply(f, d, reg)
      BY <1>1, <1>3 DEF RunEffect, Plain
    <2>2. CASE f.op \in Writes
      <3>1. f.op = "delete" => f.tbl \notin Prompt
        BY <2>2 DEF Fine, Idle
      <3>2. Idle(f) => ~Touches(f)
        BY <2>2 DEF Idle, Touches, ReadsPrompt
      <3>3. QED
        BY <2>1, <2>2, <3>1, <3>2, ApplyKeeps
    <2>3. CASE f.op \notin Writes
      BY <2>1, <2>3, ApplyNothing
    <2>4. QED
      BY <2>2, <2>3
  <1>4. QED
    BY <1>2, <1>3

-----------------------------------------------------------------------------
(* The routes, and the invalidations that drop their answers.              *)

(* The prefixes the handlers invalidate.                                    *)
LEMMA PrefixOf ==
    ASSUME NEW a, NEW b, NEW c, NEW d
    PROVE  /\ IsPrefix(<<a>>, <<a, b>>) /\ IsPrefix(<<a>>, <<a, b, c>>)
           /\ IsPrefix(<<a, b>>, <<a, b>>) /\ IsPrefix(<<a, b>>, <<a, b, c>>)
           /\ IsPrefix(<<a, b, c, d>>, <<a, b, c, d>>)
  <1>1. IsPrefix(<<a>>, <<a, b>>)
    BY DEF IsPrefix
  <1>2. IsPrefix(<<a>>, <<a, b, c>>)
    BY DEF IsPrefix
  <1>3. IsPrefix(<<a, b>>, <<a, b>>)
    BY DEF IsPrefix
  <1>4. IsPrefix(<<a, b>>, <<a, b, c>>)
    BY DEF IsPrefix
  <1>5. IsPrefix(<<a, b, c, d>>, <<a, b, c, d>>)
    BY DEF IsPrefix
  <1>6. QED
    BY <1>1, <1>2, <1>3, <1>4, <1>5

\* What the watched route asks of a table, and its key.
Asks(q) ==
  \/ q[1] = "votes" /\ q[2] = "proposal_id" /\ watched.key = <<"proposal_votes", q[3]>>
  \/ q[1] = "delegates" /\ watched.key = <<"delegates", "top">>
  \/ q[1] = "split_delegations" /\ \E side : watched.key = <<"split-delegations", side, q[3]>>
  \/ q[1] = "relayer_whitelist_history" /\ watched.key = <<"relayers", "all">>
  \/ q[1] = "delegated_by_sig_events" /\ watched.key = <<"delegations_by_sig", "all">>
  \/ q[1] = "proposer_reputation" /\ watched.key = <<"reputation", "leaderboard">>
  \/ q[1] = "proposer_reputation" /\ q[2] = "proposer" /\ watched.key = <<"reputation", q[3]>>
  \/ q[1] = "treasury_streams" /\ watched.key = <<"treasury", "streams", "all">>
  \/ q[1] = "treasury_streams" /\ watched.key = <<"treasury", "budget-summary">>
  \/ q[1] = "treasury_streams" /\ q[2] = "stream" /\ watched.key = <<"treasury", "stream", q[3]>>
  \/ q[1] = "treasury_streams" /\ q[2] = "stream" /\ watched.key = <<"treasury", "stream", q[3], "spends">>
  \/ q[1] = "treasury_stream_events" /\ q[2] = "stream" /\ watched.key = <<"treasury", "stream", q[3], "events">>
  \/ q[1] = "drafts" /\ watched.key = <<"drafts", "list">>
  \/ q[1] = "proposal_bonds" /\ watched.key = <<"proposal-bonds", "list">>
  \/ q[1] = "timelock_operations" /\ q[2] = "op_id" /\ watched.key = <<"timelock", "op", q[3]>>
  \/ q[1] = "timelock_batch_operations" /\ q[2] = "batch_op_id" /\ watched.key = <<"timelock", "batch", q[3]>>
  \/ q[1] = "timelock_dependency_graphs" /\ q[2] = "batch_op_id" /\ q[3] # "null" /\ watched.key = <<"timelock", "dag", q[3]>>
  \/ q[1] = "timelock_partial_batch_state" /\ q[2] = "batch_op_id" /\ watched.key = <<"timelock", "partial_state", q[3]>>

\* A route with its key and the one table it reads.
Reads(route, key, q) == route.key = key /\ route.reads = {q}

(* The key and the table of each prompt route.                              *)
LEMMA RouteReads ==
    ASSUME NEW x
    PROVE  /\ Reads(getProposalVotes(x), <<"proposal_votes", x>>, <<"votes", "proposal_id", x>>)
           /\ Reads(getDelegates, <<"delegates", "top">>, <<"delegates", "*", "*">>)
           /\ Reads(getSplitsIn(x), <<"split-delegations", "delegatee", x>>, <<"split_delegations", "delegatee", x>>)
           /\ Reads(getSplitsOut(x), <<"split-delegations", "delegator", x>>, <<"split_delegations", "delegator", x>>)
           /\ Reads(getRelayers, <<"relayers", "all">>, <<"relayer_whitelist_history", "*", "*">>)
           /\ Reads(getDelegationsBySig, <<"delegations_by_sig", "all">>, <<"delegated_by_sig_events", "*", "*">>)
           /\ Reads(getReputationLeaderboard, <<"reputation", "leaderboard">>, <<"proposer_reputation", "*", "*">>)
           /\ Reads(getReputation(x), <<"reputation", x>>, <<"proposer_reputation", "proposer", x>>)
           /\ Reads(getStreams, <<"treasury", "streams", "all">>, <<"treasury_streams", "*", "*">>)
           /\ Reads(getStreamSpends(x), <<"treasury", "stream", x, "spends">>, <<"treasury_streams", "stream", x>>)
           /\ Reads(getStream(x), <<"treasury", "stream", x>>, <<"treasury_streams", "stream", x>>)
           /\ Reads(getStreamEvents(x), <<"treasury", "stream", x, "events">>, <<"treasury_stream_events", "stream", x>>)
           /\ Reads(getBudgetSummary, <<"treasury", "budget-summary">>, <<"treasury_streams", "*", "*">>)
           /\ Reads(getDrafts, <<"drafts", "list">>, <<"drafts", "*", "*">>)
           /\ Reads(getProposalBonds, <<"proposal-bonds", "list">>, <<"proposal_bonds", "*", "*">>)
           /\ Reads(getTimelockOperation(x), <<"timelock", "op", x>>, <<"timelock_operations", "op_id", x>>)
           /\ Reads(getTimelockBatch(x), <<"timelock", "batch", x>>, <<"timelock_batch_operations", "batch_op_id", x>>)
           /\ Reads(getTimelockDag(x), <<"timelock", "dag", x>>, <<"timelock_dependency_graphs", "batch_op_id", x>>)
           /\ Reads(getTimelockPartialState(x), <<"timelock", "partial_state", x>>, <<"timelock_partial_batch_state", "batch_op_id", x>>)
  <1> USE DEF Reads, Cached, Checked, OrNotFound, All, By
  <1>1. Reads(getProposalVotes(x), <<"proposal_votes", x>>, <<"votes", "proposal_id", x>>)
    BY DEF getProposalVotes
  <1>2. Reads(getDelegates, <<"delegates", "top">>, <<"delegates", "*", "*">>)
    BY DEF getDelegates
  <1>3. Reads(getSplitsIn(x), <<"split-delegations", "delegatee", x>>, <<"split_delegations", "delegatee", x>>)
    BY DEF getSplitsIn
  <1>4. Reads(getSplitsOut(x), <<"split-delegations", "delegator", x>>, <<"split_delegations", "delegator", x>>)
    BY DEF getSplitsOut
  <1>5. Reads(getRelayers, <<"relayers", "all">>, <<"relayer_whitelist_history", "*", "*">>)
    BY DEF getRelayers
  <1>6. Reads(getDelegationsBySig, <<"delegations_by_sig", "all">>, <<"delegated_by_sig_events", "*", "*">>)
    BY DEF getDelegationsBySig
  <1>7. Reads(getReputationLeaderboard, <<"reputation", "leaderboard">>, <<"proposer_reputation", "*", "*">>)
    BY DEF getReputationLeaderboard
  <1>8. Reads(getReputation(x), <<"reputation", x>>, <<"proposer_reputation", "proposer", x>>)
    BY DEF getReputation
  <1>9. Reads(getStreams, <<"treasury", "streams", "all">>, <<"treasury_streams", "*", "*">>)
    BY DEF getStreams
  <1>10. Reads(getStreamSpends(x), <<"treasury", "stream", x, "spends">>, <<"treasury_streams", "stream", x>>)
    BY DEF getStreamSpends
  <1>11. Reads(getStream(x), <<"treasury", "stream", x>>, <<"treasury_streams", "stream", x>>)
    BY DEF getStream
  <1>12. Reads(getStreamEvents(x), <<"treasury", "stream", x, "events">>, <<"treasury_stream_events", "stream", x>>)
    BY DEF getStreamEvents
  <1>13. Reads(getBudgetSummary, <<"treasury", "budget-summary">>, <<"treasury_streams", "*", "*">>)
    BY DEF getBudgetSummary
  <1>14. Reads(getDrafts, <<"drafts", "list">>, <<"drafts", "*", "*">>)
    BY DEF getDrafts
  <1>15. Reads(getProposalBonds, <<"proposal-bonds", "list">>, <<"proposal_bonds", "*", "*">>)
    BY DEF getProposalBonds
  <1>16. Reads(getTimelockOperation(x), <<"timelock", "op", x>>, <<"timelock_operations", "op_id", x>>)
    BY DEF getTimelockOperation
  <1>17. Reads(getTimelockBatch(x), <<"timelock", "batch", x>>, <<"timelock_batch_operations", "batch_op_id", x>>)
    BY DEF getTimelockBatch
  <1>18. Reads(getTimelockDag(x), <<"timelock", "dag", x>>, <<"timelock_dependency_graphs", "batch_op_id", x>>)
    BY DEF getTimelockDag
  <1>19. Reads(getTimelockPartialState(x), <<"timelock", "partial_state", x>>, <<"timelock_partial_batch_state", "batch_op_id", x>>)
    BY DEF getTimelockPartialState
  <1>20. QED
    BY <1>1, <1>2, <1>3, <1>4, <1>5, <1>6, <1>7, <1>8, <1>9, <1>10, <1>11, <1>12, <1>13, <1>14, <1>15, <1>16,
       <1>17, <1>18, <1>19

(* What a prompt route asks.                                                *)
LEMMA PromptAsks == ASSUME PromptRoute, NEW q \in watched.reads PROVE Asks(q)
  <1>1. PICK x : watched \in PromptRoutes(x)
    BY DEF PromptRoute
  <1> DEFINE reads(key, p) == Reads(watched, key, p)
  <1>2. \/ reads(<<"proposal_votes", x>>, <<"votes", "proposal_id", x>>)
        \/ reads(<<"delegates", "top">>, <<"delegates", "*", "*">>)
        \/ reads(<<"split-delegations", "delegatee", x>>, <<"split_delegations", "delegatee", x>>)
        \/ reads(<<"split-delegations", "delegator", x>>, <<"split_delegations", "delegator", x>>)
        \/ reads(<<"relayers", "all">>, <<"relayer_whitelist_history", "*", "*">>)
        \/ reads(<<"delegations_by_sig", "all">>, <<"delegated_by_sig_events", "*", "*">>)
        \/ reads(<<"reputation", "leaderboard">>, <<"proposer_reputation", "*", "*">>)
        \/ reads(<<"reputation", x>>, <<"proposer_reputation", "proposer", x>>)
        \/ reads(<<"treasury", "streams", "all">>, <<"treasury_streams", "*", "*">>)
        \/ reads(<<"treasury", "stream", x, "spends">>, <<"treasury_streams", "stream", x>>)
        \/ reads(<<"treasury", "stream", x>>, <<"treasury_streams", "stream", x>>)
        \/ reads(<<"treasury", "stream", x, "events">>, <<"treasury_stream_events", "stream", x>>)
        \/ reads(<<"treasury", "budget-summary">>, <<"treasury_streams", "*", "*">>)
        \/ reads(<<"drafts", "list">>, <<"drafts", "*", "*">>)
        \/ reads(<<"proposal-bonds", "list">>, <<"proposal_bonds", "*", "*">>)
        \/ reads(<<"timelock", "op", x>>, <<"timelock_operations", "op_id", x>>)
        \/ reads(<<"timelock", "batch", x>>, <<"timelock_batch_operations", "batch_op_id", x>>)
        \/ x # "null" /\ reads(<<"timelock", "dag", x>>, <<"timelock_dependency_graphs", "batch_op_id", x>>)
        \/ reads(<<"timelock", "partial_state", x>>, <<"timelock_partial_batch_state", "batch_op_id", x>>)
    BY <1>1, RouteReads DEF PromptRoutes
  <1>3. QED
    BY <1>2 DEF Reads, Asks

(* The prompt routes read prompt tables only.                               *)
LEMMA PromptReadsPrompt == ASSUME PromptRoute PROVE ReadsPrompt
  <1>1. ASSUME NEW q \in watched.reads PROVE q[1] \in Prompt
    BY PromptAsks DEF Asks, Prompt
  <1>2. QED
    BY <1>1 DEF ReadsPrompt

-----------------------------------------------------------------------------
(* A handler that touches the watched rows drops the cached answer later.   *)

HasDrop(s) == \E k \in DOMAIN s : Drops(s[k])
\* Every effect of s that touches the watched rows has a later one that drops their answer.
Tended(s) ==
  /\ Does(s, Prompt)
  /\ \A k \in 1..Len(s) : Touches(s[k]) => \E j \in k + 1..Len(s) : Drops(s[j])
\* The effects of h are followed up by t.
Leads(h, t) == \E S : h \in Seq(S) /\ \A f \in S : Fine(f, Prompt) /\ (Touches(f) => HasDrop(t))

(* A list followed up by a tended one is tended with it.                    *)
LEMMA TendedAfter ==
    ASSUME NEW h, NEW t, Leads(h, t), Tended(t)
    PROVE  Tended(h \o t) /\ (HasDrop(t) => HasDrop(h \o t))
  <1>1. PICK S : h \in Seq(S) /\ \A f \in S : Fine(f, Prompt) /\ (Touches(f) => HasDrop(t))
    BY DEF Leads
  <1>2. PICK U : t \in Seq(U) /\ \A f \in U : Fine(f, Prompt)
    BY DEF Tended, Does
  <1>3. PICK x : x = h \o t
    OBVIOUS
  <1>4. PICK m \in Nat, n \in Nat : m = Len(h) /\ n = Len(t)
    BY <1>1, <1>2
  <1>5. h \in Seq(S \cup U) /\ t \in Seq(S \cup U)
    BY <1>1, <1>2
  <1>6. /\ x \in Seq(S \cup U) /\ Len(x) = m + n
        /\ \A k \in 1..m : x[k] = h[k]
        /\ \A k \in 1..n : x[m + k] = t[k]
    BY <1>3, <1>4, <1>5
  <1>7. Does(x, Prompt)
    BY <1>1, <1>2, <1>6, DoesOf
  <1>8. HasDrop(t) => \E j \in m + 1..m + n : Drops(x[j])
    <2>1. SUFFICES ASSUME NEW j \in 1..n, Drops(t[j]) PROVE \E i \in m + 1..m + n : Drops(x[i])
      BY <1>2, <1>4 DEF HasDrop
    <2>2. m + j \in m + 1..m + n /\ x[m + j] = t[j]
      BY <1>6
    <2>3. QED
      BY <2>1, <2>2
  <1>9. ASSUME NEW k \in 1..m + n, Touches(x[k]) PROVE \E j \in k + 1..m + n : Drops(x[j])
    <2>1. CASE k <= m
      <3>1. x[k] = h[k] /\ h[k] \in S
        BY <1>1, <1>4, <1>6, <2>1
      <3>2. PICK j \in m + 1..m + n : Drops(x[j])
        BY <1>1, <1>8, <1>9, <3>1
      <3>3. j \in k + 1..m + n
        BY <2>1
      <3>4. QED
        BY <3>2, <3>3
    <2>2. CASE k > m
      <3>1. PICK i \in 1..n : k = m + i
        <4>1. k - m \in 1..n /\ k = m + (k - m)
          BY <2>2
        <4>2. QED
          BY <4>1
      <3>2. Touches(t[i])
        BY <1>6, <1>9, <3>1
      <3>3. PICK j \in i + 1..n : Drops(t[j])
        BY <1>4, <3>2 DEF Tended
      <3>4. m + j \in k + 1..m + n /\ x[m + j] = t[j]
        BY <1>6, <3>1
      <3>5. QED
        BY <3>3, <3>4
    <2>3. QED
      BY <2>1, <2>2
  <1>10. Tended(x)
    BY <1>6, <1>7, <1>9 DEF Tended
  <1>11. HasDrop(t) => HasDrop(x)
    <2>1. SUFFICES ASSUME NEW j \in m + 1..m + n, Drops(x[j]) PROVE HasDrop(x)
      BY <1>8
    <2>2. j \in DOMAIN x
      BY <1>6
    <2>3. QED
      BY <2>1, <2>2 DEF HasDrop
  <1>12. QED
    BY <1>3, <1>10, <1>11

(* What writes no prompt table is tended.                                   *)
LEMMA TendedQuiet ==
    ASSUME ReadsPrompt, NEW s, Does(s, {})
    PROVE  Tended(s)
  <1>1. PICK S : s \in Seq(S) /\ \A f \in S : Fine(f, {})
    BY DEF Does
  <1>2. \A f \in S : Fine(f, Prompt) /\ ~Touches(f)
    BY <1>1 DEF Fine, Touches, ReadsPrompt
  <1>3. Does(s, Prompt)
    BY <1>1, <1>2, DoesOf
  <1>4. \A k \in 1..Len(s) : s[k] \in S
    BY <1>1
  <1>5. QED
    BY <1>2, <1>3, <1>4 DEF Tended

(* One effect, followed up.                                                 *)
LEMMA Leads1 ==
    ASSUME NEW a, NEW t, Fine(a, Prompt), Touches(a) => HasDrop(t)
    PROVE  Leads(<<a>>, t)
  <1>1. PICK S : S = {a}
    OBVIOUS
  <1>2. <<a>> \in Seq(S) /\ \A f \in S : Fine(f, Prompt) /\ (Touches(f) => HasDrop(t))
    BY <1>1
  <1>3. QED
    BY <1>2 DEF Leads

(* Two effects.                                                             *)
LEMMA Leads2 ==
    ASSUME NEW a, NEW b, NEW t, Fine(a, Prompt), Touches(a) => HasDrop(t), Fine(b, Prompt), Touches(b) => HasDrop(t)
    PROVE  Leads(<<a, b>>, t)
  <1>1. PICK S : S = {a, b}
    OBVIOUS
  <1>2. <<a, b>> \in Seq(S) /\ \A f \in S : Fine(f, Prompt) /\ (Touches(f) => HasDrop(t))
    BY <1>1
  <1>3. QED
    BY <1>2 DEF Leads

(* A list that writes one prompt table, followed up if it is watched.       *)
LEMMA LeadsTable ==
    ASSUME ReadsPrompt, NEW T \in Prompt, NEW h, Does(h, {T}), NEW t, (\E q \in watched.reads : q[1] = T) => HasDrop(t)
    PROVE  Leads(h, t)
  <1>1. PICK S : h \in Seq(S) /\ \A f \in S : Fine(f, {T})
    BY DEF Does
  <1>2. ASSUME NEW f \in S PROVE Fine(f, Prompt) /\ (Touches(f) => HasDrop(t))
    <2>1. Fine(f, {T})
      BY <1>1
    <2>2. Fine(f, Prompt)
      BY <2>1 DEF Fine
    <2>3. ASSUME Touches(f) PROVE HasDrop(t)
      <3>1. PICK q \in watched.reads : f.op \in Writes /\ f.tbl = q[1]
        BY <2>3 DEF Touches
      <3>2. q[1] = T
        BY <2>1, <3>1 DEF Fine, ReadsPrompt
      <3>3. QED
        BY <3>2
    <2>4. QED
      BY <2>2, <2>3
  <1>3. QED
    BY <1>1, <1>2 DEF Leads

(* Handlers of one statement and a tail.                                    *)
LEMMA TendedFirst ==
    ASSUME ReadsPrompt, NEW a, NEW t, Fine(a, Prompt), Does(t, {}), Touches(a) => HasDrop(t)
    PROVE  Tended(<<a>> \o t)
  BY Leads1, TendedAfter, TendedQuiet

(* The same, written as one list.                                           *)
LEMMA Splice ==
    ASSUME NEW a, NEW b, NEW c, NEW d, NEW e
    PROVE  /\ <<a, b>> = <<a>> \o <<b>>
           /\ <<a, b, c>> = <<a>> \o <<b, c>>
           /\ <<a, b, c, d>> = <<a>> \o <<b, c, d>>
           /\ <<a, b, c, d, e>> = <<a>> \o <<b, c, d, e>>
  <1>1. <<a, b>> = <<a>> \o <<b>>
    <2>1. PICK S : S = {a, b}
      OBVIOUS
    <2>2. PICK x, y, z : x = <<a>> /\ y = <<b>> /\ z = x \o y
      OBVIOUS
    <2>3. x \in Seq(S) /\ y \in Seq(S) /\ Len(x) = 1 /\ Len(y) = 1 /\ x[1] = a /\ y[1] = b
      BY <2>1, <2>2
    <2>4. z \in Seq(S) /\ Len(z) = 2 /\ z[1] = a /\ z[2] = b
      BY <2>2, <2>3
    <2>5. z = <<a, b>>
      BY <2>4
    <2>6. QED
      BY <2>2, <2>5
  <1>2. <<a, b, c>> = <<a>> \o <<b, c>>
    OBVIOUS
  <1>3. <<a, b, c, d>> = <<a>> \o <<b, c, d>>
    OBVIOUS
  <1>4. <<a, b, c, d, e>> = <<a>> \o <<b, c, d, e>>
    OBVIOUS
  <1>5. QED
    BY <1>1, <1>2, <1>3, <1>4

(* A key dropped by an invalidation.                                        *)
LEMMA DroppedKey == ASSUME NEW keys, watched.key \in keys PROVE Drops(Invalidate(keys))
  BY DEF Drops, Invalidate

(* A key dropped with all that begin like it.                               *)
LEMMA DroppedPrefix == ASSUME NEW p, IsPrefix(p, watched.key) PROVE Drops(InvalidatePattern(p))
  BY DEF Drops, InvalidatePattern

(* An answer dropped by the first, the second or the third effect of a list. *)
LEMMA HasDropAt ==
    ASSUME NEW a, NEW b, NEW c, NEW d
    PROVE  /\ Drops(a) => HasDrop(<<a>>) /\ HasDrop(<<a, b>>) /\ HasDrop(<<a, b, c>>) /\ HasDrop(<<a, b, c, d>>)
           /\ Drops(b) => HasDrop(<<a, b>>) /\ HasDrop(<<a, b, c>>) /\ HasDrop(<<a, b, c, d>>)
  <1> DEFINE s2 == <<a, b>>
             s3 == <<a, b, c>>
             s4 == <<a, b, c, d>>
  <1>1. 1 \in DOMAIN <<a>> /\ <<a>>[1] = a
    OBVIOUS
  <1>2. 1 \in DOMAIN s2 /\ s2[1] = a /\ 2 \in DOMAIN s2 /\ s2[2] = b
    OBVIOUS
  <1>3. 1 \in DOMAIN s3 /\ s3[1] = a /\ 2 \in DOMAIN s3 /\ s3[2] = b
    OBVIOUS
  <1>4. 1 \in DOMAIN s4 /\ s4[1] = a /\ 2 \in DOMAIN s4 /\ s4[2] = b
    OBVIOUS
  <1> HIDE DEF s2, s3, s4
  <1>5. /\ Drops(a) => HasDrop(<<a>>) /\ HasDrop(s2) /\ HasDrop(s3) /\ HasDrop(s4)
        /\ Drops(b) => HasDrop(s2) /\ HasDrop(s3) /\ HasDrop(s4)
    BY <1>1, <1>2, <1>3, <1>4 DEF HasDrop
  <1>6. QED
    BY <1>5 DEF s2, s3, s4

-----------------------------------------------------------------------------
(* Every handler of the indexer is tended.                                  *)

\* f writes rows whose column col is v, and does not change the column.
Names(f, col, v) ==
  \/ f.op \in {"insert", "append"} /\ col \in DOMAIN f.row /\ f.row[col] = v
  \/ f.op = "upsert" /\ col \in f.key /\ col \in DOMAIN f.row /\ f.row[col] = v /\ col \notin DOMAIN f.set
  \/ f.op = "update" /\ col \in DOMAIN f.where /\ f.where[col] = v /\ col \notin DOMAIN f.set

(* The keys of the routes that read a whole table.                          *)
LEMMA WholeKeys ==
    ASSUME PromptRoute, NEW q \in watched.reads
    PROVE  /\ q[1] = "delegates" => watched.key = <<"delegates", "top">>
           /\ q[1] = "split_delegations" => \E side, a : watched.key = <<"split-delegations", side, a>>
           /\ q[1] = "relayer_whitelist_history" => watched.key = <<"relayers", "all">>
           /\ q[1] = "delegated_by_sig_events" => watched.key = <<"delegations_by_sig", "all">>
           /\ q[1] = "drafts" => watched.key = <<"drafts", "list">>
           /\ q[1] = "proposal_bonds" => watched.key = <<"proposal-bonds", "list">>
  BY PromptAsks DEF Asks

(* The keys of the routes that a statement about the rows of v touches.     *)
LEMMA TouchedKeys ==
    ASSUME PromptRoute, NEW f, NEW v, Touches(f)
    PROVE  /\ f.tbl = "votes" /\ Names(f, "proposal_id", v) => watched.key = <<"proposal_votes", v>>
           /\ f.tbl = "proposer_reputation" /\ Names(f, "proposer", v)
                => watched.key \in {<<"reputation", "leaderboard">>, <<"reputation", v>>}
           /\ f.tbl = "treasury_streams" /\ Names(f, "stream", v)
                => watched.key \in {<<"treasury", "streams", "all">>, <<"treasury", "budget-summary">>,
                                    <<"treasury", "stream", v>>, <<"treasury", "stream", v, "spends">>}
           /\ f.tbl = "treasury_stream_events" /\ Names(f, "stream", v)
                => watched.key = <<"treasury", "stream", v, "events">>
           /\ f.tbl = "timelock_operations" /\ Names(f, "op_id", v) => watched.key = <<"timelock", "op", v>>
           /\ f.tbl = "timelock_batch_operations" /\ Names(f, "batch_op_id", v)
                => watched.key = <<"timelock", "batch", v>>
           /\ f.tbl = "timelock_dependency_graphs" /\ Names(f, "batch_op_id", v)
                => v # "null" /\ watched.key = <<"timelock", "dag", v>>
           /\ f.tbl = "timelock_partial_batch_state" /\ Names(f, "batch_op_id", v)
                => watched.key = <<"timelock", "partial_state", v>>
  <1>1. PICK q \in watched.reads : f.tbl = q[1] /\ ~Beside(f, q)
    BY DEF Touches
  <1>2. Asks(q)
    BY PromptAsks
  <1>3. ASSUME NEW col, col # "*", q[2] = col, Names(f, col, v) PROVE q[3] = v
    BY <1>1, <1>3 DEF Beside, Names
  <1>4. f.tbl = "votes" /\ Names(f, "proposal_id", v) => watched.key = <<"proposal_votes", v>>
    BY <1>1, <1>2, <1>3 DEF Asks
  <1>5. f.tbl = "proposer_reputation" /\ Names(f, "proposer", v)
          => watched.key \in {<<"reputation", "leaderboard">>, <<"reputation", v>>}
    BY <1>1, <1>2, <1>3 DEF Asks
  <1>6. f.tbl = "treasury_streams" /\ Names(f, "stream", v)
          => watched.key \in {<<"treasury", "streams", "all">>, <<"treasury", "budget-summary">>,
                              <<"treasury", "stream", v>>, <<"treasury", "stream", v, "spends">>}
    BY <1>1, <1>2, <1>3 DEF Asks
  <1>7. f.tbl = "treasury_stream_events" /\ Names(f, "stream", v) => watched.key = <<"treasury", "stream", v, "events">>
    BY <1>1, <1>2, <1>3 DEF Asks
  <1>8. f.tbl = "timelock_operations" /\ Names(f, "op_id", v) => watched.key = <<"timelock", "op", v>>
    BY <1>1, <1>2, <1>3 DEF Asks
  <1>9. f.tbl = "timelock_batch_operations" /\ Names(f, "batch_op_id", v) => watched.key = <<"timelock", "batch", v>>
    BY <1>1, <1>2, <1>3 DEF Asks
  <1>10. f.tbl = "timelock_dependency_graphs" /\ Names(f, "batch_op_id", v)
           => v # "null" /\ watched.key = <<"timelock", "dag", v>>
    BY <1>1, <1>2, <1>3 DEF Asks
  <1>11. f.tbl = "timelock_partial_batch_state" /\ Names(f, "batch_op_id", v)
           => watched.key = <<"timelock", "partial_state", v>>
    BY <1>1, <1>2, <1>3 DEF Asks
  <1>12. QED
    BY <1>4, <1>5, <1>6, <1>7, <1>8, <1>9, <1>10, <1>11

(* A vote drops the votes of its proposal.                                 *)
LEMMA TendedVote ==
    ASSUME PromptRoute, NEW id, NEW voter, NEW support, NEW weight
    PROVE  Tended(VoteEffects(id, voter, support, weight))
  <1>1. PICK a, b, c, d, x :
          /\ a = Upsert("votes", {"proposal_id", "voter"},
                   [proposal_id |-> id, voter |-> voter, support |-> support, weight |-> weight],
                   [support |-> support, weight |-> weight],
                   [tbl |-> "proposals", where |-> [id |-> id]])
          /\ b = Add("proposals", [id |-> id], TallyColumn(support), weight)
          /\ c = Invalidate({<<"proposal_votes", id>>, <<"profile", voter>>})
          /\ d = InvalidatePattern(<<"proposals">>)
          /\ x = Broadcast("vote_cast")
    OBVIOUS
  <1>2. VoteEffects(id, voter, support, weight) = <<a>> \o <<b, c, d, x>>
    BY <1>1, Splice DEF VoteEffects
  <1>3. Fine(a, Prompt) /\ a.tbl = "votes" /\ Names(a, "proposal_id", id)
    BY <1>1 DEF Fine, Prompt, Plain, Reserved, Writes, Upsert, Names
  <1>4. Fine(b, {}) /\ Fine(c, {}) /\ Fine(d, {}) /\ Fine(x, {})
    BY <1>1 DEF Fine, Prompt, Plain, Reserved, Writes, Add, Invalidate, InvalidatePattern, Broadcast
  <1>5. ASSUME Touches(a) PROVE HasDrop(<<b, c, d, x>>)
    <2>1. watched.key = <<"proposal_votes", id>>
      BY <1>3, <1>5, TouchedKeys
    <2>2. Drops(c)
      BY <1>1, <2>1, DroppedKey
    <2>3. QED
      BY <2>2, HasDropAt
  <1>6. QED
    BY <1>2, <1>3, <1>4, <1>5, Does4, TendedFirst, PromptReadsPrompt

(* What throws instead writes nothing.                                     *)
LEMMA TendedOrThrows ==
    ASSUME PromptRoute, NEW c, NEW s, Tended(s)
    PROVE  Tended(IF c THEN s ELSE << Throw >>)
  <1>1. Fine(Throw, {})
    BY DEF Fine, Plain, Throw, Writes
  <1>2. Does(<< Throw >>, {})
    BY <1>1, Does1
  <1>3. Tended(<< Throw >>)
    BY <1>2, TendedQuiet, PromptReadsPrompt
  <1>4. QED
    BY <1>3

(* A vote that is decoded, or refused.                                     *)
LEMMA TendedVoteCast == ASSUME PromptRoute, NEW e PROVE Tended(handleVoteCast(e))
  BY TendedVote, TendedOrThrows DEF handleVoteCast

(* A reputation drops its own answer and the leaderboard.                  *)
LEMMA TendedReputation == ASSUME PromptRoute, NEW e PROVE Tended(handleReputationUpdated(e))
  <1>1. PICK a, b, c, d, x :
          /\ a = Upsert("proposer_reputation", {"proposer"},
                   [proposer |-> e.d.proposer, score |-> e.d.new, ledger |-> e.ledger],
                   [score |-> e.d.new, ledger |-> e.ledger], NoRef)
          /\ b = AppendRow("reputation_score_history",
                   [proposer |-> e.d.proposer, score |-> e.d.new, change |-> e.d.new - e.d.old, ledger |-> e.ledger],
                   NoRef)
          /\ c = Invalidate({<<"reputation", e.d.proposer>>})
          /\ d = InvalidatePattern(<<"reputation", "leaderboard">>)
          /\ x = Broadcast("reputation_updated")
    OBVIOUS
  <1>2. handleReputationUpdated(e) = <<a>> \o <<b, c, d, x>>
    BY <1>1, Splice DEF handleReputationUpdated
  <1>3. Fine(a, Prompt) /\ a.tbl = "proposer_reputation" /\ Names(a, "proposer", e.d.proposer)
    BY <1>1 DEF Fine, Prompt, Plain, Reserved, Writes, Upsert, Names
  <1>4. Fine(b, {}) /\ Fine(c, {}) /\ Fine(d, {}) /\ Fine(x, {})
    BY <1>1 DEF Fine, Prompt, Plain, Reserved, Writes, AppendRow, Invalidate, InvalidatePattern, Broadcast
  <1>5. ASSUME Touches(a) PROVE HasDrop(<<b, c, d, x>>)
    <2>1. watched.key \in {<<"reputation", "leaderboard">>, <<"reputation", e.d.proposer>>}
      BY <1>3, <1>5, TouchedKeys
    <2>2. Drops(c) \/ Drops(d)
      BY <1>1, <2>1, DroppedKey, DroppedPrefix, PrefixOf
    <2>3. PICK s : s = <<b, c, d, x>>
      OBVIOUS
    <2>4. 2 \in DOMAIN s /\ 3 \in DOMAIN s /\ s[2] = c /\ s[3] = d
      BY <2>3
    <2>5. QED
      BY <2>2, <2>3, <2>4 DEF HasDrop
  <1>6. QED
    BY <1>2, <1>3, <1>4, <1>5, Does4, TendedFirst, PromptReadsPrompt

(* A delegation drops the delegates.                                        *)
LEMMA TendedDelegateChanged == ASSUME PromptRoute, NEW e PROVE Tended(handleDelegateChanged(e))
  <1>1. PICK a, b, c, d :
          /\ a = AppendRow("delegates", [delegator |-> e.d.delegator, new_delegatee |-> e.d.to, ledger |-> e.ledger], NoRef)
          /\ b = InvalidatePattern(<<"delegates">>)
          /\ c = Invalidate({<<"profile", e.d.delegator>>})
          /\ d = Broadcast("delegate_changed")
    OBVIOUS
  <1>2. PICK t : t = <<a>> \o <<b, c, d>>
    OBVIOUS
  <1>3. <<a, b, c, d>> = t
    <2>1. <<a, b, c, d>> = <<a>> \o <<b, c, d>>
      OBVIOUS
    <2>2. QED
      BY <1>2, <2>1, Zenon
  <1>4. handleDelegateChanged(e) = IF e.d.from # "null" THEN t ELSE << Throw >>
    BY <1>1, <1>3 DEF handleDelegateChanged
  <1>5. Fine(a, Prompt) /\ a.tbl = "delegates"
    BY <1>1 DEF Fine, Prompt, Plain, Reserved, Writes, AppendRow
  <1>6. Fine(b, {}) /\ Fine(c, {}) /\ Fine(d, {})
    BY <1>1 DEF Fine, Prompt, Plain, Reserved, Writes, Invalidate, InvalidatePattern, Broadcast
  <1>7. ASSUME Touches(a) PROVE HasDrop(<<b, c, d>>)
    <2>1. PICK q \in watched.reads : q[1] = "delegates"
      BY <1>5, <1>7 DEF Touches
    <2>2. IsPrefix(<<"delegates">>, watched.key)
      BY <2>1, WholeKeys, PrefixOf
    <2>3. Drops(b)
      BY <1>1, <2>2, DroppedPrefix
    <2>4. QED
      BY <2>3, HasDropAt
  <1>8. Tended(t)
    BY <1>2, <1>5, <1>6, <1>7, Does3, TendedFirst, PromptReadsPrompt
  <1>9. QED
    BY <1>8, <1>4, TendedOrThrows

(* A delegation by signature drops their list.                              *)
LEMMA TendedDelegatedBySig == ASSUME PromptRoute, NEW e PROVE Tended(handleDelegatedBySig(e))
  <1>1. PICK a, b, c :
          /\ a = AppendRow("delegated_by_sig_events",
                   [delegator |-> e.d.delegator, relayer |-> e.d.relayer, nonce |-> e.d.nonce], NoRef)
          /\ b = InvalidatePattern(<<"delegations_by_sig">>)
          /\ c = Broadcast("delegated_by_sig")
    OBVIOUS
  <1>2. handleDelegatedBySig(e) = <<a>> \o <<b, c>>
    BY <1>1, Splice DEF handleDelegatedBySig
  <1>3. Fine(a, Prompt) /\ a.tbl = "delegated_by_sig_events"
    BY <1>1 DEF Fine, Prompt, Plain, Reserved, Writes, AppendRow
  <1>4. Fine(b, {}) /\ Fine(c, {})
    BY <1>1 DEF Fine, Prompt, Plain, Reserved, Writes, InvalidatePattern, Broadcast
  <1>5. ASSUME Touches(a) PROVE HasDrop(<<b, c>>)
    <2>1. PICK q \in watched.reads : q[1] = "delegated_by_sig_events"
      BY <1>3, <1>5 DEF Touches
    <2>2. IsPrefix(<<"delegations_by_sig">>, watched.key)
      BY <2>1, WholeKeys, PrefixOf
    <2>3. Drops(b)
      BY <1>1, <2>2, DroppedPrefix
    <2>4. QED
      BY <2>3, HasDropAt
  <1>6. QED
    BY <1>2, <1>3, <1>4, <1>5, Does2, TendedFirst, PromptReadsPrompt

(* A change of the whitelist drops the relayers.                            *)
LEMMA TendedRelayers == ASSUME PromptRoute, NEW e PROVE Tended(handleRelayerWhitelistUpdated(e))
  <1>1. PICK a, b, c :
          /\ a = AppendRow("relayer_whitelist_history",
                   [relayer |-> e.d.relayer, whitelisted |-> e.d.whitelisted, ledger |-> e.ledger], NoRef)
          /\ b = InvalidatePattern(<<"relayers">>)
          /\ c = Broadcast("relayer_whitelist_updated")
    OBVIOUS
  <1>2. handleRelayerWhitelistUpdated(e) = <<a>> \o <<b, c>>
    BY <1>1, Splice DEF handleRelayerWhitelistUpdated
  <1>3. Fine(a, Prompt) /\ a.tbl = "relayer_whitelist_history"
    BY <1>1 DEF Fine, Prompt, Plain, Reserved, Writes, AppendRow
  <1>4. Fine(b, {}) /\ Fine(c, {})
    BY <1>1 DEF Fine, Prompt, Plain, Reserved, Writes, InvalidatePattern, Broadcast
  <1>5. ASSUME Touches(a) PROVE HasDrop(<<b, c>>)
    <2>1. PICK q \in watched.reads : q[1] = "relayer_whitelist_history"
      BY <1>3, <1>5 DEF Touches
    <2>2. IsPrefix(<<"relayers">>, watched.key)
      BY <2>1, WholeKeys, PrefixOf
    <2>3. Drops(b)
      BY <1>1, <2>2, DroppedPrefix
    <2>4. QED
      BY <2>3, HasDropAt
  <1>6. QED
    BY <1>2, <1>3, <1>4, <1>5, Does2, TendedFirst, PromptReadsPrompt

(* What a split tells the cache drops both views of the splits.            *)
LEMMA SplitDrops ==
    ASSUME PromptRoute, NEW e, NEW type
    PROVE  /\ Tended(SplitInvalidations(e, type))
           /\ (\E q \in watched.reads : q[1] = "split_delegations") => HasDrop(SplitInvalidations(e, type))
  <1>1. PICK a, b, c, d :
          /\ a = InvalidatePattern(<<"delegates">>) /\ b = InvalidatePattern(<<"split-delegations">>)
          /\ c = Invalidate({<<"profile", e.d.delegator>>}) /\ d = Broadcast(type)
    OBVIOUS
  <1>2. SplitInvalidations(e, type) = <<a, b, c, d>>
    BY <1>1 DEF SplitInvalidations
  <1>3. ASSUME NEW q \in watched.reads, q[1] = "split_delegations" PROVE HasDrop(<<a, b, c, d>>)
    <2>1. IsPrefix(<<"split-delegations">>, watched.key)
      BY <1>3, WholeKeys, PrefixOf
    <2>2. Drops(b)
      BY <1>1, <2>1, DroppedPrefix
    <2>3. QED
      BY <2>2, HasDropAt
  <1>4. Does(SplitInvalidations(e, type), {})
    BY DoesSplitEnds
  <1>5. QED
    BY <1>2, <1>3, <1>4, TendedQuiet, PromptReadsPrompt

(* Splits and their ends.                                                  *)
LEMMA TendedSplits == ASSUME PromptRoute, NEW e PROVE
    /\ Len(e.d.splits) \in Nat => Tended(handleSplitDelegated(e))
    /\ Tended(handleSplitUndelegated(e))
  <1>1. PICK a, t, u : /\ a = DeactivateSplits(e)
                       /\ t = SplitInvalidations(e, "split_delegated") /\ u = SplitInvalidations(e, "split_undelegated")
    OBVIOUS
  <1>2. Tended(t) /\ Tended(u) /\ Does(a, {"split_delegations"})
    BY <1>1, SplitDrops, DoesSplitEnds
  <1>3. "split_delegations" \in Prompt
    BY DEF Prompt
  <1>4. ASSUME NEW h, Does(h, {"split_delegations"}) PROVE Leads(h, t) /\ Leads(h, u)
    BY <1>1, <1>3, <1>4, SplitDrops, LeadsTable, PromptReadsPrompt
  <1>5. ASSUME Len(e.d.splits) \in Nat PROVE Tended(handleSplitDelegated(e))
    <2>1. PICK s : Does(s, {"split_delegations"}) /\ handleSplitDelegated(e) = a \o s \o t
      BY <1>1, <1>5, DoesSplitDelegated
    <2>2. Does(a \o s, {"split_delegations"})
      BY <1>2, <2>1, DoesCat
    <2>3. QED
      BY <1>2, <1>4, <2>1, <2>2, TendedAfter
  <1>6. Tended(handleSplitUndelegated(e))
    BY <1>1, <1>2, <1>4, TendedAfter DEF handleSplitUndelegated
  <1>7. QED
    BY <1>5, <1>6

(* What changes drafts drops their list.                                    *)
LEMMA TendedDrafts ==
    ASSUME PromptRoute, NEW h, Does(h, {"drafts"}), NEW type
    PROVE  Tended(h \o DraftTail(type))
  <1>1. PICK a, b : a = InvalidatePattern(<<"drafts">>) /\ b = Broadcast(type)
    OBVIOUS
  <1>2. PICK t : t = DraftTail(type)
    OBVIOUS
  <1>3. t = <<a, b>>
    BY <1>1, <1>2 DEF DraftTail
  <1>4. ASSUME NEW q \in watched.reads, q[1] = "drafts" PROVE HasDrop(t)
    <2>1. IsPrefix(<<"drafts">>, watched.key)
      BY <1>4, WholeKeys, PrefixOf
    <2>2. Drops(a)
      BY <1>1, <2>1, DroppedPrefix
    <2>3. QED
      BY <1>3, <2>2, HasDropAt
  <1>5. Tended(t)
    BY <1>2, TailsDo, TendedQuiet, PromptReadsPrompt
  <1>6. "drafts" \in Prompt
    BY DEF Prompt
  <1>7. Leads(h, t)
    BY <1>4, <1>6, LeadsTable, PromptReadsPrompt
  <1>8. QED
    BY <1>2, <1>5, <1>7, TendedAfter

(* What changes bonds drops their list.                                     *)
LEMMA TendedBonds ==
    ASSUME PromptRoute, NEW h, Does(h, {"proposal_bonds"}), NEW type
    PROVE  Tended(h \o BondTail(type))
  <1>1. PICK a, b : a = InvalidatePattern(<<"proposal-bonds">>) /\ b = Broadcast(type)
    OBVIOUS
  <1>2. PICK t : t = BondTail(type)
    OBVIOUS
  <1>3. t = <<a, b>>
    BY <1>1, <1>2 DEF BondTail
  <1>4. ASSUME NEW q \in watched.reads, q[1] = "proposal_bonds" PROVE HasDrop(t)
    <2>1. IsPrefix(<<"proposal-bonds">>, watched.key)
      BY <1>4, WholeKeys, PrefixOf
    <2>2. Drops(a)
      BY <1>1, <2>1, DroppedPrefix
    <2>3. QED
      BY <1>3, <2>2, HasDropAt
  <1>5. Tended(t)
    BY <1>2, TailsDo, TendedQuiet, PromptReadsPrompt
  <1>6. "proposal_bonds" \in Prompt
    BY DEF Prompt
  <1>7. Leads(h, t)
    BY <1>4, <1>6, LeadsTable, PromptReadsPrompt
  <1>8. QED
    BY <1>2, <1>5, <1>7, TendedAfter

(* What changes an operation drops its answer.                              *)
LEMMA OpDrops ==
    ASSUME PromptRoute, NEW e, NEW type, NEW f, f.tbl = "timelock_operations", Names(f, "op_id", e.d.op), Touches(f)
    PROVE  HasDrop(OpTail(e, type))
  <1>1. PICK a, b, c : /\ a = Invalidate({<<"timelock", "op", e.d.op>>}) /\ b = InvalidatePattern(<<"timelock", "ops">>)
                      /\ c = Broadcast(type)
    OBVIOUS
  <1>2. OpTail(e, type) = <<a, b, c>>
    BY <1>1 DEF OpTail
  <1>3. watched.key = <<"timelock", "op", e.d.op>>
    BY TouchedKeys
  <1>4. Drops(a)
    BY <1>1, <1>3, DroppedKey
  <1>5. QED
    BY <1>2, <1>4, HasDropAt

(* So a statement with that tail is tended.                                *)
LEMMA TendedOp ==
    ASSUME PromptRoute, NEW e, NEW type, NEW f, Fine(f, Prompt), f.tbl = "timelock_operations",
           Names(f, "op_id", e.d.op)
    PROVE  Tended(<<f>> \o OpTail(e, type))
  <1>1. PICK t : t = OpTail(e, type)
    OBVIOUS
  <1>2. Does(t, {}) /\ (Touches(f) => HasDrop(t))
    BY <1>1, TailsDo, OpDrops
  <1>3. QED
    BY <1>1, <1>2, TendedFirst, PromptReadsPrompt

(* What changes a batch drops its answer.                                   *)
LEMMA BatchDrops ==
    ASSUME PromptRoute, NEW e, NEW type, NEW f, f.tbl = "timelock_batch_operations", Names(f, "batch_op_id", e.d.batch), Touches(f)
    PROVE  HasDrop(BatchTail(e, type))
  <1>1. PICK a, b, c : /\ a = Invalidate({<<"timelock", "batch", e.d.batch>>}) /\ b = InvalidatePattern(<<"timelock", "batches">>)
                      /\ c = Broadcast(type)
    OBVIOUS
  <1>2. BatchTail(e, type) = <<a, b, c>>
    BY <1>1 DEF BatchTail
  <1>3. watched.key = <<"timelock", "batch", e.d.batch>>
    BY TouchedKeys
  <1>4. Drops(a)
    BY <1>1, <1>3, DroppedKey
  <1>5. QED
    BY <1>2, <1>4, HasDropAt

(* So a statement with that tail is tended.                                *)
LEMMA TendedBatch ==
    ASSUME PromptRoute, NEW e, NEW type, NEW f, Fine(f, Prompt), f.tbl = "timelock_batch_operations",
           Names(f, "batch_op_id", e.d.batch)
    PROVE  Tended(<<f>> \o BatchTail(e, type))
  <1>1. PICK t : t = BatchTail(e, type)
    OBVIOUS
  <1>2. Does(t, {}) /\ (Touches(f) => HasDrop(t))
    BY <1>1, TailsDo, BatchDrops
  <1>3. QED
    BY <1>1, <1>2, TendedFirst, PromptReadsPrompt

(* What changes a partial batch drops its answer.                           *)
LEMMA PartialDrops ==
    ASSUME PromptRoute, NEW e, NEW type, NEW f, f.tbl = "timelock_partial_batch_state", Names(f, "batch_op_id", e.d.batch), Touches(f)
    PROVE  HasDrop(PartialTail(e, type))
  <1>1. PICK a, b : a = Invalidate({<<"timelock", "partial_state", e.d.batch>>}) /\ b = Broadcast(type)
    OBVIOUS
  <1>2. PartialTail(e, type) = <<a, b>>
    BY <1>1 DEF PartialTail
  <1>3. watched.key = <<"timelock", "partial_state", e.d.batch>>
    BY TouchedKeys
  <1>4. Drops(a)
    BY <1>1, <1>3, DroppedKey
  <1>5. QED
    BY <1>2, <1>4, HasDropAt

(* So a statement with that tail is tended.                                *)
LEMMA TendedPartial ==
    ASSUME PromptRoute, NEW e, NEW type, NEW f, Fine(f, Prompt), f.tbl = "timelock_partial_batch_state",
           Names(f, "batch_op_id", e.d.batch)
    PROVE  Tended(<<f>> \o PartialTail(e, type))
  <1>1. PICK t : t = PartialTail(e, type)
    OBVIOUS
  <1>2. Does(t, {}) /\ (Touches(f) => HasDrop(t))
    BY <1>1, TailsDo, PartialDrops
  <1>3. QED
    BY <1>1, <1>2, TendedFirst, PromptReadsPrompt

(* A validated graph drops the graphs of its batch; a cycle is of no batch. *)
LEMMA TendedGraphs == ASSUME PromptRoute, NEW e PROVE
    Tended(handleTimelockDependencyDagValidated(e)) /\ Tended(handleTimelockCycleDetected(e))
  <1>1. PICK a, b, c, d, x :
          /\ a = Insert("timelock_dependency_graphs", {"validation_id"},
                        [validation_id |-> e.id, batch_op_id |-> e.d.batch, has_cycle |-> FALSE], NoRef)
          /\ b = Invalidate({<<"timelock", "dag", e.d.batch>>})
          /\ c = Broadcast("timelock_dependency_dag_validated")
          /\ d = Insert("timelock_dependency_graphs", {"validation_id"},
                        [validation_id |-> e.id, batch_op_id |-> "null", has_cycle |-> TRUE], NoRef)
          /\ x = Broadcast("timelock_cycle_detected")
    OBVIOUS
  <1>2. /\ handleTimelockDependencyDagValidated(e) = <<a>> \o <<b, c>>
        /\ handleTimelockCycleDetected(e) = <<d>> \o <<x>>
    BY <1>1, Splice DEF handleTimelockDependencyDagValidated, handleTimelockCycleDetected
  <1>3. Fine(a, Prompt) /\ a.tbl = "timelock_dependency_graphs" /\ Names(a, "batch_op_id", e.d.batch)
    BY <1>1 DEF Fine, Prompt, Plain, Reserved, Writes, Insert, Names
  <1>4. Fine(d, Prompt) /\ d.tbl = "timelock_dependency_graphs" /\ Names(d, "batch_op_id", "null")
    BY <1>1 DEF Fine, Prompt, Plain, Reserved, Writes, Insert, Names
  <1>5. Fine(b, {}) /\ Fine(c, {}) /\ Fine(x, {})
    BY <1>1 DEF Fine, Prompt, Plain, Reserved, Writes, Invalidate, Broadcast
  <1>6. ASSUME Touches(a) PROVE HasDrop(<<b, c>>)
    <2>1. watched.key = <<"timelock", "dag", e.d.batch>>
      BY <1>3, <1>6, TouchedKeys
    <2>2. Drops(b)
      BY <1>1, <2>1, DroppedKey
    <2>3. QED
      BY <2>2, HasDropAt
  <1>7. ~Touches(d)
    BY <1>4, TouchedKeys
  <1>8. QED
    BY <1>2, <1>3, <1>4, <1>5, <1>6, <1>7, Does1, Does2, TendedFirst, PromptReadsPrompt

(* A completed batch drops the answers on its two tables.                  *)
LEMMA TendedComplete == ASSUME PromptRoute, NEW e PROVE Tended(handleTimelockBatchFullyComplete(e))
  <1>1. PICK a, b, c, t :
          /\ a = Update("timelock_partial_batch_state", [batch_op_id |-> e.d.batch], [status |-> "completed"])
          /\ b = Update("timelock_batch_operations", [batch_op_id |-> e.d.batch], [status |-> "executed"])
          /\ c = Invalidate({<<"timelock", "partial_state", e.d.batch>>})
          /\ t = BatchTail(e, "timelock_batch_fully_complete")
    OBVIOUS
  <1>2. handleTimelockBatchFullyComplete(e) = <<a, b, c>> \o t
    BY <1>1 DEF handleTimelockBatchFullyComplete
  <1>3. /\ Fine(a, Prompt) /\ a.tbl = "timelock_partial_batch_state" /\ Names(a, "batch_op_id", e.d.batch)
        /\ Fine(b, Prompt) /\ b.tbl = "timelock_batch_operations" /\ Names(b, "batch_op_id", e.d.batch)
    BY <1>1 DEF Fine, Prompt, Plain, Reserved, Writes, Update, Names
  <1>4. Fine(c, Prompt) /\ ~Touches(c)
    BY <1>1 DEF Fine, Prompt, Plain, Reserved, Writes, Invalidate, Touches
  <1>5. Tended(t) /\ (Touches(b) => HasDrop(t))
    BY <1>1, <1>3, TailsDo, TendedQuiet, PromptReadsPrompt, BatchDrops
  <1>6. ASSUME Touches(a) PROVE Drops(c)
    <2>1. watched.key = <<"timelock", "partial_state", e.d.batch>>
      BY <1>3, <1>6, TouchedKeys
    <2>2. QED
      BY <1>1, <2>1, DroppedKey
  <1>7. PICK u : u = <<c>> \o t
    OBVIOUS
  <1>8. Tended(u) /\ (HasDrop(t) => HasDrop(u))
    BY <1>4, <1>5, <1>7, Leads1, TendedAfter
  <1>9. PICK T : t \in Seq(T)
    BY <1>5 DEF Tended, Does
  <1>10. PICK S : S = T \cup {a, b, c}
    OBVIOUS
  <1>11. t \in Seq(S) /\ a \in S /\ b \in S /\ c \in S
    BY <1>9, <1>10
  <1>12. Drops(c) => HasDrop(u)
    <2>1. 1 \in DOMAIN u /\ u[1] = c
      BY <1>7, <1>11
    <2>2. QED
      BY <2>1 DEF HasDrop
  <1>13. Leads(<<a, b>>, u)
    BY <1>3, <1>5, <1>6, <1>8, <1>12, Leads2
  <1>14. <<a, b>> \o u = <<a, b, c>> \o t
    BY <1>7, <1>11
  <1>15. QED
    BY <1>2, <1>8, <1>13, <1>14, TendedAfter

(* The handlers of drafts and bonds.                                        *)
LEMMA DraftsTended == ASSUME PromptRoute, NEW e PROVE
    /\ Tended(handleDraftCreated(e))
    /\ Tended(handleCoSponsored(e))
    /\ Tended(handleCoSponsorshipWithdrawn(e))
    /\ Tended(handleDraftFinalized(e))
    /\ Tended(handleDraftCancelled(e))
    /\ Tended(handleDraftExpired(e))
    /\ Tended(handleBondLocked(e))
    /\ Tended(handleBondRefunded(e))
    /\ Tended(handleBondSlashed(e))
  <1> USE DEF Fine, Prompt, Plain, Reserved, Writes, Insert, Upsert, Update, Names
  <1>1. Tended(handleDraftCreated(e))
    BY Does1, TendedDrafts DEF handleDraftCreated
  <1>2. Tended(handleCoSponsored(e))
    BY Does2, TendedDrafts DEF handleCoSponsored
  <1>3. Tended(handleCoSponsorshipWithdrawn(e))
    BY Does2, TendedDrafts DEF handleCoSponsorshipWithdrawn
  <1>4. Tended(handleDraftFinalized(e))
    BY Does1, TendedDrafts DEF handleDraftFinalized
  <1>5. Tended(handleDraftCancelled(e))
    BY Does1, TendedDrafts DEF handleDraftCancelled
  <1>6. Tended(handleDraftExpired(e))
    BY Does1, TendedDrafts DEF handleDraftExpired
  <1>7. Tended(handleBondLocked(e))
    BY Does1, TendedBonds DEF handleBondLocked
  <1>8. Tended(handleBondRefunded(e))
    BY Does1, TendedBonds DEF handleBondRefunded
  <1>9. Tended(handleBondSlashed(e))
    BY Does1, TendedBonds DEF handleBondSlashed
  <1>10. QED
    BY <1>1, <1>2, <1>3, <1>4, <1>5, <1>6, <1>7, <1>8, <1>9

(* The handlers of the timelock.                                            *)
LEMMA TimelockTended == ASSUME PromptRoute, NEW e PROVE
    /\ Tended(handleTimelockOperationScheduled(e))
    /\ Tended(handleTimelockOperationExecuted(e))
    /\ Tended(handleTimelockOperationCancelled(e))
    /\ Tended(handleTimelockBatchOperationScheduled(e))
    /\ Tended(handleTimelockBatchOperationExecuted(e))
    /\ Tended(handleTimelockBatchOperationCancelled(e))
    /\ Tended(handleTimelockPartialBatchStarted(e))
    /\ Tended(handleTimelockPartialOpSucceeded(e))
    /\ Tended(handleTimelockPartialOpFailed(e))
    /\ Tended(handleTimelockBatchRecoveryEntered(e))
    /\ Tended(handleTimelockFailedOpRetried(e))
    /\ Tended(handleTimelockFailedOpSkipped(e))
  <1> USE DEF Fine, Prompt, Plain, Reserved, Writes, Insert, Upsert, Update, Names
  <1>1. Tended(handleTimelockOperationScheduled(e))
    BY TendedOp DEF handleTimelockOperationScheduled
  <1>2. Tended(handleTimelockOperationExecuted(e))
    BY TendedOp DEF handleTimelockOperationExecuted
  <1>3. Tended(handleTimelockOperationCancelled(e))
    BY TendedOp DEF handleTimelockOperationCancelled
  <1>4. Tended(handleTimelockBatchOperationScheduled(e))
    BY TendedBatch DEF handleTimelockBatchOperationScheduled
  <1>5. Tended(handleTimelockBatchOperationExecuted(e))
    BY TendedBatch DEF handleTimelockBatchOperationExecuted
  <1>6. Tended(handleTimelockBatchOperationCancelled(e))
    BY TendedBatch DEF handleTimelockBatchOperationCancelled
  <1>7. Tended(handleTimelockPartialBatchStarted(e))
    BY TendedPartial DEF handleTimelockPartialBatchStarted
  <1>8. Tended(handleTimelockPartialOpSucceeded(e))
    BY TendedPartial DEF handleTimelockPartialOpSucceeded, PartialUpdate
  <1>9. Tended(handleTimelockPartialOpFailed(e))
    BY TendedPartial DEF handleTimelockPartialOpFailed, PartialUpdate
  <1>10. Tended(handleTimelockBatchRecoveryEntered(e))
    BY TendedPartial DEF handleTimelockBatchRecoveryEntered, PartialUpdate
  <1>11. Tended(handleTimelockFailedOpRetried(e))
    BY TendedPartial DEF handleTimelockFailedOpRetried, PartialUpdate
  <1>12. Tended(handleTimelockFailedOpSkipped(e))
    BY TendedPartial DEF handleTimelockFailedOpSkipped, PartialUpdate
  <1>13. QED
    BY <1>1, <1>2, <1>3, <1>4, <1>5, <1>6, <1>7, <1>8, <1>9, <1>10, <1>11, <1>12

(* The governor's and the token votes' events.                              *)
LEMMA TendedVotes == ASSUME PromptRoute, NEW e, NEW type PROVE
    /\ Tended(GovernorHandler(e, type))
    /\ (type = "SplitDelegated" => Len(e.d.splits) \in Nat) => Tended(TokenVotesHandler(e, type))
  <1>1. ReadsPrompt
    BY PromptReadsPrompt
  <1>2. Tended(GovernorHandler(e, type))
    BY <1>1, DoesGovernor, Does0, TendedQuiet, TendedVoteCast, TendedReputation, TendedDelegateChanged DEF GovernorHandler
  <1>3. ASSUME type = "SplitDelegated" => Len(e.d.splits) \in Nat PROVE Tended(TokenVotesHandler(e, type))
    BY <1>1, <1>3, DoesTokenVotes, Does0, TendedQuiet, TendedDelegateChanged, TendedDelegatedBySig, TendedRelayers,
       TendedSplits DEF TokenVotesHandler
  <1>4. QED
    BY <1>2, <1>3

(* The small contracts' and the timelock's events.                          *)
LEMMA TendedOthers == ASSUME PromptRoute, NEW e, NEW type PROVE
    /\ Tended(PeripheryHandler(e, type))
    /\ Tended(TimelockHandler(e, type))
  <1>1. ReadsPrompt
    BY PromptReadsPrompt
  <1>2. Tended(PeripheryHandler(e, type))
    BY <1>1, DoesPeriphery, Does0, TendedQuiet, TendedDelegateChanged, DraftsTended DEF PeripheryHandler
  <1>3. Tended(TimelockHandler(e, type))
    BY <1>1, DoesTimelock, Does0, TendedQuiet, TendedGraphs, TendedComplete, TimelockTended DEF TimelockHandler
  <1>4. QED
    BY <1>2, <1>3

(* Every handler but that of a stream's event is tended.                    *)
LEMMA TendedHandler == ASSUME PromptRoute, NEW e, ~StreamEvent(e), ListsSplits(e) PROVE Tended(Handler(e))
  <1>1. PICK type : type = TOPIC_MAP(e.topic)
    OBVIOUS
  <1>0. DOMAIN PeripheryTypes = {"wrapper", "liquidity", "coSponsorship", "proposalBonds", "signalAnchor", "treasuryStrategies"}
    BY DEF PeripheryTypes
  <1>7. ReadsPrompt
    BY PromptReadsPrompt
  <1>2. CASE e.contract = "conviction"
    <2>1. Handler(e) = handleConvictionEvent(e, type)
      BY <1>0, <1>1, <1>2 DEF Handler
    <2>2. QED
      BY <1>7, <2>1, DoesConviction, TendedQuiet
  <1>3. CASE e.contract = "treasury"
    <2>1. Tended(handleTreasuryBatchTransfer(e)) /\ Tended(<< >>)
      BY <1>7, DoesTransfer, Does0, TendedQuiet
    <2>2. Handler(e) = IF type = "bat_xfer" THEN handleTreasuryBatchTransfer(e) ELSE << >>
      BY <1>0, <1>1, <1>3 DEF Handler, StreamEvent
    <2>3. QED
      BY <2>1, <2>2
  <1>4. CASE e.contract \in DOMAIN PeripheryTypes
    <2>1. Handler(e) = PeripheryHandler(e, type)
      BY <1>0, <1>1, <1>4 DEF Handler
    <2>2. QED
      BY <2>1, TendedOthers
  <1>5. CASE e.contract \notin DOMAIN PeripheryTypes \cup {"conviction", "treasury"}
    <2>1. CASE e.contract = "tokenVotes"
      <3>1. Handler(e) = TokenVotesHandler(e, type)
        BY <1>1, <1>5, <2>1 DEF Handler
      <3>2. type = "SplitDelegated" => Len(e.d.splits) \in Nat
        BY <1>1, <2>1 DEF ListsSplits
      <3>3. QED
        BY <3>1, <3>2, TendedVotes
    <2>2. CASE e.contract = "timelock"
      <3>1. Handler(e) = TimelockHandler(e, type)
        BY <1>1, <1>5, <2>2 DEF Handler
      <3>2. QED
        BY <3>1, TendedOthers
    <2>3. CASE e.contract = "optimistic"
      <3>1. Handler(e) = handleOptimisticGovernorEvent(e, type)
        BY <1>1, <1>5, <2>3 DEF Handler
      <3>2. QED
        BY <1>7, <3>1, DoesOptimistic, TendedQuiet
    <2>4. CASE e.contract = "voteEscrow"
      <3>1. Handler(e) = handleVoteEscrowEvent(e, type)
        BY <1>1, <1>5, <2>4 DEF Handler
      <3>2. QED
        BY <1>7, <3>1, DoesVoteEscrow, TendedQuiet
    <2>5. CASE e.contract \notin {"tokenVotes", "timelock", "optimistic", "voteEscrow"}
      <3>1. Handler(e) = GovernorHandler(e, type)
        BY <1>1, <1>5, <2>5 DEF Handler
      <3>2. QED
        BY <3>1, TendedVotes
    <2>6. QED
      BY <2>1, <2>2, <2>3, <2>4, <2>5
  <1>6. QED
    BY <1>2, <1>3, <1>4, <1>5

\* The two statements of persistTreasuryStreamEvent.
ReceiptOf(f) == AppendRow("treasury_stream_events", [event_id |-> f.id, stream |-> f.stream], NoRef)
ProjectionOf(f, v) ==
  Upsert("treasury_streams", {"stream"}, [stream |-> f.stream, version |-> v, ledger |-> f.ledger], [version |-> v], NoRef)

(* A stream's event drops every answer on its stream.                       *)
LEMMA StreamDrops ==
    ASSUME PromptRoute, NEW e, NEW f, NEW v, f.stream = e.d.stream, Touches(ReceiptOf(f)) \/ Touches(ProjectionOf(f, v))
    PROVE  HasDrop(StreamTail(e))
  <1>1. PICK a, b, c, d, x :
          /\ a = Invalidate({<<"treasury", "stream", e.d.stream>>, <<"treasury", "budget-summary">>})
          /\ b = InvalidatePattern(<<"treasury", "streams">>)
          /\ c = InvalidatePattern(<<"treasury", "stream", e.d.stream, "spends">>)
          /\ d = InvalidatePattern(<<"treasury", "stream", e.d.stream, "events">>)
          /\ x = Broadcast("stream_event")
    OBVIOUS
  <1>2. PICK s : s = StreamTail(e)
    OBVIOUS
  <1>3. s = <<a, b, c, d, x>>
    BY <1>1, <1>2 DEF StreamTail
  <1>4. ASSUME Touches(ReceiptOf(f)) PROVE Drops(d)
    <2>1. PICK r : r = ReceiptOf(f)
      OBVIOUS
    <2>2. r.tbl = "treasury_stream_events" /\ Names(r, "stream", e.d.stream)
      BY <2>1 DEF ReceiptOf, AppendRow, Names
    <2>3. watched.key = <<"treasury", "stream", e.d.stream, "events">>
      BY <1>4, <2>1, <2>2, TouchedKeys
    <2>4. QED
      BY <1>1, <2>3, PrefixOf, DroppedPrefix
  <1>5. ASSUME Touches(ProjectionOf(f, v)) PROVE Drops(a) \/ Drops(b) \/ Drops(c)
    <2>1. PICK r : r = ProjectionOf(f, v)
      OBVIOUS
    <2>2. r.tbl = "treasury_streams" /\ Names(r, "stream", e.d.stream)
      BY <2>1 DEF ProjectionOf, Upsert, Names
    <2>3. watched.key \in {<<"treasury", "streams", "all">>, <<"treasury", "budget-summary">>,
                           <<"treasury", "stream", e.d.stream>>, <<"treasury", "stream", e.d.stream, "spends">>}
      BY <1>5, <2>1, <2>2, TouchedKeys
    <2>4. CASE watched.key = <<"treasury", "streams", "all">>
      BY <1>1, <2>4, PrefixOf, DroppedPrefix
    <2>5. CASE watched.key \in {<<"treasury", "stream", e.d.stream>>, <<"treasury", "budget-summary">>}
      BY <1>1, <2>5, DroppedKey
    <2>6. CASE watched.key = <<"treasury", "stream", e.d.stream, "spends">>
      BY <1>1, <2>6, PrefixOf, DroppedPrefix
    <2>7. QED
      BY <2>3, <2>4, <2>5, <2>6
  <1>6. /\ 1 \in DOMAIN s /\ 2 \in DOMAIN s /\ 3 \in DOMAIN s /\ 4 \in DOMAIN s
        /\ s[1] = a /\ s[2] = b /\ s[3] = c /\ s[4] = d
    BY <1>3
  <1>7. QED
    BY <1>2, <1>4, <1>5, <1>6 DEF HasDrop

(* What persistTreasuryStreamEvent does to the watched rows.                *)
LEMMA PersistKeeps ==
    ASSUME PromptRoute, NEW f, NEW d, NEW v, ReadsLists(d)
    PROVE  LET x == persistTreasuryStreamEvent(d, f, v)
           IN  /\ ReadsLists(x)
               /\ ~Touches(ReceiptOf(f)) /\ ~Touches(ProjectionOf(f, v)) => Rows(watched, x) = Rows(watched, d)
  <1>1. PICK r, p : r = ReceiptOf(f) /\ p = ProjectionOf(f, v)
    OBVIOUS
  <1>2. PICK y : y = Apply(r, d, 0)
    OBVIOUS
  <1>3. PICK x : x = Apply(p, y, 0)
    OBVIOUS
  <1>4. persistTreasuryStreamEvent(d, f, v) \in {d, x}
    BY <1>1, <1>2, <1>3 DEF persistTreasuryStreamEvent, upsertStream, ReceiptOf, ProjectionOf
  <1>5. r.op = "append" /\ p.op = "upsert"
    BY <1>1 DEF ReceiptOf, ProjectionOf, AppendRow, Upsert
  <1>6. ReadsPrompt
    BY PromptReadsPrompt
  <1>7. ReadsLists(y) /\ (~Touches(r) => Rows(watched, y) = Rows(watched, d))
    BY <1>2, <1>5, <1>6, ApplyKeeps DEF Writes
  <1>8. ReadsLists(x) /\ (~Touches(p) => Rows(watched, x) = Rows(watched, y))
    BY <1>3, <1>5, <1>6, <1>7, ApplyKeeps DEF Writes
  <1>9. QED
    BY <1>1, <1>4, <1>7, <1>8

-----------------------------------------------------------------------------
(* The answers in the cache.                                               *)

\* What can be left of the effects of the event e.
StreamStage(e, todo) ==
  LET s == handleTreasuryStreamEvent(e) IN StreamEvent(e) /\ todo \in {s, Tail(s), Tail(Tail(s))}
InEvent(e, todo) == todo = Effects(e) \/ StreamStage(e, todo) \/ (todo # << >> /\ Tended(todo))
Orderly(w) ==
  /\ IsBatch(w)
  /\ w.pc = "run" => /\ w.evs \subseteq DOMAIN chain
                     /\ w.evs = {} => w.todo = << >>
                     /\ w.evs # {} => InEvent(chain[Min(w.evs)], w.todo)
  /\ w.pc = "post" => IdleList(w.todo)
  /\ w.pc \notin {"run", "post"} => w.todo = << >>
\* The batch w will drop the cached answer before its event is done.
Pending(w) == w.pc = "run" /\ w.evs # {} /\ w.todo # << >> /\ Tended(w.todo) /\ HasDrop(w.todo)

IsEntry(k) == k = [valid |-> k.valid, data |-> k.data, raced |-> k.raced]
IsQuery(r) == r = [pc |-> r.pc, data |-> r.data, raced |-> r.raced]
\* The cached answer k and the answer r of a query under way are those of the tables d,
\* unless they raced with a write or a batch of B is about to drop k.
Fresh(d, B, k, r) ==
  /\ ReadsLists(d)
  /\ \A b \in Slots : Orderly(B[b])
  /\ k.valid /\ ~k.raced => k.data = Rows(watched, d) \/ \E b \in Slots : Pending(B[b])
  /\ r.pc = "store" /\ ~r.raced => r.data = Rows(watched, d)
FreshInv ==
  /\ scenario \in Scenarios
  /\ batch = [b \in Slots |-> batch[b]] /\ IsEntry(cache) /\ IsQuery(request)
  /\ PromptRoute => Fresh(db, batch, cache, request)

(* The route and the chain do not change.                                  *)
LEMMA SameRoute ==
    ASSUME UNCHANGED scenario
    PROVE  /\ watched' = watched /\ chain' = chain
           /\ PromptRoute' <=> PromptRoute
           /\ \A s : HasDrop(s)' <=> HasDrop(s)
           /\ \A s : Tended(s)' <=> Tended(s)
  <1>1. watched' = watched /\ chain' = chain
    BY DEF watched, chain
  <1>2. PromptRoute' <=> PromptRoute
    BY <1>1 DEF PromptRoute
  <1>3. ASSUME NEW f PROVE (Drops(f)' <=> Drops(f)) /\ (Touches(f)' <=> Touches(f))
    BY <1>1 DEF Drops, Touches
  <1>4. ASSUME NEW s PROVE HasDrop(s)' <=> HasDrop(s)
    BY <1>3 DEF HasDrop
  <1>5. ASSUME NEW s PROVE Tended(s)' <=> Tended(s)
    BY <1>3 DEF Tended
  <1>6. QED
    BY <1>1, <1>2, <1>4, <1>5

(* So neither does what is said of the tables and the batches.              *)
LEMMA FreshLater ==
    ASSUME UNCHANGED scenario, Fresh(db', batch', cache', request')
    PROVE  Fresh(db, batch, cache, request)'
  <1>1. PICK d, B, k, r : d = db' /\ B = batch' /\ k = cache' /\ r = request'
    OBVIOUS
  <1>2. watched' = watched /\ chain' = chain
    BY SameRoute
  <1>3. ASSUME NEW w PROVE (Orderly(w)' <=> Orderly(w)) /\ (Pending(w)' <=> Pending(w))
    BY <1>2, SameRoute DEF Orderly, InEvent, Pending
  <1>4. (ReadsLists(d)' <=> ReadsLists(d))
    BY <1>2 DEF ReadsLists
  <1>5. Fresh(d, B, k, r)' <=> Fresh(d, B, k, r)
    BY <1>2, <1>3, <1>4 DEF Fresh
  <1>6. QED
    BY <1>1, <1>5

-----------------------------------------------------------------------------
(* What is left of a handler.                                              *)

\* t is what is left of s after its first n effects.
Ends(s, n, t) ==
  \E S : /\ s \in Seq(S) /\ t \in Seq(S) /\ n \in 0..Len(s) /\ Len(t) = Len(s) - n
         /\ \A i \in 1..Len(t) : t[i] = s[n + i]

(* The tail of a list.                                                     *)
LEMMA TailEnds == ASSUME NEW s, IsList(s), s # << >> PROVE Ends(s, 1, Tail(s))
  <1>1. PICK S : s \in Seq(S)
    BY DEF IsList
  <1>2. /\ Tail(s) \in Seq(S) /\ 1 \in 0..Len(s) /\ Len(Tail(s)) = Len(s) - 1
        /\ \A i \in 1..Len(Tail(s)) : Tail(s)[i] = s[1 + i]
    BY <1>1
  <1>3. QED
    BY <1>1, <1>2 DEF Ends

(* The end of a list.                                                      *)
LEMMA SubEnds == ASSUME NEW s, IsList(s), NEW n \in 0..Len(s) PROVE Ends(s, n, SubSeq(s, n + 1, Len(s)))
  <1>1. PICK S : s \in Seq(S)
    BY DEF IsList
  <1>2. PICK m \in Nat : m = Len(s)
    BY <1>1
  <1>3. PICK t : t = SubSeq(s, n + 1, m)
    OBVIOUS
  <1>4. n \in 0..m /\ n + 1 \in Int /\ m \in Int
    BY <1>2
  <1>5. \A i \in n + 1..m : s[i] \in S
    BY <1>1, <1>2, <1>4
  <1>6. /\ t \in Seq(S)
        /\ Len(t) = IF n + 1 <= m THEN m - (n + 1) + 1 ELSE 0
        /\ \A i \in 1..m - (n + 1) + 1 : t[i] = s[(n + 1) + i - 1]
    BY <1>3, <1>4, <1>5, SubSeqProperties
  <1>7. Len(t) = m - n
    BY <1>4, <1>6
  <1>8. \A i \in 1..Len(t) : t[i] = s[n + i]
    <2>1. ASSUME NEW i \in 1..Len(t) PROVE t[i] = s[n + i]
      <3>1. i \in 1..m - (n + 1) + 1 /\ (n + 1) + i - 1 = n + i
        BY <1>4, <1>7
      <3>2. QED
        BY <1>6, <3>1
    <2>2. QED
      BY <2>1
  <1>9. QED
    BY <1>1, <1>2, <1>3, <1>6, <1>7, <1>8 DEF Ends

(* What is left of a tended list is tended; and drops the answer if s does after n. *)
LEMMA TendedEnds ==
    ASSUME NEW s, NEW n, NEW t, Ends(s, n, t), Tended(s)
    PROVE  Tended(t) /\ ((\E j \in n + 1..Len(s) : Drops(s[j])) => HasDrop(t))
  <1>1. PICK S : /\ s \in Seq(S) /\ t \in Seq(S) /\ n \in 0..Len(s) /\ Len(t) = Len(s) - n
                 /\ \A i \in 1..Len(t) : t[i] = s[n + i]
    BY DEF Ends
  <1>2. PICK m \in Nat, l \in Nat : m = Len(s) /\ l = Len(t)
    BY <1>1
  <1>3. n \in 0..m /\ l = m - n /\ \A i \in 1..l : t[i] = s[n + i]
    BY <1>1, <1>2
  <1>4. PICK T : s \in Seq(T) /\ \A f \in T : Fine(f, Prompt)
    BY DEF Tended, Does
  <1>5. \A i \in 1..l : t[i] \in T
    <2>1. ASSUME NEW i \in 1..l PROVE t[i] \in T
      <3>1. n + i \in 1..m
        BY <1>3
      <3>2. s[n + i] \in T
        BY <1>2, <1>4, <3>1
      <3>3. QED
        BY <1>3, <3>2
    <2>2. QED
      BY <2>1
  <1>6. t \in Seq(T)
    <2>1. t = [i \in 1..l |-> t[i]]
      BY <1>1, <1>2
    <2>2. QED
      BY <1>5, <2>1
  <1>7. Does(t, Prompt)
    BY <1>4, <1>6, DoesOf
  <1>8. ASSUME NEW k \in 0..l, \E j \in n + k + 1..m : Drops(s[j]) PROVE \E i \in k + 1..l : Drops(t[i])
    <2>1. PICK j \in n + k + 1..m : Drops(s[j])
      BY <1>8
    <2>2. PICK i : i = j - n
      OBVIOUS
    <2>3. i \in k + 1..l /\ n + i = j /\ i \in 1..l
      BY <1>3, <2>2
    <2>4. QED
      BY <1>3, <2>1, <2>3
  <1>9. ASSUME NEW k \in 1..l, Touches(t[k]) PROVE \E i \in k + 1..l : Drops(t[i])
    <2>1. Touches(s[n + k]) /\ n + k \in 1..m
      BY <1>3, <1>9
    <2>2. \E j \in n + k + 1..m : Drops(s[j])
      BY <1>2, <2>1 DEF Tended
    <2>3. k \in 0..l
      OBVIOUS
    <2>4. QED
      BY <1>8, <2>2, <2>3
  <1>10. ASSUME \E j \in n + 1..m : Drops(s[j]) PROVE HasDrop(t)
    <2>1. 0 \in 0..l /\ n + 0 + 1 = n + 1
      BY <1>3
    <2>2. \E i \in 0 + 1..l : Drops(t[i])
      BY <1>8, <1>10, <2>1
    <2>3. DOMAIN t = 1..l
      BY <1>1, <1>2
    <2>4. QED
      BY <2>2, <2>3 DEF HasDrop
  <1>11. Tended(t)
    BY <1>2, <1>7, <1>9 DEF Tended
  <1>12. QED
    BY <1>2, <1>10, <1>11

(* The first effect of a tended list, and the rest.                         *)
LEMMA TendedRest ==
    ASSUME NEW s, Tended(s), s # << >>
    PROVE  /\ IsList(s) /\ Fine(Head(s), Prompt) /\ Tended(Tail(s))
           /\ Touches(Head(s)) => HasDrop(Tail(s))
           /\ HasDrop(s) /\ ~Drops(Head(s)) => HasDrop(Tail(s))
  <1>1. PICK T : s \in Seq(T) /\ \A f \in T : Fine(f, Prompt)
    BY DEF Tended, Does
  <1>2. IsList(s)
    BY <1>1 DEF IsList
  <1>3. Ends(s, 1, Tail(s))
    BY <1>2, TailEnds
  <1>4. Tended(Tail(s)) /\ ((\E j \in 1 + 1..Len(s) : Drops(s[j])) => HasDrop(Tail(s)))
    BY <1>3, TendedEnds
  <1>5. PICK m \in Nat : m = Len(s)
    BY <1>1
  <1>6. Head(s) = s[1] /\ s[1] \in T /\ 1 \in 1..m /\ DOMAIN s = 1..m
    BY <1>1, <1>5
  <1>7. ASSUME Touches(Head(s)) PROVE HasDrop(Tail(s))
    BY <1>4, <1>5, <1>6, <1>7 DEF Tended
  <1>8. ASSUME HasDrop(s), ~Drops(Head(s)) PROVE HasDrop(Tail(s))
    <2>1. PICK j \in 1..m : Drops(s[j])
      BY <1>6, <1>8 DEF HasDrop
    <2>2. j # 1
      BY <1>6, <1>8, <2>1
    <2>3. j \in 1 + 1..Len(s)
      BY <1>5, <2>2
    <2>4. QED
      BY <1>4, <2>1, <2>3
  <1>9. QED
    BY <1>1, <1>2, <1>4, <1>6, <1>7, <1>8

(* What is left of a list after a turn that drops nothing drops what it did. *)
LEMMA TendedSub ==
    ASSUME NEW s, Tended(s), NEW n \in 0..Len(s), NEW t, t = SubSeq(s, n + 1, Len(s))
    PROVE  Tended(t) /\ (HasDrop(s) /\ (\A i \in 1..n : ~Drops(s[i])) => HasDrop(t))
  <1>1. PICK T : s \in Seq(T)
    BY DEF Tended, Does
  <1>2. PICK m \in Nat : m = Len(s)
    BY <1>1
  <1>3. Ends(s, n, t)
    BY <1>1, SubEnds DEF IsList
  <1>4. ASSUME HasDrop(s), \A i \in 1..n : ~Drops(s[i]) PROVE HasDrop(t)
    <2>1. PICK j \in 1..m : Drops(s[j])
      BY <1>1, <1>2, <1>4 DEF HasDrop
    <2>2. ~(j \in 1..n)
      BY <1>4, <2>1
    <2>3. j \in n + 1..Len(s)
      BY <1>2, <2>2
    <2>4. QED
      BY <1>3, <2>1, <2>3, TendedEnds
  <1>5. QED
    BY <1>3, <1>4, TendedEnds

(* What is left of the effects of the snapshots.                            *)
LEMMA IdleRest ==
    ASSUME NEW s, IdleList(s)
    PROVE  /\ IsList(s)
           /\ \A n \in Nat : IdleList(SubSeq(s, n + 1, Len(s)))
           /\ s # << >> => Idle(Head(s)) /\ \A d : IdleList(Rest(Head(s), s, d))
  <1>1. PICK T : s \in Seq(T) /\ \A f \in T : Idle(f)
    BY DEF IdleList
  <1>2. PICK m \in Nat : m = Len(s)
    BY <1>1
  <1>3. ASSUME NEW n \in Nat PROVE IdleList(SubSeq(s, n + 1, Len(s)))
    <2>1. \A i \in n + 1..m : s[i] \in T
      BY <1>1, <1>2
    <2>2. SubSeq(s, n + 1, m) \in Seq(T)
      BY <1>1, <1>2, <2>1, SubSeqProperties
    <2>3. QED
      BY <1>1, <1>2, <2>2 DEF IdleList
  <1>4. ASSUME s # << >> PROVE Idle(Head(s)) /\ \A d : IdleList(Rest(Head(s), s, d))
    <2>1. PICK f : f = Head(s)
      OBVIOUS
    <2>2. f \in T /\ Tail(s) \in Seq(T)
      BY <1>1, <1>4, <2>1
    <2>3. Idle(f) /\ IdleList(Tail(s))
      BY <1>1, <2>2 DEF IdleList
    <2>4. ASSUME f.op = "due" PROVE IdleList(SubSeq(s, f.skip + 2, Len(s)))
      <3>1. PICK n \in Nat : n = f.skip
        BY <2>3, <2>4 DEF Idle, Plain
      <3>2. f.skip + 2 = (n + 1) + 1 /\ n + 1 \in Nat
        BY <3>1
      <3>3. QED
        BY <1>3, <3>2
    <2>5. f.op \notin {"streamExists", "persistStream"}
      BY <2>3 DEF Idle, Plain
    <2>6. \A d : IdleList(Rest(f, s, d))
      BY <2>3, <2>4, <2>5 DEF Rest
    <2>7. QED
      BY <2>1, <2>3, <2>6
  <1>5. QED
    BY <1>1, <1>3, <1>4 DEF IsList

(* A turn is the beginning of the effects.                                 *)
LEMMA TurnBegins ==
    ASSUME NEW todo, IsList(todo), NEW turn, turn = Turn(todo), turn # << >>
    PROVE  /\ Len(turn) \in 0..Len(todo) /\ DOMAIN turn = 1..Len(turn)
           /\ \A i \in 1..Len(turn) : turn[i] = todo[i]
  <1>1. PICK T : todo \in Seq(T)
    BY DEF IsList
  <1>2. PICK n \in Nat : n = Len(todo)
    BY <1>1
  <1>3. PICK A : A = {i \in 1..n + 1 : i > n \/ ~Synchronous(todo[i])}
    OBVIOUS
  <1>4. A \in SUBSET Nat /\ n + 1 \in A
    BY <1>2, <1>3
  <1>5. PICK m \in A : m = Min(A)
    BY <1>4, LeastPlace
  <1>6. PICK k : k = m - 1
    OBVIOUS
  <1>7. turn = SubSeq(todo, 1, k)
    BY <1>2, <1>3, <1>5, <1>6 DEF Turn
  <1>8. k \in 0..n
    BY <1>2, <1>3, <1>5, <1>6
  <1>9. \A i \in 1..k : todo[i] \in T
    BY <1>1, <1>2, <1>8
  <1>10. /\ turn \in Seq(T)
         /\ Len(turn) = IF 1 <= k THEN k - 1 + 1 ELSE 0
         /\ \A i \in 1..k - 1 + 1 : turn[i] = todo[1 + i - 1]
    BY <1>7, <1>8, <1>9, SubSeqProperties
  <1>11. Len(turn) = k
    BY <1>8, <1>10
  <1>12. \A i \in 1..k : turn[i] = todo[i]
    <2>1. ASSUME NEW i \in 1..k PROVE turn[i] = todo[i]
      <3>1. i \in 1..k - 1 + 1 /\ 1 + i - 1 = i
        BY <1>8
      <3>2. QED
        BY <1>10, <3>1
    <2>2. QED
      BY <2>1
  <1>13. QED
    BY <1>2, <1>8, <1>10, <1>11, <1>12

-----------------------------------------------------------------------------
(* A batch goes through its effects.                                       *)

(* The event in hand is done: the next one begins.                         *)
LEMMA OrderlyNext ==
    ASSUME NEW v, IsBatch(v), v.pc = "run", v.evs \subseteq DOMAIN chain, v.evs # {}
    PROVE  Orderly(Advance(v, << >>))
  <1>1. PICK j, E, l : j = Min(v.evs) /\ E = v.evs \ {j} /\ l = Max({v.latest, chain[j].ledger})
    OBVIOUS
  <1>2. PICK n : n = [pc |-> "run", start |-> v.start, latest |-> l, evs |-> E, todo |-> FirstEffects(E), reg |-> 0]
    OBVIOUS
  <1>3. Advance(v, << >>) = n
    <2>1. Advance(v, << >>) = [v EXCEPT !.latest = l, !.evs = E, !.reg = 0, !.todo = FirstEffects(E)]
      BY <1>1 DEF Advance
    <2>2. PICK a, b, o, q, r : v = [pc |-> "run", start |-> a, latest |-> b, evs |-> o, todo |-> q, reg |-> r]
      BY DEF IsBatch
    <2>3. v.start = a
      BY <2>2
    <2>4. QED
      BY <1>2, <2>1, <2>2, <2>3
  <1>4. n.pc = "run" /\ n.evs = E /\ n.todo = FirstEffects(E)
    BY <1>2
  <1>5. IsBatch(n)
    BY <1>2 DEF IsBatch
  <1>6. E \subseteq DOMAIN chain
    BY <1>1
  <1>7. E = {} => FirstEffects(E) = << >>
    BY DEF FirstEffects
  <1>8. E # {} => InEvent(chain[Min(E)], FirstEffects(E))
    BY DEF FirstEffects, InEvent
  <1>9. QED
    BY <1>3, <1>4, <1>5, <1>6, <1>7, <1>8 DEF Orderly

(* Its handler goes on.                                                    *)
LEMMA OrderlyOn ==
    ASSUME NEW v, IsBatch(v), v.pc = "run", v.evs \subseteq DOMAIN chain, v.evs # {},
           NEW todo, todo # << >>, InEvent(chain[Min(v.evs)], todo)
    PROVE  /\ Orderly(Advance(v, todo))
           /\ Tended(todo) /\ HasDrop(todo) => Pending(Advance(v, todo))
  <1>1. PICK n : n = [pc |-> "run", start |-> v.start, latest |-> v.latest, evs |-> v.evs, todo |-> todo, reg |-> v.reg]
    OBVIOUS
  <1>2. Advance(v, todo) = n
    BY <1>1 DEF Advance, IsBatch
  <1>3. n.pc = "run" /\ n.evs = v.evs /\ n.todo = todo
    BY <1>1
  <1>4. IsBatch(n)
    BY <1>1 DEF IsBatch
  <1>5. QED
    BY <1>2, <1>3, <1>4 DEF Orderly, Pending

(* The snapshots go on.                                                    *)
LEMMA OrderlyPost ==
    ASSUME NEW v, IsBatch(v), v.pc = "post", NEW todo, IdleList(todo)
    PROVE  Orderly(Advance(v, todo))
  <1>1. PICK n : n = [pc |-> "post", start |-> v.start, latest |-> v.latest, evs |-> v.evs, todo |-> todo, reg |-> v.reg]
    OBVIOUS
  <1>2. Advance(v, todo) = n
    BY <1>1 DEF Advance, IsBatch
  <1>3. n.pc = "post" /\ n.todo = todo
    BY <1>1
  <1>4. IsBatch(n)
    BY <1>1 DEF IsBatch
  <1>5. QED
    BY <1>2, <1>3, <1>4 DEF Orderly

(* An effect leaves a value in the register of its batch.                   *)
LEMMA RegisterSet ==
    ASSUME NEW w, IsBatch(w), NEW reg
    PROVE  LET v == [w EXCEPT !.reg = reg]
           IN  IsBatch(v) /\ v.pc = w.pc /\ v.evs = w.evs
  <1>1. PICK p, a, b, o, q, r : w = [pc |-> p, start |-> a, latest |-> b, evs |-> o, todo |-> q, reg |-> r]
    BY DEF IsBatch
  <1>2. PICK v : v = [w EXCEPT !.reg = reg]
    OBVIOUS
  <1>3. v = [pc |-> p, start |-> a, latest |-> b, evs |-> o, todo |-> q, reg |-> reg]
    BY <1>1, <1>2
  <1>4. v.pc = p /\ v.evs = o /\ IsBatch(v)
    BY <1>3 DEF IsBatch
  <1>5. w.pc = p /\ w.evs = o
    BY <1>1
  <1>6. QED
    BY <1>2, <1>4, <1>5

(* Nothing is left to drop anything.                                       *)
LEMMA NoDrop == ~HasDrop(<< >>)
  BY DEF HasDrop

(* The first effect of an event.                                           *)
LEMMA LogFirst ==
    ASSUME NEW e, ListsSplits(e), NEW f, f = Head(Effects(e))
    PROVE  f.op = "insert" /\ f.tbl = "event_log" /\ Effects(e) # << >> /\ Tail(Effects(e)) = Handler(e)
  <1>1. f = logToEventLog(e)[1] /\ Effects(e) # << >> /\ Tail(Effects(e)) = Handler(e)
    BY EffectsStages
  <1>2. f.op = "insert" /\ f.tbl = "event_log"
    BY <1>1 DEF logToEventLog, Insert
  <1>3. QED
    BY <1>1, <1>2

(* Before the log entry, and inside the handler of a stream's event, nothing is tended. *)
LEMMA NotTended ==
    ASSUME NEW e, ListsSplits(e), NEW todo, todo # << >>, todo = Effects(e) \/ StreamStage(e, todo)
    PROVE  ~Tended(todo) /\ ~Synchronous(Head(todo))
  <1>1. ~Plain(Head(todo)) /\ ~Synchronous(Head(todo))
    <2>1. CASE todo = Effects(e)
      <3>1. PICK f : f = Head(todo)
        OBVIOUS
      <3>2. f.op = "insert" /\ f.tbl = "event_log"
        BY <2>1, <3>1, LogFirst
      <3>3. QED
        BY <3>1, <3>2 DEF Plain, Reserved, Writes, Synchronous
    <2>2. CASE StreamStage(e, todo)
      <3>1. Head(todo).op \in {"streamExists", "readStream", "persistStream"}
        BY <2>2, StreamOps DEF StreamStage
      <3>2. QED
        BY <3>1 DEF Plain, Synchronous
    <2>3. QED
      BY <2>1, <2>2
  <1>2. QED
    BY <1>1, TendedRest DEF Fine

\* What a statement owes the cached answer: the watched rows stay, or the batch, now n, will
\* drop the answer; and so it does if it was going to.
Owed(d, x, w, n) ==
  /\ ReadsLists(x) /\ Orderly(n)
  /\ Rows(watched, x) = Rows(watched, d) \/ Pending(n)
  /\ Pending(w) => Pending(n)

(* The log entry.                                                          *)
LEMMA OwedLog ==
    ASSUME PromptRoute, NEW e, ListsSplits(e), NEW d, ReadsLists(d), NEW w, NEW reg,
           w.todo = Effects(e), w.pc = "run", NEW v, IsBatch(v), v.pc = "run", v.evs \subseteq DOMAIN chain, v.evs # {},
           e = chain[Min(v.evs)], NEW f, f = Head(w.todo)
    PROVE  Owed(d, RunEffect(f, d, reg), w, Advance(v, Rest(f, w.todo, d)))
  <1>1. f.op = "insert" /\ f.tbl = "event_log" /\ w.todo # << >> /\ Tail(w.todo) = Handler(e)
    BY LogFirst
  <1>2. PICK x, n, h : x = RunEffect(f, d, reg) /\ h = Rest(f, w.todo, d) /\ n = Advance(v, h)
    OBVIOUS
  <1>3. x = Apply(f, d, reg) /\ h = Handler(e)
    BY <1>1, <1>2 DEF RunEffect, Rest
  <1>4. ReadsPrompt
    BY PromptReadsPrompt
  <1>5. ~Touches(f)
    BY <1>1, <1>4 DEF Touches, ReadsPrompt, Prompt
  <1>6. ReadsLists(x) /\ Rows(watched, x) = Rows(watched, d)
    BY <1>1, <1>3, <1>4, <1>5, ApplyKeeps DEF Writes
  <1>7. ~Pending(w)
    BY <1>1, NotTended DEF Pending
  <1>8. CASE h = << >>
    BY <1>2, <1>6, <1>7, <1>8, OrderlyNext DEF Owed
  <1>9. CASE h # << >>
    <2>1. InEvent(e, h)
      <3>1. CASE StreamEvent(e)
        BY <1>3, <3>1, StreamHandler DEF InEvent, StreamStage
      <3>2. CASE ~StreamEvent(e)
        BY <1>3, <1>9, <3>2, TendedHandler DEF InEvent
      <3>3. QED
        BY <3>1, <3>2
    <2>2. Orderly(n)
      BY <1>2, <1>9, <2>1, OrderlyOn
    <2>3. QED
      BY <1>2, <1>6, <1>7, <2>2 DEF Owed
  <1>10. QED
    BY <1>8, <1>9

(* The statements of a stream's event.                                     *)
LEMMA OwedStream ==
    ASSUME PromptRoute, NEW e, ListsSplits(e), NEW d, ReadsLists(d), NEW w, NEW reg,
           StreamStage(e, w.todo), w.todo # << >>, NEW v, IsBatch(v), v.pc = "run", v.evs \subseteq DOMAIN chain,
           v.evs # {}, e = chain[Min(v.evs)], NEW f, f = Head(w.todo)
    PROVE  Owed(d, RunEffect(f, d, reg), w, Advance(v, Rest(f, w.todo, d)))
  <1>1. PICK s : s = handleTreasuryStreamEvent(e)
    OBVIOUS
  <1>2. PICK x, n, h : x = RunEffect(f, d, reg) /\ h = Rest(f, w.todo, d) /\ n = Advance(v, h)
    OBVIOUS
  <1>3. StreamEvent(e) /\ w.todo \in {s, Tail(s), Tail(Tail(s))}
    BY <1>1 DEF StreamStage
  <1>4. /\ s # << >> /\ Tail(s) # << >> /\ Tail(Tail(s)) # << >>
        /\ Tail(Tail(Tail(s))) = StreamTail(e) /\ StreamTail(e) # << >> /\ Does(StreamTail(e), {})
    BY <1>1, StreamStages
  <1>5. Head(s).op = "streamExists" /\ Head(Tail(s)).op = "readStream" /\ Head(Tail(Tail(s))).op = "persistStream"
    BY <1>1, StreamOps
  <1>6. ~Pending(w)
    BY NotTended DEF Pending
  <1>7. Orderly(Advance(v, << >>))
    BY OrderlyNext
  <1>8. CASE w.todo = s \/ w.todo = Tail(s)
    <2>1. f.op \in {"streamExists", "readStream"}
      BY <1>5, <1>8
    <2>2. x = d
      BY <1>2, <2>1, ApplyNothing DEF RunEffect, Writes
    <2>3. h = << >> \/ h = Tail(w.todo)
      BY <1>2, <2>1 DEF Rest
    <2>4. InEvent(e, Tail(w.todo)) /\ Tail(w.todo) # << >>
      BY <1>1, <1>3, <1>4, <1>8 DEF InEvent, StreamStage
    <2>5. Orderly(n)
      BY <1>2, <1>7, <2>3, <2>4, OrderlyOn
    <2>6. QED
      BY <1>2, <1>6, <2>2, <2>5 DEF Owed
  <1>9. CASE w.todo = Tail(Tail(s))
    <2>1. f.op = "persistStream" /\ f = [op |-> "persistStream", id |-> e.id, stream |-> e.d.stream, ledger |-> e.ledger]
      BY <1>1, <1>5, <1>9, StreamStages
    <2>2. x = persistTreasuryStreamEvent(d, f, reg) /\ f.stream = e.d.stream
      <3>1. x = persistTreasuryStreamEvent(d, f, reg)
        BY <1>2, <2>1 DEF RunEffect
      <3>2. f.stream = e.d.stream
        BY <2>1
      <3>3. QED
        BY <3>1, <3>2
    <2>3. /\ ReadsLists(x)
          /\ ~Touches(ReceiptOf(f)) /\ ~Touches(ProjectionOf(f, reg)) => Rows(watched, x) = Rows(watched, d)
      BY <2>2, PersistKeeps
    <2>4. CASE treasuryStreamEventExists(d, f.id)
      <3>1. x = d
        BY <2>2, <2>4 DEF persistTreasuryStreamEvent
      <3>2. h = << >>
        BY <1>2, <2>1, <2>4 DEF Rest
      <3>3. QED
        BY <1>2, <1>6, <1>7, <3>1, <3>2 DEF Owed
    <2>5. CASE ~treasuryStreamEventExists(d, f.id)
      <3>1. h = StreamTail(e)
        BY <1>2, <1>4, <1>9, <2>1, <2>5 DEF Rest
      <3>2. Tended(StreamTail(e))
        BY <1>4, PromptReadsPrompt, TendedQuiet
      <3>3. h # << >> /\ InEvent(e, h)
        BY <1>4, <3>1, <3>2 DEF InEvent
      <3>4. Orderly(n) /\ (HasDrop(StreamTail(e)) => Pending(n))
        BY <1>2, <3>1, <3>2, <3>3, OrderlyOn
      <3>5. Touches(ReceiptOf(f)) \/ Touches(ProjectionOf(f, reg)) => Pending(n)
        BY <2>2, <3>4, StreamDrops
      <3>6. QED
        BY <1>2, <1>6, <2>3, <3>4, <3>5 DEF Owed
    <2>6. QED
      BY <2>4, <2>5
  <1>10. QED
    BY <1>3, <1>8, <1>9

(* The statements of a tended handler.                                     *)
LEMMA OwedTended ==
    ASSUME PromptRoute, NEW d, ReadsLists(d), NEW w, NEW reg, Tended(w.todo), w.todo # << >>,
           NEW v, IsBatch(v), v.pc = "run", v.evs \subseteq DOMAIN chain, v.evs # {},
           NEW f, f = Head(w.todo), ~Synchronous(f)
    PROVE  Owed(d, RunEffect(f, d, reg), w, Advance(v, Rest(f, w.todo, d)))
  <1>1. /\ Fine(f, Prompt) /\ Tended(Tail(w.todo)) /\ (Touches(f) => HasDrop(Tail(w.todo)))
        /\ HasDrop(w.todo) /\ ~Drops(f) => HasDrop(Tail(w.todo))
    BY TendedRest
  <1>2. PICK x, n, h : x = RunEffect(f, d, reg) /\ h = Rest(f, w.todo, d) /\ n = Advance(v, h)
    OBVIOUS
  <1>3. h = Tail(w.todo)
    BY <1>1, <1>2 DEF Rest, Fine, Plain
  <1>4. ~Drops(f)
    BY DEF Drops, Synchronous
  <1>5. ReadsPrompt
    BY PromptReadsPrompt
  <1>6. ReadsLists(x) /\ (~Touches(f) => Rows(watched, x) = Rows(watched, d))
    BY <1>1, <1>2, <1>5, EffectKeeps
  <1>7. CASE h = << >>
    <2>1. ~HasDrop(h)
      BY <1>7, NoDrop
    <2>2. ~Pending(w) /\ ~Touches(f)
      BY <1>1, <1>3, <1>4, <2>1 DEF Pending
    <2>3. Orderly(n)
      BY <1>2, <1>7, OrderlyNext
    <2>4. QED
      BY <1>2, <1>6, <2>2, <2>3 DEF Owed
  <1>8. CASE h # << >>
    <2>1. InEvent(chain[Min(v.evs)], h)
      BY <1>1, <1>3, <1>8 DEF InEvent
    <2>2. Orderly(n) /\ (HasDrop(h) => Pending(n))
      BY <1>1, <1>2, <1>3, <1>8, <2>1, OrderlyOn
    <2>3. (Touches(f) => Pending(n)) /\ (Pending(w) => Pending(n))
      BY <1>1, <1>3, <1>4, <2>2 DEF Pending
    <2>4. QED
      BY <1>2, <1>6, <2>2, <2>3 DEF Owed
  <1>9. QED
    BY <1>7, <1>8

(* A statement of a batch.                                                 *)
LEMMA OwedStatement ==
    ASSUME PromptRoute, ChainOk(chain), NEW d, ReadsLists(d), NEW w, Orderly(w), w.todo # << >>,
           NEW f, f = Head(w.todo), ~Synchronous(f), NEW reg
    PROVE  Owed(d, RunEffect(f, d, w.reg), w, Advance([w EXCEPT !.reg = reg], Rest(f, w.todo, d)))
  <1>1. PICK v : v = [w EXCEPT !.reg = reg]
    OBVIOUS
  <1>2. IsBatch(v) /\ v.pc = w.pc /\ v.evs = w.evs
    BY <1>1, RegisterSet DEF Orderly
  <1>3. w.pc \in {"run", "post"}
    BY DEF Orderly
  <1>4. CASE w.pc = "run"
    <2>1. w.evs \subseteq DOMAIN chain /\ w.evs # {} /\ InEvent(chain[Min(w.evs)], w.todo)
      BY <1>4 DEF Orderly
    <2>2. PICK e : e = chain[Min(w.evs)]
      OBVIOUS
    <2>3. ListsSplits(e)
      BY <2>1, <2>2, LeastEvent DEF ChainOk
    <2>4. CASE w.todo = Effects(e)
      BY <1>1, <1>2, <1>4, <2>1, <2>2, <2>3, <2>4, OwedLog
    <2>5. CASE StreamStage(e, w.todo)
      BY <1>1, <1>2, <1>4, <2>1, <2>2, <2>3, <2>5, OwedStream
    <2>6. CASE Tended(w.todo)
      BY <1>1, <1>2, <1>4, <2>1, <2>6, OwedTended
    <2>7. QED
      BY <2>1, <2>2, <2>4, <2>5, <2>6 DEF InEvent
  <1>5. CASE w.pc = "post"
    <2>1. IdleList(w.todo)
      BY <1>5 DEF Orderly
    <2>2. Idle(f) /\ IdleList(Rest(f, w.todo, d))
      BY <2>1, IdleRest
    <2>3. ReadsLists(RunEffect(f, d, w.reg)) /\ Rows(watched, RunEffect(f, d, w.reg)) = Rows(watched, d)
      BY <2>2, PromptReadsPrompt, EffectKeeps
    <2>4. Orderly(Advance(v, Rest(f, w.todo, d)))
      BY <1>2, <1>5, <2>2, OrderlyPost
    <2>5. ~Pending(w)
      BY <1>5 DEF Pending
    <2>6. QED
      BY <1>1, <2>3, <2>4, <2>5 DEF Owed
  <1>6. QED
    BY <1>3, <1>4, <1>5

(* A turn of invalidations and broadcasts.                                 *)
LEMMA OwedTurn ==
    ASSUME ChainOk(chain), NEW w, Orderly(w), NEW turn, turn = Turn(w.todo), turn # << >>,
           NEW todo, todo = SubSeq(w.todo, Len(turn) + 1, Len(w.todo))
    PROVE  /\ Orderly(Advance(w, todo))
           /\ Pending(w) /\ (\A i \in DOMAIN turn : ~Drops(turn[i])) => Pending(Advance(w, todo))
  <1>1. IsBatch(w)
    BY DEF Orderly
  <1>2. CASE w.pc = "run"
    <2>1. /\ w.evs \subseteq DOMAIN chain
          /\ w.evs = {} => w.todo = << >>
          /\ w.evs # {} => InEvent(chain[Min(w.evs)], w.todo)
      BY <1>2 DEF Orderly
    <2>2. PICK e : e = chain[Min(w.evs)]
      OBVIOUS
    <2>3. w.evs # {} => ListsSplits(e)
      BY <2>1, <2>2, LeastEvent DEF ChainOk
    <2>4. IsList(w.todo)
      <3>1. CASE w.evs = {}
        <4>1. PICK T : T = {}
          OBVIOUS
        <4>2. << >> \in Seq(T)
          OBVIOUS
        <4>3. QED
          BY <2>1, <3>1, <4>2 DEF IsList
      <3>2. CASE w.evs # {} /\ w.todo = Effects(e)
        BY <2>3, <3>2, EffectsStages
      <3>3. CASE StreamStage(e, w.todo)
        <4>1. PICK s : s = handleTreasuryStreamEvent(e)
          OBVIOUS
        <4>2. IsList(s) /\ s # << >> /\ Tail(s) # << >>
          BY <4>1, StreamStages
        <4>3. IsList(Tail(s)) /\ IsList(Tail(Tail(s)))
          BY <4>2, TailIsList
        <4>4. QED
          BY <3>3, <4>1, <4>2, <4>3 DEF StreamStage
      <3>4. CASE Tended(w.todo)
        BY <3>4 DEF Tended, Does, IsList
      <3>5. QED
        BY <2>1, <2>2, <3>1, <3>2, <3>3, <3>4 DEF InEvent
    <2>5. w.todo # << >> /\ Synchronous(Head(w.todo))
      BY <2>4, TurnFacts
    <2>6. w.evs # {} /\ Tended(w.todo)
      BY <2>1, <2>2, <2>3, <2>5, NotTended DEF InEvent
    <2>7. PICK k : k = Len(turn)
      OBVIOUS
    <2>8. k \in 0..Len(w.todo) /\ DOMAIN turn = 1..k /\ \A i \in 1..k : turn[i] = w.todo[i]
      BY <2>4, <2>7, TurnBegins
    <2>9. Tended(todo) /\ (HasDrop(w.todo) /\ (\A i \in 1..k : ~Drops(w.todo[i])) => HasDrop(todo))
      BY <2>6, <2>7, <2>8, TendedSub
    <2>10. Pending(w) /\ (\A i \in DOMAIN turn : ~Drops(turn[i])) => HasDrop(todo)
      BY <2>8, <2>9 DEF Pending
    <2>11. CASE todo = << >>
      <3>1. ~HasDrop(todo)
        BY <2>11, NoDrop
      <3>2. QED
        BY <1>1, <1>2, <2>1, <2>6, <2>10, <2>11, <3>1, OrderlyNext
    <2>12. CASE todo # << >>
      <3>1. InEvent(e, todo)
        BY <2>9, <2>12 DEF InEvent
      <3>2. QED
        BY <1>1, <1>2, <2>1, <2>2, <2>6, <2>9, <2>10, <2>12, <3>1, OrderlyOn
    <2>13. QED
      BY <2>11, <2>12
  <1>3. CASE w.pc = "post"
    <2>1. IsList(w.todo) /\ \A n \in Nat : IdleList(SubSeq(w.todo, n + 1, Len(w.todo)))
      BY <1>3, IdleRest DEF Orderly
    <2>2. Len(turn) \in Nat
      BY <2>1, TurnFacts
    <2>3. IdleList(todo)
      BY <2>1, <2>2
    <2>4. QED
      BY <1>1, <1>3, <2>3, OrderlyPost DEF Pending
  <1>4. CASE w.pc \notin {"run", "post"}
    <2>1. w.todo = << >>
      BY <1>4 DEF Orderly
    <2>2. PICK T : T = {}
      OBVIOUS
    <2>3. << >> \in Seq(T)
      OBVIOUS
    <2>4. IsList(w.todo)
      BY <2>1, <2>3 DEF IsList
    <2>5. QED
      BY <2>1, <2>4, TurnFacts
  <1>5. QED
    BY <1>2, <1>3, <1>4

-----------------------------------------------------------------------------
(* The answers stay fresh.                                                 *)

(* The bootstrap of the projection leaves the tables lists.                 *)
LEMMA BootReads ==
    ASSUME ChainOk(chain), ReadsPrompt, NEW d, ReadsLists(d)
    PROVE  ReadsLists(bootstrapTreasuryProjection(d))
  <1>1. PICK N \in Nat : \E order, g : Chained(g, N, d, order, tip, chain) /\ bootstrapTreasuryProjection(d) = g[N]
    BY BootChain DEF ChainOk
  <1>2. PICK order, g : Chained(g, N, d, order, tip, chain) /\ bootstrapTreasuryProjection(d) = g[N]
    BY <1>1
  <1> DEFINE I == {n \in Nat : n <= N => ReadsLists(g[n])}
  <1>3. 0 \in I
    BY <1>2 DEF Chained
  <1>4. ASSUME NEW n \in I PROVE n + 1 \in I
    <2>1. SUFFICES ASSUME n + 1 <= N PROVE ReadsLists(g[n + 1])
      OBVIOUS
    <2>2. ReadsLists(g[n])
      BY <2>1
    <2>3. n + 1 \in 0..N /\ n + 1 # 0 /\ (n + 1) - 1 = n
      BY <2>1
    <2>4. PICK v : v = Cardinality(Counted(chain, order[n + 1], tip))
      OBVIOUS
    <2>5. g[n + 1] = upsertStream(g[n], order[n + 1], v, tip)
      BY <1>2, <2>3, <2>4 DEF Chained
    <2>6. PICK f : f = Upsert("treasury_streams", {"stream"}, [stream |-> order[n + 1], version |-> v, ledger |-> tip],
                              [version |-> v], NoRef)
      OBVIOUS
    <2>7. g[n + 1] = Apply(f, g[n], 0)
      BY <2>5, <2>6 DEF upsertStream
    <2>8. f.op = "upsert"
      BY <2>6 DEF Upsert
    <2>9. QED
      BY <2>2, <2>7, <2>8, ApplyKeeps DEF Writes
  <1>5. I \in SUBSET Nat
    OBVIOUS
  <1> HIDE DEF I
  <1>6. I = Nat
    BY <1>3, <1>4, <1>5, Sums!Inductive
  <1>7. QED
    BY <1>2, <1>6 DEF I

(* What the invariant says of a state.                                      *)
LEMMA FreshFacts ==
    ASSUME FreshInv
    PROVE  /\ scenario \in Scenarios /\ ChainOk(chain)
           /\ batch = [b \in Slots |-> batch[b]] /\ IsEntry(cache) /\ IsQuery(request)
           /\ PromptRoute => Fresh(db, batch, cache, request)
  BY ChainFacts DEF FreshInv

(* What it takes to get it back.                                           *)
LEMMA FreshBack ==
    ASSUME FreshInv, UNCHANGED scenario, batch' = [b \in Slots |-> batch'[b]], IsEntry(cache'), IsQuery(request'),
           PromptRoute => Fresh(db', batch', cache', request')
    PROVE  FreshInv'
  <1>1. PromptRoute' <=> PromptRoute
    BY SameRoute
  <1>2. IsEntry(cache)' /\ IsQuery(request)'
    BY DEF IsEntry, IsQuery
  <1>3. PromptRoute' => Fresh(db, batch, cache, request)'
    BY <1>1, FreshLater
  <1>4. QED
    BY <1>2, <1>3 DEF FreshInv

(* Everything stays as it is but the phase, the cursors and the clock.      *)
LEMMA FreshSame == FreshInv /\ UNCHANGED <<scenario, db, batch, cache, request>> => FreshInv'
  BY FreshBack, FreshFacts

(* The answers stay while one batch moves on.                               *)
LEMMA FreshBatch ==
    ASSUME FreshInv, NEW b \in Slots, NEW n, batch' = [batch EXCEPT ![b] = n],
           UNCHANGED <<scenario, db, cache, request>>,
           PromptRoute => Orderly(n) /\ (Pending(batch[b]) => Pending(n))
    PROVE  FreshInv'
  <1>1. batch' = [a \in Slots |-> batch'[a]]
    BY FreshFacts, Zenon
  <1>2. \A a \in Slots : a # b => batch'[a] = batch[a]
    BY FreshFacts
  <1>3. batch'[b] = n
    BY FreshFacts
  <1>4. ASSUME PromptRoute PROVE Fresh(db', batch', cache', request')
    <2>1. Fresh(db, batch, cache, request)
      BY <1>4, FreshFacts
    <2>2. ASSUME NEW a \in Slots PROVE Orderly(batch'[a]) /\ (Pending(batch[a]) => Pending(batch'[a]))
      BY <1>2, <1>3, <1>4, <2>1 DEF Fresh
    <2>3. QED
      BY <2>1, <2>2 DEF Fresh
  <1>5. QED
    BY <1>1, <1>4, FreshBack, FreshFacts

(* No batch is in order, and about to drop nothing.                         *)
LEMMA OrderlyIdle == Orderly(NoBatch)
  BY DEF NoBatch, Orderly, IsBatch

(* A record of the cache, marked.                                          *)
LEMMA Marked ==
    /\ \A k, z : IsEntry(k) => [k EXCEPT !.raced = z] = [valid |-> k.valid, data |-> k.data, raced |-> z]
    /\ \A r, z : IsQuery(r) => [r EXCEPT !.raced = z] = [pc |-> r.pc, data |-> r.data, raced |-> z]
  <1>1. ASSUME NEW k, NEW z, IsEntry(k) PROVE [k EXCEPT !.raced = z] = [valid |-> k.valid, data |-> k.data, raced |-> z]
    <2>1. PICK a, c, e : k = [valid |-> a, data |-> c, raced |-> e]
      BY <1>1 DEF IsEntry
    <2>2. k.valid = a /\ k.data = c
      BY <2>1
    <2>3. [k EXCEPT !.raced = z] = [valid |-> a, data |-> c, raced |-> z]
      BY <2>1
    <2>4. QED
      BY <2>2, <2>3
  <1>2. ASSUME NEW r, NEW z, IsQuery(r) PROVE [r EXCEPT !.raced = z] = [pc |-> r.pc, data |-> r.data, raced |-> z]
    <2>1. PICK a, c, e : r = [pc |-> a, data |-> c, raced |-> e]
      BY <1>2 DEF IsQuery
    <2>2. r.pc = a /\ r.data = c
      BY <2>1
    <2>3. [r EXCEPT !.raced = z] = [pc |-> a, data |-> c, raced |-> z]
      BY <2>1
    <2>4. QED
      BY <2>2, <2>3
  <1>3. QED
    BY <1>1, <1>2

(* Marking the cached answer and the query under way excuses both.          *)
LEMMA FreshMarked ==
    ASSUME FreshInv, UNCHANGED scenario, batch' = [b \in Slots |-> batch'[b]],
           cache' = [cache EXCEPT !.raced = cache.valid], request' = [request EXCEPT !.raced = request.pc = "store"],
           PromptRoute => ReadsLists(db') /\ \A b \in Slots : Orderly(batch'[b])
    PROVE  FreshInv'
  <1>1. PICK k, r, z, y : k = cache' /\ r = request' /\ z = cache.valid /\ y = (request.pc = "store")
    OBVIOUS
  <1>2. k = [valid |-> cache.valid, data |-> cache.data, raced |-> z]
    BY <1>1, FreshFacts, Marked
  <1>3. r = [pc |-> request.pc, data |-> request.data, raced |-> y]
    BY <1>1, FreshFacts, Marked
  <1>4. k.valid = z /\ k.raced = z /\ IsEntry(k)
    BY <1>1, <1>2 DEF IsEntry
  <1>5. r.pc = request.pc /\ r.raced = y /\ IsQuery(r)
    BY <1>3 DEF IsQuery
  <1>6. IsEntry(cache') /\ IsQuery(request')
    BY <1>1, <1>4, <1>5
  <1>7. ASSUME PromptRoute PROVE Fresh(db', batch', cache', request')
    <2>1. k.valid => k.raced
      BY <1>4
    <2>2. r.pc = "store" => r.raced
      BY <1>1, <1>5
    <2>3. QED
      BY <1>1, <1>7, <2>1, <2>2 DEF Fresh
  <1>8. QED
    BY <1>6, <1>7, FreshBack

(* At first there is no answer.                                            *)
LEMMA FreshInit == Init => FreshInv
  <1> SUFFICES ASSUME Init PROVE FreshInv
    OBVIOUS
  <1>1. \A t : Table(db, t) = << >>
    BY DEF Init, EmptyDb, Table
  <1>2. IsList(<< >>)
    <2>1. PICK T : T = {}
      OBVIOUS
    <2>2. << >> \in Seq(T)
      OBVIOUS
    <2>3. QED
      BY <2>2 DEF IsList
  <1>3. ReadsLists(db)
    BY <1>1, <1>2 DEF ReadsLists
  <1>4. /\ scenario \in Scenarios /\ batch = [b \in Slots |-> NoBatch] /\ cache = NoEntry /\ request = NoRequest
    BY DEF Init
  <1>5. IsEntry(cache) /\ ~cache.valid /\ IsQuery(request) /\ request.pc # "store"
    BY <1>4 DEF NoEntry, NoRequest, IsEntry, IsQuery
  <1>6. QED
    BY <1>3, <1>4, <1>5, OrderlyIdle DEF FreshInv, Fresh

(* The projection is hydrated.                                             *)
LEMMA FreshBoot == FreshInv /\ Boot => FreshInv'
  <1> SUFFICES ASSUME FreshInv, Boot PROVE FreshInv'
    OBVIOUS
  <1>1. /\ db' = bootstrapTreasuryProjection(db) /\ UNCHANGED <<scenario, batch>>
        /\ cache' = [cache EXCEPT !.raced = cache.valid] /\ request' = [request EXCEPT !.raced = request.pc = "store"]
    BY DEF Boot, envVars
  <1>2. ASSUME PromptRoute PROVE ReadsLists(db') /\ \A b \in Slots : Orderly(batch'[b])
    <2>1. ReadsLists(db) /\ \A b \in Slots : Orderly(batch[b])
      BY <1>2, FreshFacts DEF Fresh
    <2>2. ReadsLists(db')
      BY <1>1, <1>2, <2>1, BootReads, PromptReadsPrompt, FreshFacts
    <2>3. QED
      BY <1>1, <2>1, <2>2
  <1>3. QED
    BY <1>1, <1>2, FreshMarked, FreshFacts

(* An exception or a fault ends a batch.                                    *)
LEMMA FreshAbort == ASSUME NEW b \in Slots PROVE FreshInv /\ Abort(b) => FreshInv'
  <1> SUFFICES ASSUME FreshInv, Abort(b) PROVE FreshInv'
    OBVIOUS
  <1>1. /\ batch' = [batch EXCEPT ![b] = NoBatch] /\ UNCHANGED <<scenario, db>>
        /\ cache' = [cache EXCEPT !.raced = cache.valid] /\ request' = [request EXCEPT !.raced = request.pc = "store"]
    BY DEF Abort, Ended, envVars
  <1>2. batch' = [a \in Slots |-> batch'[a]]
    BY <1>1, FreshFacts, Zenon
  <1>3. ASSUME PromptRoute PROVE ReadsLists(db') /\ \A a \in Slots : Orderly(batch'[a])
    <2>1. ReadsLists(db) /\ \A a \in Slots : Orderly(batch[a])
      BY <1>3, FreshFacts DEF Fresh
    <2>2. ASSUME NEW a \in Slots PROVE Orderly(batch'[a])
      BY <1>1, <2>1, OrderlyIdle, FreshFacts
    <2>3. QED
      BY <1>1, <2>1, <2>2
  <1>4. QED
    BY <1>1, <1>2, <1>3, FreshMarked

(* The process stops or crashes, and its cache with it.                     *)
LEMMA FreshReset == FreshInv /\ Reset /\ UNCHANGED <<scenario, db>> => FreshInv'
  <1> SUFFICES ASSUME FreshInv, Reset, UNCHANGED <<scenario, db>> PROVE FreshInv'
    OBVIOUS
  <1>1. batch' = [b \in Slots |-> NoBatch] /\ cache' = NoEntry /\ request' = NoRequest
    BY DEF Reset
  <1>2. PICK k, r : k = NoEntry /\ r = NoRequest
    OBVIOUS
  <1>3. IsEntry(k) /\ ~k.valid /\ IsQuery(r) /\ r.pc # "store"
    BY <1>2 DEF NoEntry, NoRequest, IsEntry, IsQuery
  <1>4. batch' = [b \in Slots |-> batch'[b]]
    BY <1>1
  <1>5. ASSUME PromptRoute PROVE Fresh(db', batch', cache', request')
    BY <1>1, <1>2, <1>3, <1>5, OrderlyIdle, FreshFacts DEF Fresh
  <1>6. QED
    BY <1>1, <1>2, <1>3, <1>4, <1>5, FreshBack

(* The queries and the stores of the API, and the end of an entry's life.   *)
LEMMA FreshApi == FreshInv /\ (ApiRequest \/ ApiQuery \/ ApiStore \/ Expire) => FreshInv'
  <1> SUFFICES ASSUME FreshInv, ApiRequest \/ ApiQuery \/ ApiStore \/ Expire PROVE FreshInv'
    OBVIOUS
  <1>1. UNCHANGED <<scenario, db, batch>>
    BY DEF ApiRequest, ApiQuery, ApiStore, Expire, envVars
  <1>2. PICK k, r : k = cache' /\ r = request'
    OBVIOUS
  <1>3. SUFFICES /\ IsEntry(k) /\ IsQuery(r)
                 /\ PromptRoute => Fresh(db, batch, k, r)
    <2>1. IsEntry(cache') /\ IsQuery(request') /\ (PromptRoute => Fresh(db', batch', cache', request'))
      BY <1>1, <1>2, <1>3
    <2>2. QED
      BY <1>1, <2>1, FreshBack, FreshFacts
  <1>4. CASE ApiRequest
    <2>1. r = [pc |-> "query", data |-> << >>, raced |-> FALSE] /\ k = cache
      BY <1>2, <1>4 DEF ApiRequest
    <2>2. IsQuery(r) /\ r.pc # "store"
      BY <2>1 DEF IsQuery
    <2>3. QED
      BY <2>1, <2>2, FreshFacts DEF Fresh
  <1>5. CASE ApiQuery
    <2>1. PICK a : a = Rows(watched, db)
      OBVIOUS
    <2>2. r = [pc |-> "store", data |-> a, raced |-> FALSE] /\ k = cache
      BY <1>2, <1>5, <2>1 DEF ApiQuery
    <2>3. IsQuery(r) /\ r.data = a
      BY <2>2 DEF IsQuery
    <2>4. QED
      BY <2>1, <2>2, <2>3, FreshFacts DEF Fresh
  <1>6. CASE ApiStore
    <2>1. k = [valid |-> TRUE, data |-> request.data, raced |-> request.raced] /\ request.pc = "store" /\ r = NoRequest
      BY <1>2, <1>6 DEF ApiStore
    <2>2. IsEntry(k) /\ k.data = request.data /\ k.raced = request.raced
      BY <2>1 DEF IsEntry
    <2>3. IsQuery(r) /\ r.pc # "store"
      BY <2>1 DEF NoRequest, IsQuery
    <2>4. QED
      BY <2>1, <2>2, <2>3, FreshFacts DEF Fresh
  <1>7. CASE Expire
    <2>1. k = NoEntry /\ r = request
      BY <1>2, <1>7 DEF Expire
    <2>2. IsEntry(k) /\ ~k.valid
      BY <2>1 DEF NoEntry, IsEntry
    <2>3. QED
      BY <2>1, <2>2, FreshFacts DEF Fresh
  <1>8. QED
    BY <1>4, <1>5, <1>6, <1>7

(* A poll begins.                                                          *)
LEMMA FreshPoll == ASSUME NEW b \in Slots PROVE FreshInv /\ pollOnce(b) => FreshInv'
  <1> SUFFICES ASSUME FreshInv, pollOnce(b) PROVE FreshInv'
    OBVIOUS
  <1>1. PICK k : k = lastLedger + 1
    OBVIOUS
  <1>2. PICK n : n = [NoBatch EXCEPT !.pc = "fetch", !.start = k, !.latest = lastLedger]
    OBVIOUS
  <1>3. n = [pc |-> "fetch", start |-> k, latest |-> lastLedger, evs |-> {}, todo |-> << >>, reg |-> 0]
    <2>1. PICK x : x = [NoBatch EXCEPT !.pc = "fetch"]
      OBVIOUS
    <2>2. x = [pc |-> "fetch", start |-> 0, latest |-> 0, evs |-> {}, todo |-> << >>, reg |-> 0]
      BY <2>1 DEF NoBatch
    <2>3. PICK y : y = [x EXCEPT !.start = k]
      OBVIOUS
    <2>4. y = [pc |-> "fetch", start |-> k, latest |-> 0, evs |-> {}, todo |-> << >>, reg |-> 0]
      BY <2>2, <2>3
    <2>5. n = [y EXCEPT !.latest = lastLedger]
      BY <1>2, <2>1, <2>3
    <2>6. QED
      BY <2>4, <2>5
  <1>4. IsBatch(n) /\ n.pc = "fetch" /\ n.todo = << >>
    BY <1>3 DEF IsBatch
  <1>5. Orderly(n)
    BY <1>4 DEF Orderly
  <1>6. batch' = [batch EXCEPT ![b] = n] /\ UNCHANGED <<scenario, db, cache, request>> /\ b \notin Running
    BY <1>1, <1>2 DEF pollOnce, envVars
  <1>7. ~Pending(batch[b])
    BY <1>6 DEF Running, Pending
  <1>8. QED
    BY <1>5, <1>6, <1>7, FreshBatch

(* The page arrives.                                                       *)
LEMMA FreshFetch == ASSUME NEW b \in Slots PROVE FreshInv /\ FetchEvents(b) => FreshInv'
  <1> SUFFICES ASSUME FreshInv, FetchEvents(b) PROVE FreshInv'
    OBVIOUS
  <1>1. PICK w, evs : w = batch[b] /\ evs = Page(chain, batch[b].start, tip)
    OBVIOUS
  <1>2. PICK n : n = [w EXCEPT !.pc = "run", !.evs = evs, !.todo = FirstEffects(evs)]
    OBVIOUS
  <1>3. w.pc = "fetch" /\ batch' = [batch EXCEPT ![b] = n] /\ UNCHANGED <<scenario, db, cache, request>>
    BY <1>1, <1>2, FreshFacts DEF FetchEvents, envVars
  <1>4. evs \subseteq DOMAIN chain
    BY <1>1 DEF Page, Visible
  <1>5. ASSUME PromptRoute PROVE Orderly(n)
    <2>1. IsBatch(w)
      BY <1>1, <1>5, FreshFacts DEF Fresh, Orderly
    <2>2. n = [pc |-> "run", start |-> w.start, latest |-> w.latest, evs |-> evs, todo |-> FirstEffects(evs), reg |-> w.reg]
      BY <1>2, <2>1, FetchedRecord
    <2>3. IsBatch(n) /\ n.pc = "run" /\ n.evs = evs /\ n.todo = FirstEffects(evs)
      BY <2>2 DEF IsBatch
    <2>4. evs = {} => FirstEffects(evs) = << >>
      BY DEF FirstEffects
    <2>5. evs # {} => InEvent(chain[Min(evs)], FirstEffects(evs))
      BY DEF FirstEffects, InEvent
    <2>6. QED
      BY <1>4, <2>3, <2>4, <2>5 DEF Orderly
  <1>6. ~Pending(batch[b])
    BY <1>1, <1>3 DEF Pending
  <1>7. QED
    BY <1>3, <1>5, <1>6, FreshBatch

(* One statement of a batch.                                               *)
LEMMA FreshStatement == ASSUME NEW b \in Slots PROVE FreshInv /\ Statement(b) => FreshInv'
  <1> SUFFICES ASSUME FreshInv, Statement(b) PROVE FreshInv'
    OBVIOUS
  <1>1. PICK w, f, d, x : w = batch[b] /\ f = Head(w.todo) /\ d = db /\ x = db'
    OBVIOUS
  <1>2. PICK n : n = Advance([w EXCEPT !.reg = Register(w, f, d)], Rest(f, w.todo, d))
    OBVIOUS
  <1>3. /\ w.todo # << >> /\ ~Synchronous(f) /\ x = RunEffect(f, d, w.reg) /\ batch' = [batch EXCEPT ![b] = n]
        /\ request' = [request EXCEPT !.raced = request.pc = "store" /\ (@ \/ x # d)]
        /\ UNCHANGED <<scenario, cache>>
    BY <1>1, <1>2 DEF Statement, envVars
  <1>4. PICK r, y : r = request' /\ y = (request.pc = "store" /\ (request.raced \/ x # d))
    OBVIOUS
  <1>5. r = [pc |-> request.pc, data |-> request.data, raced |-> y]
    <2>1. r = [request EXCEPT !.raced = y]
      BY <1>3, <1>4
    <2>2. QED
      BY <2>1, FreshFacts, Marked
  <1>6. r.pc = request.pc /\ r.data = request.data /\ r.raced = y /\ IsQuery(r)
    BY <1>5 DEF IsQuery
  <1>7. batch' = [a \in Slots |-> batch'[a]]
    BY <1>3, FreshFacts, Zenon
  <1>8. batch'[b] = n /\ \A a \in Slots : a # b => batch'[a] = batch[a]
    BY <1>3, FreshFacts
  <1>9. ASSUME PromptRoute PROVE Fresh(x, batch', cache, r)
    <2>1. /\ ReadsLists(d)
          /\ \A a \in Slots : Orderly(batch[a])
          /\ cache.valid /\ ~cache.raced => cache.data = Rows(watched, d) \/ \E a \in Slots : Pending(batch[a])
          /\ request.pc = "store" /\ ~request.raced => request.data = Rows(watched, d)
      BY <1>1, <1>9, FreshFacts DEF Fresh
    <2>2. Owed(d, x, w, n)
      BY <1>1, <1>2, <1>3, <1>9, <2>1, FreshFacts, OwedStatement
    <2>3. ReadsLists(x) /\ Orderly(n) /\ (Rows(watched, x) = Rows(watched, d) \/ Pending(n)) /\ (Pending(w) => Pending(n))
      BY <2>2 DEF Owed
    <2>4. ASSUME NEW a \in Slots PROVE Orderly(batch'[a]) /\ (Pending(batch[a]) => Pending(batch'[a]))
      BY <1>1, <1>8, <2>1, <2>3
    <2>5. ASSUME cache.valid, ~cache.raced PROVE cache.data = Rows(watched, x) \/ \E a \in Slots : Pending(batch'[a])
      BY <1>8, <2>1, <2>3, <2>4, <2>5
    <2>6. ASSUME r.pc = "store", ~r.raced PROVE r.data = Rows(watched, x)
      <3>1. request.pc = "store" /\ ~request.raced /\ x = d
        BY <1>4, <1>6, <2>6
      <3>2. QED
        BY <1>6, <2>1, <3>1
    <2>7. QED
      BY <2>3, <2>4, <2>5, <2>6 DEF Fresh
  <1>10. IsEntry(cache') /\ IsQuery(request') /\ (PromptRoute => Fresh(db', batch', cache', request'))
    BY <1>1, <1>3, <1>4, <1>6, <1>9, FreshFacts
  <1>11. QED
    BY <1>3, <1>7, <1>10, FreshBack

(* One turn of invalidations of a batch.                                   *)
LEMMA FreshNotify == ASSUME NEW b \in Slots PROVE FreshInv /\ Notify(b) => FreshInv'
  <1> SUFFICES ASSUME FreshInv, Notify(b) PROVE FreshInv'
    OBVIOUS
  <1>1. PICK w, turn : w = batch[b] /\ turn = Turn(w.todo)
    OBVIOUS
  <1>2. PICK todo : todo = SubSeq(w.todo, Len(turn) + 1, Len(w.todo))
    OBVIOUS
  <1>3. PICK n : n = Advance(w, todo)
    OBVIOUS
  <1>4. /\ turn # << >> /\ batch' = [batch EXCEPT ![b] = n]
        /\ cache' = IF \E i \in DOMAIN turn : Drops(turn[i]) THEN NoEntry ELSE cache
        /\ UNCHANGED <<scenario, db, request>>
    BY <1>1, <1>2, <1>3, FreshFacts DEF Notify, envVars
  <1>5. ASSUME PromptRoute
        PROVE  Orderly(n) /\ (Pending(w) /\ (\A i \in DOMAIN turn : ~Drops(turn[i])) => Pending(n))
    <2>1. Orderly(w)
      BY <1>1, <1>5, FreshFacts DEF Fresh
    <2>2. QED
      BY <1>1, <1>2, <1>3, <1>4, <2>1, FreshFacts, OwedTurn
  <1>6. CASE \A i \in DOMAIN turn : ~Drops(turn[i])
    <2>1. cache' = cache
      BY <1>4, <1>6
    <2>2. QED
      BY <1>1, <1>4, <1>5, <1>6, <2>1, FreshBatch
  <1>7. CASE \E i \in DOMAIN turn : Drops(turn[i])
    <2>1. PICK k : k = NoEntry
      OBVIOUS
    <2>2. cache' = k /\ IsEntry(k) /\ ~k.valid
      BY <1>4, <1>7, <2>1 DEF NoEntry, IsEntry
    <2>3. batch' = [a \in Slots |-> batch'[a]]
      BY <1>4, FreshFacts, Zenon
    <2>4. batch'[b] = n /\ \A a \in Slots : a # b => batch'[a] = batch[a]
      BY <1>4, FreshFacts
    <2>5. ASSUME PromptRoute PROVE Fresh(db', batch', cache', request')
      <3>1. Fresh(db, batch, cache, request)
        BY <2>5, FreshFacts
      <3>2. \A a \in Slots : Orderly(batch'[a])
        BY <1>5, <2>4, <2>5, <3>1 DEF Fresh
      <3>3. QED
        BY <1>4, <2>2, <3>1, <3>2 DEF Fresh
    <2>6. QED
      BY <1>4, <2>2, <2>3, <2>5, FreshBack, FreshFacts
  <1>8. QED
    BY <1>6, <1>7

(* A batch ends.                                                           *)
LEMMA FreshEnded ==
    ASSUME NEW b \in Slots
    PROVE  FreshInv /\ Ended(b) /\ ~Pending(batch[b]) /\ UNCHANGED <<scenario, db, cache, request>> => FreshInv'
  BY OrderlyIdle, FreshBatch DEF Ended

(* A batch without effects moves to another stage.                          *)
LEMMA FreshStage ==
    ASSUME FreshInv, NEW b \in Slots, NEW pc \in {"cursor", "memory"}, ~Pending(batch[b]),
           batch[b].pc = "run" => batch[b].evs = {}, batch[b].pc # "post",
           batch' = [batch EXCEPT ![b].pc = pc], UNCHANGED <<scenario, db, cache, request>>
    PROVE  FreshInv'
  <1>1. PICK w, n : w = batch[b] /\ n = [w EXCEPT !.pc = pc]
    OBVIOUS
  <1>2. batch' = [batch EXCEPT ![b] = n]
    BY <1>1, FreshFacts
  <1>3. ASSUME PromptRoute PROVE Orderly(n)
    <2>1. Orderly(w)
      BY <1>1, <1>3, FreshFacts DEF Fresh
    <2>2. IsBatch(w) /\ w.todo = << >>
      BY <1>1, <2>1 DEF Orderly
    <2>3. PICK p, a, c, o, q, r : w = [pc |-> p, start |-> a, latest |-> c, evs |-> o, todo |-> q, reg |-> r]
      BY <2>2 DEF IsBatch
    <2>4. q = << >>
      BY <2>2, <2>3
    <2>5. n = [pc |-> pc, start |-> a, latest |-> c, evs |-> o, todo |-> q, reg |-> r]
      BY <1>1, <2>3
    <2>6. IsBatch(n) /\ n.pc = pc /\ n.todo = << >>
      BY <2>4, <2>5 DEF IsBatch
    <2>7. QED
      BY <2>6 DEF Orderly
  <1>4. QED
    BY <1>2, <1>3, FreshBatch

(* The page is processed, or the cursor saved.                              *)
LEMMA FreshAdvance ==
    ASSUME NEW b \in Slots
    PROVE  FreshInv /\ (CheckAdvance(b) \/ updateLastIndexedLedger(b)) => FreshInv'
  <1> SUFFICES ASSUME FreshInv, CheckAdvance(b) \/ updateLastIndexedLedger(b) PROVE FreshInv'
    OBVIOUS
  <1>1. CASE CheckAdvance(b)
    <2>1. batch[b].pc = "run" /\ batch[b].evs = {} /\ UNCHANGED <<scenario, db, cache, request>>
      BY <1>1 DEF CheckAdvance, envVars
    <2>2. ~Pending(batch[b])
      BY <2>1 DEF Pending
    <2>3. Ended(b) \/ batch' = [batch EXCEPT ![b].pc = "cursor"]
      BY <1>1 DEF CheckAdvance
    <2>4. QED
      BY <2>1, <2>2, <2>3, FreshEnded, FreshStage
  <1>2. CASE updateLastIndexedLedger(b)
    <2>1. /\ batch[b].pc = "cursor" /\ batch' = [batch EXCEPT ![b].pc = "memory"]
          /\ UNCHANGED <<scenario, db, cache, request>>
      BY <1>2 DEF updateLastIndexedLedger, envVars
    <2>2. ~Pending(batch[b])
      BY <2>1 DEF Pending
    <2>3. QED
      BY <2>1, <2>2, FreshStage
  <1>3. QED
    BY <1>1, <1>2

(* The cursor in memory moves.                                             *)
LEMMA FreshRemember == ASSUME NEW b \in Slots PROVE FreshInv /\ Remember(b) => FreshInv'
  <1> SUFFICES ASSUME FreshInv, Remember(b) PROVE FreshInv'
    OBVIOUS
  <1>1. PICK w, todo : w = batch[b] /\ todo = maybeTakeGovernanceSnapshot(batch[b].latest)
                                           \o maybeTakeConcentrationSnapshot(batch[b].latest)
    OBVIOUS
  <1>2. PICK n : n = [w EXCEPT !.pc = "post", !.todo = todo]
    OBVIOUS
  <1>3. /\ w.pc = "memory" /\ batch' = [batch EXCEPT ![b].pc = "post", ![b].todo = todo]
        /\ UNCHANGED <<scenario, db, cache, request>>
    BY <1>1 DEF Remember, envVars
  <1>4. batch' = [batch EXCEPT ![b] = n]
    BY <1>1, <1>2, <1>3, FreshFacts
  <1>5. IdleList(todo)
    BY <1>1, IdleSnapshots
  <1>6. ASSUME PromptRoute PROVE Orderly(n)
    <2>1. IsBatch(w)
      BY <1>1, <1>6, FreshFacts DEF Fresh, Orderly
    <2>2. n = [pc |-> "post", start |-> w.start, latest |-> w.latest, evs |-> w.evs, todo |-> todo, reg |-> w.reg]
      BY <1>2, <2>1, PostRecord
    <2>3. IsBatch(n) /\ n.pc = "post" /\ n.todo = todo
      BY <2>2 DEF IsBatch
    <2>4. QED
      BY <1>5, <2>3 DEF Orderly
  <1>7. ~Pending(batch[b])
    BY <1>1, <1>3 DEF Pending
  <1>8. QED
    BY <1>3, <1>4, <1>6, <1>7, FreshBatch

(* Every step of a batch.                                                  *)
LEMMA FreshBatchNext == ASSUME NEW b \in Slots PROVE FreshInv /\ (BatchNext(b) \/ Fault(b)) => FreshInv'
  <1>1. FreshInv /\ Finish(b) => FreshInv'
    <2> SUFFICES ASSUME FreshInv, Finish(b) PROVE FreshInv'
      OBVIOUS
    <2>1. batch[b].pc = "post" /\ Ended(b) /\ UNCHANGED <<scenario, db, cache, request>>
      BY DEF Finish, envVars
    <2>2. ~Pending(batch[b])
      BY <2>1 DEF Pending
    <2>3. QED
      BY <2>1, <2>2, FreshEnded
  <1>2. FreshInv /\ (Exception(b) \/ Fault(b)) => FreshInv'
    BY FreshAbort DEF Exception, Fault
  <1>3. QED
    BY <1>1, <1>2, FreshFetch, FreshStatement, FreshNotify, FreshAdvance, FreshRemember DEF BatchNext

(* Every step.                                                             *)
LEMMA FreshNext == FreshInv /\ [Next]_vars => FreshInv'
  <1>1. FreshInv /\ (Exit \/ Crash) => FreshInv'
    BY FreshReset DEF Exit, Crash, envVars
  <1>2. FreshInv /\ (CloseLedger \/ shutdown \/ Restart) => FreshInv'
    BY FreshSame DEF CloseLedger, shutdown, Restart, envVars
  <1>3. FreshInv /\ UNCHANGED vars => FreshInv'
    BY FreshSame DEF vars
  <1>4. QED
    BY <1>1, <1>2, <1>3, FreshBoot, FreshApi, FreshPoll, FreshBatchNext DEF Next

(* A batch that is about to drop an answer is inside an event.              *)
LEMMA PendingInside == ASSUME NEW b \in Slots, ChainOk(chain), Orderly(batch[b]), Pending(batch[b]) PROVE MidEvent(b)
  <1>1. PICK w, e : w = batch[b] /\ e = chain[Min(w.evs)]
    OBVIOUS
  <1>2. w.pc = "run" /\ w.evs # {} /\ w.evs \subseteq DOMAIN chain /\ w.todo # << >> /\ Tended(w.todo)
    BY <1>1 DEF Orderly, Pending
  <1>3. ListsSplits(e)
    BY <1>1, <1>2, LeastEvent DEF ChainOk
  <1>4. w.todo # Effects(e)
    BY <1>2, <1>3, NotTended
  <1>5. FirstEffects(w.evs) = Effects(e)
    BY <1>1, <1>2 DEF FirstEffects
  <1>6. QED
    BY <1>1, <1>2, <1>4, <1>5 DEF MidEvent

(* FreshBetweenEvents: between two events a cached answer of a prompt route   *)
(* is what the query would return now.                                      *)
THEOREM AnswersFresh == Spec => []FreshBetweenEvents
  <1>1. FreshInv => FreshBetweenEvents
    <2> SUFFICES ASSUME FreshInv, PromptRoute, cache.valid, ~cache.raced, \A b \in Slots : ~MidEvent(b)
                 PROVE  cache.data = Rows(watched, db)
      BY DEF FreshBetweenEvents
    <2>1. Fresh(db, batch, cache, request) /\ ChainOk(chain)
      BY FreshFacts
    <2>2. ~\E b \in Slots : Pending(batch[b])
      BY <2>1, PendingInside DEF Fresh
    <2>3. QED
      BY <2>1, <2>2 DEF Fresh
  <1>2. QED
    BY <1>1, FreshInit, FreshNext, PTL DEF Spec
=============================================================================
