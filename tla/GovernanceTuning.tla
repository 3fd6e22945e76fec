--------------------------- MODULE GovernanceTuning ---------------------------
(***************************************************************************)
(* The governance-tuning recommender of the backend (governance-tuning,    *)
(* jobs/governance-tuning-analyzer.ts): every replica runs cycles under an *)
(* advisory lock; a cycle reads the indexer, computes a recommendation,    *)
(* may propose it on chain and stores it.                                  *)
(***************************************************************************)
EXTENDS Integers, Sequences, SequencesExt, FiniteSetsExt, FiniteSets

CONSTANTS
  Replicas,
  TuneConfigs,     \* configs an admin may put: records [min, max, delta, auto]
  VoteSteps,       \* by how much total_votes_cast grows between two snapshots
  StartQuorum, StartThreshold,
  MaxSnapshots, MaxRecommendations, MaxTuneChanges

VARIABLES
  quorum,        \* the governor's quorum_numerator, as config-history reports it
  snapshots,     \* total_votes_cast at the trailing snapshots, oldest first
  tuneConfig,    \* governance_tuning_config
  recommended,   \* governance_tuning_recommendations, the latest last
  autoProposals, \* update_config proposals made by the service
  tuning,        \* by replica, its cycle
  tuneLock,      \* the advisory lock: the replicas that hold it
  tuneChanges

tuneVars == <<quorum, snapshots, tuneConfig, recommended, autoProposals, tuning, tuneLock, tuneChanges>>
tuneChainVars == <<quorum, snapshots, tuneConfig, tuneChanges>>

IdleTuning == [pc |-> "idle", config |-> << >>, current |-> 0, value |-> 0, proposal |-> 0]
TuneInit ==
  /\ quorum = StartQuorum /\ snapshots = <<0>>
  /\ tuneConfig \in TuneConfigs
  /\ recommended = << >> /\ autoProposals = << >>
  /\ tuning = [r \in Replicas |-> IdleTuning]
  /\ tuneLock = {} /\ tuneChanges = 0

---------------------------------------------------------------------------
\* computeRecommendation.

clamp(value, min, max) == Min({Max({value, min}), max})
SumOf(s) == FoldSeq(LAMBDA x, acc : x + acc, 0, s)
\* The average of the later half of the deltas against that of the earlier
\* half, in basis points of the latter, rounded; within 5% nothing changes.
TREND_EPSILON == 500
Trend(votes) ==
  LET deltas == [i \in 1..Len(votes) - 1 |-> votes[i + 1] - votes[i]]
      n == (Len(deltas) + 1) \div 2
      recent == SubSeq(deltas, Len(deltas) - n + 1, Len(deltas))
      baseline == SubSeq(deltas, 1, Len(deltas) - n)
      num == SumOf(recent) * Len(baseline) - SumOf(baseline) * n
      den == SumOf(baseline) * n
      size == IF num < 0 THEN -num ELSE num
  IN  IF Len(deltas) < 2 THEN 0
      ELSE IF den = 0 THEN IF SumOf(recent) > 0 THEN 10000 ELSE 0
      ELSE LET bps == (20000 * size + den) \div (2 * den)
           IN  IF 20 * size < den THEN 0 ELSE IF num < 0 THEN -bps ELSE bps
recommendQuorumNumerator(current, votes, config) ==
  LET trend == Trend(votes)
      step == Min({IF trend < 0 THEN -trend ELSE trend, config.delta})
  IN  IF trend = 0 THEN current
      ELSE clamp(IF trend > 0 THEN current + step ELSE current - step, config.min, config.max)

\* The indexer reports no quorum hits and misses today: the threshold stays.
\* Otherwise it follows the hit rate when that leaves the band of 30% to 80%.
Rounded(a, b) == (2 * a + b) \div (2 * b)
recommendProposalThreshold(current, hits, misses, config) ==
  LET rate == (hits * 10000) \div (hits + misses)
      down == Min({config.delta, Rounded((rate - 8000) * config.delta, 2000)})
      up == Min({config.delta, Rounded((3000 - rate) * config.delta, 3000)})
      moved == IF rate >= 8000 THEN current - (current * down) \div 10000
               ELSE IF rate <= 3000 THEN current + (current * up) \div 10000 ELSE current
  IN  IF hits + misses = 0 THEN current ELSE Max({moved, config.floor})

---------------------------------------------------------------------------
\* The world around the service.

TuneSnapshot(step) ==
  /\ Len(snapshots) < MaxSnapshots
  /\ snapshots' = Append(snapshots, snapshots[Len(snapshots)] + step)
  /\ UNCHANGED <<quorum, tuneConfig, recommended, autoProposals, tuning, tuneLock, tuneChanges>>
\* PUT /governance-tuning/config.
updateGovernanceTuningConfig(c) ==
  /\ tuneChanges < MaxTuneChanges /\ c # tuneConfig
  /\ c.min <= c.max /\ c.delta > 0
  /\ tuneConfig' = c /\ tuneChanges' = tuneChanges + 1
  /\ UNCHANGED <<quorum, snapshots, recommended, autoProposals, tuning, tuneLock>>
\* A proposal of the service is executed, or ends without being.
AutoProposalEnds(p) ==
  /\ autoProposals[p].open
  /\ autoProposals' = [autoProposals EXCEPT ![p].open = FALSE]
  /\ quorum' \in {quorum, autoProposals[p].value}
  /\ UNCHANGED <<snapshots, tuneConfig, recommended, tuning, tuneLock, tuneChanges>>

---------------------------------------------------------------------------
\* A cycle.

TuneStep(r, pc) == tuning' = [tuning EXCEPT ![r].pc = pc]
\* pg_try_advisory_lock: a cycle that does not get it is skipped.
runCycleWithLock(r) ==
  /\ tuning[r].pc = "idle" /\ tuneLock = {}
  /\ tuneLock' = tuneLock \cup {r} /\ TuneStep(r, "gather")
  /\ UNCHANGED <<tuneChainVars, recommended, autoProposals>>
Moved(value) == value # quorum \/ recommendProposalThreshold(StartThreshold, 0, 0, tuneConfig) # StartThreshold
gatherAnalyzerInputs(r) ==
  /\ tuning[r].pc = "gather"
  /\ LET value == recommendQuorumNumerator(quorum, snapshots, tuneConfig)
     IN  tuning' = [tuning EXCEPT ![r] = [pc |-> IF Moved(value) /\ tuneConfig.auto THEN "pending" ELSE "store",
                                         config |-> tuneConfig, current |-> quorum, value |-> value, proposal |-> 0]]
  /\ UNCHANGED <<tuneChainVars, recommended, autoProposals, tuneLock>>
getLatestRecommendation == recommended[Len(recommended)]
\* Only the latest recommendation is asked for its proposal.
findUnresolvedAutoProposal(r) ==
  /\ tuning[r].pc = "pending"
  /\ LET p == IF recommended = << >> THEN 0 ELSE getLatestRecommendation.proposal
     IN  TuneStep(r, IF p > 0 /\ autoProposals[p].open THEN "store" ELSE "propose")
  /\ UNCHANGED <<tuneChainVars, recommended, autoProposals, tuneLock>>
\* maybeAutoPropose: a refusal is logged and the cycle goes on.
maybeAutoPropose(r) ==
  /\ tuning[r].pc = "propose"
  /\ \/ /\ Len(autoProposals) < MaxRecommendations
        /\ autoProposals' = Append(autoProposals, [value |-> tuning[r].value, open |-> TRUE])
        /\ tuning' = [tuning EXCEPT ![r].pc = "store", ![r].proposal = Len(autoProposals')]
     \/ TuneStep(r, "store") /\ UNCHANGED autoProposals
  /\ UNCHANGED <<tuneChainVars, recommended, tuneLock>>
Unchanged(rec) == rec.current = rec.value /\ rec.proposal = 0
\* Old unchanged rows are pruned, never the one just written.
pruneUnchangedRecommendations(recs) ==
  {SelectSeq([i \in DOMAIN recs |-> <<i, recs[i]>>], LAMBDA x : x[1] > k \/ ~Unchanged(x[2])) : k \in 0..Len(recs) - 1}
insertRecommendation(r) ==
  LET rec == [current |-> tuning[r].current, value |-> tuning[r].value, proposal |-> tuning[r].proposal]
      repeated == /\ rec.current = rec.value /\ recommended # << >>
                  /\ getLatestRecommendation.value = rec.value /\ getLatestRecommendation.proposal = 0
  IN  IF repeated THEN recommended ELSE Append(recommended, rec)
StoreRecommendation(r) ==
  /\ tuning[r].pc = "store" /\ Len(recommended) < MaxRecommendations
  /\ \E kept \in pruneUnchangedRecommendations(insertRecommendation(r)) : recommended' = [i \in DOMAIN kept |-> kept[i][2]]
  /\ TuneStep(r, "unlock")
  /\ UNCHANGED <<tuneChainVars, autoProposals, tuneLock>>
\* The cycle ends or throws: the lock is released either way.
ReleaseLock(r) ==
  /\ tuning[r].pc # "idle"
  /\ tuneLock' = tuneLock \ {r}
  /\ tuning' = [tuning EXCEPT ![r] = IdleTuning]
  /\ UNCHANGED <<tuneChainVars, recommended, autoProposals>>

TuneNext ==
  \/ \E s \in VoteSteps : TuneSnapshot(s)
  \/ \E c \in TuneConfigs : updateGovernanceTuningConfig(c)
  \/ \E p \in DOMAIN autoProposals : AutoProposalEnds(p)
  \/ \E r \in Replicas :
       \/ runCycleWithLock(r) \/ gatherAnalyzerInputs(r) \/ findUnresolvedAutoProposal(r) \/ maybeAutoPropose(r)
       \/ StoreRecommendation(r) \/ ReleaseLock(r)

---------------------------------------------------------------------------
\* The service never has two update_config proposals in flight: without the
\* check the analyzer would resubmit an essentially identical proposal every
\* cycle (governance-tuning/auto-propose.ts).
OneAutoProposalInFlight == Cardinality({p \in DOMAIN autoProposals : autoProposals[p].open}) <= 1
=============================================================================
