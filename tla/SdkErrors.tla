----------------------------- MODULE SdkErrors -----------------------------
(***************************************************************************)
(* The SDK's typed errors and its retry predicates (sdk/src/errors.ts,     *)
(* utils.ts and the isRetryableSubmissionError of three clients).          *)
(*                                                                         *)
(* An error is typed or a plain Error, has a numeric code (0 when plain)   *)
(* and a text.  Of the text only one thing matters to the SDK: whether     *)
(* isNetworkError finds one of its words in it ("fetch", "network",        *)
(* "timeout", "500", ...).  A text that quotes a remote answer, or a       *)
(* transaction hash, may or may not contain one.                           *)
(***************************************************************************)
EXTENDS Integers, FiniteSets

(***************************************************************************)
(* The code tables: contract codes below 100, the SDK's own from 100 up.   *)
(* `networkish' are the contract codes whose fixed message reads like a    *)
(* network failure: "Permit was signed for a different network".           *)
(***************************************************************************)
Table(contract, networkish, simulation) ==
  [contract |-> contract, networkish |-> networkish, SimulationFailed |-> simulation,
   TransactionFailed |-> simulation + 1, TransactionTimeout |-> simulation + 2]

GovernorErrorCode == Table(1..44, {}, 101)
TimelockErrorCode == Table((1..3) \cup (10..15), {}, 100)
VotesErrorCode == Table(10..21, {15}, 100)
VoteEscrowErrorCode == Table(1..10, {}, 100)
TreasuryErrorCode == Table({1} \cup (10..21), {}, 100)
CoSponsorshipErrorCode == Table(1..15, {}, 100)
SignalingErrorCode == Table(1..4, {}, 100)
ProposalBondsErrorCode == Table(1..9, {}, 100)
TreasuryStrategiesErrorCode == Table(1..12, {}, 100)
ConvictionVotingErrorCode == Table(1..11, {}, 100)
OptimisticGovernorErrorCode == Table(1..16, {}, 100)
VotingRewardsErrorCode == Table(1..13, {}, 100)
TreasuryStreamsErrorCode == Table(1..14, {}, 100)

MissingReturnValue == 103
InvalidArguments == 104

Typed(code, net) == [typed |-> TRUE, code |-> code, net |-> net]
Plain(net) == [typed |-> FALSE, code |-> 0, net |-> net]

(***************************************************************************)
(* What a remote answer says: a contract code or 0, whether it has the     *)
(* status "ERROR", and whether its text reads like a network failure.      *)
(***************************************************************************)
Answer(code, status, net) == [code |-> code, status |-> status, net |-> net]

extractContractErrorCode(raw) == raw.code

Parse(table, raw) ==
  LET code == extractContractErrorCode(raw) IN
  IF code # 0 THEN Typed(code, code \in table.networkish)
  ELSE IF raw.status THEN Typed(table.TransactionFailed, raw.net)
  ELSE Typed(table.SimulationFailed, raw.net)

parseGovernorError(raw) == Parse(GovernorErrorCode, raw)
parseTimelockError(raw) == Parse(TimelockErrorCode, raw)
parseVotesError(raw) == Parse(VotesErrorCode, raw)
parseVoteEscrowError(raw) == Parse(VoteEscrowErrorCode, raw)
parseTreasuryError(raw) == Parse(TreasuryErrorCode, raw)
parseSignalingError(raw) == Parse(SignalingErrorCode, raw)
parseProposalBondsError(raw) == Parse(ProposalBondsErrorCode, raw)
parseTreasuryStrategiesError(raw) == Parse(TreasuryStrategiesErrorCode, raw)
parseConvictionVotingError(raw) == Parse(ConvictionVotingErrorCode, raw)
parseOptimisticGovernorError(raw) == Parse(OptimisticGovernorErrorCode, raw)
parseVotingRewardsError(raw) == Parse(VotingRewardsErrorCode, raw)

(* No status is looked at: what carries no contract code is a simulation failure. *)
parseTreasuryStreamsError(raw) == Parse(TreasuryStreamsErrorCode, [raw EXCEPT !.status = FALSE])

(***************************************************************************)
(* finalize_draft calls the governor, whose codes ProposalRateLimited (6)  *)
(* and ContractPaused (7) would be mistaken for codes of the co-sponsorship *)
(* contract: they become a failed transaction.                             *)
(***************************************************************************)
parseCoSponsorshipError(raw, operation) ==
  IF operation = "finalize_draft" /\ extractContractErrorCode(raw) \in {6, 7}
  THEN Typed(CoSponsorshipErrorCode.TransactionFailed, FALSE)
  ELSE Parse(CoSponsorshipErrorCode, raw)

(* Which parser a client uses; clients without one are read as the governor's. *)
ParseFor(client, fn, raw) ==
  CASE client = "timelock" -> parseTimelockError(raw)
    [] client \in {"votes", "permits"} -> parseVotesError(raw)
    [] client = "voteEscrow" -> parseVoteEscrowError(raw)
    [] client \in {"treasury", "liquidity"} -> parseTreasuryError(raw)
    [] client = "coSponsorship" -> parseCoSponsorshipError(raw, fn)
    [] client = "signaling" -> parseSignalingError(raw)
    [] client = "bonds" -> parseProposalBondsError(raw)
    [] client = "strategies" -> parseTreasuryStrategiesError(raw)
    [] client = "conviction" -> parseConvictionVotingError(raw)
    [] client = "optimistic" -> parseOptimisticGovernorError(raw)
    [] client = "rewards" -> parseVotingRewardsError(raw)
    [] client = "streams" -> parseTreasuryStreamsError(raw)
    [] OTHER -> parseGovernorError(raw)

(* The code of a transaction that failed on the chain, and of one that was not confirmed. *)
FailedCode(client) == ParseFor(client, "", Answer(0, TRUE, FALSE)).code
TimeoutCode(client) == FailedCode(client) + 1

(***************************************************************************)
(* The retry predicates.  A client without one passes "any" (every error   *)
(* is retried), and "none" is a method that has no retry loop at all.      *)
(***************************************************************************)
isNetworkError(e) == e.net

governor_isRetryableSubmissionError(e) == ~e.typed /\ isNetworkError(e)

(* Codes 101 and 103 of the timelock and the treasury: TransactionFailed, MissingReturnValue. *)
timelock_isRetryableSubmissionError(e) ==
  \/ isNetworkError(e)
  \/ e.typed /\ e.code >= 100 /\ e.code \notin {TimelockErrorCode.TransactionFailed, MissingReturnValue}

treasury_isRetryableSubmissionError(e) ==
  \/ isNetworkError(e)
  \/ e.typed /\ e.code >= 100 /\ e.code \notin {TreasuryErrorCode.TransactionFailed, MissingReturnValue}

(* 103 of the votes client: DelegationFailed. *)
votes_isRetryableSubmissionError(e) ==
  \/ isNetworkError(e)
  \/ e.typed /\ e.code >= 100 /\ e.code \notin {VotesErrorCode.TransactionFailed, 103}

RetryOn(policy, e) ==
  \/ policy = "any"
  \/ policy = "network" /\ isNetworkError(e)
  \/ policy = "governor" /\ governor_isRetryableSubmissionError(e)
  \/ policy = "timelock" /\ timelock_isRetryableSubmissionError(e)
  \/ policy = "treasury" /\ treasury_isRetryableSubmissionError(e)
  \/ policy = "votes" /\ votes_isRetryableSubmissionError(e)
=============================================================================
