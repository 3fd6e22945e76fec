------------------------------ MODULE Governor ------------------------------
(***************************************************************************)
(* The governor contract (contracts/governor/src/lib.rs, commit_reveal.rs)  *)
(* and the timelock it drives: proposals are voted on, queued into the      *)
(* timelock when they pass, and executed or cancelled there.                *)
(*                                                                         *)
(* The timelock is the module Timelock: queue, execute and the two cancels  *)
(* that reach it are joint steps with its actions, and its admin, who is    *)
(* the deployer, may act on it without the governor.                        *)
(*                                                                         *)
(* Entry points that require the authorisation of the contract itself       *)
(* (update_config, cancel_by_governance, ...) are the steps of Governance.  *)
(* The host forbids a contract to be re-entered, so a proposal that calls   *)
(* the governor reverts; Spec leaves these steps out and GovernedSpec has    *)
(* them, as the contract's own tests do.                                    *)
(*                                                                         *)
(* Abstractions:                                                           *)
(*  - proposal ids are 1, 2, ...; the salt makes the id of the timelock     *)
(*    operation unique to the proposal, and it is the proposal id here;      *)
(*    the proposals in Batched have several actions, the others one;         *)
(*  - descriptions, calldata and their size limits, and storage lifetimes   *)
(*    are left out;                                                         *)
(*  - a commitment is the support it hides: SHA-256 is binding;             *)
(*  - voting power comes from the token-votes contract; a strategy of       *)
(*    weighted tokens is the weight (bps) of one token, Single is 10000;    *)
(*  - the reputation of the proposer scales the threshold by one of          *)
(*    Multipliers; how scores move is the module Reputation's business,      *)
(*    here only which outcomes are recorded;                                *)
(*  - the pause flag, which no entry point but the query can_propose reads, *)
(*    and its keeper are left out.                                          *)
(***************************************************************************)
EXTENDS Integers, FiniteSets, FiniteSetsExt

CONSTANTS
    Accounts,          \* addresses of users
    Admin,             \* DataKey::Admin
    GovernorAddr,      \* the governor contract
    TimelockAdmin,     \* the admin of the timelock
    Power,             \* initial voting power of the accounts
    Supply,            \* their total
    Batched,           \* proposals with more than one action
    Subs,              \* positions of their actions
    InitialSettings,   \* settings the contract may be deployed with
    Settings,          \* settings governance may choose
    Strategies,        \* voting strategies governance may choose, in bps
    Prices,            \* token prices the oracle may report; 0 is no answer
    TokenUnit,         \* 10 ^ decimals of the token
    Multipliers,       \* threshold multipliers (bps)
    SecondsPerLedger,  \* SECONDS_PER_LEDGER
    Delays, Windows, LedgerTimes,
    MaxProposals, MaxTime, MaxLedger,   \* bounds
    LastProposal,      \* bound: no proposal is created after this ledger
    None

Pids == 1..MaxProposals
Support == {"Against", "For", "Abstain"}
Periods == 0..MaxLedger
Outcome == {"Succeeded", "Executed", "Defeated", "Cancelled", "Expired"}

GovernorSettings ==
    [voting_delay : Nat, voting_period : Nat, quorum_numerator : Nat,
     proposal_threshold : Nat, guardian : Accounts,
     vote_type : {"Simple", "Extended", "Quadratic"},
     proposal_grace_period : Nat, use_dynamic_quorum : BOOLEAN,
     reflector_oracle : BOOLEAN, min_quorum_usd : Nat, proposal_cooldown : Nat,
     max_proposals_per_period : Nat, proposal_period_duration : Nat,
     co_sponsorship_registry : BOOLEAN, use_commit_reveal : BOOLEAN,
     commit_phase_fraction : Nat]

validate_settings(s) ==
    /\ s.voting_delay <= 1209600
    /\ s.voting_period > 0
    /\ s.quorum_numerator <= 100
    /\ s.max_proposals_per_period > 0
    /\ s.proposal_period_duration > 0
    /\ s.commit_phase_fraction > 0 /\ s.commit_phase_fraction < 10000

ASSUME AccountsAssumption == Admin \in Accounts /\ GovernorAddr # TimelockAdmin
ASSUME AccountsFinite == IsFiniteSet(Accounts)
ASSUME PowerAssumption == Power \in [Accounts -> Nat] /\ Supply \in Nat
ASSUME SettingsAssumption ==
    /\ Settings \subseteq GovernorSettings /\ InitialSettings \subseteq GovernorSettings
    /\ \A s \in InitialSettings : s.voting_period > 0 /\ s.proposal_period_duration > 0
ASSUME GovernorNumbers ==
    /\ Strategies \subseteq Nat /\ Prices \subseteq Nat /\ Multipliers \subseteq Nat
    /\ TokenUnit \in Nat /\ SecondsPerLedger \in Nat \ {0} /\ LastProposal \in Nat
    /\ MaxProposals \in Nat /\ Batched \subseteq Nat
    /\ Delays \subseteq Nat /\ Windows \subseteq Nat \ {0} /\ LedgerTimes \subseteq Nat
    /\ MaxTime \in Nat /\ MaxLedger \in Nat

VARIABLES
    now, seq, minDelay, window, entry, partial, retries, runs,  \* of the timelock
    prop,         \* DataKey::Proposal, CommitDeadline, QueueTime
    receipt,      \* DataKey::HasVoted, VoteReceipt
    commitment,   \* DataKey::VoteCommitment
    defeatScored, \* DataKey::ProposalExpiredEmitted
    expiryScored, \* DataKey::ReputationExpiredRecorded
    scored,       \* history: outcomes handed to the reputation system
    lastProposal, \* DataKey::LastProposalLedger
    inPeriod,     \* DataKey::ProposalsInPeriod
    settings, strategy,   \* configuration in instance storage
    votes,        \* external: current voting power (token-votes get_votes)
    snapshot,     \* external: get_past_votes at the start ledger of a proposal
    price         \* external: the oracle's price

Proposal ==
    [proposer : Accounts, start_ledger : Nat, end_ledger : Nat,
     tally : [Support -> Nat], queued : BOOLEAN, executed : BOOLEAN,
     cancelled : BOOLEAN, commit_deadline : Nat \cup {None},
     queue_time : Nat \cup {None}]

Receipt == [support : Support, weight : Nat]

ASSUME NoneAssumption ==
    None \notin Proposal /\ None \notin Receipt /\ None \notin Support /\ None \notin Nat

TL == INSTANCE Timelock WITH
    OpIds <- Pids \ Batched, BatchIds <- Pids \cap Batched,
    Callers <- {GovernorAddr, TimelockAdmin}, Governor <- GovernorAddr,
    Admin <- TimelockAdmin, RecoveryLedgers <- 100000, MaxRuns <- 2, MaxRetries <- 0

ASSUME TimelockNone == None \notin TL!Entry

timelockVars == <<minDelay, window, entry, partial, retries, runs>>
clock == <<now, seq>>
scoreVars == <<defeatScored, expiryScored, scored>>
limitVars == <<lastProposal, inPeriod>>
configVars == <<settings, strategy>>
powerVars == <<votes, snapshot>>
vars == <<clock, timelockVars, prop, receipt, commitment, scoreVars, limitVars,
          configVars, powerVars, price>>

TypeOK ==
    /\ TL!TypeOK /\ seq <= MaxLedger
    /\ prop \in [Pids -> Proposal \cup {None}]
    /\ receipt \in [Pids -> [Accounts -> Receipt \cup {None}]]
    /\ commitment \in [Pids -> [Accounts -> Support \cup {None}]]
    /\ defeatScored \subseteq Pids /\ expiryScored \subseteq Pids
    /\ scored \in [Pids -> [Outcome -> Nat]]
    /\ lastProposal \in [Accounts -> Nat \cup {None}]
    /\ inPeriod \in [Accounts -> [Periods -> Nat]]
    /\ settings \in GovernorSettings /\ strategy \in Nat
    /\ settings.proposal_period_duration > 0
    /\ votes \in [Accounts -> Nat] /\ snapshot \in [Pids -> [Accounts -> Nat]]
    /\ price \in Nat

-----------------------------------------------------------------------------
(* Reading a proposal.                                                     *)

Exists(p) == prop[p] # None
Open(p) == ~prop[p].cancelled /\ ~prop[p].executed /\ ~prop[p].queued

compute_votes(raw) == (raw * strategy) \div 10000

\* The quorum is computed from the settings, the strategy and the price of the
\* moment, and from the supply at the start of voting.
quorum ==
    LET static == (compute_votes(Supply) * settings.quorum_numerator) \div 100
        floor == (settings.min_quorum_usd * TokenUnit) \div price
        dynamic == /\ settings.use_dynamic_quorum /\ settings.reflector_oracle
                   /\ settings.min_quorum_usd > 0 /\ price > 0
    IN  IF settings.quorum_numerator = 0 THEN 0
        ELSE IF dynamic /\ floor > static THEN floor ELSE static

Passed(p) ==
    /\ prop[p].tally["For"] + prop[p].tally["Abstain"] >= quorum
    /\ prop[p].tally["For"] > prop[p].tally["Against"]

\* Mutant of StateOf: a succeeded proposal does not expire.
StateOf_no_grace(p) ==
    IF prop[p].cancelled THEN "Cancelled"
    ELSE IF prop[p].executed THEN "Executed"
    ELSE IF prop[p].queued THEN "Queued"
    ELSE IF seq < prop[p].start_ledger THEN "Pending"
    ELSE IF seq <= prop[p].end_ledger THEN "Active"
    ELSE IF Passed(p) THEN "Succeeded" ELSE "Defeated"

\* The value state() returns.
StateOf(p) ==
    IF prop[p].cancelled THEN "Cancelled"
    ELSE IF prop[p].executed THEN "Executed"
    ELSE IF prop[p].queued THEN "Queued"
    ELSE IF seq < prop[p].start_ledger THEN "Pending"
    ELSE IF seq <= prop[p].end_ledger THEN "Active"
    ELSE IF ~Passed(p) THEN "Defeated"
    ELSE IF seq > prop[p].end_ledger + settings.proposal_grace_period
         THEN "Expired" ELSE "Succeeded"

-----------------------------------------------------------------------------
(* Recording outcomes.                                                     *)

Record(p, o) == scored' = [scored EXCEPT ![p][o] = @ + 1]

\* Mutant of NewDefeats: the flag ProposalExpiredEmitted is not looked at.
NewDefeats_unguarded(ps) == {p \in ps : StateOf(p) = "Defeated"}

\* What reading the state of the proposals in ps records: a defeat and an
\* expiry once each.
NewDefeats(ps) == {p \in ps \ defeatScored : StateOf(p) = "Defeated"}
NewExpiries(ps) == {p \in ps \ expiryScored : StateOf(p) = "Expired"}
FirstRead(ps, p, o) ==
    \/ o = "Defeated" /\ p \in NewDefeats(ps)
    \/ o = "Expired" /\ p \in NewExpiries(ps)

Settle(ps) ==
    /\ defeatScored' = defeatScored \cup NewDefeats(ps)
    /\ expiryScored' = expiryScored \cup NewExpiries(ps)
    /\ scored' = [p \in Pids |-> [o \in Outcome |->
                    scored[p][o] + IF FirstRead(ps, p, o) THEN 1 ELSE 0]]

-----------------------------------------------------------------------------
Init ==
    /\ TL!Init
    /\ prop = [p \in Pids |-> None]
    /\ receipt = [p \in Pids |-> [a \in Accounts |-> None]]
    /\ commitment = [p \in Pids |-> [a \in Accounts |-> None]]
    /\ defeatScored = {} /\ expiryScored = {}
    /\ scored = [p \in Pids |-> [o \in Outcome |-> 0]]
    /\ lastProposal = [a \in Accounts |-> None]
    /\ inPeriod = [a \in Accounts |-> [n \in Periods |-> 0]]
    /\ settings \in InitialSettings /\ strategy = 10000
    /\ votes = Power /\ snapshot = [p \in Pids |-> Power]
    /\ price = 0

Count == Cardinality({p \in Pids : Exists(p)})

\* The commit phase takes a fraction of the voting period, the reveal phase the
\* rest; both are fixed when the proposal is created.
CommitDeadline(start) ==
    IF settings.use_commit_reveal
    THEN start + (settings.voting_period * settings.commit_phase_fraction) \div 10000
    ELSE None

NewProposal(a) ==
    LET start == seq + settings.voting_delay
    IN  [proposer |-> a, start_ledger |-> start,
         end_ledger |-> start + settings.voting_period,
         tally |-> [s \in Support |-> 0],
         queued |-> FALSE, executed |-> FALSE, cancelled |-> FALSE,
         commit_deadline |-> CommitDeadline(start), queue_time |-> None]

create_proposal_internal(a) ==
    LET period == seq \div settings.proposal_period_duration
        p == Count + 1
    IN  /\ Count < MaxProposals /\ seq <= LastProposal
        /\ lastProposal[a] # None => seq >= lastProposal[a] + settings.proposal_cooldown
        /\ inPeriod[a][period] < settings.max_proposals_per_period
        /\ prop' = [prop EXCEPT ![p] = NewProposal(a)]
        /\ lastProposal' = [lastProposal EXCEPT ![a] = seq]
        /\ inPeriod' = [inPeriod EXCEPT ![a] = [n \in Periods |->
                          IF n = period THEN inPeriod[a][n] + 1
                          ELSE IF n = period - 1 THEN 0 ELSE inPeriod[a][n]]]
        /\ UNCHANGED <<clock, timelockVars, receipt, commitment, scoreVars,
                       configVars, powerVars, price>>

\* The threshold is scaled by the reputation of the proposer.
propose(a) ==
    /\ \E m \in Multipliers :
          compute_votes(votes[a]) >= (settings.proposal_threshold * m) \div 10000
    /\ create_proposal_internal(a)

propose_via_registry(a) ==
    /\ settings.co_sponsorship_registry
    /\ create_proposal_internal(a)

-----------------------------------------------------------------------------
(* Voting.                                                                 *)

\* The integer square root; VoteMath has the loop that computes it.
isqrt(n) == Cardinality({r \in 1..n : r * r <= n})

apply_vote_type(raw) == IF settings.vote_type = "Quadratic" THEN isqrt(raw) ELSE raw

validate_vote_support(s) == settings.vote_type = "Simple" => s # "Abstain"

HasVoted(a, p) == receipt[p][a] # None

\* The vote of a enters the tally and its receipt is stored.
CountVote(a, p, s) ==
    LET weight == apply_vote_type(compute_votes(snapshot[p][a]))
    IN  /\ prop' = [prop EXCEPT ![p].tally[s] = @ + weight]
        /\ receipt' = [receipt EXCEPT ![p][a] = [support |-> s, weight |-> weight]]
        /\ UNCHANGED <<clock, timelockVars, commitment, scoreVars, limitVars,
                       configVars, powerVars, price>>

\* Mutant of DirectVote: a voter is not asked whether it has voted.
DirectVote_repeated(a, p, s) ==
    /\ Exists(p) /\ prop[p].commit_deadline = None
    /\ validate_vote_support(s)
    /\ prop[p].tally[s] < 2 * Supply
    /\ Open(p) /\ seq >= prop[p].start_ledger /\ seq <= prop[p].end_ledger
    /\ CountVote(a, p, s)

\* Mutant of DirectVote: the settings of the moment decide, not the proposal.
DirectVote_live(a, p, s) ==
    /\ Exists(p) /\ ~settings.use_commit_reveal
    /\ validate_vote_support(s)
    /\ ~HasVoted(a, p)
    /\ Open(p) /\ seq >= prop[p].start_ledger /\ seq <= prop[p].end_ledger
    /\ CountVote(a, p, s)

\* What cast_vote and cast_vote_with_reason share.
DirectVote(a, p, s) ==
    /\ Exists(p) /\ prop[p].commit_deadline = None
    /\ validate_vote_support(s)
    /\ ~HasVoted(a, p)
    /\ Open(p) /\ seq >= prop[p].start_ledger /\ seq <= prop[p].end_ledger
    /\ CountVote(a, p, s)

cast_vote(a, p, s) == DirectVote(a, p, s)
cast_vote_with_reason(a, p, s) == DirectVote(a, p, s)

\* vote(0), vote(1), vote(2)
vote(a, p, choice) ==
    cast_vote(a, p, CASE choice = 0 -> "Against" [] choice = 1 -> "For" [] choice = 2 -> "Abstain")

commit_vote(a, p, s) ==
    /\ Exists(p) /\ prop[p].commit_deadline # None
    /\ Open(p)
    /\ seq >= prop[p].start_ledger /\ seq <= prop[p].commit_deadline
    /\ commitment[p][a] = None
    /\ commitment' = [commitment EXCEPT ![p][a] = s]
    /\ UNCHANGED <<clock, timelockVars, prop, receipt, scoreVars, limitVars,
                   configVars, powerVars, price>>

\* Mutant of reveal_vote: the reveal phase overlaps the commit phase.
reveal_vote_early(a, p, s) ==
    /\ Exists(p) /\ prop[p].commit_deadline # None
    /\ validate_vote_support(s)
    /\ ~HasVoted(a, p)
    /\ Open(p)
    /\ seq >= prop[p].commit_deadline /\ seq <= prop[p].end_ledger
    /\ commitment[p][a] # None /\ commitment[p][a] = s
    /\ CountVote(a, p, s)

reveal_vote(a, p, s) ==
    /\ Exists(p) /\ prop[p].commit_deadline # None
    /\ validate_vote_support(s)
    /\ ~HasVoted(a, p)
    /\ Open(p)
    /\ seq > prop[p].commit_deadline /\ seq <= prop[p].end_ledger
    /\ commitment[p][a] # None /\ commitment[p][a] = s
    /\ CountVote(a, p, s)

-----------------------------------------------------------------------------
(* Queueing, executing and cancelling.                                     *)

TimelockSchedule(p) ==
    IF p \in Batched THEN TL!schedule_batch(GovernorAddr, p, minDelay, {})
                     ELSE TL!schedule(GovernorAddr, p, minDelay, {})

TimelockExecute(p) ==
    IF p \in Batched THEN TL!execute_batch(GovernorAddr, p)
                     ELSE TL!execute(GovernorAddr, p)

\* Mutant of queue: the state is read but not the outcome of the vote.
queue_unverified(p) ==
    /\ Exists(p) /\ Open(p) /\ seq > prop[p].end_ledger
    /\ Record(p, "Succeeded")
    /\ TimelockSchedule(p)
    /\ prop' = [prop EXCEPT ![p].queued = TRUE, ![p].queue_time = seq]
    /\ UNCHANGED <<receipt, commitment, defeatScored, expiryScored, limitVars,
                   configVars, powerVars, price>>

\* Mutant of queue: a proposal whose grace period is over is accepted.
queue_expired(p) ==
    /\ Exists(p) /\ StateOf(p) \in {"Succeeded", "Expired"}
    /\ Record(p, "Succeeded")
    /\ TimelockSchedule(p)
    /\ prop' = [prop EXCEPT ![p].queued = TRUE, ![p].queue_time = seq]
    /\ UNCHANGED <<receipt, commitment, defeatScored, expiryScored, limitVars,
                   configVars, powerVars, price>>

queue(p) ==
    /\ Exists(p) /\ StateOf(p) = "Succeeded"
    /\ Record(p, "Succeeded")
    /\ TimelockSchedule(p)
    /\ prop' = [prop EXCEPT ![p].queued = TRUE, ![p].queue_time = seq]
    /\ UNCHANGED <<receipt, commitment, defeatScored, expiryScored, limitVars,
                   configVars, powerVars, price>>

execute(p) ==
    /\ Exists(p) /\ StateOf(p) = "Queued"
    /\ TimelockExecute(p)
    /\ prop' = [prop EXCEPT ![p].executed = TRUE]
    /\ Record(p, "Executed")
    /\ UNCHANGED <<receipt, commitment, defeatScored, expiryScored, limitVars,
                   configVars, powerVars, price>>

\* Several proposals in one transaction: all of them, or none.
execute_batch(ps) ==
    /\ ps # {}
    /\ \A p \in ps : Exists(p) /\ StateOf(p) = "Queued" /\ TL!Executable(p)
    /\ entry' = [p \in Pids |-> IF p \in ps THEN [entry[p] EXCEPT !.executed = TRUE]
                                ELSE entry[p]]
    /\ TL!Invoke(UNION {TL!Calls(p) : p \in ps})
    /\ prop' = [p \in Pids |-> IF p \in ps THEN [prop[p] EXCEPT !.executed = TRUE]
                               ELSE prop[p]]
    /\ scored' = [p \in Pids |-> IF p \in ps
                     THEN [scored[p] EXCEPT !["Executed"] = @ + 1] ELSE scored[p]]
    /\ UNCHANGED <<clock, minDelay, window, partial, retries, receipt, commitment,
                   defeatScored, expiryScored, limitVars, configVars, powerVars, price>>

cancel(caller, p) ==
    /\ Exists(p)
    /\ \/ caller = prop[p].proposer /\ StateOf(p) = "Pending"
       \/ caller = settings.guardian /\ StateOf(p) = "Active"
    /\ prop' = [prop EXCEPT ![p].cancelled = TRUE]
    /\ Record(p, "Cancelled")
    /\ UNCHANGED <<clock, timelockVars, receipt, commitment, defeatScored,
                   expiryScored, limitVars, configVars, powerVars, price>>

\* Mutant of VetoEnd: a ledger is taken to last twice as long.
VetoEnd_halved(p) == prop[p].queue_time + minDelay \div (2 * SecondsPerLedger)

VetoEnd(p) == prop[p].queue_time + minDelay \div SecondsPerLedger

\* Mutant of cancel_queued: the timelock is not told.
cancel_queued_locally(caller, p) ==
    /\ Exists(p) /\ prop[p].queued /\ ~prop[p].cancelled
    /\ caller = settings.guardian
    /\ seq < VetoEnd(p)
    /\ prop' = [prop EXCEPT ![p].cancelled = TRUE]
    /\ Record(p, "Cancelled")
    /\ UNCHANGED <<clock, timelockVars, receipt, commitment, defeatScored,
                   expiryScored, limitVars, configVars, powerVars, price>>

\* The guardian's veto.  It does not ask whether the proposal has been
\* executed: the timelock refuses to cancel what was.
cancel_queued(caller, p) ==
    /\ Exists(p) /\ prop[p].queued /\ ~prop[p].cancelled
    /\ caller = settings.guardian
    /\ seq < VetoEnd(p)
    /\ prop' = [prop EXCEPT ![p].cancelled = TRUE]
    /\ Record(p, "Cancelled")
    /\ TL!cancel(GovernorAddr, p)
    /\ UNCHANGED <<receipt, commitment, defeatScored, expiryScored, limitVars,
                   configVars, powerVars, price>>

\* A proposal that has lost is settled first, and then not scored again.
cancel_by_governance(p) ==
    LET scoredAlready == \/ p \in defeatScored \cup NewDefeats({p})
                         \/ p \in expiryScored \cup NewExpiries({p})
    IN  /\ Exists(p) /\ ~prop[p].executed /\ ~prop[p].cancelled
        /\ defeatScored' = defeatScored \cup NewDefeats({p})
        /\ expiryScored' = expiryScored \cup NewExpiries({p})
        /\ scored' = [scored EXCEPT ![p] = [o \in Outcome |->
                        @[o] + IF \/ FirstRead({p}, p, o)
                                  \/ o = "Cancelled" /\ ~scoredAlready
                               THEN 1 ELSE 0]]
        /\ prop' = [prop EXCEPT ![p].cancelled = TRUE]
        /\ IF prop[p].queued THEN TL!cancel(GovernorAddr, p)
                             ELSE UNCHANGED <<clock, timelockVars>>
        /\ UNCHANGED <<receipt, commitment, limitVars, configVars, powerVars, price>>

\* state(p) and proposals_count_by_state record what they find.
state(p) ==
    /\ Exists(p)
    /\ Settle({p})
    /\ UNCHANGED <<clock, timelockVars, prop, receipt, commitment, limitVars,
                   configVars, powerVars, price>>

proposals_count_by_state ==
    /\ Settle({p \in Pids : Exists(p)})
    /\ UNCHANGED <<clock, timelockVars, prop, receipt, commitment, limitVars,
                   configVars, powerVars, price>>

-----------------------------------------------------------------------------
(* Configuration.                                                          *)

ConfigStep == UNCHANGED <<clock, timelockVars, prop, receipt, commitment, scoreVars,
                          limitVars, powerVars, price>>

\* The admin may set the rate limits before the first proposal.
set_initial_config(caller, s) ==
    /\ caller = Admin /\ Count = 0
    /\ settings' = [settings EXCEPT
                      !.proposal_cooldown = s.proposal_cooldown,
                      !.max_proposals_per_period = s.max_proposals_per_period]
    /\ UNCHANGED strategy /\ ConfigStep

update_config(s) ==
    /\ validate_settings(s)
    /\ settings' = s
    /\ UNCHANGED strategy /\ ConfigStep

set_guardian(a) ==
    /\ a # settings.guardian
    /\ settings' = [settings EXCEPT !.guardian = a]
    /\ UNCHANGED strategy /\ ConfigStep

set_voting_strategy(bps) ==
    /\ strategy' = bps
    /\ UNCHANGED settings /\ ConfigStep

update_oracle(s) ==
    /\ settings' = [settings EXCEPT !.reflector_oracle = s.reflector_oracle,
                      !.min_quorum_usd = s.min_quorum_usd,
                      !.use_dynamic_quorum = s.use_dynamic_quorum]
    /\ UNCHANGED strategy /\ ConfigStep

-----------------------------------------------------------------------------
(* The environment: token-votes, the oracle, the ledger, the timelock admin *)

\* a hands its voting power to b.  The power a proposal counts follows until
\* its start ledger is closed.
DelegateVotes(a, b) ==
    /\ a # b /\ votes[a] > 0
    /\ votes' = [votes EXCEPT ![a] = 0, ![b] = votes[b] + votes[a]]
    /\ snapshot' = [p \in Pids |-> IF Exists(p) /\ seq > prop[p].start_ledger
                                   THEN snapshot[p] ELSE votes']
    /\ UNCHANGED <<clock, timelockVars, prop, receipt, commitment, scoreVars,
                   limitVars, configVars, price>>

PriceMoves(x) ==
    /\ x # price /\ price' = x
    /\ UNCHANGED <<clock, timelockVars, prop, receipt, commitment, scoreVars,
                   limitVars, configVars, powerVars>>

CloseLedger ==
    /\ \E dt \in LedgerTimes : TL!CloseLedger(dt)
    /\ UNCHANGED <<prop, receipt, commitment, scoreVars, limitVars, configVars,
                   powerVars, price>>

TimelockAdminStep ==
    /\ \/ \E p \in Pids : TL!cancel(TimelockAdmin, p)
       \/ \E d \in Delays : TL!update_delay(TimelockAdmin, d)
       \/ \E w \in Windows : TL!update_execution_window(TimelockAdmin, w)
    /\ UNCHANGED <<prop, receipt, commitment, scoreVars, limitVars, configVars,
                   powerVars, price>>

AccountStep(a) ==
    \/ propose(a) \/ propose_via_registry(a)
    \/ \E p \in Pids, s \in Support :
          \/ cast_vote(a, p, s) \/ cast_vote_with_reason(a, p, s)
          \/ commit_vote(a, p, s) \/ reveal_vote(a, p, s)
    \/ \E p \in Pids, c \in 0..2 : vote(a, p, c)
    \/ \E p \in Pids : cancel(a, p) \/ cancel_queued(a, p)
    \/ \E s \in Settings : set_initial_config(a, s)
    \/ \E b \in Accounts : DelegateVotes(a, b)

Next ==
    \/ \E a \in Accounts : AccountStep(a)
    \/ \E p \in Pids : queue(p) \/ execute(p) \/ state(p)
    \/ \E ps \in SUBSET Pids : execute_batch(ps)
    \/ proposals_count_by_state
    \/ CloseLedger
    \/ TimelockAdminStep

Governance ==
    \/ \E p \in Pids : cancel_by_governance(p)
    \/ \E s \in Settings : update_config(s) \/ update_oracle(s)
    \/ \E a \in Accounts : set_guardian(a)
    \/ \E bps \in Strategies : set_voting_strategy(bps)
    \/ \E x \in Prices : PriceMoves(x)

Spec == Init /\ [][Next]_vars

\* The network closes ledgers whatever the contracts do.
FairSpec == Spec /\ WF_vars(CloseLedger)

GovernedSpec == Init /\ [][Next \/ Governance]_vars

-----------------------------------------------------------------------------
(* Properties.                                                             *)

Status(p) == IF Exists(p) THEN StateOf(p) ELSE "None"

\* The tallies are the sums of the weights in the receipts, support by support:
\* across direct, reasoned and revealed votes, changes of strategy and of vote
\* type, no vote is counted twice, lost or moved (cast_vote, reveal_vote).
TalliesMatchReceipts ==
    \A p \in Pids : Exists(p) => \A s \in Support :
        prop[p].tally[s] = MapThenSumSet(LAMBDA a : receipt[p][a].weight,
            {a \in Accounts : HasVoted(a, p) /\ receipt[p][a].support = s})

\* Under commit-reveal every counted vote is the one that was committed
\* (reveal_vote, and cast_vote's refusal of such proposals).
BallotsBinding ==
    \A p \in Pids, a \in Accounts :
        Exists(p) /\ prop[p].commit_deadline # None /\ HasVoted(a, p)
            => commitment[p][a] = receipt[p][a].support

\* From the first vote that becomes visible on, nobody can commit any more, so
\* no commitment can depend on another vote (commit_vote, reveal_vote).
NoCommitAfterReveal ==
    [][\A p \in Pids : Exists(p) /\ prop[p].commit_deadline # None
          /\ (\E a \in Accounts : HasVoted(a, p)) => commitment'[p] = commitment[p]]_vars

\* A proposal that is queued, executed or vetoed has won its vote, on a tally
\* that can no longer change (queue, cast_vote).
DecidedByVote ==
    \A p \in Pids : Exists(p) /\ prop[p].queued =>
        seq > prop[p].end_ledger /\ prop[p].tally["For"] > prop[p].tally["Against"]

\* Governor and timelock agree, whatever the timelock's admin does: a proposal
\* has an operation from the moment it is queued; it is executed exactly when
\* its operation is, and then every action has been taken exactly once; a
\* vetoed proposal's operation is cancelled and was never run (queue, execute,
\* execute_batch, cancel_queued, cancel_by_governance).
TimelockAgrees ==
    \A p \in Pids :
        /\ TL!Exists(p) <=> Exists(p) /\ prop[p].queued
        /\ Exists(p) /\ prop[p].queued =>
              /\ prop[p].executed <=> entry[p].executed
              /\ prop[p].cancelled => entry[p].cancelled
        /\ Exists(p) /\ prop[p].executed => prop[p].queued /\ ~prop[p].cancelled
        /\ \A c \in TL!Calls(p) :
              runs[c] = IF Exists(p) /\ prop[p].executed THEN 1 ELSE 0

\* When the settings do not change, a proposal is penalised at most once, and
\* rewarded once for passing before it is rewarded for being executed, however
\* often and by whomever its state is read (state, queue, execute, cancel).
ScoredOnce ==
    \A p \in Pids :
        /\ scored[p]["Defeated"] + scored[p]["Expired"] + scored[p]["Cancelled"] <= 1
        /\ scored[p]["Executed"] <= scored[p]["Succeeded"] /\ scored[p]["Succeeded"] <= 1
        /\ scored[p]["Succeeded"] = 1 => scored[p]["Defeated"] + scored[p]["Expired"] = 0

\* With ledgers that close every SecondsPerLedger seconds and a fixed delay of
\* whole ledgers, the guardian can veto a proposal as long as its operation is
\* not ready (cancel_queued).
VetoUntilReady ==
    \A p \in Pids : Exists(p) /\ StateOf(p) = "Queued" /\ now < entry[p].ready_at
        => seq < VetoEnd(p)

Lifecycle == INSTANCE ProposalLifecycle WITH status <- [p \in Pids |-> Status(p)]

\* When the settings do not change, proposals go through the documented states
\* in order and outcomes are final (state).
ImplementsProposalLifecycle == Lifecycle!Spec

\* Every proposal is eventually decided or queued, as long as ledgers close: no
\* proposal stays pending, active or waiting to be queued (state).
EventuallyDecided ==
    \A p \in Pids : Exists(p) ~> Status(p) \in Lifecycle!Final \cup {"Queued"}
=============================================================================
