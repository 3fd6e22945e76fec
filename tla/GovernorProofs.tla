--------------------------- MODULE GovernorProofs ---------------------------
(***************************************************************************)
(* Proofs about Governor, for every number of proposals, set of accounts,    *)
(* settings and ledger times: the windows and the queueing of proposals with  *)
(* the steps of Governance included, then their life cycle and outcomes while *)
(* the settings do not change, and the tallies.                              *)
(***************************************************************************)
EXTENDS Governor, FiniteSetTheorems, SumTheorems, TLAPS

-----------------------------------------------------------------------------
(* Facts about the operators.                                              *)

(* Every proposal has an id of the timelock, and its calls are calls.        *)
LEMMA TimelockIds ==
    /\ TL!Ids = Pids
    /\ \A p \in Pids : TL!Calls(p) \subseteq TL!AllCalls
    /\ \A p, q \in Pids : p # q => TL!Calls(p) \cap TL!Calls(q) = {}
  <1>1. TL!Ids = Pids
    BY DEF TL!Ids
  <1>2. \A p \in Pids : TL!Calls(p) \subseteq TL!AllCalls
    BY <1>1 DEF TL!AllCalls
  <1>3. \A p, q \in Pids : p # q => TL!Calls(p) \cap TL!Calls(q) = {}
    BY DEF TL!Calls
  <1>4. QED
    BY <1>1, <1>2, <1>3

(* Products and quotients of natural numbers are natural numbers.            *)
LEMMA Scaled ==
    ASSUME NEW x \in Nat, NEW y \in Nat
    PROVE  (x * y) \div 10000 \in Nat
  <1>1. x * y \in Nat
    OBVIOUS
  <1>2. \A z \in Nat : z \div 10000 \in Nat
    OBVIOUS
  <1>3. QED
    BY <1>1, <1>2

(* The square root of a weight is a weight.                                  *)
LEMMA RootType ==
    ASSUME NEW n \in Nat
    PROVE  isqrt(n) \in Nat
  <1>1. IsFiniteSet(1..n)
    BY FS_Interval
  <1>2. IsFiniteSet({r \in 1..n : r * r <= n})
    BY <1>1, FS_Subset
  <1>3. QED
    BY <1>2, FS_CardinalityType DEF isqrt

(* What a voter adds to a tally is a natural number.                         *)
LEMMA WeightType ==
    ASSUME TypeOK, NEW p \in Pids, NEW a \in Accounts
    PROVE  apply_vote_type(compute_votes(snapshot[p][a])) \in Nat
  <1>1. snapshot[p][a] \in Nat /\ strategy \in Nat
    BY DEF TypeOK
  <1>2. compute_votes(snapshot[p][a]) \in Nat
    BY <1>1, Scaled DEF compute_votes
  <1>3. QED
    BY <1>2, RootType DEF apply_vote_type

(* What the answers of state() mean.                                         *)
LEMMA StateFacts ==
    ASSUME NEW p \in Pids, prop[p] \in Proposal, seq \in Nat
    PROVE  /\ StateOf(p) \in {"Succeeded", "Pending", "Active"} =>
                 ~prop[p].queued /\ ~prop[p].executed /\ ~prop[p].cancelled
           /\ StateOf(p) = "Succeeded" => seq > prop[p].end_ledger /\ Passed(p)
           /\ StateOf(p) = "Queued" =>
                 prop[p].queued /\ ~prop[p].executed /\ ~prop[p].cancelled
  BY DEF StateOf, Proposal

(* The three flags and the queue time of a proposal are written one by one.  *)
LEMMA ProposalWrites ==
    ASSUME NEW r \in Proposal, NEW n \in Nat, NEW s \in Support
    PROVE  /\ [r EXCEPT !.cancelled = TRUE] \in Proposal
           /\ [r EXCEPT !.executed = TRUE] \in Proposal
           /\ [r EXCEPT !.queued = TRUE, !.queue_time = n] \in Proposal
           /\ [r EXCEPT !.tally[s] = r.tally[s] + n] \in Proposal
  <1>1. [r EXCEPT !.cancelled = TRUE] \in Proposal
    BY DEF Proposal
  <1>2. [r EXCEPT !.executed = TRUE] \in Proposal
    BY DEF Proposal
  <1>3. [r EXCEPT !.queued = TRUE, !.queue_time = n] \in Proposal
    BY DEF Proposal
  <1>4. [r EXCEPT !.tally[s] = r.tally[s] + n] \in Proposal
    <2>1. r.tally \in [Support -> Nat]
      BY DEF Proposal
    <2>2. [r.tally EXCEPT ![s] = r.tally[s] + n] \in [Support -> Nat]
      BY <2>1
    <2>3. QED
      BY <2>2 DEF Proposal
  <1>5. QED
    BY <1>1, <1>2, <1>3, <1>4

(* Setting a flag leaves the other fields as they were.                      *)
LEMMA ProposalReads ==
    ASSUME NEW r \in Proposal
    PROVE  LET x == [r EXCEPT !.executed = TRUE]
               c == [r EXCEPT !.cancelled = TRUE]
           IN  /\ x.executed /\ (x.queued <=> r.queued) /\ (x.cancelled <=> r.cancelled)
               /\ x.end_ledger = r.end_ledger /\ x.tally = r.tally
               /\ x.commit_deadline = r.commit_deadline
               /\ c.cancelled /\ (c.queued <=> r.queued) /\ (c.executed <=> r.executed)
               /\ c.end_ledger = r.end_ledger /\ c.tally = r.tally
               /\ c.commit_deadline = r.commit_deadline
  BY DEF Proposal

(* A new proposal is a proposal that nothing has happened to yet.            *)
LEMMA NewProposalFacts ==
    ASSUME TypeOK, NEW a \in Accounts
    PROVE  /\ NewProposal(a) \in Proposal
           /\ ~NewProposal(a).queued /\ ~NewProposal(a).executed
           /\ ~NewProposal(a).cancelled
  <1>1. /\ seq \in Nat /\ settings.voting_delay \in Nat /\ settings.voting_period \in Nat
        /\ settings.commit_phase_fraction \in Nat
    BY DEF TypeOK, TL!TypeOK, GovernorSettings
  <1>2. (settings.voting_period * settings.commit_phase_fraction) \div 10000 \in Nat
    BY <1>1, Scaled
  <1>3. CommitDeadline(seq + settings.voting_delay) \in Nat \cup {None}
    BY <1>1, <1>2 DEF CommitDeadline
  <1>4. QED
    BY <1>1, <1>3 DEF NewProposal, Proposal

-----------------------------------------------------------------------------
(* What the joint steps do to the timelock.                                *)

(* queue stores a fresh entry.                                               *)
LEMMA ScheduleEffect ==
    ASSUME TypeOK, NEW p \in Pids, TimelockSchedule(p)
    PROVE  /\ TL!TypeOK'
           /\ entry' = [entry EXCEPT ![p] = TL!NewEntry(minDelay, {})]
           /\ TL!NewEntry(minDelay, {}) \in TL!Entry
           /\ UNCHANGED <<seq, runs>>
  <1>1. TL!NewEntry(minDelay, {}) \in TL!Entry
    BY DEF TypeOK, TL!TypeOK, TL!NewEntry, TL!Entry
  <1>2. /\ entry' = [entry EXCEPT ![p] = TL!NewEntry(minDelay, {})]
        /\ UNCHANGED <<now, seq, minDelay, window, partial, retries, runs>>
    BY DEF TimelockSchedule, TL!schedule, TL!schedule_batch, TL!ScheduleOperation,
           TL!clock, TL!config
  <1>3. QED
    BY <1>1, <1>2, TimelockIds DEF TypeOK, TL!TypeOK

(* Executing an operation marks it, and each of its calls is made once.      *)
LEMMA ExecuteEffect ==
    ASSUME TypeOK, NEW p \in Pids, TimelockExecute(p)
    PROVE  /\ entry[p] \in TL!Entry /\ ~entry[p].executed /\ ~entry[p].cancelled
           /\ entry' = [entry EXCEPT ![p].executed = TRUE]
           /\ TL!Invoke(TL!Calls(p))
           /\ UNCHANGED <<now, seq, minDelay, window, partial, retries>>
  <1>1. TL!ExecuteAll(p)
    BY DEF TimelockExecute, TL!execute, TL!execute_batch
  <1>2. entry[p] # None /\ ~entry[p].executed /\ ~entry[p].cancelled
    BY <1>1 DEF TL!ExecuteAll, TL!Executable, TL!Exists
  <1>3. entry[p] \in TL!Entry
    BY <1>2, TimelockIds DEF TypeOK, TL!TypeOK
  <1>4. QED
    BY <1>1, <1>2, <1>3 DEF TL!ExecuteAll, TL!clock, TL!config

(* Cancelling is possible as long as an operation has not been executed.     *)
LEMMA CancelEffect ==
    ASSUME TypeOK, NEW caller, NEW p \in Pids, TL!cancel(caller, p)
    PROVE  /\ TL!TypeOK'
           /\ entry[p] \in TL!Entry /\ ~entry[p].executed /\ ~entry[p].cancelled
           /\ entry' = [entry EXCEPT ![p].cancelled = TRUE]
           /\ UNCHANGED <<seq, runs>>
  <1>1. entry[p] # None /\ ~entry[p].executed /\ ~entry[p].cancelled
    BY DEF TL!cancel, TL!Exists
  <1>2. entry[p] \in TL!Entry
    BY <1>1, TimelockIds DEF TypeOK, TL!TypeOK
  <1>3. [entry[p] EXCEPT !.cancelled = TRUE] \in TL!Entry
    BY <1>2 DEF TL!Entry
  <1>4. /\ entry' = [entry EXCEPT ![p].cancelled = TRUE]
        /\ UNCHANGED <<now, seq, minDelay, window, partial, retries, runs>>
    BY DEF TL!cancel, TL!clock, TL!config
  <1>5. TL!TypeOK'
    BY <1>3, <1>4, TimelockIds DEF TypeOK, TL!TypeOK
  <1>6. QED
    BY <1>1, <1>2, <1>4, <1>5

(* When calls are made, their counters stay numbers.                         *)
LEMMA InvokeType ==
    ASSUME TypeOK, NEW cs, TL!Invoke(cs)
    PROVE  runs' \in [TL!AllCalls -> Nat]
  BY DEF TypeOK, TL!TypeOK, TL!Invoke

(* Steps that leave the timelock alone leave it well-typed.                  *)
LEMMA SameTyped ==
    ASSUME TypeOK, UNCHANGED <<clock, timelockVars>>
    PROVE  TL!TypeOK' /\ UNCHANGED <<seq, entry, runs>>
  BY DEF TypeOK, TL!TypeOK, clock, timelockVars

-----------------------------------------------------------------------------
(* Type correctness.                                                       *)

(* Initially the types are right.                                            *)
LEMMA TypeInit == Init => TypeOK
  <1> SUFFICES ASSUME Init PROVE TypeOK
    OBVIOUS
  <1>1. TL!TypeOK /\ seq <= MaxLedger
    BY GovernorNumbers DEF Init, TL!Init, TL!TypeOK
  <1>2. settings \in GovernorSettings /\ settings.proposal_period_duration > 0
    BY SettingsAssumption DEF Init
  <1>3. votes \in [Accounts -> Nat] /\ snapshot \in [Pids -> [Accounts -> Nat]]
    BY PowerAssumption DEF Init
  <1>4. QED
    BY <1>1, <1>2, <1>3 DEF Init, TypeOK

(* Recording one outcome of one proposal, or what a reading finds, keeps the *)
(* records of scores well-typed.                                             *)
LEMMA ScoreType ==
    ASSUME TypeOK
    PROVE  /\ \A p \in Pids, o \in Outcome : Record(p, o) => scored' \in [Pids -> [Outcome -> Nat]]
           /\ \A ps \in SUBSET Pids : Settle(ps) =>
                 /\ scored' \in [Pids -> [Outcome -> Nat]]
                 /\ defeatScored' \subseteq Pids /\ expiryScored' \subseteq Pids
  <1>1. ASSUME NEW p \in Pids, NEW o \in Outcome, Record(p, o)
        PROVE  scored' \in [Pids -> [Outcome -> Nat]]
    BY <1>1 DEF Record, TypeOK
  <1>2. ASSUME NEW ps \in SUBSET Pids, Settle(ps)
        PROVE  scored' \in [Pids -> [Outcome -> Nat]]
    BY <1>2 DEF Settle, TypeOK
  <1>3. ASSUME NEW ps \in SUBSET Pids, Settle(ps)
        PROVE  defeatScored' \subseteq Pids /\ expiryScored' \subseteq Pids
    BY <1>3 DEF Settle, TypeOK, NewDefeats, NewExpiries
  <1>4. QED
    BY <1>1, <1>2, <1>3

(* Every new proposal keeps the types right.                                 *)
LEMMA TypeCreate ==
    ASSUME TypeOK, NEW a \in Accounts, create_proposal_internal(a)
    PROVE  TypeOK'
  <1>1. TL!TypeOK' /\ seq' = seq
    BY SameTyped DEF create_proposal_internal
  <1>2. prop' \in [Pids -> Proposal \cup {None}]
    BY NewProposalFacts DEF create_proposal_internal, TypeOK
  <1>3. lastProposal' \in [Accounts -> Nat \cup {None}]
    BY DEF create_proposal_internal, TypeOK, TL!TypeOK
  <1>4. inPeriod' \in [Accounts -> [Periods -> Nat]]
    BY DEF create_proposal_internal, TypeOK
  <1>5. QED
    BY <1>1, <1>2, <1>3, <1>4
    DEF create_proposal_internal, TypeOK, scoreVars, configVars, powerVars

(* Every vote that is counted keeps the types right.                         *)
LEMMA TypeCount ==
    ASSUME TypeOK, NEW a \in Accounts, NEW p \in Pids, NEW s \in Support,
           Exists(p), CountVote(a, p, s)
    PROVE  TypeOK'
  <1> DEFINE w == apply_vote_type(compute_votes(snapshot[p][a]))
  <1>1. TL!TypeOK' /\ seq' = seq
    BY SameTyped DEF CountVote
  <1>2. w \in Nat
    BY WeightType
  <1>3. prop[p] \in Proposal
    BY DEF Exists, TypeOK
  <1>4. prop' \in [Pids -> Proposal \cup {None}]
    <2>1. prop' = [prop EXCEPT ![p] = [prop[p] EXCEPT !.tally[s] = prop[p].tally[s] + w]]
      BY DEF CountVote
    <2>2. [prop[p] EXCEPT !.tally[s] = prop[p].tally[s] + w] \in Proposal
      BY <1>2, <1>3, ProposalWrites
    <2>3. QED
      BY <2>1, <2>2 DEF TypeOK
  <1>5. receipt' \in [Pids -> [Accounts -> Receipt \cup {None}]]
    <2>1. [support |-> s, weight |-> w] \in Receipt
      BY <1>2 DEF Receipt
    <2>2. receipt' = [receipt EXCEPT ![p][a] = [support |-> s, weight |-> w]]
      BY DEF CountVote
    <2>3. QED
      BY <2>1, <2>2 DEF TypeOK
  <1>6. QED
    BY <1>1, <1>4, <1>5
    DEF CountVote, TypeOK, scoreVars, limitVars, configVars, powerVars

(* Queueing keeps the types right.                                           *)
LEMMA TypeQueue ==
    ASSUME TypeOK, NEW p \in Pids, queue(p)
    PROVE  TypeOK'
  <1>1. TL!TypeOK' /\ seq' = seq
    BY ScheduleEffect DEF queue
  <1>2. prop[p] \in Proposal /\ seq \in Nat
    BY DEF queue, Exists, TypeOK, TL!TypeOK
  <1>3. [prop[p] EXCEPT !.queued = TRUE, !.queue_time = seq] \in Proposal
    <2>1. \E s \in Support : TRUE
      BY DEF Support
    <2>2. QED
      BY <1>2, <2>1, ProposalWrites
  <1>4. prop' = [prop EXCEPT ![p] = [prop[p] EXCEPT !.queued = TRUE, !.queue_time = seq]]
    BY <1>2 DEF queue, TypeOK
  <1>5. prop' \in [Pids -> Proposal \cup {None}]
    BY <1>3, <1>4 DEF TypeOK
  <1>6. scored' \in [Pids -> [Outcome -> Nat]]
    BY ScoreType DEF queue, Outcome
  <1>7. QED
    BY <1>1, <1>5, <1>6 DEF queue, TypeOK, limitVars, configVars, powerVars

(* Marking proposals as executed, or as cancelled, keeps their type.         *)
LEMMA FlagTyped ==
    ASSUME TypeOK, NEW ps \in SUBSET Pids, \A p \in ps : Exists(p)
    PROVE  /\ \A p \in ps : prop[p] \in Proposal
           /\ \A p \in ps : [prop[p] EXCEPT !.executed = TRUE] \in Proposal
           /\ \A p \in ps : [prop[p] EXCEPT !.cancelled = TRUE] \in Proposal
  <1>1. \A p \in ps : prop[p] \in Proposal
    BY DEF Exists, TypeOK
  <1>2. 0 \in Nat /\ "For" \in Support
    BY DEF Support
  <1>3. QED
    BY <1>1, <1>2, ProposalWrites

(* Executing one proposal keeps the types right.                             *)
LEMMA TypeExecute ==
    ASSUME TypeOK, NEW p \in Pids, execute(p)
    PROVE  TypeOK'
  <1>1. /\ entry[p] \in TL!Entry
        /\ entry' = [entry EXCEPT ![p].executed = TRUE]
        /\ TL!Invoke(TL!Calls(p))
        /\ UNCHANGED <<now, seq, minDelay, window, partial, retries>>
    BY ExecuteEffect DEF execute
  <1>2. TL!TypeOK'
    <2>1. [entry[p] EXCEPT !.executed = TRUE] \in TL!Entry
      BY <1>1 DEF TL!Entry
    <2>2. entry' \in [TL!Ids -> TL!Entry \cup {None}]
      BY <1>1, <2>1, TimelockIds DEF TypeOK, TL!TypeOK
    <2>3. runs' \in [TL!AllCalls -> Nat]
      BY <1>1, InvokeType
    <2>4. QED
      BY <1>1, <2>2, <2>3 DEF TypeOK, TL!TypeOK
  <1>3. [prop[p] EXCEPT !.executed = TRUE] \in Proposal
    <2>1. Exists(p)
      BY DEF execute
    <2>2. QED
      BY <2>1, FlagTyped
  <1>4. prop' \in [Pids -> Proposal \cup {None}]
    BY <1>3 DEF execute, TypeOK
  <1>5. scored' \in [Pids -> [Outcome -> Nat]]
    BY ScoreType DEF execute, Outcome
  <1>6. QED
    BY <1>1, <1>2, <1>4, <1>5 DEF execute, TypeOK, limitVars, configVars, powerVars

(* Executing several proposals keeps the types right.                        *)
LEMMA TypeExecuteBatch ==
    ASSUME TypeOK, NEW ps \in SUBSET Pids, execute_batch(ps)
    PROVE  TypeOK'
  <1>1. \A p \in ps : entry[p] \in TL!Entry
    BY TimelockIds DEF execute_batch, TL!Executable, TL!Exists, TypeOK, TL!TypeOK
  <1>2. TL!TypeOK'
    <2>1. \A p \in ps : [entry[p] EXCEPT !.executed = TRUE] \in TL!Entry
      BY <1>1 DEF TL!Entry
    <2>2. entry' \in [Pids -> TL!Entry \cup {None}]
      BY <2>1, TimelockIds DEF execute_batch, TypeOK, TL!TypeOK
    <2>3. runs' \in [TL!AllCalls -> Nat]
      BY InvokeType DEF execute_batch
    <2>4. QED
      BY <2>2, <2>3, TimelockIds DEF execute_batch, TypeOK, TL!TypeOK, clock
  <1>3. \A p \in ps : [prop[p] EXCEPT !.executed = TRUE] \in Proposal
    BY FlagTyped DEF execute_batch
  <1>4. prop' \in [Pids -> Proposal \cup {None}]
    BY <1>3 DEF execute_batch, TypeOK
  <1>5. scored' \in [Pids -> [Outcome -> Nat]]
    BY DEF execute_batch, TypeOK, Outcome
  <1>6. QED
    BY <1>2, <1>4, <1>5
    DEF execute_batch, TypeOK, clock, limitVars, configVars, powerVars

(* Cancelling, by whomever, keeps the types right.                           *)
LEMMA TypeCancel ==
    ASSUME TypeOK, NEW p \in Pids, NEW caller \in Accounts,
           cancel(caller, p) \/ cancel_queued(caller, p) \/ cancel_by_governance(p)
    PROVE  TypeOK'
  <1>1. Exists(p) /\ prop' = [prop EXCEPT ![p].cancelled = TRUE]
    BY DEF cancel, cancel_queued, cancel_by_governance
  <1>2. [prop[p] EXCEPT !.cancelled = TRUE] \in Proposal
    BY <1>1, FlagTyped
  <1>3. prop' \in [Pids -> Proposal \cup {None}]
    BY <1>1, <1>2 DEF TypeOK
  <1>4. TL!TypeOK' /\ seq' = seq
    BY SameTyped, CancelEffect DEF cancel, cancel_queued, cancel_by_governance
  <1>5. /\ scored' \in [Pids -> [Outcome -> Nat]]
        /\ defeatScored' \subseteq Pids /\ expiryScored' \subseteq Pids
    <2>1. CASE cancel(caller, p) \/ cancel_queued(caller, p)
      BY <2>1, ScoreType DEF cancel, cancel_queued, Outcome, TypeOK
    <2>2. CASE cancel_by_governance(p)
      <3>1. scored' \in [Pids -> [Outcome -> Nat]]
        BY <2>2 DEF cancel_by_governance, TypeOK
      <3>2. QED
        BY <2>2, <3>1 DEF cancel_by_governance, TypeOK, NewDefeats, NewExpiries
    <2>3. QED
      BY <2>1, <2>2
  <1>6. QED
    BY <1>3, <1>4, <1>5
    DEF cancel, cancel_queued, cancel_by_governance, TypeOK, limitVars, configVars, powerVars

(* Fields of settings are replaced by fields of settings.                    *)
LEMMA SettingsWrites ==
    ASSUME NEW r \in GovernorSettings, NEW s \in GovernorSettings,
           r.proposal_period_duration > 0
    PROVE  LET limits == [r EXCEPT !.proposal_cooldown = s.proposal_cooldown,
                            !.max_proposals_per_period = s.max_proposals_per_period]
               oracle == [r EXCEPT !.reflector_oracle = s.reflector_oracle,
                            !.min_quorum_usd = s.min_quorum_usd,
                            !.use_dynamic_quorum = s.use_dynamic_quorum]
           IN  /\ limits \in GovernorSettings /\ limits.proposal_period_duration > 0
               /\ oracle \in GovernorSettings /\ oracle.proposal_period_duration > 0
  <1> DEFINE limits == [r EXCEPT !.proposal_cooldown = s.proposal_cooldown,
                          !.max_proposals_per_period = s.max_proposals_per_period]
             oracle == [r EXCEPT !.reflector_oracle = s.reflector_oracle,
                          !.min_quorum_usd = s.min_quorum_usd,
                          !.use_dynamic_quorum = s.use_dynamic_quorum]
  <1>1. limits \in GovernorSettings
    BY DEF GovernorSettings
  <1>2. oracle \in GovernorSettings
    BY DEF GovernorSettings
  <1>3. limits.proposal_period_duration > 0 /\ oracle.proposal_period_duration > 0
    BY DEF GovernorSettings
  <1>4. QED
    BY <1>1, <1>2, <1>3

(* Changes of the configuration keep the types right.                        *)
LEMMA TypeConfig ==
    ASSUME TypeOK,
           \/ \E a \in Accounts, s \in Settings : set_initial_config(a, s)
           \/ \E s \in Settings : update_config(s) \/ update_oracle(s)
           \/ \E a \in Accounts : set_guardian(a)
           \/ \E bps \in Strategies : set_voting_strategy(bps)
    PROVE  TypeOK' /\ ConfigStep
  <1>1. ConfigStep
    BY DEF set_initial_config, update_config, update_oracle, set_guardian, set_voting_strategy
  <1>2. /\ settings' \in GovernorSettings
        /\ settings'.proposal_period_duration > 0
        /\ strategy' \in Nat
    <2>1. CASE \E a \in Accounts, s \in Settings : set_initial_config(a, s)
      <3> PICK a \in Accounts, s \in Settings : set_initial_config(a, s)
        BY <2>1
      <3>1. s \in GovernorSettings
        BY SettingsAssumption
      <3>2. QED
        BY <3>1, SettingsWrites DEF set_initial_config, TypeOK
    <2>2. CASE \E s \in Settings : update_config(s)
      BY <2>2, SettingsAssumption DEF update_config, validate_settings, TypeOK
    <2>3. CASE \E s \in Settings : update_oracle(s)
      <3> PICK s \in Settings : update_oracle(s)
        BY <2>3
      <3>1. s \in GovernorSettings
        BY SettingsAssumption
      <3>2. QED
        BY <3>1, SettingsWrites DEF update_oracle, TypeOK
    <2>4. CASE \E a \in Accounts : set_guardian(a)
      BY <2>4 DEF set_guardian, GovernorSettings, TypeOK
    <2>5. CASE \E bps \in Strategies : set_voting_strategy(bps)
      BY <2>5, GovernorNumbers DEF set_voting_strategy, TypeOK
    <2>6. QED
      BY <2>1, <2>2, <2>3, <2>4, <2>5
  <1>3. TL!TypeOK' /\ seq' = seq
    BY <1>1, SameTyped DEF ConfigStep
  <1>4. QED
    BY <1>1, <1>2, <1>3 DEF ConfigStep, TypeOK, scoreVars, limitVars, powerVars

(* Steps of the environment keep the types right.                            *)
LEMMA TypeEnvironment ==
    ASSUME TypeOK,
           \/ \E a, b \in Accounts : DelegateVotes(a, b)
           \/ \E x \in Prices : PriceMoves(x)
           \/ CloseLedger
           \/ TimelockAdminStep
    PROVE  TypeOK'
  <1>1. CASE \E a, b \in Accounts : DelegateVotes(a, b)
    <2> PICK a \in Accounts, b \in Accounts : DelegateVotes(a, b)
      BY <1>1
    <2>1. votes' \in [Accounts -> Nat]
      BY DEF DelegateVotes, TypeOK
    <2>2. snapshot' \in [Pids -> [Accounts -> Nat]]
      BY <2>1 DEF DelegateVotes, TypeOK
    <2>3. TL!TypeOK' /\ seq' = seq
      BY SameTyped DEF DelegateVotes
    <2>4. QED
      BY <2>1, <2>2, <2>3 DEF DelegateVotes, TypeOK, scoreVars, limitVars, configVars
  <1>2. CASE \E x \in Prices : PriceMoves(x)
    <2>1. TL!TypeOK' /\ seq' = seq
      BY <1>2, SameTyped DEF PriceMoves
    <2>2. price' \in Nat
      BY <1>2, GovernorNumbers DEF PriceMoves
    <2>3. QED
      BY <1>2, <2>1, <2>2 DEF PriceMoves, TypeOK, scoreVars, limitVars, configVars, powerVars
  <1>3. CASE CloseLedger
    <2>1. TL!TypeOK' /\ seq' <= MaxLedger
      BY <1>3, GovernorNumbers DEF CloseLedger, TL!CloseLedger, TL!config, TypeOK, TL!TypeOK
    <2>2. QED
      BY <1>3, <2>1 DEF CloseLedger, TypeOK, scoreVars, limitVars, configVars, powerVars
  <1>4. CASE TimelockAdminStep
    <2>1. CASE \E p \in Pids : TL!cancel(TimelockAdmin, p)
      <3>1. TL!TypeOK' /\ seq' = seq
        BY <2>1, CancelEffect
      <3>2. QED
        BY <1>4, <3>1 DEF TimelockAdminStep, TypeOK, scoreVars, limitVars, configVars, powerVars
    <2>2. CASE \E d \in Delays : TL!update_delay(TimelockAdmin, d)
      <3>1. TL!TypeOK' /\ seq' = seq
        BY <2>2, GovernorNumbers DEF TL!update_delay, TL!clock, TypeOK, TL!TypeOK
      <3>2. QED
        BY <1>4, <3>1 DEF TimelockAdminStep, TypeOK, scoreVars, limitVars, configVars, powerVars
    <2>3. CASE \E w \in Windows : TL!update_execution_window(TimelockAdmin, w)
      <3>1. TL!TypeOK' /\ seq' = seq
        BY <2>3, GovernorNumbers DEF TL!update_execution_window, TL!clock, TypeOK, TL!TypeOK
      <3>2. QED
        BY <1>4, <3>1 DEF TimelockAdminStep, TypeOK, scoreVars, limitVars, configVars, powerVars
    <2>4. QED
      BY <1>4, <2>1, <2>2, <2>3 DEF TimelockAdminStep
  <1>5. QED
    BY <1>1, <1>2, <1>3, <1>4

(* The vote that vote(choice) casts is one that cast_vote casts.             *)
LEMMA VoteIsDirect ==
    ASSUME NEW a \in Accounts, NEW p \in Pids, NEW c \in 0..2, vote(a, p, c)
    PROVE  \E s \in Support : DirectVote(a, p, s)
  <1>1. CASE c = 0
    BY <1>1 DEF vote, cast_vote, Support
  <1>2. CASE c = 1
    BY <1>2 DEF vote, cast_vote, Support
  <1>3. CASE c = 2
    BY <1>3 DEF vote, cast_vote, Support
  <1>4. QED
    BY <1>1, <1>2, <1>3

(* Every step, grouped by what it does to the state.                         *)
LEMMA StepCases ==
    ASSUME [Next \/ Governance]_vars
    PROVE  \/ \E a \in Accounts : create_proposal_internal(a)
           \/ \E a \in Accounts, p \in Pids, s \in Support :
                 DirectVote(a, p, s) \/ reveal_vote(a, p, s) \/ commit_vote(a, p, s)
           \/ \E p \in Pids : queue(p) \/ execute(p) \/ state(p)
           \/ \E ps \in SUBSET Pids : execute_batch(ps)
           \/ \E a \in Accounts, p \in Pids :
                 cancel(a, p) \/ cancel_queued(a, p) \/ cancel_by_governance(p)
           \/ proposals_count_by_state
           \/ \/ \E a \in Accounts, s \in Settings : set_initial_config(a, s)
              \/ \E s \in Settings : update_config(s) \/ update_oracle(s)
              \/ \E a \in Accounts : set_guardian(a)
              \/ \E bps \in Strategies : set_voting_strategy(bps)
           \/ \/ \E a, b \in Accounts : DelegateVotes(a, b)
              \/ \E x \in Prices : PriceMoves(x)
              \/ CloseLedger
              \/ TimelockAdminStep
           \/ UNCHANGED vars
  <1>1. CASE \E a \in Accounts : AccountStep(a)
    BY <1>1, VoteIsDirect
    DEF AccountStep, propose, propose_via_registry, cast_vote, cast_vote_with_reason
  <1>2. CASE Governance
    BY <1>2, AccountsAssumption DEF Governance
  <1>3. QED
    BY <1>1, <1>2 DEF Next

(* Every step of the contract, of governance and of the environment keeps    *)
(* the types right.                                                          *)
LEMMA TypeStep == TypeOK /\ [Next \/ Governance]_vars => TypeOK'
  <1> SUFFICES ASSUME TypeOK, [Next \/ Governance]_vars PROVE TypeOK'
    OBVIOUS
  <1>1. CASE \E a \in Accounts : create_proposal_internal(a)
    BY <1>1, TypeCreate
  <1>2. CASE \E a \in Accounts, p \in Pids, s \in Support :
               DirectVote(a, p, s) \/ reveal_vote(a, p, s)
    BY <1>2, TypeCount DEF DirectVote, reveal_vote
  <1>3. CASE \E a \in Accounts, p \in Pids, s \in Support : commit_vote(a, p, s)
    <2>1. TL!TypeOK' /\ seq' = seq
      BY <1>3, SameTyped DEF commit_vote
    <2>2. commitment' \in [Pids -> [Accounts -> Support \cup {None}]]
      BY <1>3 DEF commit_vote, TypeOK
    <2>3. QED
      BY <1>3, <2>1, <2>2
      DEF commit_vote, TypeOK, scoreVars, limitVars, configVars, powerVars
  <1>4. CASE \E p \in Pids : queue(p) \/ execute(p)
    BY <1>4, TypeQueue, TypeExecute
  <1>5. CASE (\E p \in Pids : state(p)) \/ proposals_count_by_state
    <2>1. PICK ps \in SUBSET Pids : Settle(ps)
      BY <1>5 DEF state, proposals_count_by_state
    <2>2. TL!TypeOK' /\ seq' = seq
      BY <1>5, SameTyped DEF state, proposals_count_by_state
    <2>3. QED
      BY <1>5, <2>1, <2>2, ScoreType
      DEF state, proposals_count_by_state, TypeOK, limitVars, configVars, powerVars
  <1>6. CASE \E ps \in SUBSET Pids : execute_batch(ps)
    BY <1>6, TypeExecuteBatch
  <1>7. CASE \E a \in Accounts, p \in Pids :
               cancel(a, p) \/ cancel_queued(a, p) \/ cancel_by_governance(p)
    BY <1>7, TypeCancel
  <1>8. CASE UNCHANGED vars
    <2>1. TL!TypeOK' /\ seq' = seq
      BY <1>8, SameTyped DEF vars
    <2>2. QED
      BY <1>8, <2>1 DEF vars, TypeOK, scoreVars, limitVars, configVars, powerVars
  <1>9. QED
    BY <1>1, <1>2, <1>3, <1>4, <1>5, <1>6, <1>7, <1>8, StepCases, TypeConfig, TypeEnvironment

(* In every reachable state the storage of the governor and of the timelock  *)
(* it drives is well-typed, whatever governance changes (all entry points).  *)
THEOREM TypeCorrect == GovernedSpec => []TypeOK
  BY TypeInit, TypeStep, PTL DEF GovernedSpec

-----------------------------------------------------------------------------
(* The invariant.                                                          *)

\* Proposals are numbered without gaps, so the next number is free.
Numbered == \A p, q \in Pids : q < p /\ Exists(p) => Exists(q)

\* Only proposals that exist have been voted on.
VotesExist == \A p \in Pids, a \in Accounts : HasVoted(a, p) => Exists(p)

\* Under commit-reveal nothing is revealed in the commit phase.
RevealedLate ==
    \A p \in Pids, a \in Accounts :
        HasVoted(a, p) /\ prop[p].commit_deadline # None => seq > prop[p].commit_deadline

Safe == /\ Numbered /\ VotesExist /\ RevealedLate
        /\ BallotsBinding /\ DecidedByVote /\ TimelockAgrees

IndInv == TypeOK /\ Safe

\* What TimelockAgrees says of one proposal.
AgreesOn(p) ==
    /\ TL!Exists(p) <=> Exists(p) /\ prop[p].queued
    /\ Exists(p) /\ prop[p].queued =>
          /\ prop[p].executed <=> entry[p].executed
          /\ prop[p].cancelled => entry[p].cancelled
    /\ Exists(p) /\ prop[p].executed => prop[p].queued /\ ~prop[p].cancelled
    /\ \A c \in TL!Calls(p) :
          runs[c] = IF Exists(p) /\ prop[p].executed THEN 1 ELSE 0

(* The proposals that exist are 1, ..., Count.                               *)
LEMMA CountFacts ==
    ASSUME Numbered
    PROVE  /\ Count \in Nat
           /\ Count < MaxProposals => Count + 1 \in Pids
           /\ \A p \in Pids : Exists(p) <=> p <= Count
  <1> DEFINE S == {p \in Pids : Exists(p)}
  <1>1. MaxProposals \in Nat /\ Pids = 1..MaxProposals
    BY GovernorNumbers DEF Pids
  <1>2. IsFiniteSet(Pids)
    BY <1>1, FS_Interval
  <1>3. IsFiniteSet(S)
    BY <1>2, FS_Subset
  <1>4. Count = Cardinality(S) /\ Count \in Nat
    BY <1>3, FS_CardinalityType DEF Count
  <1>5. ASSUME NEW p \in Pids, Exists(p)
        PROVE  p <= Count
    <2>1. 1..p \subseteq S
      BY <1>1, <1>5 DEF Numbered
    <2>2. Cardinality(1..p) = p
      BY <1>1, FS_Interval
    <2>3. Cardinality(1..p) <= Cardinality(S)
      BY <1>3, <2>1, FS_Subset
    <2>4. QED
      BY <1>4, <2>2, <2>3
  <1>6. ASSUME NEW p \in Pids, p <= Count
        PROVE  Exists(p)
    <2>1. SUFFICES ASSUME ~Exists(p) PROVE FALSE
      OBVIOUS
    <2>2. S \subseteq 1..(p - 1)
      BY <1>1, <2>1 DEF Numbered
    <2>3. IsFiniteSet(1..(p - 1)) /\ Cardinality(1..(p - 1)) = p - 1
      BY <1>1, FS_Interval
    <2>4. Cardinality(S) <= Cardinality(1..(p - 1))
      BY <2>2, <2>3, FS_Subset
    <2>5. QED
      BY <1>1, <1>4, <1>6, <2>3, <2>4
  <1>7. QED
    BY <1>1, <1>4, <1>5, <1>6

(* Nothing is created, voted on or scheduled in the initial states.          *)
LEMMA SafeInit == Init => Safe
  <1> SUFFICES ASSUME Init PROVE Safe
    OBVIOUS
  <1>1. Numbered /\ VotesExist /\ RevealedLate /\ BallotsBinding /\ DecidedByVote
    BY DEF Init, Numbered, VotesExist, RevealedLate, BallotsBinding, DecidedByVote,
           Exists, HasVoted
  <1>2. TimelockAgrees
    BY TimelockIds DEF Init, TL!Init, TimelockAgrees, TL!Exists, Exists
  <1>3. QED
    BY <1>1, <1>2 DEF Safe

(* Steps that leave proposals, votes and operations alone, time apart.       *)
LEMMA SafeFrame ==
    ASSUME IndInv, UNCHANGED <<prop, receipt, commitment, entry, runs>>,
           seq' \in Nat, seq' >= seq
    PROVE  Safe'
  <1>1. seq \in Nat
    BY DEF IndInv, TypeOK, TL!TypeOK
  <1>2. /\ \A p \in Pids : Exists(p)' = Exists(p) /\ TL!Exists(p)' = TL!Exists(p)
        /\ \A p \in Pids, a \in Accounts : HasVoted(a, p)' = HasVoted(a, p)
    BY DEF Exists, TL!Exists, HasVoted
  <1>3. \A p \in Pids : Exists(p) =>
           prop[p].end_ledger \in Nat /\ prop[p].commit_deadline \in Nat \cup {None}
    BY DEF IndInv, TypeOK, Exists, Proposal
  <1>4. Numbered' /\ VotesExist'
    BY <1>2 DEF IndInv, Safe, Numbered, VotesExist
  <1>5. RevealedLate'
    BY <1>1, <1>2, <1>3 DEF IndInv, Safe, RevealedLate, VotesExist
  <1>6. BallotsBinding'
    BY <1>2 DEF IndInv, Safe, BallotsBinding
  <1>7. DecidedByVote'
    BY <1>1, <1>2, <1>3 DEF IndInv, Safe, DecidedByVote
  <1>8. TimelockAgrees'
    BY <1>2 DEF IndInv, Safe, TimelockAgrees
  <1>9. QED
    BY <1>4, <1>5, <1>6, <1>7, <1>8 DEF Safe

(* A new proposal takes a free number: nobody has voted on it and it has no  *)
(* operation.                                                                *)
LEMMA SafeCreate ==
    ASSUME IndInv, NEW a \in Accounts, create_proposal_internal(a)
    PROVE  Safe'
  <1>1. PICK n \in Pids : /\ n = Count + 1 /\ ~Exists(n)
                          /\ \A p \in Pids : Exists(p) <=> p < n
    BY CountFacts DEF IndInv, Safe, create_proposal_internal, Pids
  <1>2. /\ prop' = [prop EXCEPT ![n] = NewProposal(a)]
        /\ UNCHANGED <<seq, receipt, commitment, entry, runs>>
    BY <1>1 DEF create_proposal_internal, clock, timelockVars
  <1>3. prop'[n] = NewProposal(a) /\ \A p \in Pids \ {n} : prop'[p] = prop[p]
    BY <1>1, <1>2 DEF IndInv, TypeOK
  <1>4. /\ NewProposal(a) # None
        /\ ~NewProposal(a).queued /\ ~NewProposal(a).executed /\ ~NewProposal(a).cancelled
    BY NewProposalFacts, NoneAssumption DEF IndInv
  <1>5. /\ Exists(n)' /\ \A p \in Pids \ {n} : Exists(p)' = Exists(p)
        /\ \A p \in Pids : TL!Exists(p)' = TL!Exists(p)
        /\ \A p \in Pids, b \in Accounts : HasVoted(b, p)' = HasVoted(b, p)
        /\ \A b \in Accounts : ~HasVoted(b, n)
    BY <1>1, <1>2, <1>3, <1>4 DEF Exists, TL!Exists, HasVoted, IndInv, Safe, VotesExist
  <1>6. Numbered'
    BY <1>1, <1>5 DEF Numbered, Pids
  <1>7. VotesExist'
    BY <1>5 DEF IndInv, Safe, VotesExist
  <1>8. RevealedLate' /\ BallotsBinding'
    BY <1>2, <1>3, <1>5 DEF IndInv, Safe, RevealedLate, BallotsBinding
  <1>9. DecidedByVote'
    BY <1>2, <1>3, <1>4, <1>5 DEF IndInv, Safe, DecidedByVote
  <1>10. TimelockAgrees'
    BY <1>1, <1>2, <1>3, <1>4, <1>5 DEF IndInv, Safe, TimelockAgrees
  <1>11. QED
    BY <1>6, <1>7, <1>8, <1>9, <1>10 DEF Safe

(* A vote changes the tally of an open proposal; a revealed one is the vote  *)
(* that was committed, and its reveal comes after the commit phase.          *)
LEMMA SafeCount ==
    ASSUME IndInv, NEW a \in Accounts, NEW p \in Pids, NEW s \in Support,
           DirectVote(a, p, s) \/ reveal_vote(a, p, s)
    PROVE  Safe'
  <1> DEFINE w == apply_vote_type(compute_votes(snapshot[p][a]))
             r == [prop[p] EXCEPT !.tally[s] = prop[p].tally[s] + w]
  <1>1. /\ Exists(p) /\ Open(p) /\ CountVote(a, p, s)
        /\ prop[p].commit_deadline # None =>
              seq > prop[p].commit_deadline /\ commitment[p][a] = s
    BY DEF DirectVote, reveal_vote
  <1>2. w \in Nat /\ prop[p] \in Proposal
    BY <1>1, WeightType DEF IndInv, TypeOK, Exists
  <1>3. /\ prop' = [prop EXCEPT ![p] = r]
        /\ receipt' = [receipt EXCEPT ![p][a] = [support |-> s, weight |-> w]]
        /\ UNCHANGED <<seq, commitment, entry, runs>>
    BY <1>1 DEF CountVote, clock, timelockVars
  <1>4. /\ r \in Proposal
        /\ r.queued = prop[p].queued /\ r.executed = prop[p].executed
        /\ r.cancelled = prop[p].cancelled /\ r.commit_deadline = prop[p].commit_deadline
    <2>1. r \in Proposal
      BY <1>2, ProposalWrites
    <2>2. QED
      BY <1>2, <2>1 DEF Proposal
  <1>5. prop'[p] = r /\ \A q \in Pids \ {p} : prop'[q] = prop[q]
    BY <1>3 DEF IndInv, TypeOK
  <1>6. /\ \A q \in Pids : Exists(q)' = Exists(q) /\ TL!Exists(q)' = TL!Exists(q)
        /\ HasVoted(a, p)' /\ receipt'[p][a].support = s
        /\ \A q \in Pids, b \in Accounts : q # p \/ b # a => receipt'[q][b] = receipt[q][b]
    <2>1. [support |-> s, weight |-> w] # None
      BY <1>2, NoneAssumption DEF Receipt
    <2>2. r # None
      BY <1>4, NoneAssumption
    <2>3. QED
      BY <1>1, <1>3, <1>5, <2>1, <2>2 DEF Exists, TL!Exists, HasVoted, IndInv, TypeOK
  <1>7. Numbered' /\ VotesExist'
    BY <1>1, <1>6 DEF IndInv, Safe, Numbered, VotesExist, HasVoted
  <1>8. RevealedLate' /\ BallotsBinding'
    BY <1>1, <1>3, <1>4, <1>5, <1>6
    DEF IndInv, Safe, RevealedLate, BallotsBinding, HasVoted
  <1>9. DecidedByVote'
    BY <1>1, <1>3, <1>4, <1>5, <1>6 DEF IndInv, Safe, DecidedByVote, Open
  <1>10. TimelockAgrees'
    BY <1>3, <1>4, <1>5, <1>6 DEF IndInv, Safe, TimelockAgrees
  <1>11. QED
    BY <1>7, <1>8, <1>9, <1>10 DEF Safe

(* A commitment is made in the commit phase, before anything is revealed.    *)
LEMMA SafeCommit ==
    ASSUME IndInv, NEW a \in Accounts, NEW p \in Pids, NEW s \in Support,
           commit_vote(a, p, s)
    PROVE  Safe' /\ (\A b \in Accounts : ~HasVoted(b, p))
  <1>1. /\ Exists(p) /\ prop[p].commit_deadline # None
        /\ seq <= prop[p].commit_deadline
        /\ commitment' = [commitment EXCEPT ![p][a] = s]
        /\ UNCHANGED <<seq, prop, receipt, entry, runs>>
    BY DEF commit_vote, clock, timelockVars
  <1>2. prop[p].commit_deadline \in Nat /\ seq \in Nat
    BY <1>1 DEF IndInv, TypeOK, TL!TypeOK, Exists, Proposal
  <1>3. \A b \in Accounts : ~HasVoted(b, p)
    BY <1>1, <1>2 DEF IndInv, Safe, RevealedLate
  <1>4. \A q \in Pids \ {p} : commitment'[q] = commitment[q]
    BY <1>1 DEF IndInv, TypeOK
  <1>5. /\ \A q \in Pids : Exists(q)' = Exists(q) /\ TL!Exists(q)' = TL!Exists(q)
        /\ \A q \in Pids, b \in Accounts : HasVoted(b, q)' = HasVoted(b, q)
    BY <1>1 DEF Exists, TL!Exists, HasVoted
  <1>6. Numbered' /\ VotesExist' /\ RevealedLate'
    BY <1>1, <1>5 DEF IndInv, Safe, Numbered, VotesExist, RevealedLate
  <1>7. BallotsBinding'
    BY <1>1, <1>3, <1>4, <1>5 DEF IndInv, Safe, BallotsBinding
  <1>8. DecidedByVote' /\ TimelockAgrees'
    BY <1>1, <1>5 DEF IndInv, Safe, DecidedByVote, TimelockAgrees
  <1>9. QED
    BY <1>3, <1>6, <1>7, <1>8 DEF Safe

(* What the proofs need of a step that writes the flags of the proposals in  *)
(* ps and nothing of their votes.                                            *)
LEMMA SafeFlags ==
    ASSUME IndInv, UNCHANGED <<seq, receipt, commitment>>, NEW ps \in SUBSET Pids,
           \A p \in Pids \ ps : prop'[p] = prop[p],
           \A p \in ps : /\ Exists(p) /\ prop'[p] \in Proposal
                          /\ prop'[p].commit_deadline = prop[p].commit_deadline
    PROVE  /\ \A p \in Pids : Exists(p)' = Exists(p)
           /\ Numbered' /\ VotesExist' /\ RevealedLate' /\ BallotsBinding'
  <1>1. \A p \in Pids : Exists(p)' = Exists(p)
    BY NoneAssumption DEF Exists
  <1>2. \A p \in Pids, a \in Accounts : HasVoted(a, p)' = HasVoted(a, p)
    BY DEF HasVoted
  <1>3. \A p \in Pids : Exists(p) => prop'[p].commit_deadline = prop[p].commit_deadline
    OBVIOUS
  <1>4. Numbered' /\ VotesExist'
    BY <1>1, <1>2 DEF IndInv, Safe, Numbered, VotesExist
  <1>5. RevealedLate' /\ BallotsBinding'
    BY <1>1, <1>2, <1>3 DEF IndInv, Safe, RevealedLate, BallotsBinding, VotesExist
  <1>6. QED
    BY <1>1, <1>4, <1>5

(* Queueing needs a won vote and gives the proposal a fresh operation.       *)
LEMMA SafeQueue ==
    ASSUME IndInv, NEW p \in Pids, queue(p)
    PROVE  Safe'
  <1> DEFINE e == TL!NewEntry(minDelay, {})
  <1>1. /\ prop[p] \in Proposal /\ seq \in Nat
        /\ prop'[p] \in Proposal /\ Exists(p)
    <2>1. prop[p] \in Proposal /\ seq \in Nat /\ Exists(p)
      BY DEF queue, Exists, IndInv, TypeOK, TL!TypeOK
    <2>2. prop'[p] = [prop[p] EXCEPT !.queued = TRUE, !.queue_time = seq]
      BY DEF queue, IndInv, TypeOK
    <2>3. [prop[p] EXCEPT !.queued = TRUE, !.queue_time = seq] \in Proposal
      <3>1. "For" \in Support
        BY DEF Support
      <3>2. QED
        BY <2>1, <3>1, ProposalWrites
    <2>4. QED
      BY <2>1, <2>2, <2>3
  <1>2. /\ ~prop[p].queued /\ ~prop[p].executed /\ ~prop[p].cancelled
        /\ seq > prop[p].end_ledger /\ prop[p].tally["For"] > prop[p].tally["Against"]
    BY <1>1, StateFacts DEF queue, Passed
  <1>3. /\ prop'[p].queued /\ ~prop'[p].executed /\ ~prop'[p].cancelled
        /\ prop'[p].end_ledger = prop[p].end_ledger /\ prop'[p].tally = prop[p].tally
        /\ prop'[p].commit_deadline = prop[p].commit_deadline
        /\ \A q \in Pids \ {p} : prop'[q] = prop[q]
    BY <1>1, <1>2 DEF queue, IndInv, TypeOK, Proposal
  <1>4. /\ entry' = [entry EXCEPT ![p] = e] /\ e \in TL!Entry
        /\ UNCHANGED <<seq, runs, receipt, commitment>>
    BY ScheduleEffect DEF queue, IndInv
  <1>5. /\ ~e.executed /\ ~e.cancelled /\ entry'[p] = e
        /\ \A q \in Pids \ {p} : entry'[q] = entry[q]
    BY <1>4, TimelockIds DEF TL!NewEntry, IndInv, TypeOK, TL!TypeOK
  <1>6. /\ \A q \in Pids : Exists(q)' = Exists(q)
        /\ Numbered' /\ VotesExist' /\ RevealedLate' /\ BallotsBinding'
    <2>1. {p} \in SUBSET Pids
      OBVIOUS
    <2>2. QED
      BY <1>1, <1>3, <1>4, <2>1, SafeFlags
  <1>7. DecidedByVote'
    BY <1>2, <1>3, <1>4, <1>6 DEF IndInv, Safe, DecidedByVote
  <1>8. TL!Exists(p)' /\ \A q \in Pids \ {p} : TL!Exists(q)' = TL!Exists(q)
    BY <1>4, <1>5, TimelockNone DEF TL!Exists
  <1>9. TimelockAgrees'
    BY <1>1, <1>2, <1>3, <1>4, <1>5, <1>6, <1>8 DEF IndInv, Safe, TimelockAgrees
  <1>10. QED
    BY <1>6, <1>7, <1>9 DEF Safe

(* Queued proposals become executed together with their operations, whose    *)
(* calls are made once and had not been made before.                         *)
LEMMA SafeExecuted ==
    ASSUME IndInv, NEW ps \in SUBSET Pids,
           \A p \in ps : /\ Exists(p) /\ StateOf(p) = "Queued"
                          /\ entry[p] \in TL!Entry,
           \A p \in Pids : prop'[p] = IF p \in ps THEN [prop[p] EXCEPT !.executed = TRUE]
                                       ELSE prop[p],
           \A p \in Pids : entry'[p] = IF p \in ps THEN [entry[p] EXCEPT !.executed = TRUE]
                                        ELSE entry[p],
           TL!Invoke(UNION {TL!Calls(p) : p \in ps}),
           UNCHANGED <<seq, receipt, commitment>>
    PROVE  Safe'
  <1>1. \A p \in ps : /\ prop[p] \in Proposal /\ prop'[p] \in Proposal
                       /\ prop'[p] = [prop[p] EXCEPT !.executed = TRUE]
    BY FlagTyped DEF IndInv
  <1>2. \A p \in ps : prop[p].queued /\ ~prop[p].executed /\ ~prop[p].cancelled
    <2>1. seq \in Nat
      BY DEF IndInv, TypeOK, TL!TypeOK
    <2>2. QED
      BY <1>1, <2>1, StateFacts
  <1>3. \A p \in ps : /\ prop'[p].queued /\ prop'[p].executed /\ ~prop'[p].cancelled
                       /\ prop'[p].end_ledger = prop[p].end_ledger
                       /\ prop'[p].tally = prop[p].tally
                       /\ prop'[p].commit_deadline = prop[p].commit_deadline
    <2> TAKE p \in ps
    <2>1. prop[p] \in Proposal /\ prop'[p] = [prop[p] EXCEPT !.executed = TRUE]
      BY <1>1
    <2>2. QED
      BY <1>2, <2>1, ProposalReads
  <1>4. \A p \in ps : entry'[p].executed /\ entry'[p] \in TL!Entry
    <2> SUFFICES ASSUME NEW p \in ps PROVE entry'[p].executed /\ entry'[p] \in TL!Entry
      OBVIOUS
    <2>1. entry'[p] = [entry[p] EXCEPT !.executed = TRUE]
      OBVIOUS
    <2>2. [entry[p] EXCEPT !.executed = TRUE] \in TL!Entry
      BY DEF TL!Entry
    <2>3. [entry[p] EXCEPT !.executed = TRUE].executed
      BY DEF TL!Entry
    <2>4. QED
      BY <2>1, <2>2, <2>3
  <1>5. \A p \in Pids \ ps : prop'[p] = prop[p] /\ entry'[p] = entry[p]
    OBVIOUS
  <1>6. /\ \A p \in Pids : Exists(p)' = Exists(p)
        /\ Numbered' /\ VotesExist' /\ RevealedLate' /\ BallotsBinding'
    BY <1>1, <1>3, <1>5, SafeFlags
  <1>7. DecidedByVote'
    BY <1>2, <1>3, <1>5, <1>6 DEF IndInv, Safe, DecidedByVote
  <1>8. \A p \in Pids : TL!Exists(p)' = TL!Exists(p)
    BY <1>4, <1>5, TimelockNone DEF TL!Exists
  <1>9. \A p \in Pids : \A c \in TL!Calls(p) :
           runs'[c] = IF p \in ps THEN runs[c] + 1 ELSE runs[c]
    <2> SUFFICES ASSUME NEW p \in Pids, NEW c \in TL!Calls(p)
                 PROVE  runs'[c] = IF p \in ps THEN runs[c] + 1 ELSE runs[c]
      OBVIOUS
    <2>1. c \in TL!AllCalls
      BY TimelockIds
    <2>2. c \in UNION {TL!Calls(q) : q \in ps} <=> p \in ps
      BY TimelockIds
    <2>3. QED
      BY <2>1, <2>2 DEF TL!Invoke
  <1>10. TimelockAgrees'
    <2> SUFFICES ASSUME NEW p \in Pids PROVE AgreesOn(p)'
      BY DEF TimelockAgrees, AgreesOn, TL!Calls
    <2>0. AgreesOn(p)
      BY DEF IndInv, Safe, TimelockAgrees, AgreesOn
    <2>1. CASE p \in ps
      BY <1>2, <1>3, <1>4, <1>6, <1>8, <1>9, <2>0, <2>1 DEF AgreesOn, TL!Calls
    <2>2. CASE p \notin ps
      BY <1>5, <1>6, <1>8, <1>9, <2>0, <2>2 DEF AgreesOn, TL!Calls
    <2>3. QED
      BY <2>1, <2>2
  <1>11. QED
    BY <1>6, <1>7, <1>10 DEF Safe

(* execute and execute_batch are such steps.                                 *)
LEMMA SafeExecute ==
    ASSUME IndInv,
           \/ \E p \in Pids : execute(p)
           \/ \E ps \in SUBSET Pids : execute_batch(ps)
    PROVE  Safe'
  <1>1. ASSUME NEW p \in Pids, execute(p)
        PROVE  Safe'
    <2>1. /\ Exists(p) /\ StateOf(p) = "Queued"
          /\ prop' = [prop EXCEPT ![p].executed = TRUE]
          /\ UNCHANGED <<receipt, commitment>>
      BY <1>1 DEF execute
    <2>2. /\ entry[p] \in TL!Entry
          /\ entry' = [entry EXCEPT ![p].executed = TRUE]
          /\ TL!Invoke(TL!Calls(p)) /\ seq' = seq
      BY <1>1, ExecuteEffect DEF execute, IndInv
    <2>3. {p} \in SUBSET Pids /\ UNION {TL!Calls(q) : q \in {p}} = TL!Calls(p)
      OBVIOUS
    <2>4. /\ \A q \in Pids : prop'[q] = IF q \in {p} THEN [prop[q] EXCEPT !.executed = TRUE]
                                          ELSE prop[q]
          /\ \A q \in Pids : entry'[q] = IF q \in {p} THEN [entry[q] EXCEPT !.executed = TRUE]
                                           ELSE entry[q]
      BY <2>1, <2>2, TimelockIds DEF IndInv, TypeOK, TL!TypeOK
    <2>5. QED
      BY <2>1, <2>2, <2>3, <2>4, SafeExecuted
  <1>2. ASSUME NEW ps \in SUBSET Pids, execute_batch(ps)
        PROVE  Safe'
    <2>1. \A p \in ps : /\ Exists(p) /\ StateOf(p) = "Queued"
                         /\ entry[p] \in TL!Entry
      BY <1>2, TimelockIds
      DEF execute_batch, TL!Executable, TL!Exists, IndInv, TypeOK, TL!TypeOK
    <2>2. /\ \A q \in Pids : prop'[q] = IF q \in ps THEN [prop[q] EXCEPT !.executed = TRUE]
                                          ELSE prop[q]
          /\ \A q \in Pids : entry'[q] = IF q \in ps THEN [entry[q] EXCEPT !.executed = TRUE]
                                           ELSE entry[q]
          /\ TL!Invoke(UNION {TL!Calls(p) : p \in ps})
          /\ UNCHANGED <<seq, receipt, commitment>>
      BY <1>2 DEF execute_batch, clock
    <2>3. QED
      BY <2>1, <2>2, SafeExecuted
  <1>3. QED
    BY <1>1, <1>2

(* A cancelled proposal had not been executed; if it was queued, its         *)
(* operation is cancelled in the same step.                                  *)
LEMMA SafeCancel ==
    ASSUME IndInv, NEW a \in Accounts, NEW p \in Pids,
           cancel(a, p) \/ cancel_queued(a, p) \/ cancel_by_governance(p)
    PROVE  Safe'
  <1>1. /\ Exists(p) /\ prop' = [prop EXCEPT ![p].cancelled = TRUE]
        /\ UNCHANGED <<receipt, commitment>>
    BY DEF cancel, cancel_queued, cancel_by_governance
  <1>2. /\ prop[p] \in Proposal /\ prop'[p] \in Proposal
        /\ prop'[p] = [prop[p] EXCEPT !.cancelled = TRUE]
        /\ \A q \in Pids \ {p} : prop'[q] = prop[q]
    <2>1. prop[p] \in Proposal /\ [prop[p] EXCEPT !.cancelled = TRUE] \in Proposal
      BY <1>1, FlagTyped DEF IndInv
    <2>2. QED
      BY <1>1, <2>1 DEF IndInv, TypeOK
  <1>3. /\ prop'[p].cancelled /\ (prop'[p].queued <=> prop[p].queued)
        /\ (prop'[p].executed <=> prop[p].executed)
        /\ prop'[p].end_ledger = prop[p].end_ledger /\ prop'[p].tally = prop[p].tally
        /\ prop'[p].commit_deadline = prop[p].commit_deadline
    BY <1>2, ProposalReads
  <1>4. seq' = seq /\ runs' = runs /\ \A q \in Pids \ {p} : entry'[q] = entry[q]
    <2>1. CASE UNCHANGED <<clock, timelockVars>>
      BY <2>1 DEF clock, timelockVars
    <2>2. CASE TL!cancel(GovernorAddr, p)
      BY <2>2, CancelEffect, TimelockIds DEF IndInv, TypeOK, TL!TypeOK
    <2>3. QED
      BY <2>1, <2>2 DEF cancel, cancel_queued, cancel_by_governance
  <1>5. CASE prop[p].queued
    <2>1. TL!cancel(GovernorAddr, p)
      <3>1. seq \in Nat
        BY DEF IndInv, TypeOK, TL!TypeOK
      <3>2. ~cancel(a, p)
        BY <1>2, <1>5, <3>1, StateFacts DEF cancel
      <3>3. QED
        BY <1>5, <3>2 DEF cancel_queued, cancel_by_governance
    <2>2. /\ entry[p] \in TL!Entry /\ ~entry[p].executed
          /\ entry' = [entry EXCEPT ![p].cancelled = TRUE]
      BY <2>1, CancelEffect DEF IndInv
    <2>3. /\ entry'[p] \in TL!Entry /\ entry'[p].cancelled
          /\ entry'[p].executed = entry[p].executed
      <3>1. entry'[p] = [entry[p] EXCEPT !.cancelled = TRUE]
        BY <2>2, TimelockIds DEF IndInv, TypeOK, TL!TypeOK
      <3>2. [entry[p] EXCEPT !.cancelled = TRUE] \in TL!Entry
        BY <2>2 DEF TL!Entry
      <3>3. /\ [entry[p] EXCEPT !.cancelled = TRUE].cancelled
            /\ [entry[p] EXCEPT !.cancelled = TRUE].executed = entry[p].executed
        BY <2>2 DEF TL!Entry
      <3>4. QED
        BY <3>1, <3>2, <3>3
    <2>4. SUFFICES TimelockAgrees' /\ DecidedByVote'
      BY <1>1, <1>2, <1>3, <1>4, SafeFlags, {p} \in SUBSET Pids DEF Safe
    <2>5. \A q \in Pids : Exists(q)' = Exists(q)
      BY <1>1, <1>2, NoneAssumption DEF Exists
    <2>6. \A q \in Pids : TL!Exists(q)' = TL!Exists(q)
      BY <1>4, <2>2, <2>3, TimelockNone DEF TL!Exists
    <2>7. DecidedByVote'
      BY <1>2, <1>3, <1>4, <2>5 DEF IndInv, Safe, DecidedByVote
    <2>8. TimelockAgrees'
      <3> SUFFICES ASSUME NEW q \in Pids PROVE AgreesOn(q)'
        BY DEF TimelockAgrees, AgreesOn, TL!Calls
      <3>1. AgreesOn(q)
        BY DEF IndInv, Safe, TimelockAgrees, AgreesOn
      <3>2. CASE q = p
        BY <1>3, <1>4, <1>5, <2>2, <2>3, <2>5, <2>6, <3>1, <3>2 DEF AgreesOn, TL!Calls
      <3>3. CASE q # p
        BY <1>2, <1>4, <2>5, <2>6, <3>1, <3>3 DEF AgreesOn, TL!Calls
      <3>4. QED
        BY <3>2, <3>3
    <2>9. QED
      BY <2>7, <2>8
  <1>6. CASE ~prop[p].queued
    <2>1. UNCHANGED <<clock, timelockVars>>
      BY <1>6 DEF cancel, cancel_queued, cancel_by_governance
    <2>2. entry' = entry
      BY <2>1 DEF timelockVars
    <2>3. SUFFICES TimelockAgrees' /\ DecidedByVote'
      BY <1>1, <1>2, <1>3, <1>4, SafeFlags, {p} \in SUBSET Pids DEF Safe
    <2>4. \A q \in Pids : Exists(q)' = Exists(q) /\ TL!Exists(q)' = TL!Exists(q)
      <3>1. \A q \in Pids : Exists(q)' = Exists(q)
        BY <1>1, <1>2, NoneAssumption DEF Exists
      <3>2. QED
        BY <2>2, <3>1 DEF TL!Exists
    <2>5. DecidedByVote'
      BY <1>2, <1>3, <1>4, <2>4 DEF IndInv, Safe, DecidedByVote
    <2>6. TimelockAgrees'
      <3> SUFFICES ASSUME NEW q \in Pids PROVE AgreesOn(q)'
        BY DEF TimelockAgrees, AgreesOn, TL!Calls
      <3>1. AgreesOn(q)
        BY DEF IndInv, Safe, TimelockAgrees, AgreesOn
      <3>2. CASE q = p
        BY <1>3, <1>4, <1>6, <2>2, <2>4, <3>1, <3>2 DEF AgreesOn, TL!Calls
      <3>3. CASE q # p
        BY <1>2, <1>4, <2>2, <2>4, <3>1, <3>3 DEF AgreesOn, TL!Calls
      <3>4. QED
        BY <3>2, <3>3
    <2>7. QED
      BY <2>5, <2>6
  <1>7. QED
    BY <1>5, <1>6

(* The admin of the timelock may cancel an operation behind the governor's   *)
(* back; what it cancels has not been executed.                              *)
LEMMA SafeAdmin ==
    ASSUME IndInv, TimelockAdminStep
    PROVE  Safe'
  <1>1. UNCHANGED <<prop, receipt, commitment>>
    BY DEF TimelockAdminStep
  <1>2. CASE \E p \in Pids : TL!cancel(TimelockAdmin, p)
    <2> PICK p \in Pids : TL!cancel(TimelockAdmin, p)
      BY <1>2
    <2>1. /\ entry[p] \in TL!Entry
          /\ entry' = [entry EXCEPT ![p].cancelled = TRUE]
          /\ UNCHANGED <<seq, runs>>
      BY CancelEffect DEF IndInv
    <2>2. /\ entry'[p] = [entry[p] EXCEPT !.cancelled = TRUE]
          /\ \A q \in Pids \ {p} : entry'[q] = entry[q]
      BY <2>1, TimelockIds DEF IndInv, TypeOK, TL!TypeOK
    <2>3. [entry[p] EXCEPT !.cancelled = TRUE] \in TL!Entry
      BY <2>1 DEF TL!Entry
    <2>4. /\ [entry[p] EXCEPT !.cancelled = TRUE].cancelled
          /\ [entry[p] EXCEPT !.cancelled = TRUE].executed = entry[p].executed
      BY <2>1 DEF TL!Entry
    <2>5. entry'[p].cancelled /\ entry'[p].executed = entry[p].executed
      BY <2>2, <2>4
    <2>6. \A q \in Pids : Exists(q)' = Exists(q) /\ TL!Exists(q)' = TL!Exists(q)
      BY <1>1, <2>1, <2>2, <2>3, TimelockNone DEF Exists, TL!Exists
    <2>7. TimelockAgrees'
      BY <1>1, <2>1, <2>2, <2>5, <2>6 DEF IndInv, Safe, TimelockAgrees
    <2>8. Numbered' /\ VotesExist' /\ RevealedLate' /\ BallotsBinding' /\ DecidedByVote'
      BY <1>1, <2>1, <2>6
      DEF IndInv, Safe, Numbered, VotesExist, RevealedLate, BallotsBinding, DecidedByVote, HasVoted
    <2>9. QED
      BY <2>7, <2>8 DEF Safe
  <1>3. CASE \/ \E d \in Delays : TL!update_delay(TimelockAdmin, d)
             \/ \E w \in Windows : TL!update_execution_window(TimelockAdmin, w)
    <2>1. UNCHANGED <<seq, entry, runs>>
      BY <1>3 DEF TL!update_delay, TL!update_execution_window, TL!clock
    <2>2. seq \in Nat
      BY DEF IndInv, TypeOK, TL!TypeOK
    <2>3. QED
      BY <1>1, <2>1, <2>2, SafeFrame
  <1>4. QED
    BY <1>2, <1>3 DEF TimelockAdminStep

(* The invariant is inductive, one case per kind of step.                    *)
LEMMA IndStep == IndInv /\ [Next \/ Governance]_vars => IndInv'
  <1> SUFFICES ASSUME IndInv, [Next \/ Governance]_vars PROVE Safe'
    BY TypeStep DEF IndInv
  <1>0. seq \in Nat /\ TypeOK'
    BY TypeStep DEF IndInv, TypeOK, TL!TypeOK
  <1>1. CASE \E a \in Accounts : create_proposal_internal(a)
    BY <1>1, SafeCreate
  <1>2. CASE \E a \in Accounts, p \in Pids, s \in Support :
               DirectVote(a, p, s) \/ reveal_vote(a, p, s) \/ commit_vote(a, p, s)
    BY <1>2, SafeCount, SafeCommit
  <1>3. CASE \E p \in Pids : queue(p) \/ execute(p) \/ state(p)
    <2>1. ASSUME NEW p \in Pids, state(p)
          PROVE  Safe'
      BY <1>0, <2>1, SafeFrame DEF state, clock, timelockVars
    <2>2. QED
      BY <1>3, <2>1, SafeQueue, SafeExecute
  <1>4. CASE \E ps \in SUBSET Pids : execute_batch(ps)
    BY <1>4, SafeExecute
  <1>5. CASE \E a \in Accounts, p \in Pids :
               cancel(a, p) \/ cancel_queued(a, p) \/ cancel_by_governance(p)
    BY <1>5, SafeCancel
  <1>6. CASE proposals_count_by_state
    BY <1>0, <1>6, SafeFrame DEF proposals_count_by_state, clock, timelockVars
  <1>7. CASE \/ \E a \in Accounts, s \in Settings : set_initial_config(a, s)
             \/ \E s \in Settings : update_config(s) \/ update_oracle(s)
             \/ \E a \in Accounts : set_guardian(a)
             \/ \E bps \in Strategies : set_voting_strategy(bps)
    <2>1. ConfigStep
      BY <1>7, TypeConfig DEF IndInv
    <2>2. QED
      BY <1>0, <2>1, SafeFrame DEF ConfigStep, clock, timelockVars
  <1>8. CASE (\E a, b \in Accounts : DelegateVotes(a, b)) \/ (\E x \in Prices : PriceMoves(x))
    BY <1>0, <1>8, SafeFrame DEF DelegateVotes, PriceMoves, clock, timelockVars
  <1>9. CASE CloseLedger
    <2>1. /\ seq' = seq + 1
          /\ UNCHANGED <<prop, receipt, commitment, entry, runs>>
      BY <1>9 DEF CloseLedger, TL!CloseLedger
    <2>2. QED
      BY <1>0, <2>1, SafeFrame
  <1>10. CASE TimelockAdminStep
    BY <1>10, SafeAdmin
  <1>11. CASE UNCHANGED vars
    BY <1>0, <1>11, SafeFrame DEF vars, clock, timelockVars
  <1>12. QED
    BY <1>1, <1>2, <1>3, <1>4, <1>5, <1>6, <1>7, <1>8, <1>9, <1>10, <1>11, StepCases

(* The invariant holds in every reachable state.                             *)
LEMMA Invariance == GovernedSpec => []IndInv
  <1>1. Init => IndInv
    BY TypeInit, SafeInit DEF IndInv
  <1>2. QED
    BY <1>1, IndStep, PTL DEF GovernedSpec

(* Governor and timelock always agree on what is queued, executed and        *)
(* cancelled, and every action of an executed proposal is taken exactly once, *)
(* whatever governance and the timelock's admin do (queue, execute,           *)
(* execute_batch, cancel_queued, cancel_by_governance).                       *)
THEOREM TimelockAgreement == GovernedSpec => []TimelockAgrees
  <1>1. IndInv => TimelockAgrees
    BY DEF IndInv, Safe
  <1>2. QED
    BY <1>1, Invariance, PTL

(* Whatever is queued has won a vote that is over (queue, cast_vote).        *)
THEOREM DecisionSafe == GovernedSpec => []DecidedByVote
  <1>1. IndInv => DecidedByVote
    BY DEF IndInv, Safe
  <1>2. QED
    BY <1>1, Invariance, PTL

(* Under commit-reveal every counted vote is the committed one (reveal_vote). *)
THEOREM BallotsSafe == GovernedSpec => []BallotsBinding
  <1>1. IndInv => BallotsBinding
    BY DEF IndInv, Safe
  <1>2. QED
    BY <1>1, Invariance, PTL

(* No commitment is made once a vote has been revealed, even when governance  *)
(* changes the phases of later proposals meanwhile (commit_vote, reveal_vote). *)
THEOREM SealedUntilReveal == GovernedSpec => NoCommitAfterReveal
  <1> DEFINE Sealed(p) == Exists(p) /\ prop[p].commit_deadline # None
                            /\ (\E a \in Accounts : HasVoted(a, p))
  <1>1. ASSUME IndInv, [Next \/ Governance]_vars, NEW p \in Pids, Sealed(p)
        PROVE  commitment'[p] = commitment[p]
    <2>1. CASE \E a \in Accounts, q \in Pids, s \in Support : commit_vote(a, q, s)
      <3> PICK a \in Accounts, q \in Pids, s \in Support : commit_vote(a, q, s)
        BY <2>1
      <3>1. q # p
        BY <1>1, SafeCommit
      <3>2. commitment' = [commitment EXCEPT ![q][a] = s]
        BY DEF commit_vote
      <3>3. QED
        BY <1>1, <3>1, <3>2 DEF IndInv, TypeOK
    <2>2. CASE \/ \E a \in Accounts : create_proposal_internal(a)
               \/ \E a \in Accounts, q \in Pids, s \in Support :
                     DirectVote(a, q, s) \/ reveal_vote(a, q, s)
      BY <2>2 DEF create_proposal_internal, DirectVote, reveal_vote, CountVote
    <2>3. CASE \/ \E q \in Pids : queue(q) \/ execute(q) \/ state(q)
               \/ \E ps \in SUBSET Pids : execute_batch(ps)
               \/ proposals_count_by_state
      BY <2>3 DEF queue, execute, state, execute_batch, proposals_count_by_state
    <2>4. CASE \E a \in Accounts, q \in Pids :
                 cancel(a, q) \/ cancel_queued(a, q) \/ cancel_by_governance(q)
      BY <2>4 DEF cancel, cancel_queued, cancel_by_governance
    <2>5. CASE \/ \E a \in Accounts, s \in Settings : set_initial_config(a, s)
               \/ \E s \in Settings : update_config(s) \/ update_oracle(s)
               \/ \E a \in Accounts : set_guardian(a)
               \/ \E bps \in Strategies : set_voting_strategy(bps)
      BY <1>1, <2>5, TypeConfig DEF IndInv, ConfigStep
    <2>6. CASE \/ \E a, b \in Accounts : DelegateVotes(a, b)
               \/ \E x \in Prices : PriceMoves(x)
               \/ CloseLedger
               \/ TimelockAdminStep
               \/ UNCHANGED vars
      BY <2>6 DEF DelegateVotes, PriceMoves, CloseLedger, TimelockAdminStep, vars
    <2>7. QED
      BY <1>1, <2>1, <2>2, <2>3, <2>4, <2>5, <2>6, StepCases
  <1>2. IndInv /\ [Next \/ Governance]_vars =>
          [\A p \in Pids : Exists(p) /\ prop[p].commit_deadline # None
              /\ (\E a \in Accounts : HasVoted(a, p)) => commitment'[p] = commitment[p]]_vars
    BY <1>1
  <1>3. QED
    BY <1>2, Invariance, PTL DEF GovernedSpec, NoCommitAfterReveal
-----------------------------------------------------------------------------
(* What becomes of proposals while the settings do not change, so of Spec,  *)
(* for every number of proposals, accounts and ledgers: the states a        *)
(* proposal goes through and the outcomes recorded for it; and, with the    *)
(* steps of Governance included, the window of the guardian's veto and the  *)
(* tallies.                                                                 *)


-----------------------------------------------------------------------------
(* The state of a proposal as a function of what is stored, the ledger, the *)
(* quorum and the grace period.                                             *)

StateFor(r, n, q, g) ==
    IF r.cancelled THEN "Cancelled"
    ELSE IF r.executed THEN "Executed"
    ELSE IF r.queued THEN "Queued"
    ELSE IF n < r.start_ledger THEN "Pending"
    ELSE IF n <= r.end_ledger THEN "Active"
    ELSE IF ~(/\ r.tally["For"] + r.tally["Abstain"] >= q
              /\ r.tally["For"] > r.tally["Against"]) THEN "Defeated"
    ELSE IF n > r.end_ledger + g THEN "Expired" ELSE "Succeeded"

StatusFor(r, n, q, g) == IF r # None THEN StateFor(r, n, q, g) ELSE "None"

Grace == settings.proposal_grace_period

LEMMA StatusIs ==
    ASSUME NEW p \in Pids
    PROVE  /\ Status(p) = StatusFor(prop[p], seq, quorum, Grace)
           /\ Status(p)' = StatusFor(prop'[p], seq', quorum', Grace')
           /\ Exists(p) => StateOf(p) = Status(p)
  BY DEF Status, StatusFor, StateOf, StateFor, Exists, Passed, Grace

(* What the promise of state() allows to follow.                            *)
LEMMA SuccessorFacts ==
    /\ Lifecycle!Successors("None") = {"Pending", "Active"}
    /\ Lifecycle!Successors("Pending") = {"Active", "Cancelled"}
    /\ Lifecycle!Successors("Active") = {"Defeated", "Succeeded", "Expired", "Cancelled"}
    /\ Lifecycle!Successors("Succeeded") = {"Queued", "Expired"}
    /\ Lifecycle!Successors("Queued") = {"Executed", "Cancelled"}
  BY DEF Lifecycle!Successors

-----------------------------------------------------------------------------
(* The invariant of one proposal: r is what is stored of it, st its state,   *)
(* sc what was recorded of it, d and e whether it was found defeated and     *)
(* expired.  What was found stays true, and everything else is recorded      *)
(* with the flag that makes it so.                                           *)
Sound(r, st, sc, d, e) ==
    /\ r # None => r.start_ledger <= r.end_ledger
    /\ sc["Defeated"] = IF d THEN 1 ELSE 0
    /\ sc["Expired"] = IF e THEN 1 ELSE 0
    /\ sc["Succeeded"] = IF r # None /\ r.queued THEN 1 ELSE 0
    /\ sc["Executed"] = IF st = "Executed" THEN 1 ELSE 0
    /\ sc["Cancelled"] = IF st = "Cancelled" THEN 1 ELSE 0
    /\ d => st = "Defeated"
    /\ e => st = "Expired"

SoundOn(p) == Sound(prop[p], Status(p), scored[p], p \in defeatScored, p \in expiryScored)

OutcomesSound == \A p \in Pids : SoundOn(p)

(* What a step may do to one proposal.                                       *)
SameScores(p) ==
    /\ \A o \in Outcome : scored'[p][o] = scored[p][o]
    /\ p \in defeatScored' <=> p \in defeatScored
    /\ p \in expiryScored' <=> p \in expiryScored
Recorded(p, out) ==
    /\ \A o \in Outcome : scored'[p][o] = scored[p][o] + IF o = out THEN 1 ELSE 0
    /\ p \in defeatScored' <=> p \in defeatScored
    /\ p \in expiryScored' <=> p \in expiryScored

Kept(p) == SameScores(p) /\ seq' = seq /\ prop'[p] = prop[p]
Counted(p) ==
    /\ SameScores(p) /\ seq' = seq
    /\ prop[p] \in Proposal /\ prop'[p] \in Proposal
    /\ seq <= prop[p].end_ledger /\ Open(p) /\ Open(p)'
    /\ prop'[p].start_ledger = prop[p].start_ledger /\ prop'[p].end_ledger = prop[p].end_ledger
Created(p) ==
    /\ SameScores(p) /\ seq' = seq
    /\ prop[p] = None /\ prop'[p] \in Proposal /\ Open(p)'
    /\ seq <= prop'[p].start_ledger /\ prop'[p].start_ledger <= prop'[p].end_ledger
Flagged(p) ==
    /\ prop[p] \in Proposal /\ prop'[p] \in Proposal /\ seq' = seq
    /\ prop'[p].start_ledger = prop[p].start_ledger /\ prop'[p].end_ledger = prop[p].end_ledger
Enqueued(p) ==
    /\ Recorded(p, "Succeeded") /\ Flagged(p) /\ Status(p) = "Succeeded"
    /\ prop'[p].queued /\ ~prop'[p].executed /\ ~prop'[p].cancelled
Performed(p) ==
    /\ Recorded(p, "Executed") /\ Flagged(p) /\ Status(p) = "Queued"
    /\ prop[p].queued /\ prop'[p].queued /\ prop'[p].executed /\ ~prop'[p].cancelled
Dropped(p) ==
    /\ Recorded(p, "Cancelled") /\ Flagged(p) /\ Status(p) \in {"Pending", "Active", "Queued"}
    /\ prop'[p].cancelled /\ (prop'[p].queued <=> prop[p].queued)
Read(p) ==
    /\ seq' = seq /\ prop'[p] = prop[p]
    /\ p \in defeatScored => p \in defeatScored'
    /\ p \in defeatScored' /\ p \notin defeatScored => Status(p) = "Defeated"
    /\ p \in expiryScored => p \in expiryScored'
    /\ p \in expiryScored' /\ p \notin expiryScored => Status(p) = "Expired"
    /\ \A o \in Outcome : scored'[p][o] = scored[p][o] +
          IF \/ o = "Defeated" /\ p \in defeatScored' /\ p \notin defeatScored
             \/ o = "Expired" /\ p \in expiryScored' /\ p \notin expiryScored
          THEN 1 ELSE 0
Aged(p) == SameScores(p) /\ seq' = seq + 1 /\ prop'[p] = prop[p]

Moved(p) == \/ Kept(p) \/ Counted(p) \/ Created(p) \/ Enqueued(p) \/ Performed(p)
            \/ Dropped(p) \/ Read(p) \/ Aged(p)

LEMMA ProposalTyped ==
    ASSUME IndInv
    PROVE  /\ seq \in Nat /\ Grace \in Nat
           /\ scored \in [Pids -> [Outcome -> Nat]]
           /\ prop \in [Pids -> Proposal \cup {None}]
           /\ \A p \in Pids : Exists(p) => prop[p] \in Proposal
  BY DEF IndInv, TypeOK, TL!TypeOK, GovernorSettings, Grace, Exists

(* Without the steps of governance, quorum and grace period are fixed: the    *)
(* admin's initial configuration changes neither.                            *)
LEMMA RulesFixed ==
    ASSUME IndInv, [Next]_vars
    PROVE  quorum' = quorum /\ Grace' = Grace
  <1>1. settings \in GovernorSettings
    BY DEF IndInv, TypeOK
  <1>2. CASE \E a \in Accounts, s \in Settings : set_initial_config(a, s)
    <2>1. PICK s \in Settings :
             /\ settings' = [settings EXCEPT !.proposal_cooldown = s.proposal_cooldown,
                               !.max_proposals_per_period = s.max_proposals_per_period]
             /\ strategy' = strategy /\ price' = price
      BY <1>2 DEF set_initial_config, ConfigStep
    <2>2. /\ settings'.quorum_numerator = settings.quorum_numerator
          /\ settings'.min_quorum_usd = settings.min_quorum_usd
          /\ settings'.use_dynamic_quorum = settings.use_dynamic_quorum
          /\ settings'.reflector_oracle = settings.reflector_oracle
          /\ settings'.proposal_grace_period = settings.proposal_grace_period
      BY <1>1, <2>1 DEF GovernorSettings
    <2>3. QED
      BY <2>1, <2>2 DEF quorum, compute_votes, Grace
  <1>3. CASE UNCHANGED <<settings, strategy, price>>
    BY <1>3 DEF quorum, compute_votes, Grace
  <1>4. QED
    <2>1. ASSUME NEW a \in Accounts, AccountStep(a)
          PROVE  \/ \E s \in Settings : set_initial_config(a, s)
                 \/ UNCHANGED <<settings, strategy, price>>
      <3>1. CASE propose(a) \/ propose_via_registry(a)
        BY <3>1 DEF propose, propose_via_registry, create_proposal_internal, configVars
      <3>2. ASSUME NEW p \in Pids, NEW s \in Support, DirectVote(a, p, s)
            PROVE  UNCHANGED <<settings, strategy, price>>
        BY <3>2 DEF DirectVote, CountVote, configVars
      <3>3. ASSUME NEW p \in Pids, NEW s \in Support, commit_vote(a, p, s) \/ reveal_vote(a, p, s)
            PROVE  UNCHANGED <<settings, strategy, price>>
        BY <3>3 DEF commit_vote, reveal_vote, CountVote, configVars
      <3>4. ASSUME NEW p \in Pids, cancel(a, p) \/ cancel_queued(a, p)
            PROVE  UNCHANGED <<settings, strategy, price>>
        BY <3>4 DEF cancel, cancel_queued, configVars
      <3>5. ASSUME NEW b \in Accounts, DelegateVotes(a, b)
            PROVE  UNCHANGED <<settings, strategy, price>>
        BY <3>5 DEF DelegateVotes, configVars
      <3>6. QED
        BY <2>1, <3>1, <3>2, <3>3, <3>4, <3>5, VoteIsDirect, Zenon
        DEF AccountStep, cast_vote, cast_vote_with_reason
    <2>2. QED
      BY <1>2, <1>3, <2>1
      DEF Next, queue, execute, state, execute_batch, proposals_count_by_state, CloseLedger,
          TimelockAdminStep, vars, configVars

-----------------------------------------------------------------------------
(* Every step does one of these things to every proposal.                    *)

(* One outcome of one proposal is recorded.                                  *)
LEMMA RecordEffect ==
    ASSUME IndInv, NEW p \in Pids, NEW out \in Outcome, Record(p, out),
           UNCHANGED <<defeatScored, expiryScored>>
    PROVE  Recorded(p, out) /\ \A q \in Pids \ {p} : SameScores(q)
  <1>1. scored \in [Pids -> [Outcome -> Nat]]
    BY ProposalTyped
  <1>2. scored' = [scored EXCEPT ![p] = [scored[p] EXCEPT ![out] = scored[p][out] + 1]]
    BY DEF Record
  <1>3. \A q \in Pids \ {p} : scored'[q] = scored[q]
    BY <1>1, <1>2
  <1>4. \A o \in Outcome : scored'[p][o] = scored[p][o] + IF o = out THEN 1 ELSE 0
    BY <1>1, <1>2
  <1>5. QED
    BY <1>3, <1>4 DEF Recorded, SameScores

LEMMA MovedCreate ==
    ASSUME IndInv, NEW a \in Accounts, create_proposal_internal(a), NEW p \in Pids
    PROVE  Moved(p)
  <1>1. PICK n \in Pids : n = Count + 1 /\ ~Exists(n)
    BY CountFacts DEF IndInv, Safe, create_proposal_internal, Pids
  <1>2. /\ prop' = [prop EXCEPT ![n] = NewProposal(a)]
        /\ seq' = seq /\ SameScores(p)
    BY <1>1 DEF create_proposal_internal, clock, scoreVars, SameScores
  <1>3. CASE p # n
    BY <1>2, <1>3, ProposalTyped DEF Moved, Kept
  <1>4. CASE p = n
    <2>1. prop'[p] = NewProposal(a) /\ prop[p] = None
      BY <1>1, <1>2, <1>4, ProposalTyped DEF Exists
    <2>2. /\ NewProposal(a) \in Proposal /\ ~NewProposal(a).queued
          /\ ~NewProposal(a).executed /\ ~NewProposal(a).cancelled
      BY NewProposalFacts DEF IndInv
    <2>3. /\ NewProposal(a).start_ledger = seq + settings.voting_delay
          /\ NewProposal(a).end_ledger = NewProposal(a).start_ledger + settings.voting_period
      BY DEF NewProposal
    <2>4. seq \in Nat /\ settings.voting_delay \in Nat /\ settings.voting_period \in Nat
      BY DEF IndInv, TypeOK, TL!TypeOK, GovernorSettings
    <2>5. Created(p)
      BY <1>2, <2>1, <2>2, <2>3, <2>4 DEF Created, Open
    <2>6. QED
      BY <2>5 DEF Moved
  <1>5. QED
    BY <1>3, <1>4

LEMMA MovedVote ==
    ASSUME IndInv, NEW a \in Accounts, NEW q \in Pids, NEW s \in Support,
           DirectVote(a, q, s) \/ reveal_vote(a, q, s), NEW p \in Pids
    PROVE  Moved(p)
  <1> DEFINE w == apply_vote_type(compute_votes(snapshot[q][a]))
             r == [prop[q] EXCEPT !.tally[s] = prop[q].tally[s] + w]
  <1>1. Exists(q) /\ Open(q) /\ seq <= prop[q].end_ledger /\ CountVote(a, q, s)
    BY DEF DirectVote, reveal_vote
  <1>2. w \in Nat /\ prop[q] \in Proposal
    BY <1>1, WeightType, ProposalTyped DEF IndInv
  <1>3. prop' = [prop EXCEPT ![q] = r] /\ seq' = seq /\ SameScores(p)
    BY <1>1 DEF CountVote, clock, scoreVars, SameScores
  <1>4. CASE p # q
    BY <1>3, <1>4, ProposalTyped DEF Moved, Kept
  <1>5. CASE p = q
    <2>1. r \in Proposal
      BY <1>2, ProposalWrites
    <2>2. /\ r.queued = prop[q].queued /\ r.executed = prop[q].executed
          /\ r.cancelled = prop[q].cancelled /\ r.start_ledger = prop[q].start_ledger
          /\ r.end_ledger = prop[q].end_ledger
      BY <1>2, <2>1 DEF Proposal
    <2>3. prop'[p] = r
      BY <1>3, <1>5, ProposalTyped
    <2> HIDE DEF r
    <2>4. Counted(p)
      BY <1>1, <1>2, <1>3, <1>5, <2>1, <2>2, <2>3 DEF Counted, Open
    <2>5. QED
      BY <2>4 DEF Moved
  <1>6. QED
    BY <1>4, <1>5

LEMMA MovedQueue ==
    ASSUME IndInv, NEW q \in Pids, queue(q), NEW p \in Pids
    PROVE  Moved(p)
  <1>1. Exists(q) /\ StateOf(q) = "Succeeded" /\ seq' = seq
    BY ScheduleEffect DEF queue, IndInv
  <1>2. Recorded(q, "Succeeded") /\ \A x \in Pids \ {q} : SameScores(x)
    BY RecordEffect DEF queue, Outcome
  <1>3. prop[q] \in Proposal /\ seq \in Nat
    BY <1>1, ProposalTyped
  <1>4. /\ prop'[q] = [prop[q] EXCEPT !.queued = TRUE, !.queue_time = seq]
        /\ \A x \in Pids \ {q} : prop'[x] = prop[x]
    BY ProposalTyped DEF queue
  <1>5. CASE p # q
    BY <1>1, <1>2, <1>4, <1>5 DEF Moved, Kept
  <1>6. CASE p = q
    <2>1. ~prop[q].queued /\ ~prop[q].executed /\ ~prop[q].cancelled
      BY <1>1, <1>3, StateFacts
    <2>2. prop'[q] \in Proposal
      <3>1. "For" \in Support
        BY DEF Support
      <3>2. QED
        BY <1>3, <1>4, <3>1, ProposalWrites
    <2>3. /\ prop'[q].queued /\ ~prop'[q].executed /\ ~prop'[q].cancelled
          /\ prop'[q].start_ledger = prop[q].start_ledger
          /\ prop'[q].end_ledger = prop[q].end_ledger
      BY <1>3, <1>4, <2>1 DEF Proposal
    <2>4. Enqueued(p)
      BY <1>1, <1>2, <1>3, <1>6, <2>2, <2>3, StatusIs DEF Enqueued, Flagged
    <2>5. QED
      BY <2>4 DEF Moved
  <1>7. QED
    BY <1>5, <1>6

(* One proposal or several are executed.                                     *)
LEMMA MovedExecuted ==
    ASSUME IndInv, NEW ps \in SUBSET Pids, NEW p \in Pids,
           \A q \in ps : Exists(q) /\ StateOf(q) = "Queued",
           prop'[p] = IF p \in ps THEN [prop[p] EXCEPT !.executed = TRUE] ELSE prop[p],
           IF p \in ps THEN Recorded(p, "Executed") ELSE SameScores(p),
           seq' = seq
    PROVE  Moved(p)
  <1>1. CASE p \notin ps
    BY <1>1 DEF Moved, Kept
  <1>2. CASE p \in ps
    <2>1. prop[p] \in Proposal /\ seq \in Nat
      BY <1>2, ProposalTyped
    <2>2. prop[p].queued /\ ~prop[p].executed /\ ~prop[p].cancelled /\ Status(p) = "Queued"
      BY <1>2, <2>1, StateFacts, StatusIs
    <2>3. prop'[p] \in Proposal /\ prop'[p] = [prop[p] EXCEPT !.executed = TRUE]
      BY <1>2, FlagTyped DEF IndInv
    <2>4. /\ prop'[p].queued /\ prop'[p].executed /\ ~prop'[p].cancelled
          /\ prop'[p].start_ledger = prop[p].start_ledger
          /\ prop'[p].end_ledger = prop[p].end_ledger
      BY <2>1, <2>2, <2>3 DEF Proposal
    <2>5. Performed(p)
      BY <1>2, <2>1, <2>2, <2>3, <2>4 DEF Performed, Flagged
    <2>6. QED
      BY <2>5 DEF Moved
  <1>3. QED
    BY <1>1, <1>2

LEMMA MovedExecute ==
    ASSUME IndInv, NEW p \in Pids,
           \/ \E q \in Pids : execute(q)
           \/ \E ps \in SUBSET Pids : execute_batch(ps)
    PROVE  Moved(p)
  <1>1. ASSUME NEW q \in Pids, execute(q)
        PROVE  Moved(p)
    <2>1. Exists(q) /\ StateOf(q) = "Queued" /\ prop' = [prop EXCEPT ![q].executed = TRUE]
      BY <1>1 DEF execute
    <2>2. seq' = seq
      BY <1>1, ExecuteEffect DEF execute, IndInv
    <2>3. Recorded(q, "Executed") /\ \A x \in Pids \ {q} : SameScores(x)
      BY <1>1, RecordEffect DEF execute, Outcome
    <2>4. /\ {q} \in SUBSET Pids
          /\ prop'[p] = IF p \in {q} THEN [prop[p] EXCEPT !.executed = TRUE] ELSE prop[p]
          /\ IF p \in {q} THEN Recorded(p, "Executed") ELSE SameScores(p)
      BY <2>1, <2>3, ProposalTyped
    <2>5. QED
      BY <2>1, <2>2, <2>4, MovedExecuted
  <1>2. ASSUME NEW ps \in SUBSET Pids, execute_batch(ps)
        PROVE  Moved(p)
    <2>1. /\ \A q \in ps : Exists(q) /\ StateOf(q) = "Queued"
          /\ prop'[p] = IF p \in ps THEN [prop[p] EXCEPT !.executed = TRUE] ELSE prop[p]
          /\ scored'[p] = IF p \in ps THEN [scored[p] EXCEPT !["Executed"] = scored[p]["Executed"] + 1]
                                      ELSE scored[p]
          /\ UNCHANGED <<seq, defeatScored, expiryScored>>
      BY <1>2 DEF execute_batch, clock
    <2>2. scored[p] \in [Outcome -> Nat]
      BY ProposalTyped
    <2>3. IF p \in ps THEN Recorded(p, "Executed") ELSE SameScores(p)
      BY <2>1, <2>2 DEF Recorded, SameScores
    <2>4. QED
      BY <2>1, <2>3, MovedExecuted
  <1>3. QED
    BY <1>1, <1>2

(* Only what has not been executed is cancelled: the timelock refuses the     *)
(* rest, and the two agree.                                                   *)
LEMMA MovedCancel ==
    ASSUME IndInv, NEW a \in Accounts, NEW q \in Pids, cancel(a, q) \/ cancel_queued(a, q),
           NEW p \in Pids
    PROVE  Moved(p)
  <1>1. /\ Exists(q) /\ prop' = [prop EXCEPT ![q].cancelled = TRUE]
        /\ Record(q, "Cancelled") /\ UNCHANGED <<defeatScored, expiryScored>>
    BY DEF cancel, cancel_queued
  <1>2. seq' = seq
    BY CancelEffect DEF cancel, cancel_queued, clock, IndInv
  <1>3. Recorded(q, "Cancelled") /\ \A x \in Pids \ {q} : SameScores(x)
    BY <1>1, RecordEffect DEF Outcome
  <1>4. /\ prop[q] \in Proposal /\ seq \in Nat
        /\ prop'[q] = [prop[q] EXCEPT !.cancelled = TRUE]
        /\ \A x \in Pids \ {q} : prop'[x] = prop[x]
    BY <1>1, ProposalTyped
  <1>5. CASE p # q
    BY <1>2, <1>3, <1>4, <1>5 DEF Moved, Kept
  <1>6. CASE p = q
    <2>1. Status(q) \in {"Pending", "Active", "Queued"}
      <3>1. CASE cancel(a, q)
        BY <1>1, <3>1, StatusIs DEF cancel
      <3>2. CASE cancel_queued(a, q)
        <4>1. prop[q].queued /\ ~prop[q].cancelled /\ ~entry[q].executed
          BY <3>2, CancelEffect DEF cancel_queued, IndInv
        <4>2. ~prop[q].executed
          BY <1>1, <4>1 DEF IndInv, Safe, TimelockAgrees
        <4>3. QED
          BY <1>1, <1>4, <4>1, <4>2, StatusIs DEF StateOf
      <3>3. QED
        BY <3>1, <3>2
    <2>2. prop'[q] \in Proposal
      BY <1>1, <1>4, FlagTyped DEF IndInv
    <2>3. /\ prop'[q].cancelled /\ (prop'[q].queued <=> prop[q].queued)
          /\ prop'[q].start_ledger = prop[q].start_ledger
          /\ prop'[q].end_ledger = prop[q].end_ledger
      BY <1>4 DEF Proposal
    <2>4. Dropped(p)
      BY <1>2, <1>3, <1>4, <1>6, <2>1, <2>2, <2>3 DEF Dropped, Flagged
    <2>5. QED
      BY <2>4 DEF Moved
  <1>7. QED
    BY <1>5, <1>6

(* Reading states records what is found, unless it was found before.          *)
LEMMA MovedRead ==
    ASSUME IndInv, NEW ps \in SUBSET Pids, \A q \in ps : Exists(q), Settle(ps),
           UNCHANGED <<clock, prop>>, NEW p \in Pids
    PROVE  Moved(p)
  <1>1. seq' = seq /\ prop'[p] = prop[p]
    BY DEF clock
  <1>2. /\ p \in NewDefeats(ps) <=> p \in ps /\ p \notin defeatScored /\ Status(p) = "Defeated"
        /\ p \in NewExpiries(ps) <=> p \in ps /\ p \notin expiryScored /\ Status(p) = "Expired"
    BY StatusIs DEF NewDefeats, NewExpiries
  <1>3. /\ p \in defeatScored' <=> p \in defeatScored \/ p \in NewDefeats(ps)
        /\ p \in expiryScored' <=> p \in expiryScored \/ p \in NewExpiries(ps)
    BY DEF Settle
  <1>4. \A o \in Outcome : scored'[p][o] = scored[p][o] + IF FirstRead(ps, p, o) THEN 1 ELSE 0
    BY DEF Settle
  <1>5. \A o \in Outcome : FirstRead(ps, p, o) <=>
             \/ o = "Defeated" /\ p \in defeatScored' /\ p \notin defeatScored
             \/ o = "Expired" /\ p \in expiryScored' /\ p \notin expiryScored
    BY <1>2, <1>3 DEF FirstRead
  <1>6. Read(p)
    BY <1>1, <1>2, <1>3, <1>4, <1>5 DEF Read
  <1>7. QED
    BY <1>6 DEF Moved

LEMMA StepMoves ==
    ASSUME IndInv, [Next]_vars, NEW p \in Pids
    PROVE  Moved(p)
  <1>1. CASE \E a \in Accounts : create_proposal_internal(a)
    BY <1>1, MovedCreate
  <1>2. CASE \E a \in Accounts, q \in Pids, s \in Support : DirectVote(a, q, s) \/ reveal_vote(a, q, s)
    BY <1>2, MovedVote
  <1>3. CASE \E q \in Pids : queue(q)
    BY <1>3, MovedQueue
  <1>4. CASE (\E q \in Pids : execute(q)) \/ (\E ps \in SUBSET Pids : execute_batch(ps))
    BY <1>4, MovedExecute
  <1>5. CASE \E a \in Accounts, q \in Pids : cancel(a, q) \/ cancel_queued(a, q)
    BY <1>5, MovedCancel
  <1>6. CASE (\E q \in Pids : state(q)) \/ proposals_count_by_state
    <2>1. ASSUME NEW q \in Pids, state(q)
          PROVE  Moved(p)
      <3>1. {q} \in SUBSET Pids /\ (\A x \in {q} : Exists(x)) /\ Settle({q}) /\ UNCHANGED <<clock, prop>>
        BY <2>1 DEF state
      <3>2. QED
        BY <3>1, MovedRead
    <2>2. ASSUME proposals_count_by_state
          PROVE  Moved(p)
      <3>1. PICK ps \in SUBSET Pids : ps = {x \in Pids : Exists(x)}
        OBVIOUS
      <3>2. (\A x \in ps : Exists(x)) /\ Settle(ps) /\ UNCHANGED <<clock, prop>>
        BY <2>2, <3>1 DEF proposals_count_by_state
      <3>3. QED
        BY <3>2, MovedRead
    <2>3. QED
      BY <1>6, <2>1, <2>2
  <1>7. CASE CloseLedger
    <2>1. seq' = seq + 1 /\ UNCHANGED <<prop, scored, defeatScored, expiryScored>>
      BY <1>7 DEF CloseLedger, TL!CloseLedger, scoreVars
    <2>2. QED
      BY <2>1 DEF Moved, Aged, SameScores
  <1>8. CASE UNCHANGED <<seq, prop, scored, defeatScored, expiryScored>>
    BY <1>8 DEF Moved, Kept, SameScores
  <1>9. TimelockAdminStep => UNCHANGED <<seq, prop, scored, defeatScored, expiryScored>>
    BY DEF TimelockAdminStep, TL!cancel, TL!update_delay, TL!update_execution_window, TL!clock, scoreVars
  <1>10. QED
    <2>1. ASSUME NEW a \in Accounts, AccountStep(a)
          PROVE  Moved(p)
      <3>1. ASSUME NEW q \in Pids, NEW s \in Support, commit_vote(a, q, s)
            PROVE  UNCHANGED <<seq, prop, scored, defeatScored, expiryScored>>
        BY <3>1 DEF commit_vote, clock, scoreVars
      <3>2. ASSUME NEW s \in Settings, set_initial_config(a, s)
            PROVE  UNCHANGED <<seq, prop, scored, defeatScored, expiryScored>>
        BY <3>2 DEF set_initial_config, ConfigStep, clock, scoreVars
      <3>3. ASSUME NEW b \in Accounts, DelegateVotes(a, b)
            PROVE  UNCHANGED <<seq, prop, scored, defeatScored, expiryScored>>
        BY <3>3 DEF DelegateVotes, clock, scoreVars
      <3>4. QED
        BY <1>1, <1>2, <1>5, <1>8, <2>1, <3>1, <3>2, <3>3, VoteIsDirect
        DEF AccountStep, propose, propose_via_registry, cast_vote, cast_vote_with_reason
    <2>2. CASE UNCHANGED vars
      BY <1>8, <2>2 DEF vars, clock, scoreVars
    <2>3. QED
      BY <1>3, <1>4, <1>6, <1>7, <1>8, <1>9, <2>1, <2>2 DEF Next

-----------------------------------------------------------------------------
(* What each of them means for the state and the records.                    *)

(* With the ledger, a state only ages.                                       *)
LEMMA Ageing ==
    ASSUME NEW r \in Proposal, NEW n \in Nat, NEW q, NEW g \in Nat,
           r.start_ledger <= r.end_ledger
    PROVE  LET s == StateFor(r, n, q, g)
               t == StateFor(r, n + 1, q, g)
           IN  \/ t = s
               \/ s = "Pending" /\ t = "Active"
               \/ s = "Active" /\ t \in {"Defeated", "Succeeded", "Expired"}
               \/ s = "Succeeded" /\ t = "Expired"
  <1>1. r.start_ledger \in Nat /\ r.end_ledger \in Nat
    BY DEF Proposal
  <1>2. QED
    BY <1>1 DEF StateFor

LEMMA SoundStep ==
    ASSUME IndInv, [Next]_vars, NEW p \in Pids, SoundOn(p)
    PROVE  /\ SoundOn(p)'
           /\ Status(p)' = Status(p) \/ Status(p)' \in Lifecycle!Successors(Status(p))
  <1>1. quorum' = quorum /\ Grace' = Grace /\ Moved(p)
    BY RulesFixed, StepMoves
  <1>2. /\ Status(p) = StatusFor(prop[p], seq, quorum, Grace)
        /\ Status(p)' = StatusFor(prop'[p], seq', quorum, Grace)
    BY <1>1, StatusIs
  <1>3. seq \in Nat /\ Grace \in Nat /\ prop[p] \in Proposal \cup {None}
    BY ProposalTyped
  <1>4. \A r \in Proposal : r # None
    BY NoneAssumption
  <1>5. scored[p] \in [Outcome -> Nat]
    BY ProposalTyped
  <1>6. /\ "Defeated" \in Outcome /\ "Expired" \in Outcome /\ "Succeeded" \in Outcome
        /\ "Executed" \in Outcome /\ "Cancelled" \in Outcome
    BY DEF Outcome
  <1>7. CASE Kept(p)
    <2>1. Status(p)' = Status(p)
      BY <1>2, <1>7 DEF Kept
    <2>2. SoundOn(p)'
      BY <1>6, <1>7, <2>1 DEF Kept, SameScores, SoundOn, Sound
    <2>3. QED
      BY <2>1, <2>2
  <1>8. CASE Counted(p)
    <2>1. Status(p)' = Status(p)
      BY <1>2, <1>3, <1>4, <1>8 DEF Counted, Open, StatusFor, StateFor
    <2>2. prop[p].queued = FALSE /\ prop'[p].queued = FALSE
      BY <1>8 DEF Counted, Open, Proposal
    <2>3. SoundOn(p)'
      BY <1>4, <1>6, <1>8, <2>1, <2>2 DEF Counted, SameScores, SoundOn, Sound
    <2>4. QED
      BY <2>1, <2>3
  <1>9. CASE Created(p)
    <2>1. Status(p) = "None" /\ Status(p)' \in {"Pending", "Active"}
      <3>1. prop'[p].start_ledger \in Nat /\ prop'[p].end_ledger \in Nat
        BY <1>9 DEF Created, Proposal
      <3>2. QED
        BY <1>2, <1>3, <1>4, <1>9, <3>1 DEF Created, Open, StatusFor, StateFor
    <2>2. SoundOn(p)'
      BY <1>4, <1>6, <1>9, <2>1 DEF Created, Open, SameScores, SoundOn, Sound
    <2>3. QED
      BY <2>1, <2>2, SuccessorFacts
  <1>10. CASE Enqueued(p)
    <2>1. Status(p) = "Succeeded" /\ Status(p)' = "Queued"
      BY <1>2, <1>4, <1>10 DEF Enqueued, Flagged, StatusFor, StateFor
    <2>2. ~prop[p].queued
      BY <1>2, <1>4, <1>10 DEF Enqueued, Flagged, StatusFor, StateFor
    <2>3. SoundOn(p)'
      BY <1>4, <1>5, <1>6, <1>10, <2>1, <2>2 DEF Enqueued, Flagged, Recorded, SoundOn, Sound
    <2>4. QED
      BY <2>1, <2>3, SuccessorFacts
  <1>11. CASE Performed(p)
    <2>1. Status(p) = "Queued" /\ Status(p)' = "Executed"
      BY <1>2, <1>4, <1>11 DEF Performed, Flagged, StatusFor, StateFor
    <2>2. SoundOn(p)'
      BY <1>4, <1>5, <1>6, <1>11, <2>1 DEF Performed, Flagged, Recorded, SoundOn, Sound
    <2>3. QED
      BY <2>1, <2>2, SuccessorFacts
  <1>12. CASE Dropped(p)
    <2>1. Status(p) \in {"Pending", "Active", "Queued"} /\ Status(p)' = "Cancelled"
      BY <1>2, <1>4, <1>12 DEF Dropped, Flagged, StatusFor, StateFor
    <2>2. SoundOn(p)'
      BY <1>4, <1>5, <1>6, <1>12, <2>1 DEF Dropped, Flagged, Recorded, SoundOn, Sound
    <2>3. QED
      BY <2>1, <2>2, SuccessorFacts
  <1>13. CASE Read(p)
    <2>1. Status(p)' = Status(p)
      BY <1>2, <1>13 DEF Read
    <2>2. SoundOn(p)'
      BY <1>5, <1>6, <1>13, <2>1 DEF Read, SoundOn, Sound
    <2>3. QED
      BY <2>1, <2>2
  <1>14. CASE Aged(p)
    <2>1. CASE prop[p] = None
      <3>1. Status(p)' = Status(p) /\ Status(p) = "None"
        BY <1>2, <1>14, <2>1 DEF Aged, StatusFor
      <3>2. QED
        BY <1>6, <1>14, <3>1 DEF Aged, SameScores, SoundOn, Sound
    <2>2. CASE prop[p] # None
      <3>1. /\ Status(p) = StateFor(prop[p], seq, quorum, Grace)
            /\ Status(p)' = StateFor(prop[p], seq + 1, quorum, Grace)
        BY <1>2, <1>14, <2>2 DEF Aged, StatusFor
      <3>2. prop[p] \in Proposal /\ prop[p].start_ledger <= prop[p].end_ledger
        BY <1>3, <2>2 DEF SoundOn, Sound
      <3>3. \/ Status(p)' = Status(p)
            \/ Status(p) = "Pending" /\ Status(p)' = "Active"
            \/ Status(p) = "Active" /\ Status(p)' \in {"Defeated", "Succeeded", "Expired"}
            \/ Status(p) = "Succeeded" /\ Status(p)' = "Expired"
        BY <1>3, <3>1, <3>2, Ageing
      <3>4. SoundOn(p)'
        BY <1>6, <1>14, <3>3 DEF Aged, SameScores, SoundOn, Sound
      <3>5. QED
        BY <3>3, <3>4, SuccessorFacts
    <2>3. QED
      BY <2>1, <2>2
  <1>15. QED
    BY <1>1, <1>7, <1>8, <1>9, <1>10, <1>11, <1>12, <1>13, <1>14 DEF Moved

(* At most one penalty, and the reward for passing before the one for being   *)
(* executed, follow proposal by proposal.                                     *)
LEMMA SoundMeansOnce == ASSUME IndInv, OutcomesSound PROVE ScoredOnce
  <1> SUFFICES ASSUME NEW p \in Pids
               PROVE  /\ scored[p]["Defeated"] + scored[p]["Expired"] + scored[p]["Cancelled"] <= 1
                      /\ scored[p]["Executed"] <= scored[p]["Succeeded"] /\ scored[p]["Succeeded"] <= 1
                      /\ scored[p]["Succeeded"] = 1 => scored[p]["Defeated"] + scored[p]["Expired"] = 0
    BY DEF ScoredOnce
  <1>1. SoundOn(p)
    BY DEF OutcomesSound
  <1>2. Status(p) = StatusFor(prop[p], seq, quorum, Grace)
    BY StatusIs
  <1>3. Status(p) = "Executed" => prop[p] # None /\ prop[p].queued
    <2>1. Status(p) = "Executed" => prop[p] # None /\ prop[p].executed
      BY <1>2 DEF StatusFor, StateFor
    <2>2. QED
      BY <2>1 DEF IndInv, Safe, TimelockAgrees, Exists
  <1>4. prop[p] # None /\ prop[p].queued => Status(p) \notin {"Defeated", "Expired"}
    BY <1>2 DEF StatusFor, StateFor
  <1>5. QED
    BY <1>1, <1>3, <1>4 DEF SoundOn, Sound

LEMMA OutcomeInit == Init => IndInv /\ OutcomesSound
  <1>1. Init => IndInv
    BY TypeInit, SafeInit DEF IndInv
  <1>2. Init => OutcomesSound
    BY DEF Init, OutcomesSound, SoundOn, Sound, Status, Exists, Outcome
  <1>3. QED
    BY <1>1, <1>2

LEMMA OutcomeStep == IndInv /\ OutcomesSound /\ [Next]_vars => (IndInv /\ OutcomesSound)'
  <1>1. IndInv /\ [Next]_vars => IndInv'
    BY IndStep
  <1>2. ASSUME IndInv, OutcomesSound, [Next]_vars, NEW p \in Pids
        PROVE  SoundOn(p)'
    BY <1>2, SoundStep DEF OutcomesSound
  <1>3. QED
    BY <1>1, <1>2 DEF OutcomesSound

(* While the settings do not change, for every number of proposals and reads: *)
(* a proposal is penalised at most once, and rewarded once for passing before *)
(* it is rewarded for being executed (state, queue, execute, cancel).         *)
THEOREM OutcomesScoredOnce == Spec => []ScoredOnce
  <1>1. IndInv /\ OutcomesSound => ScoredOnce
    BY SoundMeansOnce
  <1>2. QED
    BY <1>1, OutcomeInit, OutcomeStep, PTL DEF Spec

(* The states of all proposals together make a step of ProposalLifecycle.     *)
LEMMA LifecycleStep ==
    ASSUME IndInv, OutcomesSound, [Next]_vars
    PROVE  [Lifecycle!Next]_[p \in Pids |-> Status(p)]
  <1>1. \A p \in Pids : Status(p)' = Status(p) \/ Status(p)' \in Lifecycle!Successors(Status(p))
    BY SoundStep DEF OutcomesSound
  <1>2. \A p \in Pids : Status(p)' \in Lifecycle!States
    <2>1. \A p \in Pids : Status(p)' = StatusFor(prop'[p], seq', quorum', Grace')
      BY StatusIs
    <2>2. QED
      BY <2>1 DEF StatusFor, StateFor, Lifecycle!States, Lifecycle!Final
  <1>3. QED
    BY <1>1, <1>2 DEF Lifecycle!Next

(* While the settings do not change, the governor implements                  *)
(* ProposalLifecycle, for every number of proposals, accounts and ledgers:    *)
(* states follow each other as documented, and outcomes are final (state).    *)
THEOREM LifecycleImplemented == Spec => ImplementsProposalLifecycle
  <1>1. Init => Lifecycle!Init
    BY DEF Init, Lifecycle!Init, Status, Exists
  <1>2. IndInv /\ OutcomesSound /\ [Next]_vars => [Lifecycle!Next]_[p \in Pids |-> Status(p)]
    BY LifecycleStep
  <1>3. QED
    BY <1>1, <1>2, OutcomeInit, OutcomeStep, PTL DEF Spec, ImplementsProposalLifecycle, Lifecycle!Spec

-----------------------------------------------------------------------------
(* The veto.                                                                 *)

(* A queued proposal and its operation keep the times they were given, and    *)
(* only queueing gives them.                                                  *)
Waiting(p) == Exists(p) /\ prop[p].queued
SameTimes(p) ==
    /\ Waiting(p)
    /\ prop'[p].queue_time = prop[p].queue_time
    /\ entry'[p].ready_at = entry[p].ready_at
NewTimes(p) ==
    /\ prop'[p].queue_time = seq /\ entry'[p].ready_at = now + minDelay
    /\ UNCHANGED <<now, seq, minDelay>>

(* What is stored of a proposal and of its operation may be marked in every    *)
(* way without the times changing.                                            *)
LEMMA MarksKeepTimes ==
    ASSUME NEW r \in Proposal, NEW e \in TL!Entry
    PROVE  /\ [r EXCEPT !.executed = TRUE].queue_time = r.queue_time
           /\ [r EXCEPT !.cancelled = TRUE].queue_time = r.queue_time
           /\ [r EXCEPT !.executed = TRUE].queued = r.queued
           /\ [r EXCEPT !.cancelled = TRUE].queued = r.queued
           /\ [e EXCEPT !.executed = TRUE].ready_at = e.ready_at
           /\ [e EXCEPT !.cancelled = TRUE].ready_at = e.ready_at
  BY DEF Proposal, TL!Entry

LEMMA Stored ==
    ASSUME IndInv, NEW p \in Pids, Waiting(p)
    PROVE  prop[p] \in Proposal /\ entry[p] \in TL!Entry
  BY TimelockIds, ProposalTyped
  DEF Waiting, IndInv, TypeOK, TL!TypeOK, Safe, TimelockAgrees, TL!Exists

LEMMA TimesCreate ==
    ASSUME IndInv, NEW a \in Accounts, create_proposal_internal(a), NEW p \in Pids, Waiting(p)'
    PROVE  SameTimes(p)
  <1>1. PICK n \in Pids : n = Count + 1 /\ ~Exists(n)
    BY CountFacts DEF IndInv, Safe, create_proposal_internal, Pids
  <1>2. prop' = [prop EXCEPT ![n] = NewProposal(a)] /\ entry' = entry
    BY <1>1 DEF create_proposal_internal, timelockVars
  <1>3. ~NewProposal(a).queued
    BY NewProposalFacts DEF IndInv
  <1>4. p # n
    BY <1>2, <1>3, ProposalTyped DEF Waiting
  <1>5. QED
    BY <1>2, <1>4, ProposalTyped DEF Waiting, SameTimes, Exists

LEMMA TimesVote ==
    ASSUME IndInv, NEW a \in Accounts, NEW q \in Pids, NEW s \in Support,
           DirectVote(a, q, s) \/ reveal_vote(a, q, s), NEW p \in Pids, Waiting(p)'
    PROVE  SameTimes(p)
  <1> DEFINE w == apply_vote_type(compute_votes(snapshot[q][a]))
             r == [prop[q] EXCEPT !.tally[s] = prop[q].tally[s] + w]
  <1>1. Exists(q) /\ CountVote(a, q, s)
    BY DEF DirectVote, reveal_vote
  <1>2. w \in Nat /\ prop[q] \in Proposal
    BY <1>1, WeightType, ProposalTyped DEF IndInv
  <1>3. prop' = [prop EXCEPT ![q] = r] /\ entry' = entry
    BY <1>1 DEF CountVote, timelockVars
  <1>4. r.queued = prop[q].queued /\ r.queue_time = prop[q].queue_time
    BY <1>2 DEF Proposal
  <1> HIDE DEF r
  <1>5. QED
    BY <1>1, <1>3, <1>4, ProposalTyped DEF Waiting, SameTimes, Exists

LEMMA TimesQueue ==
    ASSUME IndInv, NEW q \in Pids, queue(q), NEW p \in Pids, Waiting(p)'
    PROVE  SameTimes(p) \/ NewTimes(p)
  <1>1. /\ prop' = [prop EXCEPT ![q] = [prop[q] EXCEPT !.queued = TRUE, !.queue_time = seq]]
        /\ prop[q] \in Proposal
    BY ProposalTyped DEF queue
  <1>2. /\ entry' = [entry EXCEPT ![q] = TL!NewEntry(minDelay, {})]
        /\ UNCHANGED <<now, seq, minDelay>>
    BY DEF queue, TimelockSchedule, TL!schedule, TL!schedule_batch, TL!ScheduleOperation,
           TL!clock, TL!config
  <1>3. entry \in [Pids -> TL!Entry \cup {None}]
    BY TimelockIds DEF IndInv, TypeOK, TL!TypeOK
  <1>4. CASE p = q
    <2>1. prop'[p].queue_time = seq
      BY <1>1, <1>4, ProposalTyped DEF Proposal
    <2>2. entry'[p].ready_at = now + minDelay
      BY <1>2, <1>3, <1>4 DEF TL!NewEntry
    <2>3. QED
      BY <1>2, <2>1, <2>2 DEF NewTimes
  <1>5. CASE p # q
    BY <1>1, <1>2, <1>3, <1>5, ProposalTyped DEF SameTimes, Waiting, Exists
  <1>6. QED
    BY <1>4, <1>5

(* Executing and cancelling only mark.                                        *)
Marked(r) == {[r EXCEPT !.executed = TRUE], [r EXCEPT !.cancelled = TRUE]}
Marks(ps, p) ==
    /\ \/ prop'[p] = prop[p]
       \/ p \in ps /\ prop'[p] \in Marked(prop[p])
    /\ \/ entry'[p] = entry[p]
       \/ p \in ps /\ entry'[p] \in Marked(entry[p])

LEMMA TimesMarked ==
    ASSUME IndInv, NEW ps \in SUBSET Pids, \A q \in ps : Exists(q), NEW p \in Pids,
           Marks(ps, p), Waiting(p)'
    PROVE  SameTimes(p)
  <1>1. Waiting(p)
    <2>1. CASE prop'[p] = prop[p]
      BY <2>1 DEF Waiting, Exists
    <2>2. CASE p \in ps /\ prop'[p] \in Marked(prop[p])
      <3>1. prop[p] \in Proposal /\ Exists(p)
        BY <2>2, ProposalTyped
      <3>2. /\ [prop[p] EXCEPT !.executed = TRUE].queued = prop[p].queued
            /\ [prop[p] EXCEPT !.cancelled = TRUE].queued = prop[p].queued
        BY <3>1 DEF Proposal
      <3>3. QED
        BY <2>2, <3>1, <3>2 DEF Waiting, Marked
    <2>3. QED
      BY <2>1, <2>2 DEF Marks
  <1>2. prop[p] \in Proposal /\ entry[p] \in TL!Entry
    BY <1>1, Stored
  <1>3. QED
    BY <1>1, <1>2, MarksKeepTimes DEF Marks, Marked, SameTimes

LEMMA TimesMarks ==
    ASSUME IndInv, NEW p \in Pids, Waiting(p)',
           \/ \E q \in Pids : execute(q)
           \/ \E ps \in SUBSET Pids : execute_batch(ps)
           \/ \E a \in Accounts, q \in Pids : cancel(a, q) \/ cancel_queued(a, q) \/ cancel_by_governance(q)
           \/ TimelockAdminStep
    PROVE  SameTimes(p)
  <1>1. entry \in [Pids -> TL!Entry \cup {None}]
    BY TimelockIds DEF IndInv, TypeOK, TL!TypeOK
  <1>2. ASSUME NEW q \in Pids, execute(q)
        PROVE  SameTimes(p)
    <2>1. /\ Exists(q) /\ prop' = [prop EXCEPT ![q].executed = TRUE]
          /\ entry' = [entry EXCEPT ![q].executed = TRUE]
      BY <1>2, ExecuteEffect DEF execute, IndInv
    <2>2. {q} \in SUBSET Pids /\ Marks({q}, p)
      BY <1>1, <2>1, ProposalTyped DEF Marks, Marked
    <2>3. QED
      BY <2>1, <2>2, TimesMarked
  <1>3. ASSUME NEW ps \in SUBSET Pids, execute_batch(ps)
        PROVE  SameTimes(p)
    <2>1. Marks(ps, p) /\ \A q \in ps : Exists(q)
      BY <1>3 DEF execute_batch, Marks, Marked
    <2>2. QED
      BY <2>1, TimesMarked
  <1>4. ASSUME NEW a \in Accounts, NEW q \in Pids,
               cancel(a, q) \/ cancel_queued(a, q) \/ cancel_by_governance(q)
        PROVE  SameTimes(p)
    <2>1. Exists(q) /\ prop' = [prop EXCEPT ![q].cancelled = TRUE]
      BY <1>4 DEF cancel, cancel_queued, cancel_by_governance
    <2>2. entry' = entry \/ entry' = [entry EXCEPT ![q].cancelled = TRUE]
      BY <1>4, CancelEffect DEF cancel, cancel_queued, cancel_by_governance, timelockVars, IndInv
    <2>3. {q} \in SUBSET Pids /\ Marks({q}, p)
      BY <1>1, <2>1, <2>2, ProposalTyped DEF Marks, Marked
    <2>4. QED
      BY <2>1, <2>3, TimesMarked
  <1>5. ASSUME TimelockAdminStep
        PROVE  SameTimes(p)
    <2>1. prop' = prop /\ Waiting(p)
      BY <1>5 DEF TimelockAdminStep, Waiting, Exists
    <2>2. entry[p] \in TL!Entry
      BY <2>1, Stored
    <2>3. entry'[p] = entry[p] \/ entry'[p] = [entry[p] EXCEPT !.cancelled = TRUE]
      BY <1>1, <1>5 DEF TimelockAdminStep, TL!cancel, TL!update_delay, TL!update_execution_window
    <2>4. [entry[p] EXCEPT !.cancelled = TRUE].ready_at = entry[p].ready_at
      BY <2>2 DEF TL!Entry
    <2>5. QED
      BY <2>1, <2>3, <2>4 DEF SameTimes
  <1>6. QED
    BY <1>2, <1>3, <1>4, <1>5

LEMMA TimesStep ==
    ASSUME IndInv, [Next \/ Governance]_vars, NEW p \in Pids, Waiting(p)'
    PROVE  SameTimes(p) \/ NewTimes(p)
  <1>1. CASE UNCHANGED <<prop, entry>>
    BY <1>1 DEF SameTimes, Waiting, Exists
  <1>2. CASE \/ \E a \in Accounts, s \in Settings : set_initial_config(a, s)
             \/ \E s \in Settings : update_config(s) \/ update_oracle(s)
             \/ \E a \in Accounts : set_guardian(a)
             \/ \E bps \in Strategies : set_voting_strategy(bps)
    BY <1>1, <1>2, TypeConfig DEF IndInv, ConfigStep, timelockVars
  <1>3. CASE \/ \E a \in Accounts, q \in Pids, s \in Support : commit_vote(a, q, s)
             \/ \E q \in Pids : state(q)
             \/ proposals_count_by_state
    BY <1>1, <1>3 DEF commit_vote, state, proposals_count_by_state, timelockVars
  <1>4. CASE \/ \E a, b \in Accounts : DelegateVotes(a, b)
             \/ \E x \in Prices : PriceMoves(x)
             \/ CloseLedger
             \/ UNCHANGED vars
    BY <1>1, <1>4 DEF DelegateVotes, PriceMoves, CloseLedger, TL!CloseLedger, vars, timelockVars
  <1>5. QED
    BY <1>2, <1>3, <1>4, TimesCreate, TimesVote, TimesQueue, TimesMarks, StepCases

(* The clock moves with the ledgers only, and the delay to one of Delays.     *)
LEMMA ClockStep ==
    ASSUME IndInv, [Next \/ Governance]_vars
    PROVE  /\ \/ UNCHANGED <<now, seq>>
              \/ \E dt \in LedgerTimes : now' = now + dt /\ seq' = seq + 1
           /\ minDelay' = minDelay \/ minDelay' \in Delays
  <1>1. CASE UNCHANGED <<now, seq, minDelay>>
    BY <1>1
  <1>2. CASE CloseLedger
    BY <1>2 DEF CloseLedger, TL!CloseLedger, TL!config
  <1>3. CASE TimelockAdminStep
    BY <1>3 DEF TimelockAdminStep, TL!cancel, TL!update_delay, TL!update_execution_window,
                TL!clock, TL!config
  <1>4. CASE \/ \E a \in Accounts : create_proposal_internal(a)
             \/ \E a \in Accounts, p \in Pids, s \in Support :
                   DirectVote(a, p, s) \/ reveal_vote(a, p, s) \/ commit_vote(a, p, s)
    BY <1>1, <1>4
    DEF create_proposal_internal, DirectVote, reveal_vote, commit_vote, CountVote, clock, timelockVars
  <1>5. CASE \E p \in Pids : queue(p)
    BY <1>1, <1>5
    DEF queue, TimelockSchedule, TL!schedule, TL!schedule_batch, TL!ScheduleOperation, TL!clock, TL!config
  <1>6. CASE \/ \E p \in Pids : execute(p)
             \/ \E ps \in SUBSET Pids : execute_batch(ps)
    BY <1>1, <1>6, ExecuteEffect DEF execute, execute_batch, clock, IndInv
  <1>7. CASE \E a \in Accounts, p \in Pids : cancel(a, p) \/ cancel_queued(a, p) \/ cancel_by_governance(p)
    BY <1>1, <1>7
    DEF cancel, cancel_queued, cancel_by_governance, TL!cancel, clock, timelockVars, TL!clock, TL!config
  <1>8. CASE (\E p \in Pids : state(p)) \/ proposals_count_by_state
    BY <1>1, <1>8 DEF state, proposals_count_by_state, clock, timelockVars
  <1>9. CASE \/ \E a \in Accounts, s \in Settings : set_initial_config(a, s)
             \/ \E s \in Settings : update_config(s) \/ update_oracle(s)
             \/ \E a \in Accounts : set_guardian(a)
             \/ \E bps \in Strategies : set_voting_strategy(bps)
    BY <1>1, <1>9, TypeConfig DEF IndInv, ConfigStep, clock, timelockVars
  <1>10. CASE \/ \E a, b \in Accounts : DelegateVotes(a, b)
              \/ \E x \in Prices : PriceMoves(x)
              \/ UNCHANGED vars
    BY <1>1, <1>10 DEF DelegateVotes, PriceMoves, vars, clock, timelockVars
  <1>11. QED
    BY <1>2, <1>3, <1>4, <1>5, <1>6, <1>7, <1>8, <1>9, <1>10, StepCases

(* Since a proposal was queued, at least SecondsPerLedger have passed per      *)
(* ledger, and the delay is still the one it was queued with.                 *)
Paced ==
    /\ minDelay \in Delays
    /\ \A p \in Pids : Waiting(p) =>
          /\ prop[p].queue_time \in Nat /\ entry[p].ready_at \in Nat
          /\ entry[p].ready_at + SecondsPerLedger * seq
                <= now + minDelay + SecondsPerLedger * prop[p].queue_time

LEMMA PacedStep ==
    ASSUME \A dt \in LedgerTimes : dt >= SecondsPerLedger,
           \A d, e \in Delays : d = e,
           IndInv, Paced, [Next \/ Governance]_vars
    PROVE  Paced'
  <1>1. /\ now \in Nat /\ seq \in Nat /\ minDelay \in Nat
        /\ SecondsPerLedger \in Nat /\ LedgerTimes \subseteq Nat
    BY GovernorNumbers DEF IndInv, TypeOK, TL!TypeOK
  <1>2. minDelay' = minDelay
    BY ClockStep DEF Paced
  <1>3. ASSUME NEW p \in Pids, Waiting(p)'
        PROVE  /\ prop'[p].queue_time \in Nat /\ entry'[p].ready_at \in Nat
               /\ entry'[p].ready_at + SecondsPerLedger * seq'
                     <= now' + minDelay' + SecondsPerLedger * prop'[p].queue_time
    <2>1. CASE NewTimes(p)
      BY <1>1, <1>2, <2>1 DEF NewTimes
    <2>2. CASE SameTimes(p)
      <3> DEFINE t == prop[p].queue_time
                 r == entry[p].ready_at
      <3>1. /\ t \in Nat /\ r \in Nat
            /\ r + SecondsPerLedger * seq <= now + minDelay + SecondsPerLedger * t
            /\ prop'[p].queue_time = t /\ entry'[p].ready_at = r
        BY <2>2 DEF SameTimes, Paced
      <3> HIDE DEF t, r
      <3>2. CASE UNCHANGED <<now, seq>>
        BY <1>2, <3>1, <3>2
      <3>3. CASE \E dt \in LedgerTimes : now' = now + dt /\ seq' = seq + 1
        <4>1. PICK dt \in LedgerTimes : now' = now + dt /\ seq' = seq + 1
          BY <3>3
        <4>2. dt \in Nat /\ dt >= SecondsPerLedger
          BY <1>1
        <4>3. SecondsPerLedger * (seq + 1) = SecondsPerLedger * seq + SecondsPerLedger
          BY <1>1
        <4>4. SecondsPerLedger * seq \in Nat /\ SecondsPerLedger * t \in Nat
          BY <1>1, <3>1
        <4>5. QED
          BY <1>1, <1>2, <3>1, <4>1, <4>2, <4>3, <4>4
      <3>4. QED
        BY <3>2, <3>3, ClockStep
    <2>3. QED
      BY <1>3, <2>1, <2>2, TimesStep
  <1>4. QED
    BY <1>2, <1>3 DEF Paced

LEMMA Multiples ==
    ASSUME NEW k \in Nat \ {0}, NEW a \in Nat, NEW b \in Nat, k * a < k * b
    PROVE  a < b
  <1>1. SUFFICES ASSUME a >= b PROVE FALSE
    OBVIOUS
  <1>2. PICK c \in Nat : a = b + c
    <2>1. a - b \in Nat /\ a = b + (a - b)
      BY <1>1
    <2>2. QED
      BY <2>1
  <1>3. k * a = k * b + k * c
    BY <1>2
  <1>4. k * c \in Nat /\ k * b \in Nat
    OBVIOUS
  <1>5. QED
    BY <1>3, <1>4

LEMMA PacedMeansVeto ==
    ASSUME NEW n \in Nat, \A d \in Delays : d = SecondsPerLedger * n, IndInv, Paced
    PROVE  VetoUntilReady
  <1> SUFFICES ASSUME NEW p \in Pids, Exists(p), StateOf(p) = "Queued", now < entry[p].ready_at
               PROVE  seq < VetoEnd(p)
    BY DEF VetoUntilReady
  <1> DEFINE t == prop[p].queue_time
             r == entry[p].ready_at
  <1>1. /\ now \in Nat /\ seq \in Nat /\ minDelay = SecondsPerLedger * n
        /\ SecondsPerLedger \in Nat \ {0}
    BY GovernorNumbers DEF IndInv, TypeOK, TL!TypeOK, Paced
  <1>2. Waiting(p)
    BY <1>1, StateFacts, ProposalTyped DEF Waiting
  <1>3. t \in Nat /\ r \in Nat /\ r + SecondsPerLedger * seq <= now + minDelay + SecondsPerLedger * t
    BY <1>2 DEF Paced
  <1>4. minDelay \div SecondsPerLedger = n
    <2>1. \A k \in Nat \ {0}, m \in Nat : (k * m) \div k = m
      OBVIOUS
    <2>2. QED
      BY <1>1, <2>1
  <1> HIDE DEF t, r
  <1>5. SecondsPerLedger * seq < SecondsPerLedger * (n + t)
    <2>1. SecondsPerLedger * (n + t) = SecondsPerLedger * n + SecondsPerLedger * t
      BY <1>1, <1>3
    <2>2. SecondsPerLedger * seq \in Nat /\ SecondsPerLedger * n \in Nat /\ SecondsPerLedger * t \in Nat
      BY <1>1, <1>3
    <2>3. now < r
      BY DEF r
    <2>4. QED
      BY <1>1, <1>3, <2>1, <2>2, <2>3
  <1>6. seq < n + t
    BY <1>1, <1>3, <1>5, Multiples
  <1>7. VetoEnd(p) = t + n
    BY <1>4 DEF VetoEnd, t
  <1>8. QED
    BY <1>1, <1>3, <1>6, <1>7

(* When no ledger closes faster than SecondsPerLedger and the timelock's delay *)
(* is a fixed number n of ledgers, the guardian can veto a proposal as long as *)
(* its operation is not ready, whatever governance changes and however the     *)
(* ledgers are late (cancel_queued, queue).                                    *)
THEOREM VetoInTime ==
    ASSUME NEW n \in Nat, \A d \in Delays : d = SecondsPerLedger * n,
           \A dt \in LedgerTimes : dt >= SecondsPerLedger
    PROVE  GovernedSpec => []VetoUntilReady
  <1>1. Init => Paced
    BY DEF Init, TL!Init, Paced, Waiting, Exists
  <1>2. IndInv /\ Paced /\ [Next \/ Governance]_vars => Paced'
    BY PacedStep
  <1>3. IndInv /\ Paced => VetoUntilReady
    BY PacedMeansVeto
  <1>4. QED
    BY <1>1, <1>2, <1>3, Invariance, PTL DEF GovernedSpec

-----------------------------------------------------------------------------
(* The tallies.                                                              *)

(* Who voted with support s, and with which weight.                          *)
Voters(p, s) == {a \in Accounts : HasVoted(a, p) /\ receipt[p][a].support = s}
Weights(p, s) == [a \in Voters(p, s) |-> receipt[p][a].weight]

TalliedOn(p) == Exists(p) => \A s \in Support : prop[p].tally[s] = Total(Weights(p, s))
Tallied == \A p \in Pids : TalliedOn(p)

(* The sums of the property are the totals of the theory of sums.            *)
LEMMA SumIsTotal ==
    ASSUME NEW p \in Pids, NEW s \in Support
    PROVE  MapThenSumSet(LAMBDA a : receipt[p][a].weight,
               {a \in Accounts : HasVoted(a, p) /\ receipt[p][a].support = s})
             = Total(Weights(p, s))
  <1> DEFINE V == {a \in Accounts : HasVoted(a, p) /\ receipt[p][a].support = s}
             Adds(iter) == iter = [v \in SUBSET V |-> IF v = {} THEN 0
                ELSE receipt[p][CHOOSE x \in v : TRUE].weight + iter[v \ {CHOOSE x \in v : TRUE}]]
  <1>1. MapThenSumSet(LAMBDA a : receipt[p][a].weight, V) = (CHOOSE iter : Adds(iter))[V]
    BY DEF MapThenSumSet, MapThenFoldSet
  <1>2. PICK B : B = V
    OBVIOUS
  <1>3. PICK f : f = Weights(p, s) /\ f = [a \in B |-> receipt[p][a].weight]
    BY <1>2 DEF Weights, Voters
  <1>4. IsFiniteSet(B)
    BY <1>2, AccountsFinite, FS_Subset
  <1>5. ASSUME NEW it PROVE Adds(it) <=> IsSum(f, B, it)
    <2>1. \A v \in SUBSET B : v # {} => f[Pick(v)] = receipt[p][CHOOSE x \in v : TRUE].weight
      BY <1>3, PickOne DEF Pick
    <2> HIDE DEF V
    <2>2. Adds(it) <=> it = [v \in SUBSET B |-> IF v = {} THEN 0
                ELSE receipt[p][CHOOSE x \in v : TRUE].weight + it[v \ {CHOOSE x \in v : TRUE}]]
      BY <1>2
    <2> HIDE DEF Adds
    <2>3. QED
      BY <2>1, <2>2 DEF IsSum, Pick
  <1>6. PICK it : IsSum(f, B, it)
    BY <1>4, SumExists
  <1>7. Adds(it)
    BY <1>5, <1>6
  <1>8. PICK jt : jt = CHOOSE iter : Adds(iter)
    OBVIOUS
  <1>9. MapThenSumSet(LAMBDA a : receipt[p][a].weight, V) = jt[B]
    BY <1>1, <1>2, <1>8
  <1> HIDE DEF Adds, V
  <1>10. Adds(jt)
    BY <1>7, <1>8, Zenon
  <1>11. Total(f) = jt[B]
    BY <1>3, <1>4, <1>5, <1>10, TotalIs
  <1>12. QED
    BY <1>3, <1>9, <1>11 DEF V

LEMMA TalliedMatches == Tallied => TalliesMatchReceipts
  BY SumIsTotal DEF Tallied, TalliedOn, TalliesMatchReceipts

(* A proposal whose tally and receipts a step keeps.                         *)
LEMMA TallyKept ==
    ASSUME NEW p \in Pids, TalliedOn(p), receipt'[p] = receipt[p],
           Exists(p)' => Exists(p) /\ prop'[p].tally = prop[p].tally
    PROVE  TalliedOn(p)'
  <1>1. \A s \in Support : Weights(p, s)' = Weights(p, s)
    BY DEF Weights, Voters, HasVoted
  <1>2. QED
    BY <1>1 DEF TalliedOn

(* A new proposal has no votes.                                              *)
LEMMA TallyNew ==
    ASSUME IndInv, NEW p \in Pids, ~Exists(p), receipt' = receipt,
           NEW a \in Accounts, prop'[p] = NewProposal(a)
    PROVE  TalliedOn(p)'
  <1>1. ASSUME NEW s \in Support
        PROVE  prop'[p].tally[s] = Total(Weights(p, s)')
    <2>1. PICK f : f = Weights(p, s)'
      OBVIOUS
    <2>2. DOMAIN f = {}
      BY <2>1 DEF Weights, Voters, HasVoted, IndInv, Safe, VotesExist
    <2>3. Total(f) = 0
      BY <2>2, TotalEmpty
    <2>4. NewProposal(a).tally[s] = 0
      BY DEF NewProposal
    <2>5. QED
      BY <2>1, <2>3, <2>4
  <1>2. QED
    BY <1>1 DEF TalliedOn

(* One more vote: its weight enters one tally.                               *)
LEMMA TallyVote ==
    ASSUME IndInv, NEW a \in Accounts, NEW p \in Pids, NEW s \in Support,
           TalliedOn(p), Exists(p), ~HasVoted(a, p), CountVote(a, p, s)
    PROVE  TalliedOn(p)'
  <1> DEFINE w == apply_vote_type(compute_votes(snapshot[p][a]))
  <1>1. w \in Nat /\ prop[p] \in Proposal
    BY WeightType, ProposalTyped DEF IndInv
  <1>2. /\ prop' = [prop EXCEPT ![p].tally[s] = @ + w]
        /\ receipt' = [receipt EXCEPT ![p][a] = [support |-> s, weight |-> w]]
    BY DEF CountVote
  <1> HIDE DEF w
  <1>3. /\ receipt[p] \in [Accounts -> Receipt \cup {None}]
        /\ receipt'[p] = [receipt[p] EXCEPT ![a] = [support |-> s, weight |-> w]]
        /\ receipt \in [Pids -> [Accounts -> Receipt \cup {None}]]
    BY <1>2 DEF IndInv, TypeOK
  <1>4. prop[p].tally \in [Support -> Nat]
    BY <1>1 DEF Proposal
  <1>5. \A t \in Support : prop'[p].tally[t] = prop[p].tally[t] + IF t = s THEN w ELSE 0
    <2>1. prop'[p].tally = [prop[p].tally EXCEPT ![s] = prop[p].tally[s] + w]
      BY <1>1, <1>2, ProposalTyped DEF Proposal
    <2>2. QED
      BY <1>1, <1>4, <2>1
  <1>6. /\ receipt'[p][a].support = s /\ receipt'[p][a].weight = w /\ receipt'[p][a] # None
        /\ \A b \in Accounts : b # a => receipt'[p][b] = receipt[p][b]
    <2>1. receipt'[p][a] = [support |-> s, weight |-> w]
      BY <1>3
    <2>2. [support |-> s, weight |-> w] \in Receipt
      BY <1>1 DEF Receipt
    <2>3. QED
      BY <1>3, <2>1, <2>2, NoneAssumption
  <1>7. receipt[p][a] = None
    BY DEF HasVoted
  <1>8. ASSUME NEW t \in Support
        PROVE  prop'[p].tally[t] = Total(Weights(p, t)')
    <2>1. PICK A, f : A = Voters(p, t) /\ f = Weights(p, t)
      OBVIOUS
    <2>2. PICK B, g : B = Voters(p, t)' /\ g = Weights(p, t)'
      OBVIOUS
    <2>3. prop[p].tally[t] = Total(f)
      BY <2>1 DEF TalliedOn
    <2>4. f = [b \in A |-> receipt[p][b].weight] /\ g = [b \in B |-> receipt'[p][b].weight]
      BY <2>1, <2>2 DEF Weights
    <2>5. /\ A = {b \in Accounts : receipt[p][b] # None /\ receipt[p][b].support = t}
          /\ B = {b \in Accounts : receipt'[p][b] # None /\ receipt'[p][b].support = t}
      BY <2>1, <2>2 DEF Voters, HasVoted
    <2>6. a \notin A /\ (t = s => B = A \cup {a}) /\ (t # s => B = A)
      <3>1. a \notin A /\ (a \in B <=> t = s)
        BY <1>6, <1>7, <2>5
      <3>2. \A b \in Accounts : b # a => (b \in B <=> b \in A)
        BY <1>6, <2>5
      <3>3. A \subseteq Accounts /\ B \subseteq Accounts
        BY <2>5
      <3>4. QED
        BY <3>1, <3>2, <3>3
    <2>7. \A b \in A : b \in B /\ f[b] = g[b]
      <3>1. \A b \in A : b \in B /\ receipt'[p][b] = receipt[p][b]
        BY <1>6, <2>5, <2>6
      <3>2. QED
        BY <2>4, <3>1
    <2>8. CASE t # s
      <3>1. f = g
        BY <2>4, <2>6, <2>7, <2>8
      <3>2. QED
        BY <1>4, <1>5, <2>2, <2>3, <2>8, <3>1
    <2>9. CASE t = s
      <3>1. IsFiniteSet(A) /\ IsFiniteSet(B)
        BY <2>5, AccountsFinite, FS_Subset
      <3>2. Summable(f, A)
        BY <1>3, <2>4, <2>5, <3>1 DEF Summable, Receipt
      <3>3. receipt'[p] \in [Accounts -> Receipt \cup {None}]
        BY <1>1, <1>3 DEF Receipt
      <3>4. Summable(g, B)
        BY <2>4, <2>5, <3>1, <3>3 DEF Summable, Receipt
      <3>5. B = A \cup {a} /\ g[a] = w
        BY <1>6, <2>4, <2>6, <2>9
      <3>6. Total(g) = Total(f) + g[a]
        BY <2>6, <2>7, <3>2, <3>4, <3>5, TotalAdd
      <3>7. QED
        BY <1>5, <2>2, <2>3, <2>9, <3>5, <3>6
    <2>10. QED
      BY <2>8, <2>9
  <1>9. QED
    BY <1>8 DEF TalliedOn

(* Executing and cancelling only mark.                                       *)
OnlyMarks(ps, p) ==
    /\ receipt' = receipt
    /\ \A q \in ps : Exists(q)
    /\ \/ prop'[p] = prop[p]
       \/ p \in ps /\ prop'[p] \in Marked(prop[p])

LEMMA TallyMarked ==
    ASSUME IndInv, NEW q \in Pids, TalliedOn(q), NEW ps \in SUBSET Pids, OnlyMarks(ps, q)
    PROVE  TalliedOn(q)'
  <1>1. CASE prop'[q] = prop[q]
    BY <1>1, TallyKept DEF Exists, OnlyMarks
  <1>2. CASE q \in ps /\ prop'[q] \in Marked(prop[q])
    <2>1. Exists(q) /\ prop[q] \in Proposal
      BY <1>2, ProposalTyped DEF OnlyMarks
    <2>2. prop'[q].tally = prop[q].tally
      BY <1>2, <2>1, ProposalReads DEF Marked
    <2>3. QED
      BY <2>1, <2>2, TallyKept DEF OnlyMarks
  <1>3. QED
    BY <1>1, <1>2 DEF OnlyMarks

(* Every step of the contract, of governance and of the environment.         *)
LEMMA TallyStep ==
    ASSUME IndInv, Tallied, [Next \/ Governance]_vars
    PROVE  Tallied'
  <1> SUFFICES ASSUME NEW q \in Pids PROVE TalliedOn(q)'
    BY DEF Tallied
  <1>1. TalliedOn(q) /\ prop \in [Pids -> Proposal \cup {None}]
    BY ProposalTyped DEF Tallied
  <1>2. CASE UNCHANGED <<prop, receipt>>
    BY <1>1, <1>2, TallyKept DEF Exists
  <1>3. ASSUME NEW a \in Accounts, create_proposal_internal(a)
        PROVE  TalliedOn(q)'
    <2>1. PICK n \in Pids : n = Count + 1 /\ ~Exists(n)
      BY <1>3, CountFacts DEF IndInv, Safe, create_proposal_internal, Pids
    <2>2. prop' = [prop EXCEPT ![n] = NewProposal(a)] /\ receipt' = receipt
      BY <1>3, <2>1 DEF create_proposal_internal
    <2>3. CASE q = n
      BY <1>1, <2>1, <2>2, <2>3, TallyNew
    <2>4. CASE q # n
      BY <1>1, <2>2, <2>4, TallyKept DEF Exists
    <2>5. QED
      BY <2>3, <2>4
  <1>4. ASSUME NEW a \in Accounts, NEW p \in Pids, NEW s \in Support,
               DirectVote(a, p, s) \/ reveal_vote(a, p, s)
        PROVE  TalliedOn(q)'
    <2>1. Exists(p) /\ ~HasVoted(a, p) /\ CountVote(a, p, s)
      BY <1>4 DEF DirectVote, reveal_vote
    <2>2. CASE q = p
      BY <1>1, <2>1, <2>2, TallyVote
    <2>3. CASE q # p
      <3>1. prop'[q] = prop[q] /\ receipt'[q] = receipt[q]
        BY <1>1, <2>1, <2>3 DEF CountVote, IndInv, TypeOK
      <3>2. QED
        BY <1>1, <3>1, TallyKept DEF Exists
    <2>4. QED
      BY <2>2, <2>3
  <1>5. ASSUME NEW p \in Pids, queue(p)
        PROVE  TalliedOn(q)'
    <2>1. /\ Exists(p) /\ receipt' = receipt
          /\ prop' = [prop EXCEPT ![p].queued = TRUE, ![p].queue_time = seq]
      BY <1>5 DEF queue
    <2>2. prop'[q].tally = prop[q].tally /\ (Exists(q)' => Exists(q))
      BY <1>1, <2>1 DEF Exists, Proposal
    <2>3. QED
      BY <1>1, <2>1, <2>2, TallyKept
  <1>6. ASSUME NEW p \in Pids, NEW a \in Accounts,
               \/ execute(p) \/ cancel(a, p) \/ cancel_queued(a, p) \/ cancel_by_governance(p)
        PROVE  TalliedOn(q)'
    <2>1. /\ Exists(p) /\ receipt' = receipt
          /\ \/ prop' = [prop EXCEPT ![p].executed = TRUE]
             \/ prop' = [prop EXCEPT ![p].cancelled = TRUE]
      BY <1>6 DEF execute, cancel, cancel_queued, cancel_by_governance
    <2>2. {p} \in SUBSET Pids /\ OnlyMarks({p}, q)
      BY <1>1, <2>1 DEF Marked, OnlyMarks
    <2>3. QED
      BY <1>1, <2>2, TallyMarked
  <1>7. ASSUME NEW ps \in SUBSET Pids, execute_batch(ps)
        PROVE  TalliedOn(q)'
    <2>1. OnlyMarks(ps, q)
      BY <1>7 DEF execute_batch, Marked, OnlyMarks
    <2>2. QED
      BY <1>1, <2>1, TallyMarked
  <1>8. CASE \/ \E a \in Accounts, s \in Settings : set_initial_config(a, s)
             \/ \E s \in Settings : update_config(s) \/ update_oracle(s)
             \/ \E a \in Accounts : set_guardian(a)
             \/ \E bps \in Strategies : set_voting_strategy(bps)
    BY <1>2, <1>8, TypeConfig DEF IndInv, ConfigStep
  <1>9. CASE \/ \E a \in Accounts, p \in Pids, s \in Support : commit_vote(a, p, s)
             \/ \E p \in Pids : state(p)
             \/ proposals_count_by_state
    BY <1>2, <1>9 DEF commit_vote, state, proposals_count_by_state
  <1>10. CASE \/ \E a, b \in Accounts : DelegateVotes(a, b)
              \/ \E x \in Prices : PriceMoves(x)
              \/ CloseLedger
              \/ TimelockAdminStep
              \/ UNCHANGED vars
    BY <1>2, <1>10 DEF DelegateVotes, PriceMoves, CloseLedger, TimelockAdminStep, vars
  <1>11. QED
    BY <1>3, <1>4, <1>5, <1>6, <1>7, <1>8, <1>9, <1>10, StepCases, AccountsAssumption

(* The tallies of every proposal are the sums of the weights in its receipts: *)
(* no order of direct, reasoned and revealed votes, of changes of strategy,    *)
(* vote type and settings, counts a vote twice or loses one (cast_vote,        *)
(* cast_vote_with_reason, reveal_vote).                                        *)
THEOREM TalliesAreSums == GovernedSpec => []TalliesMatchReceipts
  <1>1. Init => Tallied
    BY DEF Init, Tallied, TalliedOn, Exists
  <1>2. IndInv /\ Tallied /\ [Next \/ Governance]_vars => Tallied'
    BY TallyStep
  <1>3. QED
    BY <1>1, <1>2, Invariance, TalliedMatches, PTL DEF GovernedSpec
=============================================================================
