# NebGov: models, checks and proofs

NebGov is an on-chain governance framework for Stellar/Soroban: Rust contracts that hold the state
and make the decisions, and TypeScript that reads and drives them: an indexer, a backend, an SDK, a
terminal client and a web application. This directory models the core of the contracts and the
programs around them in TLA+, checks the models with TLC on small instances and proves part of them
with TLAPS for every instance.

## 1. The system

### Contracts (`src/contracts`)

| Component | State it keeps | Operations | Interacts with |
|---|---|---|---|
| `governor` | proposals with tallies and flags, receipts, commitments, settings, rate limits | propose, vote (direct, with reason, commit and reveal), queue, execute, cancel, veto, configure | reads power from `token-votes`, schedules into `timelock`, prices from an oracle, drafts from `co-sponsorship` |
| `governor/reputation` | score, streaks and threshold multiplier of every proposer | record an outcome, decay, threshold | called by the governor, also from reads |
| `timelock` | operations and batches with times and flags, recovery state of partly executed batches, delay and window | schedule (three forms), execute (three forms), retry, skip, cancel, configure | called by the governor and by its admin, calls any contract |
| `token-votes` | delegations and splits, records of balances, checkpoints, registry, permit nonces | delegate (by call, permit, split, with a transfer), revoke, checkpoint, prune | reads balances from a SEP-41 token |
| `treasury` | owners, threshold, slashed signers, transactions with approvals, daily accumulator, cap per period, budget streams | initialize, submit, approve, cancel, batch transfer, slash and restore, cap, streams, change of governor | the governor authorises, transactions call any contract |
| `guardian-council`, `optimistic-governor`, `conviction-voting`, `proposal-bonds`, `co-sponsorship`, `vote-escrow`, `token-votes-wrapper`, `voting-rewards`, `treasury-streams`, `treasury-strategies`, `liquidity`, `governor-factory`, `signal-anchor` | see `PROJECT.json`, components | | the governor authorises most of them |

### Off-chain (TypeScript)

| Component | State it keeps | Operations | Interacts with |
|---|---|---|---|
| `packages/indexer` | forty tables, a cursor (`indexer_state.last_ledger`), a cache of answers | poll, one handler per event, snapshots, HTTP routes, shutdown | reads events from the RPC server; `backend`, `sdk` and `app` read it |
| `backend`: voting rewards | epochs, trees, proofs, publish proposals | compute, store, publish directly or by a proposal | indexer, governor, `voting-rewards` |
| `backend`: notifications | rules, deliveries, inbox, a cursor | evaluate, deliver, retry, edit rules | the indexer's `event_log`, mail and webhooks |
| `backend`: relayer | log of relayed permits | relay one, relay several | `token-votes` |
| `backend`: signaling | polls, votes, results | create, vote, tally, finalize, anchor | `token-votes`, `signal-anchor` |
| `backend`: governance tuning | recommendations, configuration | analyse, recommend, propose | indexer, governor |
| `backend`: streams executor | failures | page through, execute | `treasury-streams` |
| `sdk` | none; a call in progress, a subscription's cursor | every contract's client, event subscriptions, the indexer stream | RPC server, chain, indexer, backend |
| `packages/cli` | none | commands over SDK methods, `--dry-run` | `sdk` |
| `app` | what its components show | data-loading hooks, a treasury client of its own, signing | `sdk`, indexer, backend, the user's wallet |

`tools` and `fuzz` drive the contracts in tests.

### What is hard

A Soroban call is atomic: it commits as a whole or not at all, and a contract cannot be re-entered.
On the chain the concurrency is in the order of calls by independent actors and in the closing of
ledgers, which moves time in two units, ledgers and seconds:

- decisions split over two contracts (a veto against an execution, an admin who cancels in the
  timelock what the governor believes queued);
- batches of which some calls fail, and are retried, skipped or cancelled later;
- values read at one time and used at another: balances recorded at delegation, power snapshotted
  at a ledger, settings that change while a proposal is under way;
- reads that write: `state()` records outcomes;
- calls nobody meant to be made: a treasury initialized again, an account that delegates as a whole over
  a split, a callee that answers with a value;
- boundaries: the ledger a vote starts or ends in, windows in seconds against ledgers, rounding of
  split delegations, pruning against open proposals.

Off the chain nothing is atomic, every `await` is a place where others run:

- handlers that are several SQL statements without a transaction, repeated after a failure or a crash;
- `setInterval` that starts a poll or a tick while the one before is still waiting;
- a cache filled from a query that was overtaken by a write;
- a job that stops between acting on the chain and recording that it has;
- events published in a form their handler does not read;
- answers that are lost, so that a caller cannot know whether its transaction was sent;
- answers that come back in another order than they were asked for.

`PROJECT.json` lists these as hazards at the lines where they bite, each with the properties aimed
at it.

## 2. Modules

| Module | Models |
|---|---|
| `Timelock` | `contracts/timelock/src/lib.rs` |
| `OperationLifecycle` | the abstract promise of the timelock for one operation; `Timelock` implements it |
| `TimelockProofs` | theorems about `Timelock` |
| `Governor` | `contracts/governor/src/lib.rs`, `commit_reveal.rs`, composed with an instance of `Timelock` |
| `ProposalLifecycle` | the abstract promise of `state()`; `Governor` implements it |
| `GovernorProofs` | theorems about `Governor` |
| `VoteMath` | the square-root loop of quadratic voting against its definition, for weights up to 300 |
| `TokenVotes` | `contracts/token-votes/src` |
| `TokenVotesProofs` | theorems about `TokenVotes` |
| `Treasury` | `contracts/treasury/src` |
| `TreasuryProofs` | theorems about `Treasury` |
| `SumTheorems` | facts about least numbers and sums over finite sets, for the proofs |
| `IndexerHandlers`, `IndexerApi`, `Concentration` | `packages/indexer/src`: `events.ts`, `api.ts`, `concentration.ts` |
| `Indexer` | `index.ts`, `cache.ts`, `treasuryProjection.ts`; runs the handlers and the routes |
| `IndexerProofs` | theorems about `Indexer` |
| `MerkleDrop`, `VotingRewards` | `backend/src/voting-rewards`, `jobs/voting-rewards-epoch.ts` |
| `Notifications`, `Relayer`, `Signaling`, `GovernanceTuning`, `TreasuryStreams` | the other services of `backend/src` |
| `Backend` | the six services side by side |
| `BackendProofs` | theorems about `Relayer` and `Notifications` as `Backend` runs them |
| `SdkMethods` | the vocabulary for what a client method does |
| `SdkGovernance`, `SdkVotes`, `SdkTreasury` | the public methods of the SDK's clients, a record each |
| `CliCommands`, `AppClient` | the terminal client's commands; the web application's treasury client and signing hooks |
| `SdkErrors`, `SdkCalls` | typed errors and retry predicates; the steps of a call against server and chain |
| `SdkEvents`, `SdkSubscription` | the event readers and filters of `sdk/src/events.ts`; polling and scanning |
| `EventStream` | `sdk/src/streamEvents.ts` |
| `AppHooks` | `app/src/hooks`: the data-loading hooks |
| `Clients` | calls, subscriptions, streams and hooks side by side |
| `ClientsProofs` | theorems about `Clients` |
| `MCTimelock`, `MCGovernor`, `MCTokenVotes`, `MCTreasury`, `MCIndexer`, `MCBackend` | small instances for TLC; `Clients` needs none |

Definitions keep the names of the functions they model; `PROJECT.json` maps each to its lines. A
definition named `x_y` with the comment "Mutant of x" is a wrong version of `x`; it is used by no
specification and only shows that a property can fail.

### Timelock

`entry[id]` is the stored `Operation` or `BatchOperation` (`None` if there is none): times, flags and
predecessors. `partial[id]` is the recovery state of a partly executed batch, `retries` the retry
counters, `now` and `seq` the ledger's time and number, `minDelay` and `window` the configuration.
`runs[call]` is a history variable: how often a call took effect. `Calls(id)` are the calls executing
`id` makes: `<<id, 0>>` for a single operation, one per position for a batch. `Invoke` makes calls
take effect. A partial execution records any subset of them as failed, and any of these may have taken effect
all the same: the code asks `try_invoke_contract` for the unit value, and a callee that succeeds and
answers with another is taken for one that failed (`lib.rs:433`). `execute` and `execute_batch` take
any value, a retry again only the unit. `Spec` lets every caller do
everything. `SaltedSpec` adds what the governor guarantees: the salt in the hash makes the id of a
batch unique, so a batch is scheduled once.

### Governor

`prop[p]` is the stored proposal with its commit deadline and queue time. `receipt`, `commitment`,
`lastProposal`, `inPeriod`, `settings` and `strategy` are the stored maps; `defeatScored` and
`expiryScored` are the flags that keep an outcome from being recorded twice and `scored` counts what
was recorded. The variables of the timelock are those of the instance `TL`: `queue`, `execute`,
`execute_batch`, `cancel_queued` and `cancel_by_governance` are joint steps with its actions, and
`TimelockAdminStep` is what its admin, the deployer, does alone
(`governor-factory/src/lib.rs:298`). `state` and `proposals_count_by_state` are actions because they
write. `DelegateVotes` moves power in the token contract and, until the start ledger of a proposal is
closed, the power that proposal will count.

The functions that demand the authorisation of the contract itself are in `Governance`. The host
forbids re-entry, so a proposal of the governor that calls the governor reverts
(`contracts/governor/src/tests/integration.rs:1682`); hence `Spec` has no such steps, and
`GovernedSpec` has all of them, so that what is claimed for changing settings does not rest on that.
An initial configuration with secret ballots is the state after one such update and before any
proposal. The pause flag is left out because no entry point but a query reads it.

### TokenVotes

A list of checkpoints, ordered by ledger with one entry per ledger, is a function from ledgers.
`record[a]` is the balance last read and the average ledger it is counted from. `Redistribute`
replaces one distribution of power by another, which is what whole and split delegation and
revocation have in common. The registry is `received`, `count` and `active`; `nonce` and `used` are the
permits'.

`apply_delegation` looks for an earlier delegate only. An account with a split on file that delegates as
a whole, or is made to by `transfer_and_delegate`, therefore counts as a first-time delegator: its balance
joins the total again, the split stays on file, its delegatees keep their power and their registry
entries. The documentation asks to call `undelegate_split` first (`docs/split-delegation.md:45`); nothing
in the code does, and the model has no such guard. From then on a later split takes back the whole
delegation, and the parts only once there is none.

History: `covered`, the accounts that delegated as a whole over a split; `stray`, the power such splits
left behind; `raw`, accounts that were given a manual checkpoint, for which power is whatever was written;
`calls`, a bound on behaviours.

Left out: relayer whitelist and cap on split targets (they only refuse calls), time-weight switch
and scale (read by queries only; the weighted sums they scale are modelled).

### Treasury

`tx[i]` is the stored transaction and `hasApproved[i]` those who approved it; `approve` makes the call
of the target when the threshold is reached, and a target that traps reverts the approval with it.
`owners` says how often an address is listed. `initialize` asks neither who calls it, nor whether it was
called before, nor that the owners be distinct (`lib.rs:170`); it is a step that anyone may take at any
time. It sets owners, threshold and governor, starts the numbering of transactions and the day anew, and
leaves transactions, approvals, marks of slashed signers and a proposed governor as they are. A number
that is given out again finds the approvals of the earlier transaction (`reused`). `dailySpent` is reserved
at submission, by amounts of either sign, and given back at cancellation. `spentThisPeriod` is kept by the first ledger of a period.
A stream is the stored `BudgetStream`; the lists of streams by owner are only appended to and gone
through as a whole, so they are sets. `stream_batch_spend` makes two payments. History: `counted`, what
was paid per ledger under a cap of the present period, `slashMark`, how many streams there were when a
signer was slashed, and `reused`.

There is one token and no variable for its balance, because a transfer the token refuses reverts the
call. The limits of `TreasurySettings` are the defaults, since no entry point sets them. Left out: hashes, memos, the
records of payments, storage lifetimes.

### Indexer

A handler is the sequence of what it awaits or performs: SQL statements (insert, upsert, update with
its `WHERE`), invalidations of the cache, the broadcast. `db` maps a table to its rows. A batch in
flight holds the places in the chain of the events it fetched and has not done, and the effects still
to go through of the first of them, one per step (`Statement`, `Notify`), then decides about the cursor (`CheckAdvance`), writes it (`updateLastIndexedLedger`) and
remembers it. `setInterval` may start a second batch meanwhile. A call may fail (`Fault`), the process
may be stopped by a signal or crash, and starts again from the stored cursor. A client asks for one
route: `ApiRequest`, the query, and the storing of its answer are three steps, so a write can fall
between them; the entry is removed by an invalidation whose key it matches, or by its time to live.
The chain is one of the histories of `MCIndexer`, together covering every handler, each with a route
that shows what the handlers wrote.

An event has the form its contract gives it: how many topics, and whether its value is a tuple or a struct.
Some handlers look elsewhere. `handleVoteCast` reads a tuple and the governor publishes structs;
`handleProposalQueued`, `handleProposalExecuted` and `handleTreasuryBatchTransfer` read a second topic that
is not there; `handleDelegateChanged` inserts the old delegatee, which a first delegation does not have,
into a column that must not be null. There the effect is `Throw`. The histories have these events
twice: in the form the handler understands, as the indexer's own tests publish them, so that what the
handler does is explored, and in the form the contract publishes. `Stuck` is the first event of a history
that cannot be taken in, because of its form or because the row it refers to is missing.

### Backend

The six services share the process and the database server but no rows, so a behaviour follows one of
them, `focus`. In all of them a step ends where the code awaits.

- `VotingRewards`: epochs that are over and indexed are computed, stored with tree and proofs, and
  published, by the service if it is the contract's admin, or by a governance proposal. It may stop
  between any two awaits. Hashes are the terms they are computed from, so proofs are checked for what
  they say and not for collisions.
- `Notifications`: the processor reads `event_log` behind a cursor; delivery and its bookkeeping are
  two steps, shared by the processor, the retry job and the requests.
- `Relayer`: one database transaction per request, with advisory locks taken delegator by delegator, the least
  first.
- `Signaling`: checking and inserting a vote are two steps, a tally reads every voter's power and then
  writes it back, a job finalizes and anchors.
- `GovernanceTuning`: cycles of several replicas under one advisory lock, the arithmetic of the
  recommendation, the proposal it may submit.
- `TreasuryStreams`: the executor's tick pages through the active streams while they are paused,
  resumed, cancelled and executed by others, which shifts the pages.

### SDK, terminal client and web application

A method of a client is a record: which of the few steps it takes (load the account, prepare or
simulate, sign, send, poll, ask over HTTP), what it retries on, what it throws when it is refused, and
so on (`SdkMethods`). `SdkCalls` gives the steps, against a server that loses requests and answers
and a chain that applies late, fails or drops; `txs` are the transactions handed over and what
became of them. Of an error's text only one thing matters to the code, whether `isNetworkError` finds
one of its words in it (`net`): a text that quotes a hash or a remote answer may or may not contain one.
Methods that differ only in the function they name behave alike, so TLC explores one of them
(`Profiles`). `CliCommands` are commands as the methods they call, `AppClient` the same for the web
application.

`SdkSubscription` follows the events of a contract with polls that overlap, and scans past ledgers. Polls
that start before the first answer each ask for the latest ledger, and each answer sets the cursor, also
that of a subscription already under way; `jumped` is what was passed over that way, `cut` what a full
page left out, `from` the ledger of the first answer.
`EventStream` is a socket, a reconnect timer and a poll in its place. `AppHooks` is a component that
shows what a hook has loaded: its argument changes, intervals fire, the user's own transaction is
made and followed by a refetch, and answers come in any order. A hook is a record of whether its
cleanup sets a flag, what its early return resets, what it does with errors. Effects are taken to run
with the render that causes them; hooks that load several things show them together.

## 3. Runs

| Run | What it asks | Instance |
|---|---|---|
| `timelock_salted` | every interleaving of scheduling, whole and partial execution, retry, skip, cancel and configuration: exactly-once, after dependencies, recovery state in step with effects, implements `OperationLifecycle` | two single operations and a batch of two calls, two ledgers, one retry |
| `governor_timelock` | agreement of governor and timelock, outcomes scored once, veto window, implements `ProposalLifecycle`, every proposal is eventually decided or queued | two proposals, one with several actions, across a period boundary; irregular ledger times; timelock admin and guardian |
| `governor_governed` | tallies and receipts, binding and secret ballots, outcome decided by the vote, while settings, guardian, strategy, oracle, price and delegations change | one secret-ballot proposal, two voters |
| `token_votes` | every unit of power accounted for, immutable past, pruning, registry, with permits and whole delegations over splits among the calls | three accounts, four calls over two ledgers, splits with a remainder |
| `treasury` | a pending transaction can be approved by those who are left, while signers are slashed and restored, the governor changes and anyone initializes the treasury again; a slashed signer gets no stream back, the cap holds for batches and streams together | three owners, threshold two or three, or two owners of which one is listed twice; one transaction; two streams, of which the first is topped up and extended, two caps, one slashed owner at a time; three ledgers |
| `indexer` | the cursor never passes an event that is not logged, replays converge, the stream projection is never older than its receipts, cached answers are fresh between events and in the end, everything up to the first event that cannot be taken in is indexed in the end | 33 short histories, each with a failed call, a crash or overlapping polls; seven of them with events as the contracts publish them or a vote without its proposal |
| `backend` | what is published can be claimed, matching events are notified at least once, daily quota, no circle of locks of any length, polls settle, what is due is paid | two or three of everything, one crash or failure each |
| `clients` | a confirmed call was applied, swaps are spent once, no event is skipped between polls, a stream has one source, a component shows what belongs to its argument and its user's change, calls and loads end | three attempts, two polls of a confirmation, two overlapping polls or fetches, two events per component |
| `token_votes_pruned`, `indexer_published`, `tuning_duplicates`, `sdk_rebroadcast` | four sentences of the repository that do not hold | as above, smaller |

Bounds. Two proposals or operations are enough for interference between them; a batch of two calls
is the smallest with a partial failure; two ledgers beyond creation reach every comparison with a
start, end, commit or grace ledger, since voting and grace periods are one or two ledgers long. Four
calls on three accounts reach delegation, transfer, redelegation and revocation or pruning of the
same power, and splits of two tokens as 3334 and 6666 bps round. Two overlapping batches, polls,
requests or fetches are the smallest that can finish in the wrong order; one failure or crash already
makes a step be repeated; three streams on pages of two shift between pages. Three attempts are the
code's own number, two polls of a confirmation stand for its ten to thirty: one that is not the last
and one that is. Two events per component give a change or a write between a request and its
answer, and another event in between. Three owners with a threshold of two can lose one without the
threshold changing and a second with it. One transaction is enough for `EnoughSigners`, which speaks of
one, since two are related by `dailySpent` only; its number may be given out again. Two streams are the smallest that
share a period or an owner. `MCTreasury` explores transactions and streams apart, since only
initializing, slashing and restoring touch both, and has them in both; the proofs have no such
restriction. Each bound is a named constant in a guard. Deadlock is checked
in `timelock_salted` and the runs of `MCIndexer`; elsewhere the bounds stop the instance.

Fairness.

- `governor_timelock`: weak fairness of `CloseLedger`. The network closes ledgers whatever the
  contracts do; no caller is assumed to act.
- `indexer`: timers fire, awaited calls return, entries expire, the process is restarted, ledgers
  close. Strong fairness of starting a poll: `setInterval` fires again and again, although a slot for a
  batch is free only now and then.
- `backend`: the intervals keep starting the anchoring job and the streams executor, their awaits
  return, and a transaction that was submitted is applied.
- `clients`: every awaited request ends, with an answer or an exception.

### What the violation runs show

`PROJECT.json` quotes the sentences under `findings`.

1. Pruning drops the total supply an open proposal's quorum is computed from (`token_votes_pruned`).
2. Votes, queuings and executions in the form the governor publishes them make their handlers throw; the
   batch is repeated for ever and the proposals' rows stay as they are (`indexer_published`). The property
   compares a proposal's state and its tallies with the chain's. With `VoteChain` in place of
   `PublishedVote` it is violated as well: a batch repeated after a failed call adds the weight of its
   votes again, because `handleVoteCast` adds to the tally without looking whether the vote was there
   (`events.ts:755`; `genesis-replay.int.test.ts:68` speaks of "preventing duplicates").
3. The tuning job submits the same proposal again while the first is being voted on, because the
   skipped cycle in between hides it (`tuning_duplicates`).
4. The timelock's and the treasury's client send a transaction that failed on the chain again when
   its hash contains "500", "502", "503" or "504" (`sdk_rebroadcast`).

### Other disagreements met while modelling, without a run

Contracts:

- A call of a partly executed batch that answers with a value has taken effect and is recorded as failed
  (`timelock/src/lib.rs:433`), and a retry of it is reverted each time, so `completed_ops` is not "the source of
  truth for partially applied batches" (`docs/timelock.md:132`). In `Timelock` whether a
  call answers with a value is a choice.
- An account with a split on file that delegates as a whole adds its balance to the total a second time
  and the split's delegatees keep their power (`token-votes/src/lib.rs:199`), against "Re-delegation between
  accounts does not change the total" (`lib.rs:116`). Anyone can make it do so by sending it tokens with
  `transfer_and_delegate`. `PowerConserved` accounts for that power as `stray`.
- A slashed signer is still an owner when it was listed twice, and becomes one when anyone initializes the
  treasury again, against the comment at `treasury/src/lib.rs:777`.
- A proposal that is queued and not executed never becomes `Expired`, also when its operation has
  (`docs/architecture.md:102`, `docs/parameter-guide.md:19`).
- `schedule_batch` overwrites a batch that was executed or cancelled (`docs/timelock.md:56`, `:68`), and
  a failed call of a cancelled batch can be retried (`docs/timelock.md:83`). The governor's salted ids
  keep it from doing the first.
- Power is counted at the start ledger, in which delegation still changes it, not before it
  (`docs/troubleshooting.md:420`).
- The depth limit of delegation chains is not kept when a delegatee delegates on
  (`delegation_registry.rs:13`); a one-entry split can close a cycle (`docs/split-delegation.md:39`).
- Lowering the timelock's delay while a proposal is queued closes the veto window before the operation
  is ready: `VetoUntilReady` is checked for a fixed delay.
- `approve` "Executes automatically when threshold reached" (`treasury/src/lib.rs:444`), but a threshold
  that `slash_signer` lowers to the approvals already given executes nothing, and when all remaining
  owners have approved nobody can.
- When the treasury is initialized again, a transaction with a number given out before starts with the
  approvals of the earlier one on file: those who gave them cannot approve it, and they do not count.
- In the treasury, cancelling what was reserved on an earlier day makes the daily accumulator negative;
  an exhausted stream that is revoked is subtracted from `ActiveStreamCount` twice; a stream topped up
  after its end and then extended stays inactive.

Indexer and backend:

- A ledger with more than 200 subscribed events loses those beyond the page (`events.ts:113`): the cursor
  passes the ledger of the page's last event. `WholePages` excludes it.
- A vote whose proposal is missing fails its foreign key and keeps its batch from advancing. Revealed
  votes are published under a topic no handler knows, so they never reach the tallies. Events of
  `treasury-strategies` are never subscribed to. `handleProposalCreated` invalidates before it inserts.
- A rule deleted while it is evaluated, a crash that leaves a delivery `pending`, a manual retry racing
  the retry job; a relay that fails after sending is not counted by the quota.

SDK:

- It calls functions no contract exports (governor `has_voted`, `get_quorum`, `last_proposal_ledger`,
  `proposals_in_period`, `estimate_execution_gas`, `get_queued_op_ids`; votes `total_supply`; treasury
  `owners`). `errors.ts:4` and `:21` claim tables that are complete; codes 45 to 50 are missing.
- The text of votes error 15 contains "network", so it is retried; the treasury's client retries
  refused arguments and confirmations that timed out; POSTs are retried on network errors.
- `votes.ts:1338` scans for topics, and `parseProposalVetoedEvent` waits for one, that no contract
  emits. An answer full of events (100) leaves the rest out for good. A poll that started before the
  first answer and has its own later moves the cursor of a subscription that is under way, and the events in
  between are not handed over. `NothingSkipped` names both exceptions.
- `streamEvents` compares ids as strings, forgets the last one it saw when polling starts anew, still
  calls the handler for a poll in flight at `unsubscribe`, and polls for ever when the socket's
  constructor throws.
- `program.ts` of the terminal client has commands the installed program, `index.ts`, lacks.

Web application:

- `useGovernanceBalance` waits 400 ms before its effect follows the address. If the wallet is
  disconnected and the interval fires in between, the old account's balance comes back, or `loading`
  stays set. `ShowsCurrent` and `LoadingEnds` leave this hook out.
- Hooks without a flag (`useNotifications`, `useSignalingPoll`, `useOptimisticProposal`,
  `useConvictionProposals`, `useAmendments`, `useProposalSimulation`) show whichever answer comes last;
  `useGovernanceTuningConfig` lets a load under way replace the configuration just saved.

## 4. Proofs

All theorems hold for every value of the constants under the `ASSUME`s of their modules: numbers are
naturals, the sets of accounts are finite, addresses of the special actors are what the code says,
`None` is not a value. TLC evaluates them on every run, and so it does two facts about tables that the
proofs about the clients use: `SpendingMethods` (a method that spends liquidity makes one call that
sends, and that call is not retried) and `ReadersUnderstand` (every subscription's reader is made for
the topic it asks for). Every
component's proofs follow the same scheme: a type or shape invariant, the strengthening that makes the
property inductive, one lemma per group of actions, and `PTL` at the end.

`TimelockProofs`, of `Spec`, so without assuming that batch ids are unique. The safety properties are
not inductive by themselves, because a retry acts on a recovery state that may be older than the entry
it belongs to. The invariant `IndInv` adds four facts to `TypeOK`, `SingleOpExactlyOnce`,
`EffectsRespectDependencies`, `DependenciesAcyclic` and `RecoveryBookkeeping`:

- `StoredFirst`: the predecessors of a stored entry are stored, and only stored ids have taken effect.
  A new entry can therefore not be anyone's predecessor, which gives acyclicity, and nothing of it has
  run, which gives exactly-once;
- `DoneHasRun`: an executed entry has made all its calls, so the check of the predecessors' flags is a
  check of their effects;
- `RecoveryOwn`: a recovery state is about calls of its own, stored, batch;
- `RecoveryAfterPredecessors`: a batch with a recovery state was tried after its predecessors had run,
  so a retry, which does not look at predecessors, need not.

`TypeCorrect`, `SingleOpSafe`, `DependencyOrderSafe`, `AcyclicSafe` and `RecoverySafe` follow.
`LifecycleImplemented` is the refinement of `OperationLifecycle`, of `SaltedSpec`: with batch ids that
are not reused, every step takes every operation along its lifecycle or leaves it where it is.

`GovernorProofs`, of `GovernedSpec`, which contains the behaviours of `Spec`. The invariant `IndInv` is
`TypeOK`, the properties `BallotsBinding`, `DecidedByVote` and `TimelockAgrees`, and

- `Numbered`: proposals are numbered without gaps. With it `Count + 1`, the id `propose` uses, is free,
  and a new proposal overwrites none;
- `VotesExist`: only proposals that exist have receipts, so a new one starts without;
- `RevealedLate`: under commit-reveal a receipt means that the commit phase of this proposal is over.

`ScheduleEffect`, `ExecuteEffect` and `CancelEffect` say what the joint steps do to the timelock;
`StepCases` groups the steps of `Next` and `Governance` by what they write, and each group has one
lemma for types (`Type...`) and one for the rest (`Safe...`). `TypeCorrect`, `TimelockAgreement`,
`DecisionSafe` and `BallotsSafe` follow; `SealedUntilReveal`, an action property, comes from
`RevealedLate`: a commitment needs the commit phase, so nothing has been revealed yet.

The rest of `GovernorProofs` builds on that invariant.

- `OutcomesScoredOnce` and `LifecycleImplemented`, of `Spec`. With the steps of governance neither
  is claimed: the quorum is computed from the settings of the moment, so a defeat may be undone.
  `RulesFixed` shows that no step of `Spec` changes quorum or grace period. `OutcomesSound` says of
  every proposal that each outcome was recorded exactly when the flag that stands for it is set, and
  that what was found defeated or expired still is. A step does one of eight things to a proposal
  (`Moved`: kept, voted on, created, queued, executed, cancelled, read, or a ledger older), each
  allowed by `ProposalLifecycle`.
- `VetoInTime`, of `GovernedSpec`, for delays that are a fixed whole number of ledgers and ledgers that
  are never early. `Paced` relates the two clocks: since a proposal was queued, at least
  `SecondsPerLedger` have passed per ledger, so the guardian's window, counted in ledgers, ends no
  earlier than the timelock's delay, counted in seconds. The two hypotheses are what the code relies
  on: lowering the delay while a proposal is queued closes the window early (section 3).
- `TalliesAreSums`, of `GovernedSpec`. A counted vote adds its weight to one tally and one receipt to
  an account without one (`TallyVote`); a new proposal has no receipts, by `VotesExist`.

`TokenVotesProofs`, of `Spec`. The invariant `TokenInv` is `Dated` (checkpoints are dated by
ledgers), `Referring` (delegations name accounts), `Exclusive` (only an account that is covered has a
delegate and a split, so otherwise the registry entries of one are not taken for the other's),
`RegistryTyped`, `Listed` and `Counting`, which together are the property `RegistryAgrees`. Covered accounts
have more entries than they have delegatees on file. What keeps the registry usable for them is that
they never have fewer: every entry that is revoked is found, so the counters stay exact. `RegistryFollows`
shows it for a change of one delegator's entries, which is what `Register` writes. `PastImmutable` follows from every checkpoint
being written at the present ledger (`PutKeepsPast`), `PruningSound` from pruning's keeping the last
checkpoint up to the cutoff (`PrunedKeepsVotes`).

`PowerNeverLost` is `PowerConserved` for every instance. Its invariant `PowerInv` adds to `TokenInv`
that no checkpoint is dated after the present ledger (`Present`), that the parts on file name distinct
accounts (`PartsDistinct`) and that records are numbers (`Recorded`). `Conserved` is the property in
terms of `Total`, with the gifts in force (`Current`) and the power left behind (`stray`).

- `SharesAddUp`: what the accounts get of an amount adds up to the amount. The last part is what the
  rounded ones leave (`SplitAmounts`); since the accounts are distinct, the sum over them is the sum
  over the parts (`TotalReindex`).
- Delegating, splitting and revoking are all one `Moves`: the power of one account, as it is on file,
  is replaced by that of its new record. It changes one summand of every delegatee (`MovesGifts`) and
  of the total (`MovesTotal`), and `MovesPower` shows that the checkpoints change by as much; accounts
  without a new checkpoint had and have a share of zero. All powers together change by the difference
  of two sums of shares, which is the change of the total (`MovesConserve`).
- A whole delegation over a split replaces nothing: it moves from nothing to the delegation, and the split
  becomes part of what was left behind (`MovesStrays`), by exactly what it gave.
- `DelegationMoves`, `RevocationMoves` and `SplitMoves` show that the operations are such moves. A split
  with a single part is stored as a delegation; `ShareOfOne` shows that it means the same.
- Pruning keeps the last checkpoint of accounts and total, a manual checkpoint takes its account out of
  the claim, and a ledger that closes brings nothing into force.

`TreasuryProofs`, of `Spec`. The invariant `IndInv` is `TypeOK`, the property `SlashRevokes`, and

- `Attainable`: nothing was set up yet (`Blank`), or as many owners are listed as the threshold asks for,
  which `initialize` demands and `slash_signer` keeps by lowering it;
- `ApprovalsCounted`: the counter of a transaction whose number was not given out before is the number of
  those who approved it. The counter and the owners who have yet to approve then cover all owners. When no
  owner is listed twice (`SizeDistinct`), `EnoughSigners` follows with `Attainable`. Both conditions are
  needed: the two histories that break it otherwise are an owner listed twice, whose one approval is all
  it can give, and a number given out again;
- `StreamsListed`: the list of an owner has exactly its streams, so slashing reaches all of them;
- `MarksBounded`: a new stream is younger than every slashing, so it is not claimed to be revoked.

`TypeCorrect`, `SignersSuffice` and `SlashedForGood` follow. `BeyondSize`, that a
set has beyond another at least the difference of their sizes, is what `EnoughSigners` counts with.
`CapRespected` needs `CapCovers`: for every period of the cap's length, what was paid since the cap has
that length is at most what the contract has on its books for the period's first ledger. A payment
enters both in the period of its ledger only (`OnePaid`, `PeriodStarts`). It is an inequality: the
books of a period survive a change of the cap's length, what is counted starts anew.

`SumTheorems` has what these proofs need of sums. `MapThenSumSet` is a recursive function over the
subsets of a set; that it exists (`SumExists`), that it does not depend on the order in which elements
are picked (`SumAdd`), and how it changes with one element or one value (`TotalAdd`, `TotalChange`) are
proved by induction on the size of subsets, written as the absence of a least counterexample; so are
what zeros add (`TotalSubset`), the sum of two sums (`TotalPlus`) and renumbering (`TotalReindex`).

`ClientsProofs`, of the `Spec` of `Clients`, where calls, subscriptions, streams and hooks run side by
side:

- `StreamHasOneSource`, by `StreamInv`: a stream with a socket does not poll, and a reconnection timer
  runs only without a socket;
- `ReturnsConfirmed`, by `CallInv` = `CallShape`, `Placed` (where a call is says what kind of method it
  is in) and `Confirming` (past the confirmation, the last transaction is applied);
- `LiquiditySpentOnce`, by `SpendInv`: a method that spends has no retry, and before the step that
  sends nothing was sent;
- `SubscriptionSkipsNothing`, by `SubscriptionInv` = `SubShape`, `InStep` and `Complete`: not only the
  cursor, but the start of every poll in flight has nothing skipped behind it but what is `cut` or `jumped`.
  Without the second part a late answer could move the cursor anywhere;
- `ComponentShowsCurrent`, by `HookInv`: every request that may still be shown was made for the present
  argument and after the user's own change (`Fresh`).

`BackendProofs`, of the `Spec` of `Backend`, in which the other services move between any two steps:

- `RelaysWithinQuota` and `RelaysNeverDeadlock`, by `RelayInv`: locks are taken least first
  (`LocksAscend`) and held by one request each (`LocksExclusive`), and a request that was found within
  the quota still is until it has logged, because it holds the locks of its delegators
  (`StillWithinQuota`). A circle of requests waiting for each other would have a least address among
  those waited for, whose holder waits for a smaller one; this excludes circles of any length.
- `EveryEventNotified`, by `NotifInv`: besides types, `BatchSoFar` (the events of the
  batch behind the one in hand are settled), `EventInHand` (for every rule as old as the event in hand
  the event is settled, or the rule is still to be evaluated or being delivered) and `Delivering` (the
  channels of the rule in hand that are not left have their delivery).
  `StoreKept` says that no other step undoes a delivery, or changes a rule without making it younger
  than every event there is.

`IndexerProofs`, of the `Spec` of `Indexer`, for every set of histories whose events are ordered by
ledger and have their own ids (`ScenariosAssumption`), any number of overlapping batches, and any
handler of the forty that an event calls. `CursorNeverSkips` and `ProjectionNeverOlder` have the
hypothesis `WholePages`: no ledger holds more subscribed events than a page. The code does not enforce
it, and without it the cursor does skip events; TLC evaluates it for the histories of `MCIndexer`. Handlers that throw are covered: a batch that is stuck moves no cursor. The invariant `IndexerInv` is

- `TablesOk`: the tables are lists; `Projected`, the property `StreamProjectionCurrent` with the shape
  of its rows; and `ReceiptsInOrder`: a receipt on file belongs to a stream event of the chain, and the
  receipts of all events before it are on file too;
- `CoveredTo`, for the saved cursor and for the one in memory: every event up to it is `Settled`, it is
  logged and, if it is about a stream, has its receipt;
- `BatchOk`, for every batch: the events before those it still holds are settled (`PageOk`), and
  where it is in the handler of its first event, before the log entry, before the receipt with a
  version that was read, or after it (`Going`).

Two batches may read a stream, and persist it in the other order. A version that is stale when it is
written is still no smaller than the number of receipts: it is written only if its own receipt is
missing, and because receipts are on file in order, those that are there belong to earlier events, which
the version counts (`ReceiptsCount`, `PersistStep`). All handlers but the stream's write none of the
tables concerned (`PlainHandler`), and what one batch writes only adds to what the others rely on
(`BatchGrows`). What `Boot` reads from the chain counts all receipts (`Bootstrapped`).

`AnswersFresh` states `FreshBetweenEvents` without a hypothesis, from an invariant of its own,
`FreshInv`. The property speaks of moments at which no batch is inside an event, but whether the cached
answer is right depends on what the batches still have to do, so `Fresh` says it at every moment: the
answer is that of the tables, or it raced, or a batch is `Pending`, that is, an invalidation of the
watched key is still among the effects of the event in its hands. For this every batch is `Orderly`:
what is left of its handler is `Tended`, every statement that `Touches` the watched rows has a later
effect that `Drops` their answer, unless the event is one of the treasury's streams, whose handler may
stop at a receipt on file and is followed stage by stage (`StreamStage`). `TendedHandler` goes through
all handlers and all routes of `PromptRoutes`: a statement on a table behind a prompt route names the row
that the key names (`TouchedKeys`), or cannot change the rows selected (`Beside`, `AnswerBeside`). What
another batch does in between does not matter, since its own writes are followed by its own
invalidations. The snapshots write no such table (`IdleSnapshots`); `Boot`, which rewrites the projection
and invalidates nothing, is one of the races the property leaves out.

Out of the prover's reach and left to TLC: liveness (`EventuallyDecided`, `EventuallyIndexed`,
`EventuallyFresh`, `PollSettles`, `DueIsPaid`, `CallReturns`, `LoadingEnds`); `ClaimableShares` and the
square root, which recurse over data, and `ReplayConverges`, which compares with a fold over the
sequence of events.

## 5. Not modelled

- The contracts without a module of their own, with the reason for each under `components`. What they
  emit is modelled in `IndexerHandlers`, how they are called in the SDK's modules; their own
  arithmetic (conviction, pools, locks, bonds) is not.
- Of the modelled contracts: storage lifetimes (TTL), upgrade and migration, sizes of calldata,
  hashes beyond their being injective, reputation scores and their decay.
- Of the indexer: the WebSocket hub, the rate limiter, database migrations, filters and pages of
  list routes.
- Of the backend: login and its refresh tokens, competitions and leaderboards, amendments, proposal
  simulation, read-only routes. They read or write a row of their own.
- Of the SDK: encoding of arguments and results, fees and resources, network presets.
- Of the web application: pages and components, the wallet's connection, browser storage and
  notifications.
- Test tooling: `tools`, `fuzz`, `scripts`.

### Plan

1. `GuardianCouncil` (approvals of members who are rotated out), composed with the governor's veto.
2. `OptimisticGovernor`, `ConvictionVoting`, `ProposalBonds`, `CoSponsorship`: each against the power
   `TokenVotes` promises, the last two against `ProposalLifecycle`.
3. `ReplayConverges` for single handlers: running the statements of one event twice.
