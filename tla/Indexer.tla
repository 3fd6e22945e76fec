------------------------------- MODULE Indexer -------------------------------
(***************************************************************************)
(* The indexer process (packages/indexer/src: index.ts, events.ts,         *)
(* cache.ts, treasuryProjection.ts): it polls the chain's events, runs     *)
(* their handlers one SQL statement at a time, moves its cursor, and       *)
(* answers HTTP requests through a cache.  setInterval starts a poll       *)
(* whether or not the one before has ended, so batches may overlap.        *)
(***************************************************************************)
EXTENDS IndexerHandlers, IndexerApi, Concentration, SequencesExt, FiniteSetsExt

CONSTANTS
  Scenarios,   \* what a behaviour is about: a set of records with the chain's events,
               \* the route the client asks for, and the bounds on batches in
               \* flight, failed calls and crashes
  Slots,       \* names for the batches in flight
  PageLimit,   \* getEvents limit
  SNAPSHOT_INTERVAL_LEDGERS

\* Events are numbered without gaps, in the order of their ledgers, and their ids
\* are their own; a split lists its parts.
ASSUME ScenariosAssumption ==
  \A s \in Scenarios :
    /\ Len(s.chain) \in Nat /\ DOMAIN s.chain = 1..Len(s.chain)
    /\ \A i \in DOMAIN s.chain : s.chain[i].ledger \in Nat \ {0}
    /\ \A i, j \in DOMAIN s.chain : /\ i <= j => s.chain[i].ledger <= s.chain[j].ledger
                                    /\ s.chain[i].id = s.chain[j].id => i = j
    /\ \A i \in DOMAIN s.chain :
         s.chain[i].contract = "tokenVotes" /\ TOPIC_MAP(s.chain[i].topic) = "SplitDelegated"
           => Len(s.chain[i].d.splits) \in Nat
ASSUME PageLimitAssumption == PageLimit \in Nat \ {0}

VARIABLES
  scenario,    \* fixed at the start
  tip,         \* the latest closed ledger
  db,          \* the tables: table name -> sequence of rows
  cursor,      \* indexer_state.last_ledger
  lastLedger,  \* runIndexer's lastLedger, in memory
  phase,       \* "boot", "first" poll, "polling", "stopping", "down"
  batch,       \* the batches in flight
  current,     \* the batch currentBatchPromise stands for
  overlapped,  \* two batches have been in flight together since the start
  cache,       \* the cached answers: at most the watched route's
  request,     \* the request whose query is in progress
  faults, restarts

vars == <<scenario, tip, db, cursor, lastLedger, phase, batch, current, overlapped, cache, request,
          faults, restarts>>
envVars == <<scenario, tip, restarts>>

chain == scenario.chain
watched == scenario.watched
EndOf(c) == IF c = << >> THEN 0 ELSE c[Len(c)].ledger
MaxLedger == EndOf(chain)

Tables ==
  {"proposals", "votes", "delegates", "delegation_entries", "split_delegations", "delegated_by_sig_events",
   "relayer_whitelist_history", "wrapper_deposits", "wrapper_withdrawals", "config_updates", "governor_upgrades",
   "proposer_reputation", "reputation_score_history", "effective_threshold_history", "conviction_proposals",
   "conviction_stakes", "conviction_snapshots", "optimistic_proposals", "optimistic_objections", "drafts",
   "draft_co_sponsors", "proposal_bonds", "signal_anchors", "vote_escrow_locks", "treasury_transfers",
   "treasury_streams", "treasury_stream_events", "treasury_strategies", "strategy_allocations",
   "strategy_withdrawals", "liquidity_events", "swap_events", "pool_fee_updates", "timelock_operations",
   "timelock_batch_operations", "timelock_dependency_graphs", "timelock_partial_batch_state", "event_log",
   "governance_snapshots", "concentration_snapshots"}

EmptyDb == << >>
\* A batch holds its events (their places in the chain) and the effects it has
\* still to go through of the first of them, or of the snapshots.
NoBatch == [pc |-> "idle", start |-> 0, latest |-> 0, evs |-> {}, todo |-> << >>, reg |-> 0]
NoRequest == [pc |-> "idle", data |-> << >>, raced |-> FALSE]
NoEntry == [valid |-> FALSE, data |-> << >>, raced |-> FALSE]

Running == {b \in Slots : batch[b].pc # "idle"}
Up == phase # "down"

---------------------------------------------------------------------------
\* SQL.

Matches(row, where) == \A c \in DOMAIN where : row[c] = where[c]
SameKey(row, other, key) == \A c \in key : row[c] = other[c]
AnyRow(rows, P(_)) == \E i \in DOMAIN rows : P(rows[i])
Exists(d, ref) == ref.tbl = "none" \/ AnyRow(Table(d, ref.tbl), LAMBDA r : Matches(r, ref.where))
MapRows(rows, P(_), F(_)) == [i \in DOMAIN rows |-> IF P(rows[i]) THEN F(rows[i]) ELSE rows[i]]

\* g with the values of f where f has one.
Override(f, g) == [x \in DOMAIN f \cup DOMAIN g |-> IF x \in DOMAIN f THEN f[x] ELSE g[x]]

\* The rows of the table of f after f, run with the value reg selected before it.
Written(f, rows, reg) ==
  CASE f.op = "insert" ->
         IF AnyRow(rows, LAMBDA r : SameKey(r, f.row, f.key)) THEN rows ELSE Append(rows, f.row)
    [] f.op = "upsert" ->
         IF AnyRow(rows, LAMBDA r : SameKey(r, f.row, f.key))
         THEN MapRows(rows, LAMBDA r : SameKey(r, f.row, f.key), LAMBDA r : Override(f.set, r))
         ELSE Append(rows, f.row)
    [] f.op = "append" -> Append(rows, f.row)
    [] f.op = "appendSelected" -> Append(rows, Override(f.row, [c \in {f.col} |-> reg]))
    [] f.op = "update" -> MapRows(rows, LAMBDA r : Matches(r, f.where), LAMBDA r : Override(f.set, r))
    [] f.op = "add" -> MapRows(rows, LAMBDA r : Matches(r, f.where), LAMBDA r : [r EXCEPT ![f.col] = @ + f.n])
    [] f.op = "delete" -> SelectSeq(rows, LAMBDA r : ~Matches(r, f.where))
Writes == {"insert", "upsert", "append", "appendSelected", "update", "add", "delete"}
Apply(f, d, reg) ==
  IF f.op \in Writes THEN Override([t \in {f.tbl} |-> Written(f, Table(d, f.tbl), reg)], d) ELSE d

\* A statement that fails by itself: a missing referenced row, a decoding error.
Fails(f, d) ==
  \/ f.op = "throw"
  \/ f.op \in {"insert", "upsert", "append"} /\ ~Exists(d, f.ref)

---------------------------------------------------------------------------
\* The treasury projection.

\* The chain's state of a stream is the number of its events so far.
StreamState(s) == Cardinality({i \in DOMAIN chain : /\ chain[i].ledger <= tip
                                                   /\ chain[i].contract = "treasury"
                                                   /\ TOPIC_MAP(chain[i].topic) \in StreamTypes
                                                   /\ chain[i].d.stream = s})
upsertStream(d, s, version, ledger) ==
  Apply(Upsert("treasury_streams", {"stream"}, [stream |-> s, version |-> version, ledger |-> ledger],
               [version |-> version], NoRef), d, 0)
treasuryStreamEventExists(d, id) == Exists(d, [tbl |-> "treasury_stream_events", where |-> [event_id |-> id]])

\* Mutant of persistTreasuryStreamEvent: the projection is written although the
\* receipt is there.
persistTreasuryStreamEvent_unguarded(d, f, version) ==
  upsertStream(Apply(Insert("treasury_stream_events", {"event_id"}, [event_id |-> f.id, stream |-> f.stream], NoRef), d, 0),
               f.stream, version, f.ledger)

\* The receipt and the projection in one transaction; nothing when the receipt is there.
persistTreasuryStreamEvent(d, f, version) ==
  IF treasuryStreamEventExists(d, f.id) THEN d
  ELSE upsertStream(Apply(AppendRow("treasury_stream_events", [event_id |-> f.id, stream |-> f.stream], NoRef), d, 0),
                    f.stream, version, f.ledger)

StreamsOnChain == {chain[i].d.stream : i \in {j \in DOMAIN chain : /\ chain[j].ledger <= tip
                                                                   /\ chain[j].contract = "treasury"
                                                                   /\ TOPIC_MAP(chain[j].topic) \in StreamTypes}}
bootstrapTreasuryProjection(d) ==
  LET order == SetToSeq(StreamsOnChain)
      done[n \in 0..Len(order)] ==
        IF n = 0 THEN d ELSE upsertStream(done[n - 1], order[n], StreamState(order[n]), tip)
  IN  done[Len(order)]

---------------------------------------------------------------------------
\* Snapshots taken after a batch.

LastSnapshot(d, tbl) == LET s == Table(d, tbl) IN IF s = << >> THEN 0 ELSE Max({s[i].ledger : i \in DOMAIN s})
SnapshotDue(d, tbl, ledger) == ledger - LastSnapshot(d, tbl) >= SNAPSHOT_INTERVAL_LEDGERS
SumOf(rows, col) == FoldSeq(LAMBDA r, acc : r[col] + acc, 0, rows)

maybeTakeGovernanceSnapshot(ledger) ==
  << [op |-> "due", tbl |-> "governance_snapshots", ledger |-> ledger, skip |-> 4],
     [op |-> "sumVotes"],
     [op |-> "snapshot", tbl |-> "governance_snapshots", ledger |-> ledger],
     InvalidatePattern(<<"analytics">>),
     Broadcast("analytics_snapshot_taken") >>

\* The latest weight a voter cast, and the power each delegatee receives: the
\* last row of a voter or delegator is its newest.
Latest(rows, col) == {r \in ToSet(rows) : \A i \in DOMAIN rows : rows[i][col] = r[col] =>
                                            \E j \in DOMAIN rows : j >= i /\ rows[j] = r}
loadHolderPowers(d) == [v \in {r.voter : r \in ToSet(Table(d, "votes"))} |->
                          (CHOOSE r \in Latest(Table(d, "votes"), "voter") : r.voter = v).weight]
loadDelegatePowers(d, holders) ==
  LET rows == {r \in Latest(Table(d, "delegates"), "delegator") : r.delegator \in DOMAIN holders}
  IN  [to \in {r.new_delegatee : r \in rows} |->
         MapThenSumSet(LAMBDA r : holders[r.delegator], {r \in rows : r.new_delegatee = to})]
Powers(f) == LET dom == SetToSeq(DOMAIN f) IN [i \in DOMAIN dom |-> f[dom[i]]]

maybeTakeConcentrationSnapshot(ledger) ==
  << [op |-> "due", tbl |-> "concentration_snapshots", ledger |-> ledger, skip |-> 5],
     [op |-> "holders"],
     [op |-> "delegates"],
     [op |-> "snapshot", tbl |-> "concentration_snapshots", ledger |-> ledger],
     InvalidatePattern(<<"analytics", "concentration">>),
     Broadcast("analytics_snapshot_taken") >>

---------------------------------------------------------------------------
\* The cache.

Drops(f) == \/ f.op = "invalidate" /\ watched.key \in f.keys
            \/ f.op = "invalidatePattern" /\ IsPrefix(f.prefix, watched.key)

\* cached(), for a route with a key: a miss runs the query, whose answer is stored when it arrives; the
\* rows may have changed, and the key been invalidated, in between.
ApiRequest ==
  /\ Up /\ request.pc = "idle" /\ ~cache.valid /\ watched.key # << >>
  /\ request' = [pc |-> "query", data |-> << >>, raced |-> FALSE]
  /\ UNCHANGED <<envVars, db, cursor, lastLedger, phase, batch, current, overlapped, cache, faults>>
ApiQuery ==
  /\ request.pc = "query"
  /\ request' = [pc |-> "store", data |-> Rows(watched, db), raced |-> FALSE]
  /\ UNCHANGED <<envVars, db, cursor, lastLedger, phase, batch, current, overlapped, cache, faults>>
ApiStore ==
  /\ request.pc = "store"
  /\ cache' = [valid |-> TRUE, data |-> request.data, raced |-> request.raced]
  /\ request' = NoRequest
  /\ UNCHANGED <<envVars, db, cursor, lastLedger, phase, batch, current, overlapped, faults>>
\* Mutant of Expire: an entry has no time to live.
Expire_never == FALSE /\ UNCHANGED vars

\* The time to live of the entry is over.
Expire ==
  /\ cache.valid
  /\ cache' = NoEntry
  /\ UNCHANGED <<envVars, db, cursor, lastLedger, phase, batch, current, overlapped, request, faults>>

---------------------------------------------------------------------------
\* A poll.

\* A ledger closes on the chain.
CloseLedger ==
  /\ tip < MaxLedger
  /\ tip' = tip + 1
  /\ UNCHANGED <<scenario, restarts, db, cursor, lastLedger, phase, batch, current, overlapped, cache,
                 request, faults>>

\* runIndexer: hydrate the treasury projection (which invalidates no key), read
\* the cursor, start polling.  The API is already being served.
Boot ==
  /\ phase = "boot"
  /\ db' = bootstrapTreasuryProjection(db)
  /\ lastLedger' = cursor
  /\ phase' = "first"
  /\ cache' = [cache EXCEPT !.raced = cache.valid]
  /\ request' = [request EXCEPT !.raced = request.pc = "store"]
  /\ UNCHANGED <<envVars, cursor, batch, current, overlapped, faults>>

\* pollOnce: the first one is awaited, the interval then starts one on every tick.
pollOnce(b) ==
  /\ phase = "first" => Running = {}
  /\ phase \in {"first", "polling"}
  /\ Cardinality(Running) < scenario.batches
  /\ b \notin Running /\ b = CHOOSE s \in Slots \ Running : TRUE
  /\ batch' = [batch EXCEPT ![b] = [NoBatch EXCEPT !.pc = "fetch", !.start = lastLedger + 1, !.latest = lastLedger]]
  /\ current' = b
  /\ overlapped' = (overlapped \/ Running # {})
  /\ UNCHANGED <<envVars, db, cursor, lastLedger, phase, cache, request, faults>>

\* getEvents: the first PageLimit subscribed events of the ledgers from..to.
Visible(c, from, to) == {i \in DOMAIN c : c[i].ledger >= from /\ c[i].ledger <= to /\ c[i].contract \in contractIds}
Page(c, from, to) ==
  {i \in Visible(c, from, to) : Cardinality({j \in Visible(c, from, to) : j <= i}) <= PageLimit}

\* No page ends inside a ledger: what is cut off belongs to later ones.  It fails
\* for a ledger with more subscribed events than fit on a page, and the cursor
\* then passes the rest of them.
WholePages ==
  \A s \in Scenarios : \A from, to \in 1..EndOf(s.chain) :
    \A i \in Page(s.chain, from, to), j \in Visible(s.chain, from, to) \ Page(s.chain, from, to) :
      s.chain[i].ledger < s.chain[j].ledger

FirstEffects(evs) == IF evs = {} THEN << >> ELSE Effects(chain[Min(evs)])

\* Mutant of FetchEvents: the cursor is saved before the page is processed.
FetchEvents_eager(b) ==
  /\ batch[b].pc = "fetch"
  /\ \E evs \in {Page(chain, batch[b].start, tip)} :
       /\ batch' = [batch EXCEPT ![b] = [@ EXCEPT !.pc = "run", !.evs = evs, !.todo = FirstEffects(evs)]]
       /\ cursor' = Max({cursor} \cup {chain[i].ledger : i \in evs})
  /\ UNCHANGED <<envVars, db, lastLedger, phase, current, overlapped, cache, request, faults>>

FetchEvents(b) ==
  /\ batch[b].pc = "fetch"
  /\ \E evs \in {Page(chain, batch[b].start, tip)} :
       batch' = [batch EXCEPT ![b] = [@ EXCEPT !.pc = "run", !.evs = evs, !.todo = FirstEffects(evs)]]
  /\ UNCHANGED <<envVars, db, cursor, lastLedger, phase, current, overlapped, cache, request, faults>>

\* What is left after the effect f: a receipt on file ends the handler, a snapshot
\* that is not due is left out.
Rest(f, todo, d) ==
  CASE f.op \in {"streamExists", "persistStream"} /\ treasuryStreamEventExists(d, f.id) -> << >>
    [] f.op = "due" /\ ~SnapshotDue(d, f.tbl, f.ledger) -> SubSeq(todo, f.skip + 2, Len(todo))
    [] OTHER -> Tail(todo)

\* The value the effect leaves for the next one.
Register(w, f, d) ==
  CASE f.op = "select" ->
         LET rows == SelectSeq(Table(d, f.tbl), LAMBDA r : Matches(r, f.where))
         IN  IF rows = << >> THEN 0 ELSE rows[Len(rows)][f.col]
    [] f.op = "readStream" -> StreamState(f.stream)
    [] f.op = "sumVotes" -> SumOf(Table(d, "votes"), "weight")
    [] f.op = "holders" -> loadHolderPowers(d)
    [] f.op = "delegates" -> computeConcentrationMetrics(Powers(w.reg), Powers(loadDelegatePowers(d, w.reg)))
    [] OTHER -> IF f.op \in {"streamExists", "due"} THEN 0 ELSE w.reg

RunEffect(f, d, reg) ==
  CASE f.op = "persistStream" -> persistTreasuryStreamEvent(d, f, reg)
    [] f.op = "snapshot" ->
         Apply(Insert(f.tbl, {"ledger"}, [ledger |-> f.ledger, value |-> reg], NoRef), d, 0)
    [] OTHER -> Apply(f, d, reg)

\* The event at the head is done: its ledger counts, the next event begins.
Advance(w, todo) ==
  IF w.pc = "post" \/ todo # << >> THEN [w EXCEPT !.todo = todo]
  ELSE [w EXCEPT !.latest = Max({@, chain[Min(w.evs)].ledger}), !.evs = @ \ {Min(@)}, !.reg = 0,
                 !.todo = FirstEffects(w.evs \ {Min(w.evs)})]

\* A statement is one step.  The invalidations and broadcasts up to the next
\* await run in one turn of the event loop.
Synchronous(f) == f.op \in {"invalidate", "invalidatePattern", "broadcast"}
Turn(todo) == SubSeq(todo, 1, Min({i \in 1..Len(todo) + 1 : i > Len(todo) \/ ~Synchronous(todo[i])}) - 1)

Statement(b) ==
  LET w == batch[b]
      f == Head(w.todo)
  IN  /\ w.todo # << >> /\ ~Synchronous(f)
      /\ ~Fails(f, db)
      /\ db' = RunEffect(f, db, w.reg)
      /\ batch' = [batch EXCEPT ![b] = Advance([w EXCEPT !.reg = Register(w, f, db)], Rest(f, w.todo, db))]
      /\ request' = [request EXCEPT !.raced = request.pc = "store" /\ (@ \/ db' # db)]
      /\ UNCHANGED <<envVars, cursor, lastLedger, phase, current, overlapped, cache, faults>>

Notify(b) ==
  \E turn \in {Turn(batch[b].todo)} :
    /\ turn # << >>
    /\ batch' = [batch EXCEPT ![b] = Advance(@, SubSeq(@.todo, Len(turn) + 1, Len(@.todo)))]
    /\ cache' = IF \E i \in DOMAIN turn : Drops(turn[i]) THEN NoEntry ELSE cache
    /\ UNCHANGED <<envVars, db, cursor, lastLedger, phase, current, overlapped, request, faults>>

\* The batch is over; the interval is armed once the first poll is.
Ended(b) ==
  /\ batch' = [batch EXCEPT ![b] = NoBatch]
  /\ phase' = IF phase = "first" THEN "polling" ELSE phase

\* Mutant of CheckAdvance: off by one.
CheckAdvance_late(b) ==
  /\ batch[b].pc = "run" /\ batch[b].evs = {}
  /\ IF batch[b].latest > lastLedger + 1
     THEN batch' = [batch EXCEPT ![b].pc = "cursor"] /\ UNCHANGED phase
     ELSE Ended(b)
  /\ UNCHANGED <<envVars, db, cursor, lastLedger, current, overlapped, cache, request, faults>>

CheckAdvance(b) ==
  /\ batch[b].pc = "run" /\ batch[b].evs = {}
  /\ IF batch[b].latest > lastLedger
     THEN batch' = [batch EXCEPT ![b].pc = "cursor"] /\ UNCHANGED phase
     ELSE Ended(b)
  /\ UNCHANGED <<envVars, db, cursor, lastLedger, current, overlapped, cache, request, faults>>

updateLastIndexedLedger(b) ==
  /\ batch[b].pc = "cursor"
  /\ cursor' = batch[b].latest
  /\ batch' = [batch EXCEPT ![b].pc = "memory"]
  /\ UNCHANGED <<envVars, db, lastLedger, phase, current, overlapped, cache, request, faults>>

Remember(b) ==
  /\ batch[b].pc = "memory"
  /\ lastLedger' = batch[b].latest
  /\ batch' = [batch EXCEPT ![b].pc = "post",
                            ![b].todo = maybeTakeGovernanceSnapshot(batch[b].latest)
                                        \o maybeTakeConcentrationSnapshot(batch[b].latest)]
  /\ UNCHANGED <<envVars, db, cursor, phase, current, overlapped, cache, request, faults>>

Finish(b) ==
  /\ batch[b].pc = "post" /\ batch[b].todo = << >>
  /\ Ended(b)
  /\ UNCHANGED <<envVars, db, cursor, lastLedger, current, overlapped, cache, request, faults>>

\* An exception ends the batch; the next poll starts from the same ledger.
Abort(b) ==
  /\ Ended(b)
  /\ cache' = [cache EXCEPT !.raced = cache.valid]
  /\ request' = [request EXCEPT !.raced = request.pc = "store"]
  /\ UNCHANGED <<envVars, db, cursor, lastLedger, current, overlapped>>
Exception(b) ==
  /\ batch[b].todo # << >> /\ Fails(Head(batch[b].todo), db)
  /\ Abort(b) /\ UNCHANGED faults
\* The RPC call or the statement fails.
Fault(b) ==
  /\ batch[b].pc \in {"fetch", "cursor"} \/ batch[b].todo # << >>
  /\ faults < scenario.faults /\ faults' = faults + 1
  /\ Abort(b)

---------------------------------------------------------------------------
\* Shutdown, crash, restart.

\* SIGTERM: no further poll, then wait for currentBatchPromise.
shutdown ==
  /\ phase \in {"first", "polling"}
  /\ phase' = "stopping"
  /\ UNCHANGED <<envVars, db, cursor, lastLedger, batch, current, overlapped, cache, request, faults>>

Reset ==
  /\ batch' = [b \in Slots |-> NoBatch]
  /\ cache' = NoEntry
  /\ request' = NoRequest

\* pool.end() and process.exit(0).
Exit ==
  /\ phase = "stopping" /\ batch[current].pc = "idle"
  /\ phase' = "down"
  /\ Reset
  /\ UNCHANGED <<envVars, db, cursor, lastLedger, current, overlapped, faults>>

Crash ==
  /\ Up /\ restarts < scenario.crashes
  /\ restarts' = restarts + 1
  /\ phase' = "boot"
  /\ Reset
  /\ UNCHANGED <<scenario, tip, db, cursor, lastLedger, current, overlapped, faults>>

\* The process manager starts it again after an orderly exit.
Restart ==
  /\ phase = "down"
  /\ phase' = "boot"
  /\ UNCHANGED <<envVars, db, cursor, lastLedger, batch, current, overlapped, cache, request, faults>>

---------------------------------------------------------------------------
Init ==
  /\ scenario \in Scenarios
  /\ tip = 0 /\ db = EmptyDb /\ cursor = 0 /\ lastLedger = 0
  /\ phase = "boot"
  /\ batch = [b \in Slots |-> NoBatch]
  /\ current = CHOOSE s \in Slots : TRUE
  /\ overlapped = FALSE
  /\ cache = NoEntry /\ request = NoRequest
  /\ faults = 0 /\ restarts = 0

BatchNext(b) ==
  \/ FetchEvents(b) \/ Statement(b) \/ Notify(b) \/ CheckAdvance(b) \/ updateLastIndexedLedger(b) \/ Remember(b)
  \/ Finish(b) \/ Exception(b)

Next ==
  \/ CloseLedger \/ Boot \/ shutdown \/ Exit \/ Crash \/ Restart
  \/ ApiRequest \/ ApiQuery \/ ApiStore \/ Expire
  \/ \E b \in Slots : pollOnce(b) \/ BatchNext(b) \/ Fault(b)

\* Timers fire, awaited calls return, entries expire, ledgers close.
Fairness ==
  /\ WF_vars(CloseLedger) /\ WF_vars(Boot) /\ WF_vars(Exit) /\ WF_vars(Restart) /\ WF_vars(Expire)
  /\ WF_vars(ApiQuery) /\ WF_vars(ApiStore)
  /\ \A b \in Slots : WF_vars(BatchNext(b))
  /\ SF_vars(\E b \in Slots : pollOnce(b))

Spec == Init /\ [][Next]_vars /\ Fairness

---------------------------------------------------------------------------
\* Properties.

Subscribed == {i \in DOMAIN chain : chain[i].contract \in contractIds}
Logged(i) == Exists(db, [tbl |-> "event_log", where |-> [event_id |-> chain[i].id]])
CaughtUp == \A i \in Subscribed : chain[i].ledger <= cursor

\* What the effects fs leave of the tables d, and whether one of them failed.
RunAll(d, fs) ==
  FoldLeft(LAMBDA x, f : IF x.failed \/ Fails(f, x.db) THEN [x EXCEPT !.failed = TRUE]
                         ELSE [x EXCEPT !.db = Apply(f, @, 0)],
           [db |-> d, failed |-> FALSE], fs)

\* One uninterrupted pass over the subscribed events of a chain: its tables, and
\* the place of the event on which it stops for good (0: none).
PassOver(c) ==
  LET after[n \in 0..Len(c)] ==
        IF n = 0 THEN [db |-> EmptyDb, stuck |-> 0]
        ELSE IF after[n - 1].stuck # 0 \/ c[n].contract \notin contractIds THEN after[n - 1]
        ELSE LET run == RunAll(after[n - 1].db, Effects(c[n]))
             IN  [db |-> run.db, stuck |-> IF run.failed THEN n ELSE 0]
  IN  after[Len(c)]
Passes == [s \in Scenarios |-> PassOver(s.chain)]
OnePass == Passes[scenario].db
Stuck == Passes[scenario].stuck

\* The tables that are written by key, and a proposal without its tallies.
KeyedTables ==
  {"votes", "event_log", "conviction_proposals", "conviction_stakes", "conviction_snapshots",
   "optimistic_proposals", "optimistic_objections", "drafts", "draft_co_sponsors", "proposal_bonds",
   "signal_anchors", "vote_escrow_locks", "proposer_reputation", "timelock_operations",
   "timelock_batch_operations", "timelock_dependency_graphs", "timelock_partial_batch_state"}
Untallied(rows) == {[id |-> r.id, proposer |-> r.proposer, queued |-> r.queued, executed |-> r.executed,
                     cancelled |-> r.cancelled] : r \in ToSet(rows)}
StreamEvents == {i \in DOMAIN chain : chain[i].contract = "treasury" /\ TOPIC_MAP(chain[i].topic) \in StreamTypes}

\* What the cursor has passed is in the event log: a poll never moves last_ledger
\* over a subscribed event it has not processed, whatever fails, crashes or
\* overlaps (pollOnce, processEvents).
LogComplete == \A i \in Subscribed : chain[i].ledger <= cursor => Logged(i)

\* Retrying a batch after a failed statement or a crash ends in the tables that
\* one uninterrupted pass writes, for every table written by key, and in one receipt
\* per stream event: the handlers' ON CONFLICT clauses and the lookup of the
\* receipt make the replay harmless.
ReplayConverges ==
  ~overlapped /\ Running = {} /\ CaughtUp =>
    /\ \A t \in KeyedTables : \E once \in {Table(OnePass, t)} :
         Len(Table(db, t)) = Len(once) /\ ToSet(Table(db, t)) = ToSet(once)
    /\ Untallied(Table(db, "proposals")) = Untallied(Table(OnePass, "proposals"))
    /\ \E receipts \in {Table(db, "treasury_stream_events")} :
         /\ Len(receipts) = Cardinality(StreamEvents)
         /\ {r.event_id : r \in ToSet(receipts)} = {chain[i].id : i \in StreamEvents}

\* The projection of a stream is never older than the receipts on file for it,
\* even when two batches read the stream and persist it in different orders
\* (persistTreasuryStreamEvent).
StreamProjectionCurrent ==
  \A r \in ToSet(Table(db, "treasury_stream_events")) :
    \E s \in ToSet(Table(db, "treasury_streams")) :
      /\ s.stream = r.stream
      /\ s.version >= Cardinality({q \in ToSet(Table(db, "treasury_stream_events")) : q.stream = r.stream})

\* The routes whose key is invalidated after the last statement of every event
\* that changes their rows.  The other families wait for their time to live.  (The
\* batch of a cycle is NULL, which no request names.)
PromptRoutes(x) ==
  {getProposalVotes(x), getDelegates, getSplitsIn(x), getSplitsOut(x), getRelayers, getDelegationsBySig,
   getReputationLeaderboard, getReputation(x), getStreams, getStreamSpends(x), getStream(x), getStreamEvents(x),
   getBudgetSummary, getDrafts, getProposalBonds, getTimelockOperation(x), getTimelockBatch(x),
   getTimelockPartialState(x)} \cup {getTimelockDag(b) : b \in {x} \ {"null"}}
PromptRoute == \E x \in ToSet(watched.key) : watched \in PromptRoutes(x)
MidEvent(b) == batch[b].pc = "run" /\ batch[b].todo # FirstEffects(batch[b].evs)

\* Between two events a cached answer is what the query would return now, unless
\* the rows changed between the query and the storing of its answer, or a batch
\* stopped between a write and its invalidation (cached, invalidate).
FreshBetweenEvents ==
  PromptRoute /\ cache.valid /\ ~cache.raced /\ (\A b \in Slots : ~MidEvent(b)) => cache.data = Rows(watched, db)

\* An event the handlers cannot take in - its fields are not where they look for
\* them, or the row it refers to is missing - stops the indexer for good, and
\* nothing else does: every subscribed event up to it is in the end logged and
\* stays so, through failed calls, crashes, restarts and overlapping polls, and
\* where there is none the saved cursor passes every event, unless polls
\* overlapped (two batches may save their cursors in either order).
EventuallyIndexed ==
  <>[](/\ \A i \in Subscribed : Stuck = 0 \/ i <= Stuck => Logged(i)
       /\ Stuck = 0 => overlapped \/ CaughtUp)

\* "Maintains up-to-date state of all proposals including vote tallies, execution
\* status, and cancellation status" (packages/indexer/README.md): what happened to
\* a proposal on the chain is in the end in its row.
ProposalsUpToDate ==
  LET happened(types) == {chain[i].d : i \in {j \in DOMAIN chain : /\ chain[j].contract = "governor"
                                                                   /\ TOPIC_MAP(chain[j].topic) \in types}}
      ids(type) == {d.id : d \in happened({type})}
      weight(id, k) == MapThenSumSet(LAMBDA d : d.weight,
                        {d \in happened({"VoteCast", "VoteCastWithReason"}) : d.id = id /\ d.support = k})
      told(r) == /\ r.executed <=> r.id \in ids("ProposalExecuted")
                 /\ r.cancelled <=> r.id \in ids("ProposalCancelled")
                 /\ r.votes_for = weight(r.id, 1)
                 /\ r.votes_against = weight(r.id, 0)
                 /\ r.votes_abstain = weight(r.id, 2)
  IN  <>[](\A id \in ids("ProposalCreated") :
              \E r \in ToSet(Table(db, "proposals")) : r.id = id /\ told(r))

\* Whatever is cached is in the end what the tables hold: an answer that was
\* stored stale, or is never invalidated, is gone after its time to live.
EventuallyFresh == <>[](cache.valid => cache.data = Rows(watched, db))

=============================================================================
