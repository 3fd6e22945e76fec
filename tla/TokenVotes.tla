----------------------------- MODULE TokenVotes -----------------------------
(***************************************************************************)
(* The token-votes contract (contracts/token-votes/src: lib.rs,             *)
(* delegation_registry.rs, split_delegation.rs, delegation_sig.rs): voting  *)
(* power is delegated, whole or in parts, and checkpointed by ledger.       *)
(*                                                                         *)
(* The contract learns of a balance only when its holder delegates: record  *)
(* is what it last read from the token.                                     *)
(*                                                                         *)
(* Abstractions:                                                           *)
(*  - a list of checkpoints, ordered by ledger and with one entry a ledger,  *)
(*    is a function from ledgers: overwriting the last entry or appending    *)
(*    one is an update at the current ledger, the binary search is Latest;   *)
(*  - of the registry the lists, the counters and the active flags of the     *)
(*    DelegationRecords are kept; a delegator's history, whose open entries   *)
(*    are what received lists of it, and who ever delegated to an account    *)
(*    (HistoricalDelegations) are not;                                      *)
(*  - delegate_batch and delegate_batch_by_sig are their delegations one     *)
(*    after the other in one ledger; one that fails undoes the others;       *)
(*  - chain and contract ids, the relayer whitelist, the cap on split        *)
(*    targets and the time-weight switches, which only gate or scale what is *)
(*    modelled, are left out.                                               *)
(***************************************************************************)
EXTENDS Integers, Sequences, FiniteSets, FiniteSetsExt

CONSTANTS
    Accounts,
    Holdings,        \* the token balances to begin with
    Amounts,         \* amounts of token transfers
    Splits,          \* split lists a delegator may ask for
    RawAccounts,     \* accounts that get a manual checkpoint
    RawVotes,        \* values a manual checkpoint may write
    Signers,         \* accounts that sign permits
    Limits,          \* chain depths the admin may ask for
    DefaultRetention, \* the retention period of a new contract
    Retentions,      \* retention periods the admin may ask for
    MaxChainWalk,    \* MAX_CHAIN_WALK
    InvalidateStep,  \* INVALIDATE_ALL_STEP
    MaxNonce,        \* bound on the permits of an account
    MaxLedger,       \* bound on the ledger sequence number
    MaxCalls,        \* bound on the calls of a behaviour
    None

Ledgers == 0..MaxLedger
Bps == 10000

ASSUME TokenNumbers ==
    /\ Amounts \subseteq Nat \ {0} /\ RawVotes \subseteq Int
    /\ RawAccounts \subseteq Accounts /\ Signers \subseteq Accounts
    /\ Limits \subseteq Nat /\ Retentions \subseteq Nat /\ DefaultRetention \in Nat
    /\ MaxChainWalk \in Nat \ {0} /\ InvalidateStep \in Nat \ {0}
    /\ MaxNonce \in Nat /\ MaxLedger \in Nat \ {0} /\ MaxCalls \in Nat
ASSUME HoldingsAssumption == Holdings \in [Accounts -> Nat]
ASSUME SplitsAssumption == Splits \subseteq Seq([delegatee : Accounts, weight_bps : Nat])
ASSUME AccountsFinite == IsFiniteSet(Accounts)
ASSUME TokenNone == None \notin Accounts /\ None \notin Nat

VARIABLES
    seq,          \* ledger sequence number
    balance,      \* external: the token contract
    delegate,     \* DataKey::Delegate
    splits,       \* DataKey::SplitDelegations
    record,       \* DataKey::DelegatorRecord
    checkpoints,  \* DataKey::Checkpoints
    totals,       \* DataKey::TotalCheckpoints
    accountList,  \* DataKey::AccountList, IsInAccountList
    received,     \* DataKey::ReceivedDelegations: how often a is listed for b
    count,        \* DataKey::TotalDelegatorsFor
    active,       \* DataKey::DelegationHistory, DelegationRecord
    nonce, used,  \* DataKey::Nonce, UsedNonce
    depthLimit,   \* DataKey::DelegationDepthLimit
    retention,    \* DataKey::CheckpointRetentionPeriod
    raw,          \* history: accounts whose checkpoints were set by hand
    covered,      \* history: accounts that delegated whole over parts on file
    stray,        \* history: the power those parts went on giving
    calls         \* history: how many calls there were

distribution == <<delegate, splits, record>>
power == <<checkpoints, totals, accountList>>
registry == <<received, count, active>>
permits == <<nonce, used>>
config == <<depthLimit, retention>>
overlays == <<covered, stray>>
vars == <<seq, balance, distribution, power, registry, permits, config, raw, overlays, calls>>

Checkpoint == [votes : Int, weighted_sum : Int]
IsLog(log) == DOMAIN log \subseteq Ledgers /\ log \in [DOMAIN log -> Checkpoint]
DelegatorRecord == [balance : Nat, start_ledger : Nat]

TypeOK ==
    /\ seq \in Ledgers /\ balance \in [Accounts -> Nat]
    /\ delegate \in [Accounts -> Accounts \cup {None}]
    /\ splits \in [Accounts -> Splits \cup {<<>>}]
    /\ record \in [Accounts -> DelegatorRecord]
    /\ DOMAIN checkpoints = Accounts
    /\ \A a \in Accounts : IsLog(checkpoints[a])
    /\ IsLog(totals)
    /\ accountList \subseteq Accounts
    /\ received \in [Accounts -> [Accounts -> Nat]]
    /\ count \in [Accounts -> Nat]
    /\ active \in [Accounts -> SUBSET Accounts]
    /\ nonce \in [Accounts -> Nat] /\ used \in [Accounts -> SUBSET Nat]
    /\ depthLimit \in 1..MaxChainWalk /\ retention \in Nat
    /\ raw \subseteq Accounts /\ covered \subseteq Accounts
    /\ stray \in [Accounts -> Checkpoint] /\ calls \in Nat

-----------------------------------------------------------------------------
(* Checkpoints.                                                            *)

Zero == [votes |-> 0, weighted_sum |-> 0]

\* The latest checkpoint not after ledger l.
Latest(log, l) ==
    LET ks == {k \in DOMAIN log : k <= l} IN IF ks = {} THEN Zero ELSE log[Max(ks)]

\* Mutant of Put: a checkpoint is dated one ledger back.
Put_backdated(log, dv, dw) ==
    [k \in DOMAIN log \cup {seq - 1} |->
        IF k = seq - 1 THEN [votes |-> Latest(log, seq).votes + dv,
                             weighted_sum |-> Latest(log, seq).weighted_sum + dw]
        ELSE log[k]]

\* The latest values, changed by dv and dw, hold from the current ledger on.
Put(log, dv, dw) ==
    [k \in DOMAIN log \cup {seq} |->
        IF k = seq THEN [votes |-> Latest(log, seq).votes + dv,
                         weighted_sum |-> Latest(log, seq).weighted_sum + dw]
        ELSE log[k]]

-----------------------------------------------------------------------------
(* Distributions of voting power: a sequence of parts, <<>> for none.       *)

One(b) == <<[delegatee |-> b, weight_bps |-> Bps]>>
Legacy(a) == IF delegate[a] = None THEN <<>> ELSE One(delegate[a])
get_split_delegations(a) == IF splits[a] # <<>> THEN splits[a] ELSE Legacy(a)
\* What remove_old_distribution takes for the distribution of a: a whole
\* delegation hides the parts on file, get_split_delegations the other way round.
Current(a) == IF delegate[a] # None THEN Legacy(a) ELSE splits[a]
Targets(s) == {s[i].delegatee : i \in DOMAIN s}

\* Mutant of split_amount: what rounding leaves over is lost.
split_amount_floor(s, i, total) == (total * s[i].weight_bps) \div Bps

\* The last part gets what rounding leaves over.
split_amount(s, i, total) ==
    LET part(j) == (total * s[j].weight_bps) \div Bps
    IN  IF i = Len(s) THEN total - MapThenSumSet(part, 1..(i - 1)) ELSE part(i)

Share(s, total, b) ==
    IF b \in Targets(s)
    THEN split_amount(s, CHOOSE i \in DOMAIN s : s[i].delegatee = b, total) ELSE 0

validate_splits(s) ==
    /\ s # <<>>
    /\ \A i \in DOMAIN s : s[i].weight_bps > 0
    /\ \A i, j \in DOMAIN s : s[i].delegatee = s[j].delegatee => i = j
    /\ MapThenSumSet(LAMBDA i : s[i].weight_bps, DOMAIN s) = Bps

NoRecord == [balance |-> 0, start_ledger |-> 0]

\* Tokens added since the last reading move the average start forward.
NewRecord(r, bal) ==
    [balance |-> bal,
     start_ledger |-> IF bal > r.balance
        THEN (r.balance * r.start_ledger + (bal - r.balance) * seq) \div bal
        ELSE r.start_ledger]

\* The power of record r, distributed as old, becomes that of record n,
\* distributed as new; the accounts in touched get a checkpoint.
Redistribute(old, r, new, n, touched) ==
    LET dv(b) == Share(new, n.balance, b) - Share(old, r.balance, b)
        dw(b) == Share(new, n.balance, b) * n.start_ledger
                    - Share(old, r.balance, b) * r.start_ledger
        had == IF old = <<>> THEN NoRecord ELSE r
        dTotal == n.balance - had.balance
        dWeighted == n.balance * n.start_ledger - had.balance * had.start_ledger
    IN  /\ checkpoints' = [b \in Accounts |-> IF b \in touched
                             THEN Put(checkpoints[b], dv(b), dw(b)) ELSE checkpoints[b]]
        /\ accountList' = accountList \cup touched
        /\ totals' = IF dTotal # 0 \/ dWeighted # 0
                     THEN Put(totals, dTotal, dWeighted) ELSE totals

-----------------------------------------------------------------------------
(* The registry.                                                           *)

\* The accounts on the way from a to the end of its chain; Resolves(a) when
\* the end is reached in MaxChainWalk hops.
Hop(x) == IF delegate[x] = None THEN x ELSE delegate[x]
Walk(a) ==
    LET w[n \in 0..MaxChainWalk] == IF n = 0 THEN a ELSE Hop(w[n - 1]) IN w
Resolves(a) == Hop(Walk(a)[MaxChainWalk]) = Walk(a)[MaxChainWalk]
resolve_chain(a) == {Walk(a)[n] : n \in 0..MaxChainWalk}

validate_delegation(a, b) ==
    /\ Resolves(b)
    /\ a \notin resolve_chain(b)
    /\ Cardinality(resolve_chain(b)) <= depthLimit

\* Mutant of Register: the list of the old delegatee is left as it is.
Register_keeping(a, revoked, registered) ==
    LET change(b) == IF b \in registered THEN 1 ELSE 0
    IN  /\ received' = [b \in Accounts |-> [received[b] EXCEPT ![a] = @ + change(b)]]
        /\ count' = [b \in Accounts |-> count[b] + change(b)
                       - IF b \in revoked /\ count[b] > 0 THEN 1 ELSE 0]
        /\ active' = [active EXCEPT ![a] = (@ \ revoked) \cup registered]

\* revoke_registry_entry for the delegatees in revoked, register_delegation
\* for those in registered.  A delegatee whose entry is revoked was registered
\* when it was put on file, so the early return for a missing DelegationRecord
\* is never taken (RegistryAgrees).
Register(a, revoked, registered) ==
    LET change(b, listed) == (IF b \in registered THEN 1 ELSE 0)
                               - IF b \in revoked /\ listed > 0 THEN 1 ELSE 0
    IN  /\ received' = [b \in Accounts |->
              [received[b] EXCEPT ![a] = @ + change(b, @)]]
        /\ count' = [b \in Accounts |-> count[b] + change(b, count[b])]
        /\ active' = [active EXCEPT ![a] = (@ \ revoked) \cup registered]

-----------------------------------------------------------------------------
Init ==
    /\ seq = 1 /\ balance = Holdings
    /\ delegate = [a \in Accounts |-> None]
    /\ splits = [a \in Accounts |-> <<>>]
    /\ record = [a \in Accounts |-> NoRecord]
    /\ checkpoints = [a \in Accounts |-> <<>>] /\ totals = <<>>
    /\ accountList = {}
    /\ received = [b \in Accounts |-> [a \in Accounts |-> 0]]
    /\ count = [b \in Accounts |-> 0]
    /\ active = [a \in Accounts |-> {}]
    /\ nonce = [a \in Accounts |-> 0] /\ used = [a \in Accounts |-> {}]
    /\ depthLimit = 1 /\ retention = DefaultRetention
    /\ raw = {} /\ covered = {} /\ stray = [a \in Accounts |-> Zero] /\ calls = 0

\* History: what the parts a has on file give when a whole delegation that does
\* not look at them takes their place.
Cover(a) ==
    LET left(b) == Share(splits[a], record[a].balance, b)
    IN  IF delegate[a] = None /\ splits[a] # <<>>
        THEN /\ covered' = covered \cup {a}
             /\ stray' = [b \in Accounts |->
                    [votes |-> stray[b].votes + left(b),
                     weighted_sum |-> stray[b].weighted_sum + left(b) * record[a].start_ledger]]
        ELSE UNCHANGED overlays

\* a, whose balance is bal, delegates everything to b.  Only Delegate says
\* whether a has delegated before: parts on file are neither taken back nor
\* revoked, and a's balance joins the total once more.
apply_delegation(a, b, bal) ==
    LET old == Legacy(a)
        n == NewRecord(record[a], bal)
    IN  /\ b # a /\ delegate[a] # b => validate_delegation(a, b)
        /\ Redistribute(old, record[a], One(b), n, Targets(old) \cup {b})
        /\ delegate' = [delegate EXCEPT ![a] = b]
        /\ record' = [record EXCEPT ![a] = n]
        /\ Register(a, Targets(old) \ {a, b}, {b} \ (Targets(old) \cup {a}))
        /\ Cover(a)
        /\ UNCHANGED splits

delegate_to(a, b) ==
    /\ apply_delegation(a, b, balance[a])
    /\ UNCHANGED <<seq, balance, permits, config, raw>>

undelegate(a) ==
    /\ delegate[a] \notin {None, a}
    /\ apply_delegation(a, a, balance[a])
    /\ UNCHANGED <<seq, balance, permits, config, raw>>

transfer_and_delegate(a, to, amount, b) ==
    /\ balance[a] >= amount
    /\ balance' = [x \in Accounts |-> balance[x] + (IF x = to THEN amount ELSE 0)
                                        - (IF x = a THEN amount ELSE 0)]
    /\ apply_delegation(to, b, balance'[to])
    /\ UNCHANGED <<seq, permits, config, raw>>

revoke_delegation(a) ==
    LET d == delegate[a]
    IN  /\ d \notin {None, a}
        /\ Redistribute(One(d), record[a], <<>>, NoRecord,
                        IF record[a].balance > 0 THEN {d} ELSE {})
        /\ delegate' = [delegate EXCEPT ![a] = None]
        /\ record' = [record EXCEPT ![a] = NoRecord]
        /\ Register(a, {d}, {})
        /\ UNCHANGED <<seq, balance, splits, permits, config, raw, overlays>>

\* A permit of a with nonce n is checked and its nonce consumed.
verify_delegation_permit(a, n, expiry) ==
    /\ seq <= expiry
    /\ n = nonce[a] /\ n \notin used[a] /\ n < MaxNonce
    /\ used' = [used EXCEPT ![a] = @ \cup {n}]
    /\ nonce' = [nonce EXCEPT ![a] = n + 1]

\* A relayer presents the permit a has signed.
delegate_by_sig(a, b, n, expiry) ==
    /\ verify_delegation_permit(a, n, expiry)
    /\ apply_delegation(a, b, balance[a])
    /\ UNCHANGED <<seq, balance, config, raw>>

invalidate_all_permits(a) ==
    /\ nonce[a] + InvalidateStep <= MaxNonce
    /\ nonce' = [nonce EXCEPT ![a] = @ + InvalidateStep]
    /\ UNCHANGED <<seq, balance, distribution, power, registry, used, config, raw,
                   overlays>>

\* The whole power of a is distributed as s: a single part is stored where
\* delegate_to stores it.
apply_split_core(a, s) ==
    LET old == Current(a)
        n == NewRecord(record[a], balance[a])
    IN  /\ validate_splits(s)
        /\ Redistribute(old, record[a], s, n,
              {b \in Accounts : Share(old, record[a].balance, b) # 0
                                  \/ Share(s, n.balance, b) # 0})
        /\ record' = [record EXCEPT ![a] = n]
        /\ delegate' = [delegate EXCEPT ![a] = IF Len(s) = 1 THEN s[1].delegatee ELSE None]
        /\ splits' = [splits EXCEPT ![a] = IF Len(s) = 1 THEN <<>> ELSE s]
        /\ Register(a, Targets(old) \ {a}, Targets(s) \ {a})
        /\ UNCHANGED <<seq, balance, permits, config, raw, overlays>>

delegate_split(a, s) == apply_split_core(a, s)

undelegate_split(a) ==
    /\ splits[a] # <<>> \/ delegate[a] \notin {None, a}
    /\ apply_split_core(a, One(a))

\* The value is written as it is given.
checkpoint(a, votes) ==
    LET dv == votes - Latest(checkpoints[a], seq).votes
    IN  /\ checkpoints' = [checkpoints EXCEPT ![a] = Put(checkpoints[a], dv, dv * seq)]
        /\ raw' = raw \cup {a}
        /\ UNCHANGED <<seq, balance, distribution, totals, accountList, registry,
                       permits, config, overlays>>

set_delegation_depth_limit(n) ==
    /\ n >= 1 /\ n <= MaxChainWalk
    /\ depthLimit' = n
    /\ UNCHANGED <<seq, balance, distribution, power, registry, permits, retention, raw,
                   overlays>>

set_checkpoint_retention_period(r) ==
    /\ retention' = r
    /\ UNCHANGED <<seq, balance, distribution, power, registry, permits, depthLimit, raw,
                   overlays>>

-----------------------------------------------------------------------------
(* Pruning.  m is the oldest ledger an open proposal refers to, None if      *)
(* there is none.                                                           *)

SafeCutoff(m) ==
    LET cutoff == IF seq > retention THEN seq - retention ELSE 0
    IN  IF m # None /\ m < cutoff THEN m ELSE cutoff

Keep(log, ks) == [k \in ks |-> log[k]]

\* Mutant of prune_account_checkpoints: everything up to the cutoff goes.
prune_account_checkpoints_all(log, cutoff) ==
    Keep(log, {k \in DOMAIN log : k > cutoff})

\* The last checkpoint not after the cutoff stays.
prune_account_checkpoints(log, cutoff) ==
    LET older == {k \in DOMAIN log : k <= cutoff}
    IN  IF older = {} THEN log ELSE Keep(log, {k \in DOMAIN log : k >= Max(older)})

\* All checkpoints not after the cutoff go, unless none would be left.
prune_total_supply_checkpoints(log, cutoff) ==
    LET newer == {k \in DOMAIN log : k > cutoff}
    IN  IF DOMAIN log = {} THEN log
        ELSE Keep(log, IF newer = {} THEN {Max(DOMAIN log)} ELSE newer)

prune_checkpoints(m) ==
    /\ totals' = prune_total_supply_checkpoints(totals, SafeCutoff(m))
    /\ checkpoints' = [a \in Accounts |-> IF a \in accountList
          THEN prune_account_checkpoints(checkpoints[a], SafeCutoff(m)) ELSE checkpoints[a]]
    /\ UNCHANGED <<seq, balance, distribution, accountList, registry, permits, config, raw,
                   overlays>>

-----------------------------------------------------------------------------
(* The environment: the token and the ledger.                               *)

Transfer(a, b, amount) ==
    /\ a # b /\ balance[a] >= amount
    /\ balance' = [balance EXCEPT ![a] = @ - amount, ![b] = @ + amount]
    /\ UNCHANGED <<seq, distribution, power, registry, permits, config, raw, overlays>>

CloseLedger ==
    /\ seq < MaxLedger /\ seq' = seq + 1
    /\ UNCHANGED <<balance, distribution, power, registry, permits, config, raw, overlays, calls>>

WholeDelegation(a, b) ==
    \/ delegate_to(a, b)
    \/ /\ a \in Signers
       /\ \E n \in 0..MaxNonce, expiry \in Ledgers : delegate_by_sig(a, b, n, expiry)

Call ==
    \/ \E a, b \in Accounts : WholeDelegation(a, b)
    \/ \E a, b, to \in Accounts, amount \in Amounts :
          transfer_and_delegate(a, to, amount, b)
    \/ \E a \in Accounts :
          undelegate(a) \/ revoke_delegation(a) \/ undelegate_split(a)
    \/ \E a \in Signers : invalidate_all_permits(a)
    \/ \E a \in Accounts, s \in Splits : delegate_split(a, s)
    \/ \E a \in RawAccounts, v \in RawVotes : checkpoint(a, v)
    \/ \E n \in Limits : set_delegation_depth_limit(n)
    \/ \E r \in Retentions : set_checkpoint_retention_period(r)
    \/ \E m \in Ledgers \cup {None} : prune_checkpoints(m)
    \/ \E a, b \in Accounts, amount \in Amounts : Transfer(a, b, amount)

Next ==
    \/ calls < MaxCalls /\ calls' = calls + 1 /\ Call
    \/ CloseLedger

Spec == Init /\ [][Next]_vars

-----------------------------------------------------------------------------
(* Properties.                                                             *)

\* The power of every delegatee, base and time-weighted, is the sum of the
\* parts its delegators give it now and of what parts left behind that a whole
\* delegation covered; the total is what the delegators had when they delegated
\* and what was left behind; the powers add up to the total.  No other call, in
\* any order, creates or loses power, rounding included (apply_delegation,
\* apply_split_core, revoke_delegation).
PowerConserved ==
    LET Given(b, a) == Share(Current(a), record[a].balance, b)
        Counted == {a \in Accounts : Current(a) # <<>>}
    IN  /\ \A b \in Accounts \ raw : Latest(checkpoints[b], seq) =
              [votes |-> MapThenSumSet(LAMBDA a : Given(b, a), Accounts) + stray[b].votes,
               weighted_sum |-> MapThenSumSet(
                   LAMBDA a : Given(b, a) * record[a].start_ledger, Accounts)
                     + stray[b].weighted_sum]
        /\ Latest(totals, seq) =
              [votes |-> MapThenSumSet(LAMBDA a : record[a].balance, Counted)
                           + MapThenSumSet(LAMBDA b : stray[b].votes, Accounts),
               weighted_sum |-> MapThenSumSet(
                   LAMBDA a : record[a].balance * record[a].start_ledger, Counted)
                     + MapThenSumSet(LAMBDA b : stray[b].weighted_sum, Accounts)]
        /\ raw = {} => Latest(totals, seq).votes =
              MapThenSumSet(LAMBDA b : Latest(checkpoints[b], seq).votes, Accounts)

\* Past power is immutable: once a ledger is closed nothing but pruning changes
\* what a query for it returns, for accounts and for the total
\* (invariant_tests.rs, snapshot_isolation).
SnapshotIsolation ==
    [][\/ \A l \in 0..(seq - 1) :
             /\ \A a \in Accounts : Latest(checkpoints'[a], l) = Latest(checkpoints[a], l)
             /\ Latest(totals', l) = Latest(totals, l)
       \/ \E m \in Ledgers \cup {None} : prune_checkpoints(m)]_vars

\* Pruning does not change the power of any account at a ledger from the
\* cutoff on: neither inside the retention period nor where an open proposal
\* looks (prune_account_checkpoints).
PruningKeepsVotes ==
    [][\A m \in Ledgers \cup {None} :
          \/ \A a \in Accounts, l \in SafeCutoff(m)..MaxLedger :
                Latest(checkpoints'[a], l) = Latest(checkpoints[a], l)
          \/ ~prune_checkpoints(m)]_vars

\* The registry agrees with the delegations.  The counters count what is
\* listed, duplicates included.  A delegator is listed for a delegatee once if it
\* has given it power and not otherwise, and exactly the current delegations are
\* active in the records, unless it once delegated as a whole over parts on file:
\* then it is listed at least as often as the delegatee is on file, so that every
\* entry that is revoked is found (register_delegation, revoke_registry_entry).
RegistryAgrees ==
    LET Whole(a, b) == IF a # b /\ delegate[a] = b THEN 1 ELSE 0
        Part(a, b) == IF a # b /\ b \in Targets(splits[a]) THEN 1 ELSE 0
    IN  \A b \in Accounts :
           /\ count[b] = MapThenSumSet(LAMBDA a : received[b][a], Accounts)
           /\ \A a \in Accounts :
                 /\ received[b][a] >= Whole(a, b) + Part(a, b)
                 /\ a \notin covered =>
                       /\ received[b][a] = Whole(a, b) + Part(a, b)
                       /\ received[b][a] <= 1
                       /\ b \in active[a] <=> received[b][a] = 1

\* lib.rs: pruning "Only removes checkpoints ... that are not needed by active
\* proposals".  The total at a ledger an open proposal refers to is removed
\* (prune_total_supply_checkpoints).
PruningKeepsTotals ==
    [][\A m \in Ledgers \cup {None} :
          \/ \A l \in SafeCutoff(m)..MaxLedger : Latest(totals', l) = Latest(totals, l)
          \/ ~prune_checkpoints(m)]_vars
=============================================================================
