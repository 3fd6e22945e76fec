------------------------------ MODULE Treasury ------------------------------
(***************************************************************************)
(* The treasury contract: a multisig whose signers the governor may slash   *)
(* and restore, a cap on what leaves the treasury per period, and budget    *)
(* streams that departments spend from.                                     *)
(*                                                                         *)
(* A call is atomic: a check that fails, a token that refuses a transfer or *)
(* a target that traps reverts the call, which is then no step. So the      *)
(* balance of the treasury needs no variable, and the flag that is set      *)
(* while a target runs is never seen set. There is one token, because what  *)
(* is kept per token is kept apart. initialize asks neither who calls it nor *)
(* whether it was called before, and not that the owners be distinct.       *)
(***************************************************************************)
EXTENDS Integers, FiniteSets, FiniteSetsExt

CONSTANTS
    Addresses,      \* accounts and contracts
    Governors,      \* those that may be governor
    Successors,     \* those of them that may be proposed
    Initializations,    \* arguments initialize may be called with
    Amounts,        \* amounts in arguments
    Reservations,   \* amounts submit_with_limit may be called with
    MaxAmount,      \* the limits of the default settings, i128::MAX
    DayLength,      \* 86400 seconds
    PendingExpiry,  \* DEFAULT_PENDING_EXPIRY_LEDGERS
    LedgerTimes,    \* seconds a ledger may take
    Caps,           \* caps the governor may set
    Starts, Ends, Cooldowns,  \* of streams
    MaxTx, MaxStreams, MaxLedger,   \* bounds of an instance
    None

TxIds == 1..MaxTx
StreamIds == 1..MaxStreams
Ledgers == 0..MaxLedger

I128 == (-MaxAmount - 1)..MaxAmount

ASSUME NumbersAssumption ==
    /\ {MaxTx, MaxStreams, MaxLedger, MaxAmount, DayLength, PendingExpiry} \subseteq Nat
    /\ Amounts \subseteq Nat \ {0} /\ Reservations \subseteq I128
    /\ LedgerTimes \cup Starts \cup Ends \cup Cooldowns \subseteq Nat
    /\ Caps \subseteq [max_amount : Nat, period_ledgers : Nat \ {0}]

\* How often each address is among the owners.
OwnerLists == [Addresses -> Nat]

ASSUME ArgumentsAssumption ==
    /\ IsFiniteSet(Addresses) /\ Successors \subseteq Governors
    /\ Initializations \subseteq [owners : OwnerLists, threshold : Nat, governor : Governors]

VARIABLES
    seq, now,               \* ledger number and time
    governor, pendingOwner,
    owners, threshold, slashed,
    tx, txCount,            \* transactions by id
    hasApproved,            \* those who approved a transaction, by id
    reused,                 \* history: ids given out again by a later initialize
    dailySpent, dayWindowStart,
    cap, spentThisPeriod,   \* the cap, and what was spent by start of period
    stream, streamCount, ownerStreams,
    totals,                 \* TotalStreamedByToken, TotalSpentByToken, ActiveStreamCount
    counted,                \* history: paid per ledger since the cap has its period
    slashMark               \* history: number of streams when an owner was last slashed

clock == <<seq, now>>
ownership == <<governor, pendingOwner>>
signers == <<owners, threshold, slashed, slashMark>>
txs == <<tx, txCount, hasApproved, reused>>
daily == <<dailySpent, dayWindowStart>>
capVars == <<cap, spentThisPeriod, counted>>
streams == <<stream, streamCount, ownerStreams, totals>>
vars == <<clock, ownership, signers, txs, daily, capVars, streams>>

TxProposal == [proposer : Addresses, created_ledger : Nat, approvals : Nat,
               executed : BOOLEAN, cancelled : BOOLEAN, reserved_amount : Int]

SpendingCap == [max_amount : Nat, period_ledgers : Nat \ {0}]

BudgetStream == [owner : Addresses, total_allocated : Nat, total_spent : Nat,
                 start_ledger : Nat, end_ledger : Nat, is_active : BOOLEAN,
                 is_revoked : BOOLEAN, max_single_spend : Nat,
                 cooldown_ledgers : Nat, last_spend_ledger : Nat, spend_count : Nat]

ASSUME NoneAssumption ==
    None \notin TxProposal \cup SpendingCap \cup BudgetStream \cup Governors

TypeOK ==
    /\ seq \in Nat /\ now \in Nat
    /\ {governor, pendingOwner} \subseteq Governors \cup {None}
    /\ owners \in OwnerLists /\ threshold \in Nat /\ slashed \subseteq Addresses
    /\ tx \in [TxIds -> TxProposal \cup {None}] /\ txCount \in 0..MaxTx
    /\ hasApproved \in [TxIds -> SUBSET Addresses] /\ reused \subseteq TxIds
    /\ dailySpent \in Int /\ dayWindowStart \in Nat
    /\ cap \in SpendingCap \cup {None}
    /\ spentThisPeriod \in [Ledgers -> Nat] /\ counted \in [Ledgers -> Nat]
    /\ stream \in [StreamIds -> BudgetStream \cup {None}] /\ streamCount \in 0..MaxStreams
    /\ ownerStreams \in [Addresses -> SUBSET StreamIds]
    /\ totals \in [streamed : Nat, spent : Nat, active : Nat]
    /\ slashMark \in [Addresses -> 0..MaxStreams]

(* The treasury was deployed and nothing is stored: what is read is what the *)
(* code takes for a missing entry.                                          *)
Init ==
    /\ seq = 0 /\ now = 0
    /\ governor = None /\ pendingOwner = None
    /\ owners = [a \in Addresses |-> 0] /\ threshold = 1 /\ slashed = {}
    /\ tx = [i \in TxIds |-> None] /\ txCount = 0
    /\ hasApproved = [i \in TxIds |-> {}] /\ reused = {}
    /\ dailySpent = 0 /\ dayWindowStart = 0
    /\ cap = None
    /\ spentThisPeriod = [l \in Ledgers |-> 0] /\ counted = [l \in Ledgers |-> 0]
    /\ stream = [s \in StreamIds |-> None] /\ streamCount = 0
    /\ ownerStreams = [a \in Addresses |-> {}]
    /\ totals = [streamed |-> 0, spent |-> 0, active |-> 0]
    /\ slashMark = [a \in Addresses |-> 0]

-----------------------------------------------------------------------------
(* Setting up and the governor.                                             *)

Size(list) == MapThenSumSet(LAMBDA a : list[a], Addresses)

is_owner(a) == owners[a] > 0

\* Transactions, approvals, the marks of slashed signers and a proposed owner
\* stay from before.
initialize(newOwners, newThreshold, newGovernor) ==
    /\ 0 < newThreshold /\ newThreshold <= Size(newOwners)
    /\ owners' = newOwners /\ threshold' = newThreshold /\ governor' = newGovernor
    /\ txCount' = 0
    /\ dailySpent' = 0 /\ dayWindowStart' = now
    /\ UNCHANGED <<pendingOwner, slashed, slashMark, tx, hasApproved, reused,
                   clock, capVars, streams>>

require_governor(caller) == caller = governor

propose_owner(caller, new) ==
    /\ require_governor(caller)
    /\ pendingOwner' = new
    /\ UNCHANGED <<clock, governor, signers, txs, daily, capVars, streams>>

accept_ownership(caller) ==
    /\ pendingOwner # None /\ caller = pendingOwner
    /\ governor' = pendingOwner /\ pendingOwner' = None
    /\ UNCHANGED <<clock, signers, txs, daily, capVars, streams>>

-----------------------------------------------------------------------------
(* Transactions of the signers.                                             *)

Pending(i) == tx[i] # None /\ ~tx[i].executed /\ ~tx[i].cancelled

is_tx_expired(i) == seq > tx[i].created_ledger + PendingExpiry

submit_internal(proposer, reserved) ==
    /\ is_owner(proposer)
    /\ txCount < MaxTx
    /\ txCount' = txCount + 1
    /\ reused' = IF tx[txCount + 1] = None THEN reused ELSE reused \cup {txCount + 1}
    /\ tx' = [tx EXCEPT ![txCount + 1] =
                [proposer |-> proposer, created_ledger |-> seq, approvals |-> 0,
                 executed |-> FALSE, cancelled |-> FALSE, reserved_amount |-> reserved]]
    /\ UNCHANGED <<hasApproved, clock, ownership, signers, capVars, streams>>

submit(proposer) == submit_internal(proposer, 0) /\ UNCHANGED daily

\* With the default settings both limits are i128::MAX; checked_add fails
\* outside of an i128.
submit_with_limit(proposer, amount) ==
    LET elapsed == now >= dayWindowStart + DayLength
        total == (IF elapsed THEN 0 ELSE dailySpent) + amount
    IN  /\ total \in I128
        /\ dailySpent' = total
        /\ dayWindowStart' = IF elapsed THEN now ELSE dayWindowStart
        /\ submit_internal(proposer, amount)

\* The call of the target that makes a transaction executed succeeds, or the
\* approval is reverted with it.
approve(approver, i) ==
    /\ is_owner(approver) /\ approver \notin hasApproved[i]
    /\ Pending(i) /\ ~is_tx_expired(i)
    /\ hasApproved' = [hasApproved EXCEPT ![i] = @ \cup {approver}]
    /\ tx' = [tx EXCEPT ![i].approvals = @ + 1,
                        ![i].executed = tx[i].approvals + 1 >= threshold]
    /\ UNCHANGED <<txCount, reused, clock, ownership, signers, daily, capVars, streams>>

\* Where checked_sub fails there is nothing left of the day's total, but it
\* fails only below the least i128, so dailySpent may get negative.
Credited(amount) ==
    IF amount <= 0 THEN dailySpent
    ELSE IF dailySpent - amount \in I128 THEN dailySpent - amount ELSE 0

cancel(caller, i) ==
    /\ (caller \in Addresses /\ is_owner(caller)) \/ require_governor(caller)
    /\ governor # None
    /\ Pending(i)
    /\ dailySpent' = Credited(tx[i].reserved_amount)
    /\ tx' = [tx EXCEPT ![i].cancelled = TRUE]
    /\ UNCHANGED <<dayWindowStart, txCount, hasApproved, reused, clock, ownership, signers,
                   capVars, streams>>

-----------------------------------------------------------------------------
(* The spending cap.                                                        *)

set_spending_cap(caller, new) ==
    /\ require_governor(caller)
    /\ cap' = new
    /\ counted' = IF cap # None /\ cap.period_ledgers = new.period_ledgers
                  THEN counted ELSE [l \in Ledgers |-> 0]
    /\ UNCHANGED <<spentThisPeriod, clock, ownership, signers, txs, daily, streams>>

period_start_for(ledger, period) == (ledger \div period) * period

check_spending_cap(amount) ==
    cap # None =>
        spentThisPeriod[period_start_for(seq, cap.period_ledgers)] + amount <= cap.max_amount

\* Mutant of PeriodKey: what is spent is entered for the ledger.
PeriodKey_ledger == seq

\* Where commit_spending_cap enters a payment.
PeriodKey == period_start_for(seq, cap.period_ledgers)

commit_spending_cap(amount) ==
    IF cap = None THEN UNCHANGED <<spentThisPeriod, counted>>
    ELSE /\ spentThisPeriod' = [spentThisPeriod EXCEPT ![PeriodKey] = @ + amount]
         /\ counted' = [counted EXCEPT ![seq] = @ + amount]

\* The recipients of a batch are paid amounts that add up to total.
batch_transfer(caller, total) ==
    /\ require_governor(caller)
    /\ check_spending_cap(total)
    /\ commit_spending_cap(total)
    /\ UNCHANGED <<cap, clock, ownership, signers, txs, daily, streams>>

-----------------------------------------------------------------------------
(* Budget streams.                                                          *)

Remaining(s) == stream[s].total_allocated - stream[s].total_spent

\* Mutant of add_stream_to_owner: the count is not advanced.
add_stream_to_owner_overwrites(owner, s) == [ownerStreams EXCEPT ![owner] = {s}]

\* Only appended to and gone through as a whole, so a set of ids.
add_stream_to_owner(owner, s) == [ownerStreams EXCEPT ![owner] = @ \cup {s}]

create_stream(caller, owner, amount, start, end, most, cooldown) ==
    /\ require_governor(caller)
    /\ end > start /\ end > seq
    /\ streamCount < MaxStreams
    /\ streamCount' = streamCount + 1
    /\ stream' = [stream EXCEPT ![streamCount + 1] =
            [owner |-> owner, total_allocated |-> amount, total_spent |-> 0,
             start_ledger |-> start, end_ledger |-> end,
             is_active |-> TRUE, is_revoked |-> FALSE, max_single_spend |-> most,
             cooldown_ledgers |-> cooldown, last_spend_ledger |-> 0, spend_count |-> 0]]
    /\ ownerStreams' = add_stream_to_owner(owner, streamCount + 1)
    /\ totals' = [totals EXCEPT !.streamed = @ + amount, !.active = @ + 1]
    /\ UNCHANGED <<clock, ownership, signers, txs, daily, capVars>>

\* What stream_spend and stream_batch_spend share: n payments, the largest of
\* them largest, that add up to total.
Spend(owner, s, total, largest, n) ==
    /\ stream[s] # None
    /\ ~stream[s].is_revoked /\ stream[s].is_active
    /\ owner = stream[s].owner /\ owner \notin slashed
    /\ stream[s].start_ledger <= seq /\ seq <= stream[s].end_ledger
    /\ largest <= stream[s].max_single_spend
    /\ total <= Remaining(s)
    /\ stream[s].cooldown_ledgers > 0 /\ stream[s].spend_count > 0
         => seq - stream[s].last_spend_ledger >= stream[s].cooldown_ledgers
    /\ check_spending_cap(total)
    /\ commit_spending_cap(total)
    /\ stream' = [stream EXCEPT ![s].total_spent = @ + total,
                                ![s].last_spend_ledger = seq,
                                ![s].spend_count = @ + n,
                                ![s].is_active = total # Remaining(s)]
    /\ totals' = [totals EXCEPT !.spent = @ + total,
                                !.active = IF total = Remaining(s) /\ @ > 0 THEN @ - 1 ELSE @]
    /\ UNCHANGED <<cap, streamCount, ownerStreams, clock, ownership, signers, txs, daily>>

stream_spend(owner, s, amount) == Spend(owner, s, amount, amount, 1)

stream_batch_spend(owner, s, a, b) ==
    Spend(owner, s, a + b, IF a > b THEN a ELSE b, 2)

\* revoke_stream_internal for the streams in ss.
RevokeAll(ss) ==
    LET live == {s \in ss : ~stream[s].is_revoked}
        n == Cardinality(live)
    IN  /\ stream' = [s \in StreamIds |->
              IF s \in live
              THEN [stream[s] EXCEPT !.is_revoked = TRUE, !.is_active = FALSE]
              ELSE stream[s]]
        /\ totals' = [totals EXCEPT !.active = IF @ > n THEN @ - n ELSE 0]
        /\ UNCHANGED <<streamCount, ownerStreams>>

revoke_stream(caller, s) ==
    /\ require_governor(caller)
    /\ stream[s] # None
    /\ RevokeAll({s})
    /\ UNCHANGED <<clock, ownership, signers, txs, daily, capVars>>

extend_stream(caller, s, end) ==
    /\ require_governor(caller)
    /\ stream[s] # None /\ ~stream[s].is_revoked
    /\ end > stream[s].end_ledger /\ end > seq
    /\ stream' = [stream EXCEPT ![s].end_ledger = end]
    /\ UNCHANGED <<streamCount, ownerStreams, totals, clock, ownership, signers, txs,
                   daily, capVars>>

\* Topping up reactivates a stream that was exhausted and has not ended.
Reactivates(s) == ~stream[s].is_active /\ seq <= stream[s].end_ledger

top_up_stream(caller, s, amount) ==
    /\ require_governor(caller)
    /\ stream[s] # None /\ ~stream[s].is_revoked
    /\ stream[s].total_allocated + amount <= MaxAmount
    /\ stream' = [stream EXCEPT ![s].total_allocated = @ + amount,
                                ![s].is_active = IF Reactivates(s) THEN TRUE ELSE @]
    /\ totals' = [totals EXCEPT !.streamed = @ + amount,
                                !.active = IF Reactivates(s) THEN @ + 1 ELSE @]
    /\ UNCHANGED <<streamCount, ownerStreams, clock, ownership, signers, txs, daily,
                   capVars>>

-----------------------------------------------------------------------------
(* Slashing.                                                                *)

\* Mutant of AdjustedThreshold: a threshold of more than the remaining owners.
AdjustedThreshold_kept(remaining) == threshold

AdjustedThreshold(remaining) ==
    IF threshold > Size(remaining) THEN Size(remaining) ELSE threshold

\* The first place the signer has among the owners goes; a second one stays.
slash_signer(caller, signer) ==
    LET remaining == [owners EXCEPT ![signer] = @ - 1]
    IN  /\ require_governor(caller)
        /\ is_owner(signer)
        /\ Size(remaining) > 0
        /\ owners' = remaining
        /\ threshold' = AdjustedThreshold(remaining)
        /\ slashed' = slashed \cup {signer}
        /\ slashMark' = [slashMark EXCEPT ![signer] = streamCount]
        /\ RevokeAll(ownerStreams[signer])
        /\ UNCHANGED <<clock, ownership, txs, daily, capVars>>

unslash_signer(caller, signer) ==
    /\ require_governor(caller)
    /\ signer \in slashed /\ ~is_owner(signer)
    /\ owners' = [owners EXCEPT ![signer] = 1]
    /\ slashed' = slashed \ {signer}
    /\ UNCHANGED <<threshold, slashMark, clock, ownership, txs, daily, capVars, streams>>

-----------------------------------------------------------------------------
CloseLedger ==
    /\ seq < MaxLedger
    /\ seq' = seq + 1
    /\ \E t \in LedgerTimes : now' = now + t
    /\ UNCHANGED <<ownership, signers, txs, daily, capVars, streams>>

\* Anyone's step.
AnyoneStep == \E n \in Initializations : initialize(n.owners, n.threshold, n.governor)

SignerStep ==
    \/ \E a \in Addresses : submit(a) \/ \E n \in Reservations : submit_with_limit(a, n)
    \/ \E i \in TxIds : \/ \E a \in Addresses : approve(a, i)
                        \/ \E c \in Addresses \cup Governors : cancel(c, i)

GovernorStep(g) ==
    \/ \E h \in Successors : propose_owner(g, h)
    \/ accept_ownership(g)
    \/ \E c \in Caps : set_spending_cap(g, c)
    \/ \E n \in Amounts : batch_transfer(g, n)
    \/ \E a \in Addresses : slash_signer(g, a) \/ unslash_signer(g, a)
    \/ \E a \in Addresses, n, most \in Amounts, start \in Starts, end \in Ends, w \in Cooldowns :
           create_stream(g, a, n, start, end, most, w)
    \/ \E s \in StreamIds : \/ revoke_stream(g, s)
                            \/ \E end \in Ends : extend_stream(g, s, end)
                            \/ \E n \in Amounts : top_up_stream(g, s, n)

DepartmentStep ==
    \E a \in Addresses, s \in StreamIds :
        \/ \E n \in Amounts : stream_spend(a, s, n)
        \/ \E m, n \in Amounts : stream_batch_spend(a, s, m, n)

Next ==
    \/ CloseLedger \/ AnyoneStep \/ SignerStep
    \/ \E g \in Governors : GovernorStep(g)
    \/ DepartmentStep

Spec == Init /\ [][Next]_vars

-----------------------------------------------------------------------------
(* Properties.                                                              *)

Distinct(list) == \A a \in Addresses : list[a] <= 1

(* However signers are slashed and restored while approvals are being       *)
(* collected, and whoever is made owner by another initialize, a pending    *)
(* transaction never needs more approvals than those it has and those of    *)
(* the owners who have yet to approve, as long as no owner is listed twice   *)
(* and the id of the transaction was not that of an earlier one, whose      *)
(* approvals would count against it (slash_signer lowers the threshold with *)
(* the number of owners, and the approvals of former signers stay).         *)
EnoughSigners ==
    \A i \in TxIds \ reused : Pending(i) /\ Distinct(owners) =>
        tx[i].approvals + Cardinality({a \in Addresses : is_owner(a)} \ hasApproved[i])
            >= threshold

(* A signer who was slashed gets none of the streams back that existed at   *)
(* that time, also after having been restored and whatever top-ups and      *)
(* extensions the governor makes (slash_signer revokes the streams listed   *)
(* for their owner).                                                        *)
SlashRevokes ==
    \A s \in 1..streamCount : s <= slashMark[stream[s].owner] => stream[s].is_revoked

PeriodLedgers(l) ==
    {k \in Ledgers : period_start_for(k, cap.period_ledgers)
                       = period_start_for(l, cap.period_ledgers)}

(* A payment, by a batch transfer or out of any stream, never brings what   *)
(* was paid in the running period, since the cap has that period, above the *)
(* cap (check_spending_cap, commit_spending_cap).                           *)
CapKept ==
    [][counted' # counted /\ cap' = cap
         => MapThenSumSet(LAMBDA l : counted'[l], PeriodLedgers(seq)) <= cap.max_amount]_vars
=============================================================================
