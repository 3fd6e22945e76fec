------------------------------ MODULE Timelock ------------------------------
(***************************************************************************)
(* The timelock contract (contracts/timelock/src/lib.rs): operations and   *)
(* batches wait out a delay, may then be executed inside a window, after    *)
(* the operations they depend on, and a batch may be executed partially     *)
(* and recovered call by call.                                              *)
(*                                                                         *)
(* A contract call is one transaction: it runs to the end or, when an       *)
(* assertion or a callee fails, changes nothing.  Every entry point is      *)
(* therefore one action, its guard the checks of the entry point.           *)
(*                                                                         *)
(* Abstractions:                                                           *)
(*  - ids are SHA-256 hashes of everything that is stored under them except *)
(*    the delay; they are model values, and a batch scheduled again under   *)
(*    the id it had keeps its predecessor and its calls;                    *)
(*  - Operation(id) and BatchOperation(id) are one table, the two kinds of  *)
(*    id being disjoint; the single predecessor of schedule and             *)
(*    schedule_batch and the list of schedule_with_deps are one set;        *)
(*  - a call to a target is one of Calls(id); whether the callee fails or   *)
(*    answers with a value is its own business, a nondeterministic choice;  *)
(*  - storage lifetimes and events are left out.                            *)
(***************************************************************************)
EXTENDS Integers, FiniteSets

CONSTANTS
    OpIds,           \* ids of single operations
    BatchIds,        \* ids of batches
    Subs,            \* positions of the calls of a batch
    Callers,         \* addresses that may call the contract
    Governor, Admin, \* the two roles fixed by initialize
    Delays,          \* delays a caller may ask for (seconds)
    Windows,         \* execution windows a caller may ask for (seconds)
    LedgerTimes,     \* seconds between two ledger closes
    RecoveryLedgers, \* ledgers a partial batch may be retried for (100_000)
    MaxTime,         \* bound on the clock
    MaxLedger,       \* bound on the ledger sequence number
    MaxRuns,         \* bound on how often the calls of a batch are repeated
    MaxRetries,      \* bound on the retry counters
    None             \* no entry in storage

Ids == OpIds \cup BatchIds

ASSUME IdsAssumption == OpIds \cap BatchIds = {}
ASSUME RolesAssumption == Governor \in Callers /\ Admin \in Callers
ASSUME NumbersAssumption ==
    /\ Delays \subseteq Nat /\ Windows \subseteq Nat /\ LedgerTimes \subseteq Nat
    /\ RecoveryLedgers \in Nat /\ MaxTime \in Nat /\ MaxLedger \in Nat
    /\ MaxRuns \in Nat /\ MaxRetries \in Nat

VARIABLES
    now,       \* ledger timestamp
    seq,       \* ledger sequence number
    minDelay,  \* DataKey::MinDelay
    window,    \* DataKey::ExecutionWindow
    entry,     \* DataKey::Operation, BatchOperation, OperationPredecessors
    partial,   \* DataKey::PartialBatchState
    retries,   \* DataKey::FailedOpRetryCount
    runs       \* history: how often each call has taken effect

clock == <<now, seq>>
config == <<minDelay, window>>
vars == <<now, seq, minDelay, window, entry, partial, retries, runs>>

\* The calls that executing id makes: a batch makes one per position, and
\* hash_op_in_batch gives each an id of its own.
Calls(id) == IF id \in OpIds THEN {<<id, 0>>} ELSE {id} \X Subs

AllCalls == UNION {Calls(id) : id \in Ids}

Entry == [ready_at : Nat, expires_at : Nat, executed : BOOLEAN,
          cancelled : BOOLEAN, predecessors : SUBSET Ids]

PartialBatchState == [completed : SUBSET AllCalls, failed : SUBSET AllCalls,
                      recovery_mode : BOOLEAN, recovery_deadline : Nat]

ASSUME NoneAssumption == None \notin Entry /\ None \notin PartialBatchState

TypeOK ==
    /\ now \in Nat /\ seq \in Nat
    /\ minDelay \in Nat /\ window \in Nat
    /\ entry \in [Ids -> Entry \cup {None}]
    /\ partial \in [BatchIds -> PartialBatchState \cup {None}]
    /\ retries \in [AllCalls -> Nat]
    /\ runs \in [AllCalls -> Nat]

-----------------------------------------------------------------------------
(* Helpers of the contract.                                                *)

Exists(id) == entry[id] # None
is_done(id) == id \in OpIds /\ Exists(id) /\ entry[id].executed
is_batch_done(id) == id \in BatchIds /\ Exists(id) /\ entry[id].executed
all_predecessors_done(id) ==
    \A p \in entry[id].predecessors : is_done(p) \/ is_batch_done(p)
require_governor(caller) == caller = Governor

\* The guard shared by execute, execute_batch and execute_batch_partial.
Executable(id) ==
    /\ Exists(id)
    /\ ~entry[id].executed /\ ~entry[id].cancelled
    /\ now >= entry[id].ready_at
    /\ now <= entry[id].expires_at
    /\ all_predecessors_done(id)

\* The calls in cs take effect.
Invoke(cs) == runs' = [c \in AllCalls |-> IF c \in cs THEN runs[c] + 1 ELSE runs[c]]

NewEntry(delay, preds) ==
    [ready_at |-> now + delay, expires_at |-> now + delay + window,
     executed |-> FALSE, cancelled |-> FALSE, predecessors |-> preds]

-----------------------------------------------------------------------------
Init ==
    /\ now = 0 /\ seq = 0
    /\ minDelay \in Delays /\ window \in Windows
    /\ entry = [id \in Ids |-> None]
    /\ partial = [b \in BatchIds |-> None]
    /\ retries = [c \in AllCalls |-> 0]
    /\ runs = [c \in AllCalls |-> 0]

\* What schedule and schedule_with_deps have in common: every predecessor
\* exists already, the delay is long enough, the operation is not yet stored.
ScheduleOperation(o, delay, preds) ==
    /\ \A p \in preds : Exists(p)
    /\ delay >= minDelay
    /\ ~Exists(o)
    /\ entry' = [entry EXCEPT ![o] = NewEntry(delay, preds)]
    /\ UNCHANGED <<clock, config, partial, retries, runs>>

\* Mutant of schedule: no "operation already scheduled".
schedule_overwriting(caller, o, delay, preds) ==
    /\ require_governor(caller)
    /\ Cardinality(preds) <= 1
    /\ \A p \in preds : Exists(p)
    /\ delay >= minDelay
    /\ entry' = [entry EXCEPT ![o] = NewEntry(delay, preds)]
    /\ UNCHANGED <<clock, config, partial, retries, runs>>

\* One predecessor or none.
schedule(caller, o, delay, preds) ==
    /\ require_governor(caller)
    /\ Cardinality(preds) <= 1
    /\ ScheduleOperation(o, delay, preds)

\* Mutant of schedule_with_deps: the entry is stored before the predecessors
\* are validated.
schedule_with_deps_validating_late(caller, o, delay, preds) ==
    /\ require_governor(caller)
    /\ \A p \in preds : p = o \/ Exists(p)
    /\ delay >= minDelay
    /\ ~Exists(o)
    /\ entry' = [entry EXCEPT ![o] = NewEntry(delay, preds)]
    /\ UNCHANGED <<clock, config, partial, retries, runs>>

\* A list of predecessors.
schedule_with_deps(caller, o, delay, preds) ==
    /\ require_governor(caller)
    /\ ScheduleOperation(o, delay, preds)

\* schedule_batch writes the entry without looking whether there is one; the
\* id of an entry that exists fixes its predecessor.
schedule_batch(caller, b, delay, preds) ==
    /\ require_governor(caller)
    /\ Cardinality(preds) <= 1
    /\ \A p \in preds : Exists(p)
    /\ delay >= minDelay
    /\ Exists(b) => entry[b].predecessors = preds
    /\ entry' = [entry EXCEPT ![b] = NewEntry(delay, preds)]
    /\ UNCHANGED <<clock, config, partial, retries, runs>>

\* Every call of id succeeds, or the transaction reverts.
ExecuteAll(id) ==
    /\ Executable(id)
    /\ \A c \in Calls(id) : runs[c] < MaxRuns
    /\ entry' = [entry EXCEPT ![id].executed = TRUE]
    /\ Invoke(Calls(id))
    /\ UNCHANGED <<clock, config, partial, retries>>

execute(caller, o) == require_governor(caller) /\ ExecuteAll(o)

execute_batch(caller, b) == require_governor(caller) /\ ExecuteAll(b)

\* What execute_batch_partial leaves behind when the calls in bad failed; of
\* these, valued have answered with a value, and taken effect.
Recorded(b, bad, valued) ==
    /\ partial' = [partial EXCEPT ![b] =
                     [completed |-> Calls(b) \ bad, failed |-> bad,
                      recovery_mode |-> bad # {},
                      recovery_deadline |-> seq + RecoveryLedgers]]
    /\ Invoke((Calls(b) \ bad) \cup valued)
    /\ UNCHANGED <<clock, config, retries>>

\* Mutant of execute_batch_partial: the batch is marked executed even when
\* some of its calls failed.
execute_batch_partial_marking(caller, b, bad, valued) ==
    /\ require_governor(caller)
    /\ Executable(b)
    /\ \A c \in Calls(b) : runs[c] < MaxRuns
    /\ entry' = [entry EXCEPT ![b].executed = TRUE]
    /\ Recorded(b, bad, valued)

\* Each call of the batch is tried on its own; bad are those that are recorded
\* as failed: the ones that did fail, and the ones that did what they are for
\* but answered with something else than the unit value (try_invoke_contract
\* is asked for one; execute and execute_batch take any value).
execute_batch_partial(caller, b, bad, valued) ==
    /\ require_governor(caller)
    /\ Executable(b)
    /\ \A c \in Calls(b) : runs[c] < MaxRuns
    /\ entry' = [entry EXCEPT ![b].executed = (bad = {})]
    /\ Recorded(b, bad, valued)

\* A failed call is made again; if it fails again, or answers with a value,
\* the transaction reverts.
retry_failed_operation(caller, b, c) ==
    /\ require_governor(caller)
    /\ partial[b] # None
    /\ partial[b].recovery_mode
    /\ seq < partial[b].recovery_deadline
    /\ c \in partial[b].failed
    /\ runs[c] < MaxRuns
    /\ retries[c] < MaxRetries
    /\ retries' = [retries EXCEPT ![c] = @ + 1]
    /\ partial' = [partial EXCEPT ![b] =
                     [completed |-> @.completed \cup {c}, failed |-> @.failed \ {c},
                      recovery_mode |-> @.failed # {c},
                      recovery_deadline |-> @.recovery_deadline]]
    /\ Invoke({c})
    /\ UNCHANGED <<clock, config, entry>>

\* Mutant of skip_failed_operation: recovery mode is never left.
skip_failed_operation_staying(caller, b, c) ==
    /\ require_governor(caller)
    /\ partial[b] # None
    /\ c \in partial[b].failed
    /\ partial' = [partial EXCEPT ![b].failed = @ \ {c}]
    /\ UNCHANGED <<clock, config, entry, retries, runs>>

skip_failed_operation(caller, b, c) ==
    /\ require_governor(caller)
    /\ partial[b] # None
    /\ c \in partial[b].failed
    /\ partial' = [partial EXCEPT ![b] =
                     [completed |-> @.completed, failed |-> @.failed \ {c},
                      recovery_mode |-> @.recovery_mode /\ @.failed # {c},
                      recovery_deadline |-> @.recovery_deadline]]
    /\ UNCHANGED <<clock, config, entry, retries, runs>>

\* Mutant of cancel: an executed operation can be cancelled.
cancel_executed(caller, id) ==
    /\ caller \in {Admin, Governor}
    /\ Exists(id)
    /\ ~entry[id].cancelled
    /\ entry' = [entry EXCEPT ![id].cancelled = TRUE]
    /\ UNCHANGED <<clock, config, partial, retries, runs>>

cancel(caller, id) ==
    /\ caller \in {Admin, Governor}
    /\ Exists(id)
    /\ ~entry[id].executed /\ ~entry[id].cancelled
    /\ entry' = [entry EXCEPT ![id].cancelled = TRUE]
    /\ UNCHANGED <<clock, config, partial, retries, runs>>

update_delay(caller, d) ==
    /\ caller = Admin
    /\ minDelay' = d
    /\ UNCHANGED <<clock, window, entry, partial, retries, runs>>

update_execution_window(caller, w) ==
    /\ caller = Admin
    /\ window' = w
    /\ UNCHANGED <<clock, minDelay, entry, partial, retries, runs>>

update_min_delay(caller, d) ==
    /\ require_governor(caller)
    /\ d > 0
    /\ minDelay' = d
    /\ UNCHANGED <<clock, window, entry, partial, retries, runs>>

\* A ledger closes: the network, not the contract.
CloseLedger(dt) ==
    /\ now + dt <= MaxTime /\ seq < MaxLedger
    /\ now' = now + dt /\ seq' = seq + 1
    /\ UNCHANGED <<config, entry, partial, retries, runs>>

CallerStep(caller) ==
    \/ \E o \in OpIds, d \in Delays, preds \in SUBSET Ids : schedule(caller, o, d, preds)
    \/ \E o \in OpIds, d \in Delays, preds \in SUBSET Ids :
          schedule_with_deps(caller, o, d, preds)
    \/ \E o \in OpIds : execute(caller, o)
    \/ \E b \in BatchIds : execute_batch(caller, b)
    \/ \E id \in Ids : cancel(caller, id)
    \/ \E b \in BatchIds : \E bad \in SUBSET Calls(b) : \E valued \in SUBSET bad :
          execute_batch_partial(caller, b, bad, valued)
    \/ \E b \in BatchIds, c \in AllCalls : retry_failed_operation(caller, b, c)
    \/ \E b \in BatchIds, c \in AllCalls : skip_failed_operation(caller, b, c)
    \/ \E d \in Delays : update_delay(caller, d)
    \/ \E w \in Windows : update_execution_window(caller, w)
    \/ \E d \in Delays : update_min_delay(caller, d)

Next ==
    \/ \E caller \in Callers : CallerStep(caller)
    \/ \E caller \in Callers, b \in BatchIds, d \in Delays, preds \in SUBSET Ids :
          schedule_batch(caller, b, d, preds)
    \/ \E dt \in LedgerTimes : CloseLedger(dt)

Spec == Init /\ [][Next]_vars

\* What the NebGov governor adds: the salt of a batch is the id of its
\* proposal, so no batch id is scheduled a second time.
SaltedNext ==
    \/ \E caller \in Callers : CallerStep(caller)
    \/ \E caller \in Callers, b \in BatchIds, d \in Delays, preds \in SUBSET Ids :
          ~Exists(b) /\ schedule_batch(caller, b, d, preds)
    \/ \E dt \in LedgerTimes : CloseLedger(dt)

SaltedSpec == Init /\ [][SaltedNext]_vars

-----------------------------------------------------------------------------
(* Properties.                                                             *)

Touched(id) == \E c \in Calls(id) : runs[c] > 0

\* A single operation takes effect exactly once if it is marked executed and
\* never otherwise, and it is never both executed and cancelled, whatever is
\* scheduled, retried, skipped or cancelled around it (execute, schedule,
\* cancel).
SingleOpExactlyOnce ==
    \A o \in OpIds :
        /\ runs[<<o, 0>>] = IF is_done(o) THEN 1 ELSE 0
        /\ Exists(o) => ~(entry[o].executed /\ entry[o].cancelled)

\* No call of an operation or batch takes effect before every call of every
\* operation it depends on has: neither a partial execution, nor a retry from
\* a recovery state older than the entry, nor the reset of a predecessor gets
\* around the order (all_predecessors_done, execute_batch_partial).
EffectsRespectDependencies ==
    \A id \in Ids : Exists(id) /\ Touched(id) =>
        \A p \in entry[id].predecessors : \A c \in Calls(p) : runs[c] > 0

\* The dependencies never form a cycle, over any number of schedulings: no set
\* of operations has each of its members waiting for another of them, which
\* none of them could ever be executed out of (validate_predecessor).
DependenciesAcyclic ==
    \A S \in SUBSET {id \in Ids : Exists(id)} :
        S # {} => \E id \in S : entry[id].predecessors \cap S = {}

\* The recovery state of a batch agrees with what happened: it is in recovery
\* exactly while some call is failed, no call is both failed and completed,
\* and what it calls completed has taken effect (execute_batch_partial,
\* retry_failed_operation, skip_failed_operation).
RecoveryBookkeeping ==
    \A b \in BatchIds : partial[b] # None =>
        /\ partial[b].recovery_mode <=> partial[b].failed # {}
        /\ partial[b].failed \cap partial[b].completed = {}
        /\ \A c \in partial[b].completed : runs[c] > 0

StatusOf(id) ==
    IF ~Exists(id) THEN "unknown"
    ELSE IF entry[id].cancelled THEN "cancelled"
    ELSE IF entry[id].executed THEN "executed" ELSE "waiting"

Lifecycle == INSTANCE OperationLifecycle WITH
    status <- [id \in Ids |-> StatusOf(id)],
    requires <- [id \in Ids |-> IF Exists(id) THEN entry[id].predecessors ELSE {}]

\* When batch ids are not reused, the timelock implements the abstract life
\* cycle: one scheduling, dependencies first, executed and cancelled final
\* (docs/timelock.md, "Operation lifecycle").
ImplementsLifecycle == Lifecycle!Spec
=============================================================================
