--------------------------- MODULE TimelockProofs ---------------------------
(***************************************************************************)
(* Proofs about Timelock, for every set of ids, calls and callers.          *)
(***************************************************************************)
EXTENDS Timelock, TLAPS

(* The calls of an id are calls, and two ids share none.                    *)
LEMMA CallsFacts ==
    /\ \A id \in Ids : Calls(id) \subseteq AllCalls
    /\ \A i, j \in Ids : i # j => Calls(i) \cap Calls(j) = {}
    /\ \A o \in OpIds : Calls(o) = {<<o, 0>>}
    /\ \A c \in AllCalls : \E id \in Ids : c \in Calls(id)
  <1>1. \A id \in Ids : Calls(id) \subseteq AllCalls
    BY DEF AllCalls
  <1>2. \A i, j \in Ids : i # j => Calls(i) \cap Calls(j) = {}
    BY DEF Calls
  <1>3. \A o \in OpIds : Calls(o) = {<<o, 0>>}
    BY DEF Calls
  <1>4. \A c \in AllCalls : \E id \in Ids : c \in Calls(id)
    BY DEF AllCalls
  <1>5. QED
    BY <1>1, <1>2, <1>3, <1>4

(* A new entry is an entry.                                                 *)
LEMMA NewEntryType ==
    ASSUME TypeOK, NEW delay \in Nat, NEW preds \in SUBSET Ids
    PROVE  NewEntry(delay, preds) \in Entry
  BY DEF TypeOK, NewEntry, Entry

(* Initially the types are right.                                           *)
LEMMA TypeInit == Init => TypeOK
  BY NumbersAssumption DEF Init, TypeOK

(* Every step of every entry point keeps the types right.                   *)
LEMMA TypeStep == TypeOK /\ [Next]_vars => TypeOK'
  <1> SUFFICES ASSUME TypeOK, [Next]_vars PROVE TypeOK'
    OBVIOUS
  <1> USE NumbersAssumption
  <1>1. ASSUME NEW o \in OpIds, NEW d \in Delays, NEW preds \in SUBSET Ids,
               ScheduleOperation(o, d, preds)
        PROVE  TypeOK'
    <2>1. NewEntry(d, preds) \in Entry
      BY NewEntryType
    <2>2. QED
      BY <1>1, <2>1 DEF ScheduleOperation, TypeOK, clock, config, Ids
  <1>2. ASSUME NEW caller \in Callers, NEW b \in BatchIds, NEW d \in Delays,
               NEW preds \in SUBSET Ids, schedule_batch(caller, b, d, preds)
        PROVE  TypeOK'
    <2>1. NewEntry(d, preds) \in Entry
      BY NewEntryType
    <2>2. QED
      BY <1>2, <2>1 DEF schedule_batch, TypeOK, clock, config, Ids
  <1>3. ASSUME NEW id \in Ids, ExecuteAll(id)
        PROVE  TypeOK'
    <2>1. entry[id] \in Entry
      BY <1>3 DEF ExecuteAll, Executable, Exists, TypeOK
    <2>2. [entry[id] EXCEPT !.executed = TRUE] \in Entry
      BY <2>1 DEF Entry
    <2>3. entry' \in [Ids -> Entry \cup {None}]
      BY <1>3, <2>2 DEF ExecuteAll, TypeOK
    <2>4. runs' \in [AllCalls -> Nat]
      BY <1>3 DEF ExecuteAll, Invoke, TypeOK
    <2>5. QED
      BY <1>3, <2>3, <2>4 DEF ExecuteAll, TypeOK, clock, config
  <1>4. ASSUME NEW caller \in Callers, NEW b \in BatchIds, NEW bad \in SUBSET Calls(b),
               NEW valued \in SUBSET bad, execute_batch_partial(caller, b, bad, valued)
        PROVE  TypeOK'
    <2> b \in Ids
      BY DEF Ids
    <2>1. entry' \in [Ids -> Entry \cup {None}]
      <3>1. entry[b] \in Entry
        BY <1>4 DEF execute_batch_partial, Executable, Exists, TypeOK
      <3>2. [entry[b] EXCEPT !.executed = (bad = {})] \in Entry
        BY <3>1 DEF Entry
      <3>3. QED
        BY <1>4, <3>2 DEF execute_batch_partial, TypeOK
    <2>2. partial' \in [BatchIds -> PartialBatchState \cup {None}]
      <3>1. Calls(b) \ bad \in SUBSET AllCalls /\ bad \in SUBSET AllCalls
        BY CallsFacts
      <3>2. seq + RecoveryLedgers \in Nat
        BY DEF TypeOK
      <3>3. QED
        BY <1>4, <3>1, <3>2 DEF execute_batch_partial, Recorded, TypeOK, PartialBatchState
    <2>3. runs' \in [AllCalls -> Nat]
      BY <1>4 DEF execute_batch_partial, Recorded, Invoke, TypeOK
    <2>4. QED
      BY <1>4, <2>1, <2>2, <2>3 DEF execute_batch_partial, Recorded, TypeOK, clock, config
  <1>5. ASSUME NEW caller \in Callers, NEW b \in BatchIds, NEW c \in AllCalls,
               retry_failed_operation(caller, b, c)
        PROVE  TypeOK'
    <2>1. partial' \in [BatchIds -> PartialBatchState \cup {None}]
      <3>1. partial[b] \in PartialBatchState
        BY <1>5 DEF retry_failed_operation, TypeOK
      <3>2. [completed |-> partial[b].completed \cup {c},
             failed |-> partial[b].failed \ {c},
             recovery_mode |-> partial[b].failed # {c},
             recovery_deadline |-> partial[b].recovery_deadline] \in PartialBatchState
        BY <3>1 DEF PartialBatchState
      <3>3. QED
        BY <1>5, <3>2 DEF retry_failed_operation, TypeOK
    <2>2. QED
      BY <1>5, <2>1 DEF retry_failed_operation, Invoke, TypeOK, clock, config
  <1>6. ASSUME NEW caller \in Callers, NEW b \in BatchIds, NEW c \in AllCalls,
               skip_failed_operation(caller, b, c)
        PROVE  TypeOK'
    <2>1. partial' \in [BatchIds -> PartialBatchState \cup {None}]
      <3>1. partial[b] \in PartialBatchState
        BY <1>6 DEF skip_failed_operation, TypeOK
      <3>2. [completed |-> partial[b].completed,
             failed |-> partial[b].failed \ {c},
             recovery_mode |-> partial[b].recovery_mode /\ partial[b].failed # {c},
             recovery_deadline |-> partial[b].recovery_deadline] \in PartialBatchState
        BY <3>1 DEF PartialBatchState
      <3>3. QED
        BY <1>6, <3>2 DEF skip_failed_operation, TypeOK
    <2>2. QED
      BY <1>6, <2>1 DEF skip_failed_operation, TypeOK, clock, config
  <1>7. ASSUME NEW caller \in Callers, NEW id \in Ids, cancel(caller, id)
        PROVE  TypeOK'
    BY <1>7 DEF cancel, Exists, TypeOK, clock, config, Entry
  <1>8. ASSUME NEW caller \in Callers, NEW d \in Delays,
               update_delay(caller, d) \/ update_min_delay(caller, d)
        PROVE  TypeOK'
    BY <1>8 DEF update_delay, update_min_delay, TypeOK, clock
  <1>12. ASSUME NEW caller \in Callers, NEW w \in Windows,
                update_execution_window(caller, w)
         PROVE  TypeOK'
    BY <1>12 DEF update_execution_window, TypeOK, clock
  <1>9. ASSUME NEW dt \in LedgerTimes, CloseLedger(dt)
        PROVE  TypeOK'
    BY <1>9 DEF CloseLedger, TypeOK, config
  <1>10. CASE UNCHANGED vars
    BY <1>10 DEF TypeOK, vars
  <1>11. QED
    BY <1>1, <1>2, <1>3, <1>4, <1>5, <1>6, <1>7, <1>8, <1>9, <1>10, <1>12
       DEF Next, CallerStep, schedule, schedule_with_deps, execute, execute_batch, Ids

(* The state of the timelock is always well typed: no entry point stores a  *)
(* malformed operation, batch or recovery state.                            *)
THEOREM TypeCorrect == Spec => []TypeOK
  BY TypeInit, TypeStep, PTL DEF Spec

-----------------------------------------------------------------------------
(***************************************************************************)
(* The safety invariants.  None of them is inductive alone: what has taken  *)
(* effect is tied to the entries, to the predecessors of the entries and to *)
(* the recovery states, and the recovery states outlive a rescheduling.     *)
(***************************************************************************)

\* Predecessors are stored, and only stored ids have taken effect.
StoredFirst ==
    \A id \in Ids :
        /\ Exists(id) => \A p \in entry[id].predecessors : Exists(p)
        /\ Touched(id) => Exists(id)

\* An executed entry has made all its calls.
DoneHasRun ==
    \A id \in Ids : Exists(id) /\ entry[id].executed
        => \A c \in Calls(id) : runs[c] > 0

\* A recovery state is about the calls of a stored batch.
RecoveryOwn ==
    \A b \in BatchIds : partial[b] # None =>
        /\ Exists(b)
        /\ partial[b].completed \subseteq Calls(b)
        /\ partial[b].failed \subseteq Calls(b)

\* A batch was only tried after its predecessors had run.
RecoveryAfterPredecessors ==
    \A b \in BatchIds : partial[b] # None =>
        \A p \in entry[b].predecessors : \A c \in Calls(p) : runs[c] > 0

IndInv ==
    /\ TypeOK
    /\ StoredFirst
    /\ DoneHasRun
    /\ RecoveryOwn
    /\ RecoveryAfterPredecessors
    /\ SingleOpExactlyOnce
    /\ EffectsRespectDependencies
    /\ DependenciesAcyclic
    /\ RecoveryBookkeeping

(***************************************************************************)
(* What any step does, in terms that the invariants can be proved from.     *)
(***************************************************************************)

\* An entry is never removed and keeps its predecessors; those of a new entry
\* were stored before it.
EntriesStep ==
    \A id \in Ids :
        /\ Exists(id) => /\ Exists(id)'
                         /\ entry'[id].predecessors = entry[id].predecessors
        /\ Exists(id)' /\ ~Exists(id) =>
              \A p \in entry'[id].predecessors : Exists(p)

\* Calls are never undone, and a call is made for an entry whose predecessors
\* are done or as the retry of a failed call.
RunsStep ==
    /\ \A c \in AllCalls : runs'[c] >= runs[c]
    /\ \A id \in Ids : \A c \in Calls(id) : runs'[c] > runs[c] =>
          /\ Exists(id)
          /\ \/ all_predecessors_done(id)
             \/ id \in BatchIds /\ partial[id] # None

\* An entry becomes executed by making all its calls.
ExecutedStep ==
    \A id \in Ids : Exists(id)' /\ entry'[id].executed =>
        \/ Exists(id) /\ entry[id].executed
        \/ \A c \in Calls(id) : runs'[c] > 0

\* A recovery state is written for a stored batch with its predecessors done.
RecoveryStep ==
    \A b \in BatchIds : partial'[b] # None =>
        \/ partial[b] # None
        \/ Exists(b) /\ all_predecessors_done(b)

\* The life of a single operation.
OpStep(o) ==
    \/ entry'[o] = entry[o] /\ runs'[<<o, 0>>] = runs[<<o, 0>>]
    \/ /\ ~Exists(o) /\ Exists(o)' /\ ~entry'[o].executed
       /\ runs'[<<o, 0>>] = runs[<<o, 0>>]
    \/ /\ Exists(o) /\ ~entry[o].executed /\ ~entry[o].cancelled
       /\ Exists(o)' /\ entry'[o].executed /\ ~entry'[o].cancelled
       /\ runs'[<<o, 0>>] = runs[<<o, 0>>] + 1
    \/ /\ Exists(o) /\ ~entry[o].executed
       /\ Exists(o)' /\ ~entry'[o].executed
       /\ runs'[<<o, 0>>] = runs[<<o, 0>>]

StepFacts ==
    /\ EntriesStep /\ RunsStep /\ ExecutedStep /\ RecoveryStep
    /\ \A o \in OpIds : OpStep(o)
    /\ RecoveryOwn' /\ RecoveryBookkeeping'

\* A step that only writes the entry of one id, as scheduling does.
StoreStep(id, delay, preds) ==
    /\ \A p \in preds : Exists(p)
    /\ Exists(id) => id \in BatchIds /\ entry[id].predecessors = preds
    /\ entry' = [entry EXCEPT ![id] = NewEntry(delay, preds)]
    /\ UNCHANGED <<partial, runs>>

(* Storing a fresh entry, or a batch's entry again, is such a step.         *)
LEMMA StoreFacts ==
    ASSUME TypeOK, RecoveryOwn, RecoveryBookkeeping,
           NEW id \in Ids, NEW delay \in Nat, NEW preds \in SUBSET Ids,
           StoreStep(id, delay, preds)
    PROVE  StepFacts
  <1> DEFINE e == NewEntry(delay, preds)
  <1>1. e \in Entry /\ e # None /\ e.predecessors = preds /\ e.executed = FALSE
    BY NewEntryType, NoneAssumption DEF NewEntry
  <1>2. entry'[id] = e /\ \A j \in Ids \ {id} : entry'[j] = entry[j]
    BY DEF StoreStep, TypeOK
  <1> HIDE DEF e
  <1>3. EntriesStep
    BY <1>1, <1>2 DEF EntriesStep, Exists, StoreStep
  <1>4. RunsStep
    BY CallsFacts DEF RunsStep, StoreStep, TypeOK
  <1>5. ExecutedStep
    BY <1>1, <1>2 DEF ExecutedStep, Exists
  <1>6. RecoveryStep
    BY DEF RecoveryStep, StoreStep
  <1>7. ASSUME NEW o \in OpIds PROVE OpStep(o)
    <2>1. o \in Ids
      BY DEF Ids
    <2>2. CASE o = id
      BY <1>1, <1>2, <2>2, IdsAssumption DEF OpStep, StoreStep, Exists
    <2>3. CASE o # id
      BY <1>2, <2>1, <2>3 DEF OpStep, StoreStep
    <2>4. QED
      BY <2>2, <2>3
  <1>8. RecoveryOwn'
    <2>1. \A b \in BatchIds : Exists(b) => Exists(b)'
      BY <1>3 DEF EntriesStep, Ids
    <2>2. QED
      BY <2>1 DEF RecoveryOwn, StoreStep
  <1>9. RecoveryBookkeeping'
    BY DEF RecoveryBookkeeping, StoreStep
  <1>10. QED
    BY <1>3, <1>4, <1>5, <1>6, <1>7, <1>8, <1>9 DEF StepFacts

(* Running all calls of an executable entry is such a step.                 *)
LEMMA ExecuteFacts ==
    ASSUME TypeOK, RecoveryOwn, RecoveryBookkeeping, NEW id \in Ids, ExecuteAll(id)
    PROVE  StepFacts
  <1>1. /\ entry[id] \in Entry /\ Exists(id)
        /\ ~entry[id].executed /\ ~entry[id].cancelled /\ all_predecessors_done(id)
    BY DEF ExecuteAll, Executable, Exists, TypeOK
  <1> DEFINE e == [entry[id] EXCEPT !.executed = TRUE]
  <1>2. /\ e \in Entry /\ e # None /\ e.predecessors = entry[id].predecessors
        /\ e.executed = TRUE /\ e.cancelled = entry[id].cancelled
    BY <1>1, NoneAssumption DEF Entry
  <1>3. entry'[id] = e /\ \A j \in Ids \ {id} : entry'[j] = entry[j]
    BY DEF ExecuteAll, TypeOK
  <1>4. /\ \A c \in Calls(id) : runs'[c] = runs[c] + 1
        /\ \A c \in AllCalls \ Calls(id) : runs'[c] = runs[c]
        /\ \A c \in AllCalls : runs[c] \in Nat
    BY CallsFacts DEF ExecuteAll, Invoke, TypeOK
  <1>5. partial' = partial
    BY DEF ExecuteAll
  <1> HIDE DEF e
  <1>6. EntriesStep
    BY <1>1, <1>2, <1>3 DEF EntriesStep, Exists
  <1>7. RunsStep
    <2>1. \A j \in Ids : \A c \in Calls(j) : runs'[c] > runs[c] => j = id
      BY <1>4, CallsFacts
    <2>2. QED
      BY <1>1, <1>4, <2>1 DEF RunsStep
  <1>8. ExecutedStep
    BY <1>2, <1>3, <1>4, CallsFacts DEF ExecutedStep, Exists
  <1>9. RecoveryStep
    BY <1>5 DEF RecoveryStep
  <1>10. ASSUME NEW o \in OpIds PROVE OpStep(o)
    <2>1. o \in Ids /\ <<o, 0>> \in Calls(o) /\ <<o, 0>> \in AllCalls
      BY CallsFacts DEF Ids
    <2>2. CASE o = id
      BY <1>1, <1>2, <1>3, <1>4, <2>1, <2>2 DEF OpStep, Exists
    <2>3. CASE o # id
      <3>1. <<o, 0>> \notin Calls(id)
        BY <2>1, <2>3, CallsFacts
      <3>2. QED
        BY <1>3, <1>4, <2>1, <2>3, <3>1 DEF OpStep
    <2>4. QED
      BY <2>2, <2>3
  <1>11. RecoveryOwn'
    <2>1. \A b \in BatchIds : Exists(b) => Exists(b)'
      BY <1>6 DEF EntriesStep, Ids
    <2>2. QED
      BY <1>5, <2>1 DEF RecoveryOwn
  <1>12. RecoveryBookkeeping'
    <2>1. \A b \in BatchIds : partial[b] # None => partial[b].completed \subseteq AllCalls
      BY CallsFacts DEF RecoveryOwn, Ids
    <2>2. QED
      BY <1>4, <1>5, <2>1 DEF RecoveryBookkeeping
  <1>13. QED
    BY <1>6, <1>7, <1>8, <1>9, <1>10, <1>11, <1>12 DEF StepFacts

(* Trying the calls of a batch one by one is such a step.                   *)
LEMMA PartialFacts ==
    ASSUME TypeOK, RecoveryOwn, RecoveryBookkeeping, NEW caller \in Callers,
           NEW b \in BatchIds, NEW bad \in SUBSET Calls(b),
           NEW valued \in SUBSET bad, execute_batch_partial(caller, b, bad, valued)
    PROVE  StepFacts
  <1> DEFINE good == Calls(b) \ bad
             done == good \cup valued
             e == [entry[b] EXCEPT !.executed = (bad = {})]
             r == [completed |-> good, failed |-> bad, recovery_mode |-> bad # {},
                   recovery_deadline |-> seq + RecoveryLedgers]
  <1>0. b \in Ids /\ b \notin OpIds /\ Calls(b) \subseteq AllCalls
    BY CallsFacts, IdsAssumption DEF Ids
  <1>1. entry[b] \in Entry /\ Exists(b) /\ all_predecessors_done(b)
    BY <1>0 DEF execute_batch_partial, Executable, Exists, TypeOK
  <1>2. /\ e \in Entry /\ e # None /\ e.predecessors = entry[b].predecessors
        /\ e.executed = (bad = {})
    BY <1>1, NoneAssumption DEF Entry
  <1>3. entry'[b] = e /\ \A j \in Ids \ {b} : entry'[j] = entry[j]
    BY <1>0 DEF execute_batch_partial, TypeOK
  <1>4. /\ \A c \in done : runs'[c] = runs[c] + 1
        /\ \A c \in AllCalls \ done : runs'[c] = runs[c]
        /\ \A c \in AllCalls : runs[c] \in Nat
    BY <1>0 DEF execute_batch_partial, Recorded, Invoke, TypeOK
  <1>5. partial'[b] = r /\ \A j \in BatchIds \ {b} : partial'[j] = partial[j]
    BY DEF execute_batch_partial, Recorded, TypeOK
  <1>6. /\ r.completed = good /\ r.failed = bad
        /\ r.recovery_mode <=> (bad # {})
    OBVIOUS
  <1>7. good \subseteq Calls(b) /\ good \cap bad = {} /\ (bad = {} => good = Calls(b))
        /\ good \subseteq done /\ done \subseteq Calls(b)
    OBVIOUS
  <1> HIDE DEF e, r, good, done
  <1>8. EntriesStep
    BY <1>1, <1>2, <1>3 DEF EntriesStep, Exists
  <1>9. RunsStep
    <2>1. \A j \in Ids : \A c \in Calls(j) : runs'[c] > runs[c] => j = b
      BY <1>0, <1>4, <1>7, CallsFacts
    <2>2. \A c \in AllCalls : runs'[c] >= runs[c]
      BY <1>4
    <2>3. QED
      BY <1>1, <2>1, <2>2 DEF RunsStep
  <1>10. ExecutedStep
    <2>1. \A j \in Ids \ {b} : Exists(j)' /\ entry'[j].executed
             => Exists(j) /\ entry[j].executed
      BY <1>3 DEF Exists
    <2>2. entry'[b].executed => \A c \in Calls(b) : runs'[c] > 0
      <3>1. entry'[b].executed => good = Calls(b)
        BY <1>2, <1>3, <1>7
      <3>2. \A c \in good : runs'[c] > 0
        BY <1>0, <1>4, <1>7
      <3>3. QED
        BY <3>1, <3>2
    <2>3. QED
      BY <2>1, <2>2 DEF ExecutedStep
  <1>11. RecoveryStep
    BY <1>1, <1>5 DEF RecoveryStep
  <1>12. ASSUME NEW o \in OpIds PROVE OpStep(o)
    <2>1. o \in Ids /\ o # b /\ <<o, 0>> \in Calls(o) /\ <<o, 0>> \in AllCalls
      BY <1>0, CallsFacts DEF Ids
    <2>2. <<o, 0>> \notin done
      BY <1>0, <1>7, <2>1, CallsFacts
    <2>3. QED
      BY <1>3, <1>4, <2>1, <2>2 DEF OpStep
  <1>13. RecoveryOwn'
    <2>1. \A j \in BatchIds : Exists(j) => Exists(j)'
      BY <1>8 DEF EntriesStep, Ids
    <2>2. QED
      BY <1>1, <1>5, <1>6, <1>7, <2>1 DEF RecoveryOwn
  <1>14. RecoveryBookkeeping'
    <2>1. ASSUME NEW j \in BatchIds, j # b, partial'[j] # None
          PROVE  /\ partial'[j].recovery_mode <=> partial'[j].failed # {}
                 /\ partial'[j].failed \cap partial'[j].completed = {}
                 /\ \A c \in partial'[j].completed : runs'[c] > 0
      <3>1. partial[j].completed \subseteq AllCalls
        BY <1>5, <2>1, CallsFacts DEF RecoveryOwn, Ids
      <3>2. \A c \in AllCalls : runs[c] > 0 => runs'[c] > 0
        BY <1>4
      <3>3. QED
        BY <1>5, <2>1, <3>1, <3>2 DEF RecoveryBookkeeping
    <2>2. /\ partial'[b].recovery_mode <=> partial'[b].failed # {}
          /\ partial'[b].failed \cap partial'[b].completed = {}
          /\ \A c \in partial'[b].completed : runs'[c] > 0
      <3>1. partial'[b].recovery_mode <=> partial'[b].failed # {}
        BY <1>5, <1>6
      <3>2. partial'[b].failed \cap partial'[b].completed = {}
        BY <1>5, <1>6, <1>7
      <3>3. \A c \in partial'[b].completed : runs'[c] > 0
        BY <1>0, <1>4, <1>5, <1>6, <1>7
      <3>4. QED
        BY <3>1, <3>2, <3>3
    <2>3. QED
      BY <2>1, <2>2 DEF RecoveryBookkeeping
  <1>15. QED
    BY <1>8, <1>9, <1>10, <1>11, <1>12, <1>13, <1>14 DEF StepFacts

(* Retrying a failed call is such a step.                                   *)
LEMMA RetryFacts ==
    ASSUME TypeOK, RecoveryOwn, RecoveryBookkeeping, NEW caller \in Callers,
           NEW b \in BatchIds, NEW c0 \in AllCalls,
           retry_failed_operation(caller, b, c0)
    PROVE  StepFacts
  <1> DEFINE r == [completed |-> partial[b].completed \cup {c0},
                   failed |-> partial[b].failed \ {c0},
                   recovery_mode |-> partial[b].failed # {c0},
                   recovery_deadline |-> partial[b].recovery_deadline]
  <1>0. b \in Ids /\ b \notin OpIds
    BY IdsAssumption DEF Ids
  <1>1. /\ partial[b] # None /\ c0 \in partial[b].failed /\ Exists(b)
        /\ c0 \in Calls(b) /\ entry' = entry
    BY DEF retry_failed_operation, RecoveryOwn
  <1>2. /\ runs'[c0] = runs[c0] + 1
        /\ \A c \in AllCalls \ {c0} : runs'[c] = runs[c]
        /\ \A c \in AllCalls : runs[c] \in Nat
    BY DEF retry_failed_operation, Invoke, TypeOK
  <1>3. partial'[b] = r /\ \A j \in BatchIds \ {b} : partial'[j] = partial[j]
    BY DEF retry_failed_operation, TypeOK
  <1>4. /\ r.completed = partial[b].completed \cup {c0}
        /\ r.failed = partial[b].failed \ {c0}
        /\ r.recovery_mode <=> partial[b].failed # {c0}
    OBVIOUS
  <1> HIDE DEF r
  <1>5. \A c \in AllCalls : runs[c] > 0 => runs'[c] > 0
    BY <1>2
  <1>6. EntriesStep /\ ExecutedStep
    BY <1>1 DEF EntriesStep, ExecutedStep, Exists
  <1>7. RunsStep
    <2>1. \A j \in Ids : \A c \in Calls(j) : runs'[c] > runs[c] => j = b
      BY <1>0, <1>1, <1>2, CallsFacts
    <2>2. \A c \in AllCalls : runs'[c] >= runs[c]
      BY <1>2
    <2>3. QED
      BY <1>1, <2>1, <2>2 DEF RunsStep
  <1>8. RecoveryStep
    BY <1>1, <1>3 DEF RecoveryStep
  <1>9. ASSUME NEW o \in OpIds PROVE OpStep(o)
    <2>1. o \in Ids /\ o # b /\ <<o, 0>> \in Calls(o) /\ <<o, 0>> \in AllCalls
      BY <1>0, CallsFacts DEF Ids
    <2>2. <<o, 0>> # c0
      BY <1>0, <1>1, <2>1, CallsFacts
    <2>3. QED
      BY <1>1, <1>2, <2>1, <2>2 DEF OpStep
  <1>10. RecoveryOwn'
    BY <1>1, <1>3, <1>4 DEF RecoveryOwn, Exists
  <1>11. RecoveryBookkeeping'
    <2>1. ASSUME NEW j \in BatchIds, j # b, partial'[j] # None
          PROVE  /\ partial'[j].recovery_mode <=> partial'[j].failed # {}
                 /\ partial'[j].failed \cap partial'[j].completed = {}
                 /\ \A c \in partial'[j].completed : runs'[c] > 0
      <3>1. partial[j].completed \subseteq AllCalls
        BY <1>3, <2>1, CallsFacts DEF RecoveryOwn, Ids
      <3>2. QED
        BY <1>3, <1>5, <2>1, <3>1 DEF RecoveryBookkeeping
    <2>2. partial'[b].recovery_mode <=> partial'[b].failed # {}
      BY <1>1, <1>3, <1>4
    <2>3. partial'[b].failed \cap partial'[b].completed = {}
      BY <1>1, <1>3, <1>4 DEF RecoveryBookkeeping
    <2>4. \A c \in partial'[b].completed : runs'[c] > 0
      <3>1. partial[b].completed \subseteq AllCalls
        BY <1>0, <1>1, CallsFacts DEF RecoveryOwn
      <3>2. \A c \in partial[b].completed : runs[c] > 0
        BY <1>1 DEF RecoveryBookkeeping
      <3>3. QED
        BY <1>2, <1>3, <1>4, <1>5, <3>1, <3>2
    <2>5. QED
      BY <2>1, <2>2, <2>3, <2>4 DEF RecoveryBookkeeping
  <1>12. QED
    BY <1>6, <1>7, <1>8, <1>9, <1>10, <1>11 DEF StepFacts

(* Skipping a failed call is such a step.                                   *)
LEMMA SkipFacts ==
    ASSUME TypeOK, RecoveryOwn, RecoveryBookkeeping, NEW caller \in Callers,
           NEW b \in BatchIds, NEW c0 \in AllCalls,
           skip_failed_operation(caller, b, c0)
    PROVE  StepFacts
  <1> DEFINE r == [completed |-> partial[b].completed,
                   failed |-> partial[b].failed \ {c0},
                   recovery_mode |-> partial[b].recovery_mode /\ partial[b].failed # {c0},
                   recovery_deadline |-> partial[b].recovery_deadline]
  <1>1. /\ partial[b] # None /\ c0 \in partial[b].failed
        /\ entry' = entry /\ runs' = runs
    BY DEF skip_failed_operation
  <1>2. partial'[b] = r /\ \A j \in BatchIds \ {b} : partial'[j] = partial[j]
    BY DEF skip_failed_operation, TypeOK
  <1>3. /\ r.completed = partial[b].completed
        /\ r.failed = partial[b].failed \ {c0}
        /\ r.recovery_mode <=> (partial[b].recovery_mode /\ partial[b].failed # {c0})
    OBVIOUS
  <1> HIDE DEF r
  <1>4. EntriesStep /\ ExecutedStep
    BY <1>1 DEF EntriesStep, ExecutedStep, Exists
  <1>5. RunsStep
    BY <1>1, CallsFacts DEF RunsStep, TypeOK
  <1>6. RecoveryStep
    BY <1>1, <1>2 DEF RecoveryStep
  <1>7. \A o \in OpIds : OpStep(o)
    BY <1>1 DEF OpStep
  <1>8. RecoveryOwn'
    BY <1>1, <1>2, <1>3 DEF RecoveryOwn, Exists
  <1>9. RecoveryBookkeeping'
    <2>1. partial'[b].recovery_mode <=> partial'[b].failed # {}
      BY <1>1, <1>2, <1>3 DEF RecoveryBookkeeping
    <2>2. QED
      BY <1>1, <1>2, <1>3, <2>1 DEF RecoveryBookkeeping
  <1>10. QED
    BY <1>4, <1>5, <1>6, <1>7, <1>8, <1>9 DEF StepFacts

(* Cancelling is such a step.                                               *)
LEMMA CancelFacts ==
    ASSUME TypeOK, RecoveryOwn, RecoveryBookkeeping, NEW caller \in Callers,
           NEW id \in Ids, cancel(caller, id)
    PROVE  StepFacts
  <1> DEFINE e == [entry[id] EXCEPT !.cancelled = TRUE]
  <1>1. /\ entry[id] \in Entry /\ Exists(id) /\ ~entry[id].executed
        /\ partial' = partial /\ runs' = runs
    BY DEF cancel, Exists, TypeOK
  <1>2. /\ e \in Entry /\ e # None /\ e.predecessors = entry[id].predecessors
        /\ e.executed = entry[id].executed
    BY <1>1, NoneAssumption DEF Entry
  <1>3. entry'[id] = e /\ \A j \in Ids \ {id} : entry'[j] = entry[j]
    BY DEF cancel, TypeOK
  <1> HIDE DEF e
  <1>4. EntriesStep
    BY <1>1, <1>2, <1>3 DEF EntriesStep, Exists
  <1>5. ExecutedStep
    BY <1>1, <1>2, <1>3 DEF ExecutedStep, Exists
  <1>6. RunsStep /\ RecoveryStep
    BY <1>1, CallsFacts DEF RunsStep, RecoveryStep, TypeOK
  <1>7. ASSUME NEW o \in OpIds PROVE OpStep(o)
    <2>1. CASE o = id
      BY <1>1, <1>2, <1>3, <2>1 DEF OpStep, Exists
    <2>2. CASE o # id
      BY <1>1, <1>3, <2>2 DEF OpStep, Ids
    <2>3. QED
      BY <2>1, <2>2
  <1>8. RecoveryOwn'
    <2>1. \A b \in BatchIds : Exists(b) => Exists(b)'
      BY <1>4 DEF EntriesStep, Ids
    <2>2. QED
      BY <1>1, <2>1 DEF RecoveryOwn
  <1>9. RecoveryBookkeeping'
    BY <1>1 DEF RecoveryBookkeeping
  <1>10. QED
    BY <1>4, <1>5, <1>6, <1>7, <1>8, <1>9 DEF StepFacts

(* A step that leaves entries, recovery states and effects alone: the       *)
(* configuration entry points, the clock, and stuttering.                   *)
LEMMA IdleFacts ==
    ASSUME TypeOK, RecoveryOwn, RecoveryBookkeeping,
           entry' = entry, partial' = partial, runs' = runs
    PROVE  StepFacts
  BY CallsFacts
     DEF StepFacts, EntriesStep, RunsStep, ExecutedStep, RecoveryStep, OpStep,
         RecoveryOwn, RecoveryBookkeeping, Exists, TypeOK

(* Every step is such a step.                                               *)
LEMMA NextFacts ==
    ASSUME TypeOK, RecoveryOwn, RecoveryBookkeeping, [Next]_vars
    PROVE  StepFacts
  <1> USE NumbersAssumption
  <1>1. ASSUME NEW o \in OpIds, NEW d \in Delays, NEW preds \in SUBSET Ids,
               ScheduleOperation(o, d, preds)
        PROVE  StepFacts
    <2>1. o \in Ids /\ d \in Nat /\ StoreStep(o, d, preds)
      BY <1>1 DEF ScheduleOperation, StoreStep, Ids
    <2>2. QED
      BY <2>1, StoreFacts
  <1>2. ASSUME NEW caller \in Callers, NEW b \in BatchIds, NEW d \in Delays,
               NEW preds \in SUBSET Ids, schedule_batch(caller, b, d, preds)
        PROVE  StepFacts
    <2>1. b \in Ids /\ d \in Nat /\ StoreStep(b, d, preds)
      BY <1>2 DEF schedule_batch, StoreStep, Ids
    <2>2. QED
      BY <2>1, StoreFacts
  <1>3. ASSUME NEW caller \in Callers, NEW d \in Delays,
               update_delay(caller, d) \/ update_min_delay(caller, d)
        PROVE  StepFacts
    BY <1>3, IdleFacts DEF update_delay, update_min_delay
  <1>4. ASSUME NEW caller \in Callers, NEW w \in Windows,
               update_execution_window(caller, w)
        PROVE  StepFacts
    BY <1>4, IdleFacts DEF update_execution_window
  <1>5. ASSUME NEW dt \in LedgerTimes, CloseLedger(dt)
        PROVE  StepFacts
    BY <1>5, IdleFacts DEF CloseLedger
  <1>6. CASE UNCHANGED vars
    BY <1>6, IdleFacts DEF vars
  <1>7. QED
    BY <1>1, <1>2, <1>3, <1>4, <1>5, <1>6,
       ExecuteFacts, PartialFacts, RetryFacts, SkipFacts, CancelFacts
       DEF Next, CallerStep, schedule, schedule_with_deps, execute, execute_batch, Ids

(* The invariant holds initially.                                           *)
LEMMA IndInvInit == Init => IndInv
  <1> SUFFICES ASSUME Init PROVE IndInv
    OBVIOUS
  <1>1. TypeOK
    BY TypeInit
  <1>2. /\ \A id \in Ids : ~Exists(id) /\ ~Touched(id)
        /\ \A b \in BatchIds : partial[b] = None
    BY CallsFacts DEF Init, Exists, Touched
  <1>3. SingleOpExactlyOnce
    <2>1. \A o \in OpIds : <<o, 0>> \in AllCalls /\ o \in Ids
      BY CallsFacts DEF Ids
    <2>2. QED
      BY <1>2, <2>1 DEF SingleOpExactlyOnce, Init, is_done
  <1>4. QED
    BY <1>1, <1>2, <1>3
       DEF IndInv, StoredFirst, DoneHasRun, RecoveryOwn, RecoveryAfterPredecessors,
           EffectsRespectDependencies, DependenciesAcyclic, RecoveryBookkeeping

(* The invariant is preserved by every step.                                *)
LEMMA IndInvStep == IndInv /\ [Next]_vars => IndInv'
  <1> SUFFICES ASSUME IndInv, [Next]_vars PROVE IndInv'
    OBVIOUS
  <1>1. TypeOK /\ TypeOK' /\ StepFacts
    BY TypeStep, NextFacts DEF IndInv
  <1>2. EntriesStep /\ RunsStep /\ ExecutedStep /\ RecoveryStep
    BY <1>1 DEF StepFacts
  <1>3. /\ \A c \in AllCalls : runs[c] \in Nat /\ runs'[c] \in Nat
        /\ \A c \in AllCalls : runs[c] > 0 => runs'[c] > 0
    BY <1>1, <1>2 DEF TypeOK, RunsStep
  <1>4. \A id \in Ids : Exists(id)' => entry'[id].predecessors \subseteq Ids
    BY <1>1 DEF TypeOK, Exists, Entry
  <1>5. StoredFirst'
    <2>1. ASSUME NEW id \in Ids, Exists(id)', NEW p \in entry'[id].predecessors
          PROVE  Exists(p)'
      BY <1>2, <1>4, <2>1 DEF EntriesStep, IndInv, StoredFirst
    <2>2. ASSUME NEW id \in Ids, NEW c \in Calls(id), runs'[c] > 0
          PROVE  Exists(id)'
      <3>1. runs[c] > 0 \/ runs'[c] > runs[c]
        BY <1>3, <2>2, CallsFacts
      <3>2. Exists(id)
        BY <1>2, <3>1 DEF RunsStep, IndInv, StoredFirst, Touched
      <3>3. QED
        BY <1>2, <3>2 DEF EntriesStep
    <2>3. QED
      BY <2>1, <2>2 DEF StoredFirst, Touched
  <1>6. DoneHasRun'
    BY <1>2, <1>3, CallsFacts DEF ExecutedStep, IndInv, DoneHasRun
  <1>7. ASSUME NEW id \in Ids, Exists(id), all_predecessors_done(id)
        PROVE  \A p \in entry'[id].predecessors : \A c \in Calls(p) : runs'[c] > 0
    <2>1. /\ Exists(id)' /\ entry'[id].predecessors = entry[id].predecessors
          /\ entry[id].predecessors \subseteq Ids
      BY <1>2, <1>4, <1>7 DEF EntriesStep
    <2>2. \A p \in entry[id].predecessors : \A c \in Calls(p) : runs[c] > 0
      BY <1>7, <2>1 DEF all_predecessors_done, is_done, is_batch_done, IndInv, DoneHasRun
    <2>3. QED
      BY <1>3, <2>1, <2>2, CallsFacts
  <1>8. ASSUME NEW b \in BatchIds, partial[b] # None
        PROVE  \A p \in entry'[b].predecessors : \A c \in Calls(p) : runs'[c] > 0
    <2>1. b \in Ids /\ Exists(b)
      BY <1>8 DEF IndInv, RecoveryOwn, Ids
    <2>2. /\ Exists(b)' /\ entry'[b].predecessors = entry[b].predecessors
          /\ entry[b].predecessors \subseteq Ids
      BY <1>2, <1>4, <2>1 DEF EntriesStep
    <2>3. QED
      BY <1>3, <1>8, <2>2, CallsFacts DEF IndInv, RecoveryAfterPredecessors
  <1>9. RecoveryAfterPredecessors'
    BY <1>2, <1>7, <1>8 DEF RecoveryStep, RecoveryAfterPredecessors, Ids
  <1>10. SingleOpExactlyOnce'
    <2>1. ASSUME NEW o \in OpIds
          PROVE  /\ runs'[<<o, 0>>] = IF is_done(o)' THEN 1 ELSE 0
                 /\ Exists(o)' => ~(entry'[o].executed /\ entry'[o].cancelled)
      <3>1. OpStep(o)
        BY <1>1 DEF StepFacts
      <3>2. QED
        BY <3>1 DEF OpStep, is_done, Exists, IndInv, SingleOpExactlyOnce
    <2>2. QED
      BY <2>1 DEF SingleOpExactlyOnce
  <1>11. EffectsRespectDependencies'
    <2>1. ASSUME NEW id \in Ids, Exists(id)', NEW c \in Calls(id), runs'[c] > 0
          PROVE  \A p \in entry'[id].predecessors : \A d \in Calls(p) : runs'[d] > 0
      <3>1. CASE runs[c] > 0
        <4>1. Exists(id)
          BY <3>1 DEF IndInv, StoredFirst, Touched
        <4>2. /\ entry'[id].predecessors = entry[id].predecessors
              /\ entry[id].predecessors \subseteq Ids
          BY <1>2, <1>4, <2>1, <4>1 DEF EntriesStep
        <4>3. \A p \in entry[id].predecessors : \A d \in Calls(p) : runs[d] > 0
          BY <3>1, <4>1 DEF IndInv, EffectsRespectDependencies, Touched
        <4>4. QED
          BY <1>3, <4>2, <4>3, CallsFacts
      <3>2. CASE runs'[c] > runs[c]
        BY <1>2, <1>7, <1>8, <3>2 DEF RunsStep
      <3>3. QED
        BY <1>3, <2>1, <3>1, <3>2, CallsFacts
    <2>2. QED
      BY <2>1 DEF EffectsRespectDependencies, Touched
  <1>12. DependenciesAcyclic'
    <2>1. ASSUME NEW S \in SUBSET {id \in Ids : Exists(id)'}, S # {}
          PROVE  \E id \in S : entry'[id].predecessors \cap S = {}
      <3> DEFINE T == {id \in S : Exists(id)}
      <3>1. CASE T = {}
        BY <1>2, <2>1, <3>1 DEF EntriesStep
      <3>2. CASE T # {}
        <4>1. PICK id \in T : entry[id].predecessors \cap T = {}
          BY <3>2 DEF IndInv, DependenciesAcyclic
        <4>2. entry'[id].predecessors = entry[id].predecessors
          BY <1>2 DEF EntriesStep
        <4>3. \A p \in entry[id].predecessors : Exists(p)
          BY DEF IndInv, StoredFirst
        <4>4. QED
          BY <4>1, <4>2, <4>3
      <3>3. QED
        BY <3>1, <3>2
    <2>2. QED
      BY <2>1 DEF DependenciesAcyclic
  <1>13. QED
    BY <1>1, <1>5, <1>6, <1>9, <1>10, <1>11, <1>12 DEF IndInv, StepFacts

(* The inductive invariant of the timelock.                                 *)
THEOREM IndInvCorrect == Spec => []IndInv
  BY IndInvInit, IndInvStep, PTL DEF Spec

(* A single operation takes effect once if it is executed, not at all       *)
(* otherwise, and never both executes and is cancelled.                     *)
THEOREM SingleOpSafe == Spec => []SingleOpExactlyOnce
  <1>1. IndInv => SingleOpExactlyOnce
    BY DEF IndInv
  <1>2. QED
    BY <1>1, IndInvCorrect, PTL

(* Effects happen in dependency order, even across partial executions,      *)
(* retries and rescheduled batches.                                         *)
THEOREM DependencyOrderSafe == Spec => []EffectsRespectDependencies
  <1>1. IndInv => EffectsRespectDependencies
    BY DEF IndInv
  <1>2. QED
    BY <1>1, IndInvCorrect, PTL

(* The dependency graph of what is scheduled stays acyclic.                 *)
THEOREM AcyclicSafe == Spec => []DependenciesAcyclic
  <1>1. IndInv => DependenciesAcyclic
    BY DEF IndInv
  <1>2. QED
    BY <1>1, IndInvCorrect, PTL

(* The recovery state of a batch agrees with what took effect.              *)
THEOREM RecoverySafe == Spec => []RecoveryBookkeeping
  <1>1. IndInv => RecoveryBookkeeping
    BY DEF IndInv
  <1>2. QED
    BY <1>1, IndInvCorrect, PTL

-----------------------------------------------------------------------------
(* The timelock implements OperationLifecycle when batch ids are unique.    *)

(* Also a batch is never both executed and cancelled.                       *)
NeverBoth == \A id \in Ids : Exists(id) => ~(entry[id].executed /\ entry[id].cancelled)

(* What a step does to the stored entries, as OperationLifecycle tells       *)
(* steps apart: nothing, or to one of them one of three things.             *)
EntrySet(id, e) == entry' = [entry EXCEPT ![id] = e]
Scheduled(id) ==
    \E d \in Delays, preds \in SUBSET Ids :
        /\ ~Exists(id)
        /\ \A p \in preds : Exists(p)
        /\ EntrySet(id, NewEntry(d, preds))
Executed(id) == Executable(id) /\ EntrySet(id, [entry[id] EXCEPT !.executed = TRUE])
Cancelled(id) ==
    /\ Exists(id) /\ ~entry[id].executed /\ ~entry[id].cancelled
    /\ EntrySet(id, [entry[id] EXCEPT !.cancelled = TRUE])

LEMMA SaltedCases ==
    ASSUME TypeOK, [SaltedNext]_vars
    PROVE  \/ entry' = entry
           \/ \E id \in Ids : Scheduled(id) \/ Executed(id) \/ Cancelled(id)
  <1>1. CASE UNCHANGED vars
    BY <1>1 DEF vars
  <1>2. ASSUME NEW caller \in Callers, CallerStep(caller)
        PROVE  \/ entry' = entry
               \/ \E id \in Ids : Scheduled(id) \/ Executed(id) \/ Cancelled(id)
    <2>1. ASSUME NEW o \in OpIds, NEW d \in Delays, NEW preds \in SUBSET Ids,
                 ScheduleOperation(o, d, preds)
          PROVE  o \in Ids /\ Scheduled(o)
      BY <2>1 DEF ScheduleOperation, Scheduled, EntrySet, Ids
    <2>2. ASSUME NEW id \in Ids, ExecuteAll(id)
          PROVE  Executed(id)
      BY <2>2 DEF ExecuteAll, Executed, EntrySet
    <2>3. ASSUME NEW b \in BatchIds, NEW bad \in SUBSET Calls(b),
                 NEW valued \in SUBSET bad, execute_batch_partial(caller, b, bad, valued)
          PROVE  b \in Ids /\ (entry' = entry \/ Executed(b))
      <3>1. b \in Ids /\ Executable(b) /\ entry' = [entry EXCEPT ![b].executed = (bad = {})]
        BY <2>3 DEF execute_batch_partial, Ids
      <3>2. CASE bad = {}
        BY <3>1, <3>2 DEF Executed, EntrySet
      <3>3. CASE bad # {}
        <4>1. entry[b] \in Entry /\ entry[b].executed = FALSE
          BY <3>1 DEF Executable, Exists, TypeOK, Entry
        <4>2. [entry[b] EXCEPT !.executed = FALSE] = entry[b]
          BY <4>1 DEF Entry
        <4>3. QED
          BY <3>1, <3>3, <4>2 DEF TypeOK
      <3>4. QED
        BY <3>1, <3>2, <3>3
    <2>4. ASSUME NEW id \in Ids, cancel(caller, id)
          PROVE  Cancelled(id)
      BY <2>4 DEF cancel, Cancelled, EntrySet
    <2>5. QED
      BY <1>2, <2>1, <2>2, <2>3, <2>4
         DEF CallerStep, schedule, schedule_with_deps, execute, execute_batch, Ids,
             retry_failed_operation, skip_failed_operation, update_delay,
             update_execution_window, update_min_delay
  <1>3. ASSUME NEW caller \in Callers, NEW b \in BatchIds, NEW d \in Delays,
               NEW preds \in SUBSET Ids, ~Exists(b), schedule_batch(caller, b, d, preds)
        PROVE  b \in Ids /\ Scheduled(b)
    BY <1>3 DEF schedule_batch, Scheduled, EntrySet, Ids
  <1>4. ASSUME NEW dt \in LedgerTimes, CloseLedger(dt)
        PROVE  entry' = entry
    BY <1>4 DEF CloseLedger
  <1>5. QED
    BY <1>1, <1>2, <1>3, <1>4 DEF SaltedNext

(* The abstract state of an id follows from its entry.                      *)
StatusFor(e) ==
    IF e = None THEN "unknown"
    ELSE IF e.cancelled THEN "cancelled"
    ELSE IF e.executed THEN "executed" ELSE "waiting"
RequiresFor(e) == IF e # None THEN e.predecessors ELSE {}

LEMMA LifecycleStep ==
    ASSUME TypeOK, NeverBoth, [SaltedNext]_vars
    PROVE  NeverBoth' /\ [Lifecycle!Next]_<<[id \in Ids |-> StatusOf(id)],
                            [id \in Ids |-> IF Exists(id) THEN entry[id].predecessors ELSE {}]>>
  <1> DEFINE S == [id \in Ids |-> StatusOf(id)]
             R == [id \in Ids |-> IF Exists(id) THEN entry[id].predecessors ELSE {}]
  <1>1. /\ S = [id \in Ids |-> StatusFor(entry[id])] /\ S' = [id \in Ids |-> StatusFor(entry'[id])]
        /\ R = [id \in Ids |-> RequiresFor(entry[id])] /\ R' = [id \in Ids |-> RequiresFor(entry'[id])]
    BY DEF StatusOf, StatusFor, RequiresFor, Exists
  <1>2. entry \in [Ids -> Entry \cup {None}]
    BY DEF TypeOK
  <1>3. CASE entry' = entry
    BY <1>1, <1>3 DEF NeverBoth, Exists
  <1>4. ASSUME NEW id \in Ids, Scheduled(id)
        PROVE  NeverBoth' /\ Lifecycle!Next
    <2>1. PICK d \in Delays, preds \in SUBSET Ids :
             ~Exists(id) /\ (\A p \in preds : Exists(p)) /\ EntrySet(id, NewEntry(d, preds))
      BY <1>4 DEF Scheduled
    <2> DEFINE e == NewEntry(d, preds)
    <2>2. e \in Entry
      BY NewEntryType, NumbersAssumption
    <2>3. ~e.executed /\ ~e.cancelled /\ e.predecessors = preds /\ e # None
      BY <2>2, NoneAssumption DEF NewEntry
    <2>4. entry' = [entry EXCEPT ![id] = e]
      BY <2>1 DEF EntrySet
    <2> HIDE DEF e
    <2>5. NeverBoth'
      BY <1>2, <2>3, <2>4 DEF NeverBoth, Exists
    <2>6. StatusFor(e) = "waiting" /\ RequiresFor(e) = preds /\ S[id] = "unknown"
      BY <1>1, <2>1, <2>3 DEF StatusFor, RequiresFor, Exists
    <2>7. \A p \in preds : S[p] # "unknown"
      BY <1>1, <2>1 DEF StatusFor, Exists
    <2>8. S' = [S EXCEPT ![id] = "waiting"] /\ R' = [R EXCEPT ![id] = preds]
      BY <1>1, <1>2, <2>4, <2>6
    <2>9. Lifecycle!Schedule(id, preds)
      BY <2>6, <2>7, <2>8 DEF Lifecycle!Schedule
    <2>10. QED
      BY <2>5, <2>9 DEF Lifecycle!Next
  <1>5. ASSUME NEW id \in Ids, Executed(id)
        PROVE  NeverBoth' /\ Lifecycle!Next
    <2> DEFINE e == [entry[id] EXCEPT !.executed = TRUE]
    <2>1. entry[id] \in Entry /\ entry[id] # None /\ ~entry[id].executed /\ ~entry[id].cancelled
      BY <1>2, <1>5 DEF Executed, Executable, Exists
    <2>2. e \in Entry /\ e # None /\ e.executed /\ ~e.cancelled /\ e.predecessors = entry[id].predecessors
      BY <2>1, NoneAssumption DEF Entry
    <2>3. entry' = [entry EXCEPT ![id] = e]
      BY <1>5 DEF Executed, EntrySet
    <2> HIDE DEF e
    <2>4. NeverBoth'
      BY <1>2, <2>2, <2>3 DEF NeverBoth, Exists
    <2>5. StatusFor(e) = "executed" /\ RequiresFor(e) = R[id] /\ S[id] = "waiting"
      BY <1>1, <2>1, <2>2 DEF StatusFor, RequiresFor
    <2>6. \A p \in R[id] : S[p] = "executed"
      <3>1. R[id] = entry[id].predecessors /\ R[id] \subseteq Ids
        BY <1>1, <2>1 DEF RequiresFor, Entry
      <3>2. \A p \in entry[id].predecessors : Exists(p) /\ entry[p].executed
        BY <1>5 DEF Executed, Executable, all_predecessors_done, is_done, is_batch_done
      <3>3. QED
        BY <1>1, <3>1, <3>2 DEF NeverBoth, Exists, StatusFor
    <2>7. S' = [S EXCEPT ![id] = "executed"] /\ R' = R
      BY <1>1, <1>2, <2>3, <2>5
    <2>8. Lifecycle!Execute(id)
      BY <2>5, <2>6, <2>7 DEF Lifecycle!Execute
    <2>9. QED
      BY <2>4, <2>8 DEF Lifecycle!Next
  <1>6. ASSUME NEW id \in Ids, Cancelled(id)
        PROVE  NeverBoth' /\ Lifecycle!Next
    <2> DEFINE e == [entry[id] EXCEPT !.cancelled = TRUE]
    <2>1. entry[id] \in Entry /\ entry[id] # None /\ ~entry[id].executed /\ ~entry[id].cancelled
      BY <1>2, <1>6 DEF Cancelled, Exists
    <2>2. e \in Entry /\ e # None /\ e.cancelled /\ ~e.executed /\ e.predecessors = entry[id].predecessors
      BY <2>1, NoneAssumption DEF Entry
    <2>3. entry' = [entry EXCEPT ![id] = e]
      BY <1>6 DEF Cancelled, EntrySet
    <2> HIDE DEF e
    <2>4. NeverBoth'
      BY <1>2, <2>2, <2>3 DEF NeverBoth, Exists
    <2>5. StatusFor(e) = "cancelled" /\ RequiresFor(e) = R[id] /\ S[id] = "waiting"
      BY <1>1, <2>1, <2>2 DEF StatusFor, RequiresFor
    <2>6. S' = [S EXCEPT ![id] = "cancelled"] /\ R' = R
      BY <1>1, <1>2, <2>3, <2>5
    <2>7. Lifecycle!Cancel(id)
      BY <2>5, <2>6 DEF Lifecycle!Cancel
    <2>8. QED
      BY <2>4, <2>7 DEF Lifecycle!Next
  <1>7. QED
    BY <1>3, <1>4, <1>5, <1>6, SaltedCases

(* When batch ids are not reused, as the governor's salt guarantees, the     *)
(* timelock implements OperationLifecycle, for every set of ids, delays and  *)
(* dependencies: one scheduling, dependencies first, executed and cancelled  *)
(* final, however batches are partly executed, retried and skipped.          *)
THEOREM LifecycleImplemented == SaltedSpec => ImplementsLifecycle
  <1>1. Init => TypeOK /\ NeverBoth /\ Lifecycle!Init
    <2>1. Init => TypeOK
      BY TypeInit
    <2>2. Init => NeverBoth
      BY DEF Init, NeverBoth, Exists
    <2>3. Init => Lifecycle!Init
      BY DEF Init, Lifecycle!Init, StatusOf, Exists
    <2>4. QED
      BY <2>1, <2>2, <2>3
  <1>2. TypeOK /\ [SaltedNext]_vars => TypeOK'
    BY TypeStep DEF SaltedNext, Next
  <1>3. TypeOK /\ NeverBoth /\ [SaltedNext]_vars =>
          NeverBoth' /\ [Lifecycle!Next]_<<[id \in Ids |-> StatusOf(id)],
                           [id \in Ids |-> IF Exists(id) THEN entry[id].predecessors ELSE {}]>>
    BY LifecycleStep
  <1>4. QED
    BY <1>1, <1>2, <1>3, PTL DEF SaltedSpec, ImplementsLifecycle, Lifecycle!Spec
=============================================================================
