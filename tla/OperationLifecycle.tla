------------------------- MODULE OperationLifecycle -------------------------
(***************************************************************************)
(* What a timelock promises about the operations scheduled on it, whatever *)
(* the clock, the windows and the recovery of batches do: an operation is   *)
(* scheduled once, after the operations it depends on; it is then executed, *)
(* when all of them have been, or cancelled; and either is final.           *)
(***************************************************************************)
CONSTANT Ids

VARIABLES
    status,    \* status[id]: where id is in its life
    requires   \* requires[id]: what must be executed before id

Status == {"unknown", "waiting", "executed", "cancelled"}

LifecycleTypeOK ==
    /\ status \in [Ids -> Status]
    /\ requires \in [Ids -> SUBSET Ids]

Init ==
    /\ status = [id \in Ids |-> "unknown"]
    /\ requires = [id \in Ids |-> {}]

Schedule(id, preds) ==
    /\ status[id] = "unknown"
    /\ \A p \in preds : status[p] # "unknown"
    /\ status' = [status EXCEPT ![id] = "waiting"]
    /\ requires' = [requires EXCEPT ![id] = preds]

Execute(id) ==
    /\ status[id] = "waiting"
    /\ \A p \in requires[id] : status[p] = "executed"
    /\ status' = [status EXCEPT ![id] = "executed"]
    /\ UNCHANGED requires

Cancel(id) ==
    /\ status[id] = "waiting"
    /\ status' = [status EXCEPT ![id] = "cancelled"]
    /\ UNCHANGED requires

Next ==
    \E id \in Ids :
        \/ \E preds \in SUBSET Ids : Schedule(id, preds)
        \/ Execute(id)
        \/ Cancel(id)

Spec == Init /\ [][Next]_<<status, requires>>
=============================================================================
