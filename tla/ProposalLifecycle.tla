-------------------------- MODULE ProposalLifecycle --------------------------
(***************************************************************************)
(* What the governor promises about the state of a proposal, as state()     *)
(* reports it (contracts/governor/src/lib.rs): voting opens and closes      *)
(* once, only a proposal that has succeeded is queued, only a queued one is  *)
(* executed, and an outcome is final.                                       *)
(***************************************************************************)
CONSTANT Pids
VARIABLE status

Successors(s) ==
    CASE s = "None" -> {"Pending", "Active"}
      [] s = "Pending" -> {"Active", "Cancelled"}
      [] s = "Active" -> {"Defeated", "Succeeded", "Expired", "Cancelled"}
      [] s = "Succeeded" -> {"Queued", "Expired"}
      [] s = "Queued" -> {"Executed", "Cancelled"}
      [] OTHER -> {}

Final == {"Defeated", "Expired", "Executed", "Cancelled"}

Init == status = [p \in Pids |-> "None"]

States == {"None", "Pending", "Active", "Succeeded", "Queued"} \cup Final

\* Several proposals may move at once: voting ends with a ledger.
Next ==
    /\ status' \in [Pids -> States]
    /\ \A p \in Pids : status'[p] = status[p] \/ status'[p] \in Successors(status[p])

Spec == Init /\ [][Next]_status
=============================================================================
