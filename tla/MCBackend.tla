------------------------------ MODULE MCBackend ------------------------------
(***************************************************************************)
(* Small instances of the backend's services.                              *)
(***************************************************************************)
EXTENDS Backend

\* Two rules of two users: one with two channels, one that cools down.
MCLoggedEvents == {[type |-> "VoteCast", about |-> "v", amount |-> 0]}
MCNewRules ==
  {[trigger |-> "vote_cast", on |-> "any", limit |-> 0, channels |-> <<"in_app", "email">>, enabled |-> TRUE, cooldown |-> 0],
   [trigger |-> "proposal_ending_soon", on |-> "p", limit |-> 1, channels |-> <<"email">>, enabled |-> TRUE, cooldown |-> 2]}

\* Batches over two delegators in both orders, and a permit signed by another.
Permit(d, n, s) == [delegator |-> d, nonce |-> n, signer |-> s]
MCRelayBodies ==
  {<<Permit(1, 1, 1)>>, <<Permit(1, 2, 1), Permit(2, 1, 2)>>, <<Permit(2, 2, 2), Permit(1, 3, 1)>>, <<Permit(1, 4, 2)>>}

MCRewardWeight == [v \in RewardVoters |-> v]
MCSnapshotPower == [v \in SignalVoters |-> v]
MCTuneConfigs == {[min |-> 300, max |-> 900, delta |-> 100, auto |-> TRUE, floor |-> 0],
                  [min |-> 300, max |-> 900, delta |-> 100, auto |-> FALSE, floor |-> 0]}
=============================================================================
