----------------------------- MODULE MCGovernor -----------------------------
(* Small instances of Governor for TLC. *)
EXTENDS Governor, VoteMath, TLC

CONSTANTS a1, a2

Base ==
    [voting_delay |-> 1, voting_period |-> 1, quorum_numerator |-> 50,
     proposal_threshold |-> 2, guardian |-> a1, vote_type |-> "Extended",
     proposal_grace_period |-> 1, use_dynamic_quorum |-> FALSE,
     reflector_oracle |-> FALSE, min_quorum_usd |-> 0, proposal_cooldown |-> 0,
     max_proposals_per_period |-> 3, proposal_period_duration |-> 10,
     co_sponsorship_registry |-> FALSE, use_commit_reveal |-> FALSE,
     commit_phase_fraction |-> 5000]

\* Commit-reveal over two ledgers, one to commit and one to reveal.
Sealed == [Base EXCEPT !.use_commit_reveal = TRUE, !.voting_period = 2,
                       !.vote_type = "Quadratic"]
Simple == [Base EXCEPT !.vote_type = "Simple", !.quorum_numerator = 0,
                       !.co_sponsorship_registry = TRUE]
\* The cooldown reaches across the boundary of a period.
Limited == [Base EXCEPT !.proposal_cooldown = 2, !.max_proposals_per_period = 1,
                        !.proposal_period_duration = 3, !.voting_delay = 0]

OnePower == a1 :> 2
TwoPower == a1 :> 3 @@ a2 :> 2

OnlyBase == {Base}
SealedNow == {[Sealed EXCEPT !.voting_delay = 0]}
Ruled == {Base, Simple, Limited}
\* Everything changes at once: secret ballots end, quorum by price, guardian.
Reform == {[Base EXCEPT !.use_dynamic_quorum = TRUE, !.reflector_oracle = TRUE,
                        !.min_quorum_usd = 4, !.quorum_numerator = 10,
                        !.vote_type = "Simple", !.guardian = a2,
                        !.voting_delay = 0]}
NoChange == {}
=============================================================================
