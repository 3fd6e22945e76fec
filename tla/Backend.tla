------------------------------- MODULE Backend -------------------------------
(***************************************************************************)
(* The services of the backend process, side by side.  They share nothing  *)
(* but the process and the database server, so one behaviour follows one   *)
(* service, its focus, while the others stand still.                       *)
(***************************************************************************)
EXTENDS VotingRewards, Notifications, Relayer, Signaling, GovernanceTuning, TreasuryStreams

CONSTANT Services
VARIABLE focus

vars == <<focus, rewVars, notifVars, relayVars, pollVars, tuneVars, streamVars>>

\* A step of one service.
Rewards(A) == focus = "rewards" /\ A /\ UNCHANGED <<focus, notifVars, relayVars, pollVars, tuneVars, streamVars>>
Notify(A) == focus = "notifications" /\ A /\ UNCHANGED <<focus, rewVars, relayVars, pollVars, tuneVars, streamVars>>
Relaying(A) == focus = "relayer" /\ A /\ UNCHANGED <<focus, rewVars, notifVars, pollVars, tuneVars, streamVars>>
Polling(A) == focus = "signaling" /\ A /\ UNCHANGED <<focus, rewVars, notifVars, relayVars, tuneVars, streamVars>>
Tuning(A) == focus = "tuning" /\ A /\ UNCHANGED <<focus, rewVars, notifVars, relayVars, pollVars, streamVars>>
Streaming(A) == focus = "streams" /\ A /\ UNCHANGED <<focus, rewVars, notifVars, relayVars, pollVars, tuneVars>>

Init ==
  /\ focus \in Services
  /\ RewInit /\ NotifInit /\ RelayInit /\ PollInit /\ TuneInit /\ StreamInit
  /\ focus = "rewards" \/ rewAdmin = CHOOSE a \in RewardAdmins : TRUE
  /\ focus = "tuning" \/ tuneConfig = CHOOSE c \in TuneConfigs : TRUE

Next ==
  \/ Rewards(RewNext) \/ Notify(NotifNext) \/ Relaying(RelayNext) \/ Polling(PollNext) \/ Tuning(TuneNext)
  \/ Streaming(StreamNext)

\* setInterval keeps starting the jobs' ticks and their awaits return; a
\* transaction that was submitted is applied.
Fairness ==
  /\ WF_vars(Polling(PollJob))
  /\ WF_vars(Streaming(StreamJob))
  /\ \A s \in StreamIds : WF_vars(Streaming(Applied(s)))

Spec == Init /\ [][Next]_vars /\ Fairness
=============================================================================
