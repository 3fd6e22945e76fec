------------------------------ MODULE AppHooks ------------------------------
(***************************************************************************)
(* The web application's data-loading hooks (app/src/hooks): a component   *)
(* shows what a hook last loaded for an argument (an address, an id, a     *)
(* filter) that changes while requests are under way, is loaded again on   *)
(* an interval or after a transaction of the user, and fails.  A hook is a *)
(* record of the choices its code makes; the actions are the steps React   *)
(* and the network take with any of them.                                  *)
(***************************************************************************)
EXTENDS Integers, FiniteSets

CONSTANTS
  Args,         \* the arguments a hook is given
  Missing,      \* no argument: null or undefined
  MaxEvents     \* bound: changes, polls, refetches and writes while one component is mounted

ASSUME HookAssumption == Missing \notin Args /\ MaxEvents \in Nat

VARIABLES
  hook,       \* the hook of the mounted component
  view,       \* its state, as rendered
  requests,   \* requests under way
  server      \* how often what it reads has changed, and which change was the user's own

hookVars == <<hook, view, requests, server>>

(***************************************************************************)
(* The hooks.                                                              *)
(***************************************************************************)
Loader(without) ==
  [without |-> without,      \* what the effect does without an argument: "resets" the data and ends loading,
                             \* "ends" loading, "clears" the data, "ignores" it; "never": it always has one;
                             \* "fixed": it takes none
   guarded |-> TRUE,         \* a flag set by the cleanup makes it drop what an earlier effect asked for
   loads |-> TRUE,           \* a request sets loading
   first |-> TRUE,           \* loading from the first render on
   fails |-> "shown",        \* an error is "shown", "silent", or it also "clears" the data
   refetches |-> "no",       \* runs the "effect" again, or the "request" alone
   writes |-> "no",          \* the user's own change: followed by a refetch, or it "sets" the data
   unset |-> "silent",       \* an address is not configured: the error is "shown" or not; "never" looked at
   interval |-> FALSE,
   debounced |-> FALSE]

Refetched(h) == [h EXCEPT !.refetches = "effect", !.writes = "refetch"]
Unguarded(h) == [h EXCEPT !.guarded = FALSE, !.refetches = "request", !.writes = "refetch"]
Polling(h) == [h EXCEPT !.interval = TRUE]
Quiet(h) == [h EXCEPT !.loads = FALSE]                  \* only the first load shows as loading
Configured(how, h) == [h EXCEPT !.unset = how]
NotAtFirst(h) == [h EXCEPT !.first = FALSE]
Fails(how, h) == [h EXCEPT !.fails = how]

useRewardEpochs == Configured("never", Refetched(Loader("never")))
useCurrentRewardEpoch == Configured("shown", Loader("fixed"))
useClaimableRewards == Configured("never", Refetched(Loader("resets")))
useEpochLeaderboard == Configured("never", Refetched(Loader("resets")))
useProposalBond == Configured("shown", Refetched(Loader("ends")))
useBondsByProposer == Configured("shown", Refetched(Loader("ends")))
useBondEligibility == Fails("silent", Quiet(NotAtFirst(Loader("ignores"))))
useVoteEscrow == Configured("shown", Loader("ends"))
useDelegateProfile == Configured("shown", Loader("ends"))
useProposerReputation == Configured("shown", Loader("ends"))
useAnalytics == Configured("shown", Loader("fixed"))
useDraft == Configured("shown", Refetched(Loader("ends")))
useActiveDrafts == Configured("shown", Refetched(Loader("never")))
useGovernanceTuning == Configured("shown", Refetched(Loader("fixed")))
useGovernanceTuningConfig == [useGovernanceTuning EXCEPT !.writes = "sets"]
useGovernorConfig == Fails("silent", Quiet(NotAtFirst(Loader("fixed"))))
useGuardianCouncil == Refetched(Loader("ends"))
useTreasuryStrategies == Configured("shown", Refetched(Loader("never")))
useSplitDelegation == Configured("shown", Refetched(Loader("ends")))
useGovernanceBalance ==
  [Fails("clears", Polling(NotAtFirst(Refetched(Loader("ignores"))))) EXCEPT !.debounced = TRUE]

useConvictionProposals == Configured("shown", Polling(Quiet(Unguarded(Loader("never")))))
useOptimisticProposals == Configured("shown", Polling(Quiet(Unguarded(Loader("never")))))
useOptimisticProposal == Polling(Quiet(Unguarded(Loader("ends"))))
useSignalingPolls == Polling(NotAtFirst(Unguarded(Loader("never"))))
useSignalingPoll == Polling(NotAtFirst(Unguarded(Loader("ignores"))))
refreshRules == Configured("never", Fails("silent", NotAtFirst(Unguarded(Loader("clears")))))
refreshInbox == Polling(Quiet(refreshRules))
useAmendments == Configured("never", Unguarded(Loader("never")))
useProposalSimulation == Configured("shown", Fails("clears", NotAtFirst(Unguarded(Loader("clears")))))

Hooks ==
  {useRewardEpochs, useCurrentRewardEpoch, useClaimableRewards, useEpochLeaderboard, useProposalBond,
   useBondsByProposer, useBondEligibility, useVoteEscrow, useDelegateProfile, useProposerReputation,
   useAnalytics, useDraft, useActiveDrafts, useGovernanceTuning, useGovernanceTuningConfig,
   useGovernorConfig, useGuardianCouncil, useTreasuryStrategies, useSplitDelegation, useGovernanceBalance,
   useConvictionProposals, useOptimisticProposals, useOptimisticProposal, useSignalingPolls,
   useSignalingPoll, refreshInbox, refreshRules, useAmendments, useProposalSimulation}

(***************************************************************************)
(* State.  `dep' is the argument the effect last ran with (a debounced one *)
(* follows later), `effect' counts its runs, `data' is what is shown: for  *)
(* which argument, and how many of the server's changes it knows.          *)
(***************************************************************************)
Nothing == [arg |-> Missing, version |-> 0]
Unmounted == [mounted |-> FALSE, configured |-> FALSE, arg |-> Missing, dep |-> Missing, effect |-> 0,
              data |-> Nothing, loading |-> FALSE, error |-> FALSE, events |-> 0]
Untouched == [version |-> 0, own |-> 0, writing |-> FALSE, writer |-> Missing]

HookInit == hook = Loader("fixed") /\ view = Unmounted /\ requests = {} /\ server = Untouched

Arguments(h) == IF h.without \in {"fixed", "never"} THEN Args ELSE Args \cup {Missing}

(* The request a view sends, and what the view shows meanwhile. *)
RequestOf(v, arg) == [id |-> v.events, effect |-> v.effect, arg |-> arg, read |-> FALSE, version |-> 0]
Asking(h, v) == [v EXCEPT !.loading = h.loads \/ @, !.error = FALSE]
NotConfigured(h, v) == [v EXCEPT !.error = @ \/ h.unset = "shown", !.loading = FALSE]

(* Mutant of WithoutArgument: the early return leaves loading as it is. *)
WithoutArgument_loading(h, v) == [v EXCEPT !.data = IF h.without \in {"resets", "clears"} THEN Nothing ELSE @]

(* The effect's early return. *)
WithoutArgument(h, v) ==
  [v EXCEPT !.data = IF h.without \in {"resets", "clears"} THEN Nothing ELSE @,
            !.loading = @ /\ h.without \notin {"resets", "ends"}]

(* The effect runs, after the cleanup of the last one. *)
RunEffect(h, v) ==
  LET w == [v EXCEPT !.effect = @ + 1] IN
  \/ w.dep = Missing /\ view' = WithoutArgument(h, w) /\ UNCHANGED requests
  \/ w.dep # Missing /\ w.configured /\ view' = Asking(h, w) /\ requests' = requests \cup {RequestOf(w, w.dep)}
  \/ w.dep # Missing /\ ~w.configured /\ view' = NotConfigured(h, w) /\ UNCHANGED requests

(* A request outside the effect, for the argument its closure was made with. *)
AskFor(h, v, arg) ==
  IF v.configured THEN view' = Asking(h, v) /\ requests' = requests \cup {RequestOf(v, arg)}
  ELSE view' = NotConfigured(h, v) /\ UNCHANGED requests

Mount ==
  /\ ~view.mounted
  /\ \E h \in Hooks : \E configured \in {TRUE, h.unset = "never"}, arg \in Arguments(h) :
       /\ hook' = h
       /\ RunEffect(h, [Unmounted EXCEPT !.mounted = TRUE, !.configured = configured, !.arg = arg,
                                         !.dep = arg, !.loading = h.first])
  /\ UNCHANGED server

(* Something happens to the mounted component; `n' is its view with the event counted. *)
Happens(n) == view.mounted /\ view.events < MaxEvents /\ n = [view EXCEPT !.events = @ + 1]

(***************************************************************************)
(* The component is rendered with another argument.  A debounced hook has  *)
(* a second effect for a missing one, and the first waits for the timer.   *)
(***************************************************************************)
ChangeArgument ==
  \E arg \in Arguments(hook) \ {view.arg} : \E n \in {[view EXCEPT !.events = @ + 1]} :
    /\ Happens(n) /\ hook.without # "fixed"
    /\ IF hook.debounced
       THEN /\ view' = [n EXCEPT !.arg = arg, !.data = IF arg = Missing THEN Nothing ELSE @,
                                 !.loading = @ /\ arg # Missing, !.error = @ /\ arg # Missing]
            /\ UNCHANGED requests
       ELSE RunEffect(hook, [n EXCEPT !.arg = arg, !.dep = arg])
    /\ UNCHANGED <<hook, server>>

useDebounce ==
  /\ view.mounted /\ view.dep # view.arg
  /\ RunEffect(hook, [view EXCEPT !.dep = view.arg])
  /\ UNCHANGED <<hook, server>>

(* The interval of the current effect fires. *)
PollDue ==
  \E n \in {[view EXCEPT !.events = @ + 1]} :
    /\ Happens(n) /\ hook.interval /\ n.dep # Missing
    /\ AskFor(hook, n, n.dep)
    /\ UNCHANGED <<hook, server>>

Refetch ==
  \E n \in {[view EXCEPT !.events = @ + 1]} :
    /\ Happens(n)
    /\ \/ hook.refetches = "effect" /\ RunEffect(hook, n)
       \/ hook.refetches = "request" /\ n.dep # Missing /\ AskFor(hook, n, n.dep)
    /\ UNCHANGED <<hook, server>>

(***************************************************************************)
(* The user's own change, a transaction or a request to the backend: it is *)
(* made, and the function that made it goes on when it has its answer.     *)
(***************************************************************************)
WriteApplies ==
  /\ view.mounted /\ view.events < MaxEvents /\ view.configured /\ view.arg # Missing
  /\ hook.writes # "no" /\ ~server.writing
  /\ server' = [server EXCEPT !.version = @ + 1, !.writing = TRUE, !.writer = view.arg]
  /\ view' = [view EXCEPT !.events = @ + 1]
  /\ UNCHANGED <<hook, requests>>

WriteReturns ==
  /\ server.writing
  /\ server' = [server EXCEPT !.writing = FALSE, !.own = server.version, !.writer = Missing]
  /\ \/ /\ hook.writes = "sets"
        /\ view' = [view EXCEPT !.data = [arg |-> server.writer, version |-> server.version]]
        /\ UNCHANGED requests
     \/ hook.writes = "refetch" /\ hook.refetches = "effect" /\ RunEffect(hook, view)
     \/ hook.writes = "refetch" /\ hook.refetches = "request" /\ AskFor(hook, view, server.writer)
  /\ UNCHANGED hook

(* Its answer is an error: the function throws, and nothing is loaded again. *)
WriteThrows ==
  /\ server.writing /\ server' = [server EXCEPT !.writing = FALSE, !.writer = Missing]
  /\ UNCHANGED <<hook, view, requests>>

(* The server reads what it will answer. *)
ServerReads(r) ==
  /\ ~r.read
  /\ requests' = (requests \ {r}) \cup {[r EXCEPT !.read = TRUE, !.version = server.version]}
  /\ UNCHANGED <<hook, view, server>>

(* Mutant of Dropped: the cleanup does not set the flag. *)
Dropped_never(r) == FALSE

(* The flag of the effect that sent it is set: the answer is ignored, the end of loading too. *)
Dropped(r) == hook.guarded /\ r.effect # view.effect

Answered(r) ==
  /\ r.read /\ requests' = requests \ {r}
  /\ view' = IF Dropped(r) THEN view
             ELSE [view EXCEPT !.data = [arg |-> r.arg, version |-> r.version], !.loading = FALSE]
  /\ UNCHANGED <<hook, server>>

RequestFails(r) ==
  /\ requests' = requests \ {r}
  /\ view' = IF Dropped(r) THEN view
             ELSE [view EXCEPT !.error = hook.fails # "silent", !.loading = FALSE,
                               !.data = IF hook.fails = "clears" THEN Nothing ELSE @]
  /\ UNCHANGED <<hook, server>>

(* The component is gone: React ignores what arrives for it. *)
Unmount ==
  /\ view.mounted /\ view' = Unmounted /\ requests' = {} /\ server' = Untouched
  /\ hook' = Loader("fixed")

HookAnswer == \E r \in requests : ServerReads(r) \/ Answered(r) \/ RequestFails(r)

HookNext ==
  \/ Mount \/ ChangeArgument \/ useDebounce \/ PollDue \/ Refetch
  \/ WriteApplies \/ WriteReturns \/ WriteThrows \/ HookAnswer \/ Unmount
=============================================================================
