------------------------------- MODULE Clients -------------------------------
(***************************************************************************)
(* What the SDK, the terminal client and the web application do on behalf  *)
(* of one user: a call of a method or a command, a subscription to a       *)
(* contract's events, a stream from the indexer, a component that shows    *)
(* what a hook has loaded.  The four share no state, so a behaviour        *)
(* follows one of them, its focus.                                         *)
(***************************************************************************)
EXTENDS SdkCalls, SdkSubscription, EventStream, AppHooks

CONSTANT Uses
VARIABLE focus

vars == <<focus, callVars, subVars, streamVars, hookVars>>

\* A step of one use.
Calling(A) == focus = "call" /\ A /\ UNCHANGED <<focus, subVars, streamVars, hookVars>>
Subscribing(A) == focus = "subscription" /\ A /\ UNCHANGED <<focus, callVars, streamVars, hookVars>>
Streaming(A) == focus = "stream" /\ A /\ UNCHANGED <<focus, callVars, subVars, hookVars>>
Showing(A) == focus = "hook" /\ A /\ UNCHANGED <<focus, callVars, subVars, streamVars>>

Init == focus \in Uses /\ CallInit /\ SubInit /\ StreamInit /\ HookInit
Next == Calling(CallNext) \/ Subscribing(SubNext) \/ Streaming(StreamNext) \/ Showing(HookNext)

(* Every awaited request ends: the HTTP client answers or throws. *)
Spec == Init /\ [][Next]_vars /\ WF_vars(Calling(CallStep)) /\ WF_vars(Showing(HookAnswer))

(***************************************************************************)
(* A method that waits for the confirmation and returns has had its last   *)
(* transaction applied, whatever was lost, delayed, refused or retried on  *)
(* the way (pollForConfirmation inside withRetry).                         *)
(***************************************************************************)
ConfirmedMeansApplied ==
  call.pc = "returned" /\ call.outer.kind = "write" /\ call.outer.polls => Last(txs).status = "applied"

(***************************************************************************)
(* A swap or a change of liquidity is applied at most once, even when the  *)
(* server lost the answer: "Not retried: a retry after an ambiguous        *)
(* submission could double-spend" (liquidity.ts:263).                      *)
(***************************************************************************)
SpendsOnce ==
  call.m.client = "liquidity" => Cardinality({i \in DOMAIN txs : txs[i].status = "applied"}) <= 1

(***************************************************************************)
(* Every call comes back with a value or an error: no combination of       *)
(* failures keeps the retry loop or the confirmation loop going.           *)
(***************************************************************************)
CallReturns == (call.pc # "idle") ~> (call.pc \in {"returned", "failed"})

(***************************************************************************)
(* What a component shows once it has loaded is of the argument it has now *)
(* and knows the change its user made, although requests for an earlier    *)
(* argument, or from before the change, are answered later: "ignores a     *)
(* stale response that resolves after the address changed"                 *)
(* (useProposerReputation.test.tsx:144).  Hooks whose cleanup sets no      *)
(* flag, the debounced balance and the tuning configuration, which writes  *)
(* its state beside a load under way, do not promise it.                   *)
(***************************************************************************)
ShowsCurrent ==
  /\ view.mounted /\ view.configured /\ view.arg # Missing /\ ~view.loading /\ ~view.error
  /\ hook.guarded /\ hook.loads /\ ~hook.debounced /\ hook.writes # "sets"
  => view.data.arg = view.arg /\ view.data.version >= server.own

(***************************************************************************)
(* A component does not stay loading: requests that were dropped, and an   *)
(* argument that went away while one was under way, leave no spinner       *)
(* behind.  (The balance in the navigation bar may: see the README.)       *)
(***************************************************************************)
LoadingEnds == (view.loading /\ ~hook.debounced) ~> ~view.loading

(***************************************************************************)
(* A transaction that failed on the chain is not sent a second time by a   *)
(* client with a predicate of its own for submissions: the predicates name *)
(* TransactionFailed as final, and "A hash containing "500" must not be    *)
(* mistaken for an HTTP 500 and retried" (governor-execute.test.ts:209).   *)
(***************************************************************************)
FailureIsFinal ==
  [][/\ call.pc = "threw" /\ call.m.retry \in {"governor", "timelock", "treasury"}
     /\ call.m.polls /\ call.err.typed /\ call.err.code = FailedCode(call.m.client)
     => call'.pc \in {"threw", "failed", "parts"}]_vars
=============================================================================
