------------------------------- MODULE Relayer -------------------------------
(***************************************************************************)
(* The gasless-delegation relayer of the backend (routes/relayer.ts): each *)
(* request is one database transaction that takes an advisory lock per     *)
(* delegator, reads the daily count, submits the permits on chain, logs    *)
(* them and commits.  Requests run side by side.                           *)
(***************************************************************************)
EXTENDS Integers, Sequences, FiniteSets

CONSTANTS
  RelayRequests,   \* requests in flight at once
  RelayBodies,     \* bodies: sequences of permits [delegator, nonce, signer]
  RELAYER_DAILY_PERMIT_LIMIT,
  MaxRelays        \* requests made in all

\* Addresses are numbers: they are sorted.
ASSUME RelayAssumption ==
  /\ RelayBodies \subseteq Seq([delegator : Nat, nonce : Nat, signer : Nat])
  /\ RELAYER_DAILY_PERMIT_LIMIT \in Nat

VARIABLES
  relay,      \* by request, the request being served
  permitLog,  \* relayer_permit_log of the last day: records [delegator, nonce]
  usedNonces, \* on chain: records [delegator, nonce]
  relayCount

relayVars == <<relay, permitLog, usedNonces, relayCount>>

NoRelay == [pc |-> "none", permits |-> << >>, wanted |-> {}, held |-> {}]
RelayInit ==
  /\ relay = [q \in RelayRequests |-> NoRelay]
  /\ permitLog = {} /\ usedNonces = {} /\ relayCount = 0

Delegators(permits) == {permits[i].delegator : i \in DOMAIN permits}
HeldByOthers(q) == UNION {relay[o].held : o \in RelayRequests \ {q}}
isWellFormedAuthEntry(p) == p.signer = p.delegator

\* Mutant of nextLock: the order of the permits in the body.
nextLock_asGiven(q) ==
  LET open == {i \in DOMAIN relay[q].permits : relay[q].permits[i].delegator \in relay[q].wanted}
  IN  relay[q].permits[CHOOSE i \in open : \A j \in open : i <= j].delegator
\* The sorted uniqueDelegators are locked one by one.
nextLock(q) == CHOOSE d \in relay[q].wanted : \A e \in relay[q].wanted : d <= e

\* POST /relayer/delegate is a batch of one.
postDelegate(q, permits) ==
  /\ relay[q] = NoRelay /\ relayCount < MaxRelays
  /\ relayCount' = relayCount + 1
  /\ relay' = IF \A i \in DOMAIN permits : isWellFormedAuthEntry(permits[i])
              THEN [relay EXCEPT ![q] = [NoRelay EXCEPT !.pc = "lock", !.permits = permits, !.wanted = Delegators(permits)]]
              ELSE relay
  /\ UNCHANGED <<permitLog, usedNonces>>

\* Mutant of lockDelegator: the lock is not waited for.
lockDelegator_shared(q) ==
  /\ relay[q].pc = "lock" /\ relay[q].wanted # {}
  /\ relay' = [relay EXCEPT ![q].wanted = @ \ {nextLock(q)}]
  /\ UNCHANGED <<permitLog, usedNonces, relayCount>>
\* pg_advisory_xact_lock waits while another transaction holds the key.
lockDelegator(q) ==
  /\ relay[q].pc = "lock" /\ relay[q].wanted # {}
  /\ nextLock(q) \notin HeldByOthers(q)
  /\ relay' = [relay EXCEPT ![q].wanted = @ \ {nextLock(q)}, ![q].held = @ \cup {nextLock(q)}]
  /\ UNCHANGED <<permitLog, usedNonces, relayCount>>

relayedPermitCountToday(d) == Cardinality({x \in permitLog : x.delegator = d})
\* The counts are read once and every permit of the batch adds to them.
WithinQuota(permits) ==
  \A d \in Delegators(permits) :
    relayedPermitCountToday(d) + Cardinality({i \in DOMAIN permits : permits[i].delegator = d}) <= RELAYER_DAILY_PERMIT_LIMIT
checkQuota(q) ==
  /\ relay[q].pc = "lock" /\ relay[q].wanted = {}
  /\ relay' = [relay EXCEPT ![q] = IF WithinQuota(@.permits) THEN [@ EXCEPT !.pc = "submit"] ELSE NoRelay]
  /\ UNCHANGED <<permitLog, usedNonces, relayCount>>

\* The transaction is simulated and sent: all its permits or none.  A nonce
\* that was used, or any other refusal, rolls the request back.
Entries(permits) == {[delegator |-> permits[i].delegator, nonce |-> permits[i].nonce] : i \in DOMAIN permits}
submitInvocation(q) ==
  /\ relay[q].pc = "submit"
  /\ \/ /\ Entries(relay[q].permits) \cap usedNonces = {} /\ Cardinality(Entries(relay[q].permits)) = Len(relay[q].permits)
        /\ usedNonces' = usedNonces \cup Entries(relay[q].permits)
        /\ relay' = [relay EXCEPT ![q].pc = "log"]
     \/ relay' = [relay EXCEPT ![q] = NoRelay] /\ UNCHANGED usedNonces
  /\ UNCHANGED <<permitLog, relayCount>>
\* logRelayedPermit (ON CONFLICT DO NOTHING) and COMMIT, which frees the locks;
\* a failure or a stop here loses the log of permits that are on chain.
logRelayedPermit(q) ==
  /\ relay[q].pc = "log"
  /\ permitLog' \in {permitLog \cup Entries(relay[q].permits), permitLog}
  /\ relay' = [relay EXCEPT ![q] = NoRelay]
  /\ UNCHANGED <<usedNonces, relayCount>>

RelayNext == \E q \in RelayRequests :
  \/ \E b \in RelayBodies : postDelegate(q, b)
  \/ lockDelegator(q) \/ checkQuota(q) \/ submitInvocation(q) \/ logRelayedPermit(q)

---------------------------------------------------------------------------
\* The day's permits on record never exceed the delegator's quota, however the
\* requests interleave (lockDelegator, relayedPermitCountToday).
PermitQuota == \A p \in permitLog : relayedPermitCountToday(p.delegator) <= RELAYER_DAILY_PERMIT_LIMIT

\* Requests never wait for each other's locks in a circle, so that none is
\* aborted as a deadlock victim: of any of them, one waits for none of the
\* others (the sorted uniqueDelegators of POST /relayer/delegate-batch).
WaitsFor(a, b) == relay[a].pc = "lock" /\ relay[a].wanted # {} /\ nextLock(a) \in relay[b].held
NoLockCycle ==
  \A S \in SUBSET RelayRequests :
    S # {} /\ IsFiniteSet(S) => \E a \in S : \A b \in S \ {a} : ~WaitsFor(a, b)
=============================================================================
