---------------------------- MODULE BackendProofs ----------------------------
(***************************************************************************)
(* Proofs about Backend, for every number of requests, events, rules,      *)
(* channels, crashes and retries and every quota: the two invariants of    *)
(* the relayer and the one of the notification engine.  The services share *)
(* no state, so each has an invariant of its own.                          *)
(***************************************************************************)
EXTENDS Backend, FiniteSetTheorems, SumTheorems, TLAPS

-----------------------------------------------------------------------------
(* The relayer.                                                              *)

(* A permit of a body, a row of the log, and what a request may hold.        *)
PermitType == [delegator : Nat, nonce : Nat, signer : Nat]
EntryType == [delegator : Nat, nonce : Nat]
RelayState ==
  [pc : {"none", "lock", "submit", "log"}, permits : Seq(PermitType), wanted : SUBSET Nat, held : SUBSET Nat]

RelayTyped ==
  /\ relay \in [RelayRequests -> RelayState]
  /\ permitLog \in SUBSET EntryType /\ IsFiniteSet(permitLog)

(* A request holds or still wants the lock of every delegator of its body,   *)
(* and takes them in ascending order.                                        *)
LocksAscend ==
  \A q \in RelayRequests :
    /\ relay[q].pc = "none" => relay[q] = NoRelay
    /\ relay[q].pc # "none" => relay[q].held \cup relay[q].wanted = Delegators(relay[q].permits)
    /\ \A d \in relay[q].held : \A e \in relay[q].wanted : d < e

(* An advisory lock has one holder.                                          *)
LocksExclusive == \A a, b \in RelayRequests : a # b => relay[a].held \cap relay[b].held = {}

(* The count of a request past its quota check is still what it read: the    *)
(* locks of all its delegators are its own.                                  *)
StillWithinQuota ==
  \A q \in RelayRequests :
    relay[q].pc \in {"submit", "log"} => relay[q].wanted = {} /\ WithinQuota(relay[q].permits)

RelayInv == RelayTyped /\ LocksAscend /\ LocksExclusive /\ StillWithinQuota /\ PermitQuota

(* nextLock is the least of the delegators still wanted.                     *)
LEMMA NextLockLeast ==
  ASSUME NEW q \in RelayRequests, relay \in [RelayRequests -> RelayState], relay[q].wanted # {}
  PROVE  nextLock(q) \in relay[q].wanted /\ \A e \in relay[q].wanted : nextLock(q) <= e
<1>1. relay[q].wanted \in SUBSET Nat
  BY DEF RelayState
<1>2. \E x \in relay[q].wanted : \A e \in relay[q].wanted : x <= e
  BY <1>1, LeastNat
<1>3. QED
  BY <1>2 DEF nextLock

LEMMA RelayInitial == RelayInit => RelayInv
<1>1. SUFFICES ASSUME RelayInit PROVE RelayInv
  OBVIOUS
<1>2. NoRelay \in RelayState
  BY DEF NoRelay, RelayState
<1>3. RelayTyped
  BY <1>1, <1>2, FS_EmptySet DEF RelayInit, RelayTyped
<1>4. LocksAscend /\ LocksExclusive /\ StillWithinQuota
  BY <1>1 DEF RelayInit, NoRelay, LocksAscend, LocksExclusive, StillWithinQuota
<1>5. PermitQuota
  BY <1>1 DEF RelayInit, PermitQuota
<1>6. QED
  BY <1>3, <1>4, <1>5 DEF RelayInv

(* How many rows of a log, and how many permits of a body, are a delegator's. *)
CountIn(L, d) == Cardinality({x \in L : x.delegator = d})
OwnPermits(permits, d) == Cardinality({i \in DOMAIN permits : permits[i].delegator = d})

(* The log after the entries of a body are added to it.                      *)
LEMMA LogGrows ==
  ASSUME NEW L \in SUBSET EntryType, IsFiniteSet(L), NEW permits \in Seq(PermitType), NEW d
  PROVE  /\ L \cup Entries(permits) \in SUBSET EntryType /\ IsFiniteSet(L \cup Entries(permits))
         /\ d \notin Delegators(permits) => CountIn(L \cup Entries(permits), d) = CountIn(L, d)
         /\ CountIn(L, d) \in Nat /\ OwnPermits(permits, d) \in Nat /\ CountIn(L \cup Entries(permits), d) \in Nat
         /\ CountIn(L \cup Entries(permits), d) <= CountIn(L, d) + OwnPermits(permits, d)
<1> DEFINE now == {x \in L \cup Entries(permits) : x.delegator = d}
           old == {x \in L : x.delegator = d}
           own == {i \in DOMAIN permits : permits[i].delegator = d}
           entry(i) == [delegator |-> permits[i].delegator, nonce |-> permits[i].nonce]
           new == {entry(i) : i \in own}
<1>1. /\ DOMAIN permits = 1..Len(permits) /\ Len(permits) \in Nat
      /\ \A i \in DOMAIN permits : permits[i] \in PermitType
  OBVIOUS
<1>2. IsFiniteSet(DOMAIN permits)
  BY <1>1, FS_Interval
<1>3. Entries(permits) = {entry(i) : i \in DOMAIN permits}
  BY DEF Entries
<1>4. Entries(permits) \in SUBSET EntryType
  BY <1>1 DEF Entries, PermitType, EntryType
<1>5. IsFiniteSet(Entries(permits))
  <2> DEFINE f == [i \in DOMAIN permits |-> entry(i)]
  <2>1. f \in Surjection(DOMAIN permits, Entries(permits))
    BY <1>3 DEF Surjection
  <2> HIDE DEF f
  <2>2. QED
    BY <2>1, <1>2, FS_Surjection
<1>6. IsFiniteSet(L \cup Entries(permits))
  BY <1>5, FS_Union
<1>7. IsFiniteSet(own) /\ Cardinality(own) \in Nat
  BY <1>2, FS_Subset, FS_CardinalityType
<1>8. IsFiniteSet(new) /\ Cardinality(new) <= Cardinality(own) /\ Cardinality(new) \in Nat
  <2> DEFINE f == [i \in own |-> entry(i)]
  <2>1. f \in Surjection(own, new)
    BY DEF Surjection
  <2> HIDE DEF f, own, new
  <2>2. IsFiniteSet(new) /\ Cardinality(new) <= Cardinality(own)
    BY <2>1, <1>7, FS_Surjection
  <2>3. QED
    BY <2>2, FS_CardinalityType
<1>9. IsFiniteSet(old) /\ Cardinality(old) \in Nat
  BY FS_Subset, FS_CardinalityType
<1>10. now = old \cup new
  BY <1>3
<1>11. IsFiniteSet(now) /\ Cardinality(now) \in Nat /\ Cardinality(now) <= Cardinality(old) + Cardinality(new)
  <2> HIDE DEF now, old, new
  <2>1. /\ IsFiniteSet(old \cup new)
        /\ Cardinality(old \cup new) = Cardinality(old) + Cardinality(new) - Cardinality(old \cap new)
    BY <1>8, <1>9, FS_Union
  <2>2. IsFiniteSet(old \cap new)
    BY <1>9, FS_Subset
  <2>3. Cardinality(old \cap new) \in Nat /\ Cardinality(old \cup new) \in Nat
    BY <2>1, <2>2, FS_CardinalityType
  <2>4. QED
    BY <2>1, <2>3, <1>8, <1>9, <1>10
<1>12. d \notin Delegators(permits) => now = old
  BY <1>10 DEF Delegators
<1> HIDE DEF now, old, own, new
<1>13. Cardinality(now) <= Cardinality(old) + Cardinality(own)
  BY <1>7, <1>8, <1>9, <1>11
<1>14. QED
  BY <1>4, <1>6, <1>7, <1>9, <1>11, <1>12, <1>13 DEF now, old, own, CountIn, OwnPermits

(* Only the request that holds a delegator's lock changes its count.         *)
LEMMA LogStep ==
  ASSUME NEW q \in RelayRequests, RelayInv, logRelayedPermit(q)
  PROVE  RelayInv'
<1> DEFINE P == relay[q].permits
<1>1. /\ relay' = [relay EXCEPT ![q] = NoRelay] /\ relay \in [RelayRequests -> RelayState]
      /\ relay[q].pc = "log" /\ P \in Seq(PermitType) /\ permitLog' \in {permitLog \cup Entries(P), permitLog}
  BY DEF logRelayedPermit, RelayInv, RelayTyped, RelayState
<1>2. NoRelay \in RelayState
  BY DEF NoRelay, RelayState
<1>3. permitLog \in SUBSET EntryType /\ IsFiniteSet(permitLog)
  BY DEF RelayInv, RelayTyped
<1>4. permitLog' \in SUBSET EntryType /\ IsFiniteSet(permitLog')
  BY <1>1, <1>3, LogGrows
<1>5. RelayTyped'
  BY <1>1, <1>2, <1>4 DEF RelayTyped
<1>6. \A a \in RelayRequests : relay'[a] = IF a = q THEN NoRelay ELSE relay[a]
  BY <1>1
<1>7. LocksAscend'
  BY <1>6 DEF RelayInv, LocksAscend, NoRelay
<1>8. LocksExclusive'
  BY <1>6 DEF RelayInv, LocksExclusive, NoRelay
<1>9. relay[q].held = Delegators(P) /\ WithinQuota(P)
  BY <1>1 DEF RelayInv, LocksAscend, StillWithinQuota
<1>10. ASSUME NEW d, d \notin Delegators(P) PROVE relayedPermitCountToday(d)' = relayedPermitCountToday(d)
  <2>1. CountIn(permitLog \cup Entries(P), d) = CountIn(permitLog, d)
    BY <1>1, <1>3, <1>10, LogGrows
  <2>2. QED
    BY <1>1, <2>1 DEF relayedPermitCountToday, CountIn
<1>11. StillWithinQuota'
  <2>1. SUFFICES ASSUME NEW a \in RelayRequests, (relay[a].pc)' \in {"submit", "log"}
                 PROVE  (relay[a].wanted = {} /\ WithinQuota(relay[a].permits))'
    BY DEF StillWithinQuota
  <2>2. a # q /\ relay'[a] = relay[a]
    BY <2>1, <1>6 DEF NoRelay
  <2>3. relay[a].wanted = {} /\ WithinQuota(relay[a].permits) /\ relay[a].held = Delegators(relay[a].permits)
    BY <2>1, <2>2 DEF RelayInv, StillWithinQuota, LocksAscend
  <2>4. \A d \in Delegators(relay[a].permits) : d \notin Delegators(P)
    BY <2>2, <2>3, <1>9 DEF RelayInv, LocksExclusive
  <2>5. \A d \in Delegators(relay[a].permits) : relayedPermitCountToday(d)' = relayedPermitCountToday(d)
    BY <2>4, <1>10
  <2>6. QED
    BY <2>2, <2>3, <2>5 DEF WithinQuota, Delegators
<1>12. PermitQuota'
  <2>1. SUFFICES ASSUME NEW p \in permitLog'
                 PROVE  relayedPermitCountToday(p.delegator)' <= RELAYER_DAILY_PERMIT_LIMIT
    BY DEF PermitQuota, relayedPermitCountToday
  <2>2. CASE p.delegator \in Delegators(P)
    <3> DEFINE d == p.delegator
    <3>1. CountIn(permitLog, d) + OwnPermits(P, d) <= RELAYER_DAILY_PERMIT_LIMIT
      BY <1>9, <2>2 DEF WithinQuota, CountIn, OwnPermits, relayedPermitCountToday
    <3>2. /\ CountIn(permitLog, d) \in Nat /\ OwnPermits(P, d) \in Nat /\ CountIn(permitLog \cup Entries(P), d) \in Nat
          /\ CountIn(permitLog \cup Entries(P), d) <= CountIn(permitLog, d) + OwnPermits(P, d)
      BY <1>1, <1>3, LogGrows
    <3>3. RELAYER_DAILY_PERMIT_LIMIT \in Nat
      BY RelayAssumption
    <3>4. relayedPermitCountToday(d)' \in {CountIn(permitLog \cup Entries(P), d), CountIn(permitLog, d)}
      BY <1>1 DEF relayedPermitCountToday, CountIn
    <3> HIDE DEF P, d
    <3>5. relayedPermitCountToday(d)' <= RELAYER_DAILY_PERMIT_LIMIT
      BY <3>1, <3>2, <3>3, <3>4
    <3>6. QED
      BY <3>5 DEF d
  <2>3. CASE p.delegator \notin Delegators(P)
    <3>1. p \in permitLog
      BY <2>1, <2>3, <1>1 DEF Entries, Delegators
    <3>2. relayedPermitCountToday(p.delegator) <= RELAYER_DAILY_PERMIT_LIMIT
      BY <3>1 DEF RelayInv, PermitQuota
    <3>3. relayedPermitCountToday(p.delegator)' = relayedPermitCountToday(p.delegator)
      BY <2>3, <1>10
    <3>4. QED
      BY <3>2, <3>3
  <2>4. QED
    BY <2>2, <2>3
<1>13. QED
  BY <1>5, <1>7, <1>8, <1>11, <1>12 DEF RelayInv

(* The other steps of a request leave the log alone, so that only the        *)
(* request itself has to be looked at.                                       *)
LEMMA RequestStep ==
  ASSUME NEW q \in RelayRequests, NEW r \in RelayState, RelayInv, relay' = [relay EXCEPT ![q] = r],
         UNCHANGED permitLog,
         r.pc = "none" => r = NoRelay,
         r.pc # "none" => r.held \cup r.wanted = Delegators(r.permits),
         \A d \in r.held : \A e \in r.wanted : d < e,
         \A o \in RelayRequests : o # q => r.held \cap relay[o].held = {},
         r.pc \in {"submit", "log"} => r.wanted = {} /\ WithinQuota(r.permits)
  PROVE  RelayInv'
<1>1. relay \in [RelayRequests -> RelayState]
  BY DEF RelayInv, RelayTyped
<1>2. \A a \in RelayRequests : relay'[a] = IF a = q THEN r ELSE relay[a]
  BY <1>1
<1>3. RelayTyped'
  BY <1>1 DEF RelayInv, RelayTyped
<1>4. LocksAscend'
  BY <1>2 DEF RelayInv, LocksAscend
<1>5. LocksExclusive'
  BY <1>2 DEF RelayInv, LocksExclusive
<1>6. \A permits : WithinQuota(permits)' <=> WithinQuota(permits)
  BY DEF WithinQuota, relayedPermitCountToday
<1>7. StillWithinQuota'
  BY <1>2, <1>6 DEF RelayInv, StillWithinQuota
<1>8. PermitQuota'
  BY DEF RelayInv, PermitQuota, relayedPermitCountToday
<1>9. QED
  BY <1>3, <1>4, <1>5, <1>7, <1>8 DEF RelayInv

LEMMA RelayUnchanged == ASSUME RelayInv, UNCHANGED <<relay, permitLog>> PROVE RelayInv'
<1>1. \A permits : WithinQuota(permits)' <=> WithinQuota(permits)
  BY DEF WithinQuota, relayedPermitCountToday
<1>2. (RelayTyped /\ LocksAscend /\ LocksExclusive)'
  BY DEF RelayInv, RelayTyped, LocksAscend, LocksExclusive
<1>3. StillWithinQuota'
  BY <1>1 DEF RelayInv, StillWithinQuota
<1>4. PermitQuota'
  BY DEF RelayInv, PermitQuota, relayedPermitCountToday
<1>5. QED
  BY <1>2, <1>3, <1>4 DEF RelayInv

LEMMA RelayStep == ASSUME RelayInv, RelayNext PROVE RelayInv'
<1>1. PICK q \in RelayRequests :
        \/ \E b \in RelayBodies : postDelegate(q, b)
        \/ lockDelegator(q) \/ checkQuota(q) \/ submitInvocation(q) \/ logRelayedPermit(q)
  BY DEF RelayNext
<1> DEFINE s == relay[q]
<1>2. /\ relay \in [RelayRequests -> RelayState] /\ s \in RelayState /\ NoRelay \in RelayState
  BY DEF RelayInv, RelayTyped, NoRelay, RelayState
<1>3. /\ s.pc = "none" => s = NoRelay
      /\ s.pc # "none" => s.held \cup s.wanted = Delegators(s.permits)
      /\ \A d \in s.held : \A e \in s.wanted : d < e
      /\ \A o \in RelayRequests : o # q => s.held \cap relay[o].held = {}
  BY DEF RelayInv, LocksAscend, LocksExclusive
<1>4. ASSUME relay' = [relay EXCEPT ![q] = NoRelay], UNCHANGED permitLog PROVE RelayInv'
  BY <1>2, <1>4, RequestStep DEF NoRelay
<1>5. ASSUME relay' = relay, UNCHANGED permitLog PROVE RelayInv'
  BY <1>5, RelayUnchanged
<1>6. ASSUME NEW b \in RelayBodies, postDelegate(q, b) PROVE RelayInv'
  <2> DEFINE r == [NoRelay EXCEPT !.pc = "lock", !.permits = b, !.wanted = Delegators(b)]
  <2>1. b \in Seq(PermitType) /\ Delegators(b) \in SUBSET Nat
    <3>1. b \in Seq(PermitType)
      BY RelayAssumption DEF PermitType
    <3>2. \A i \in DOMAIN b : b[i].delegator \in Nat
      <4>1. \A i \in DOMAIN b : b[i] \in PermitType
        BY <3>1
      <4>2. QED
        BY <4>1 DEF PermitType
    <3>3. QED
      BY <3>1, <3>2 DEF Delegators
  <2>2. /\ r \in RelayState /\ r.pc = "lock" /\ r.permits = b /\ r.wanted = Delegators(b) /\ r.held = {}
    <3>1. NoRelay \in RelayState /\ NoRelay.held = {}
      BY DEF NoRelay, RelayState
    <3>2. QED
      BY <2>1, <3>1 DEF RelayState
  <2>3. CASE relay' = [relay EXCEPT ![q] = r]
    <3> HIDE DEF r
    <3>1. UNCHANGED permitLog
      BY <1>6 DEF postDelegate
    <3>2. QED
      BY <2>2, <2>3, <3>1, RequestStep
  <2>4. CASE relay' = relay
    BY <1>5, <1>6, <2>4 DEF postDelegate
  <2>5. QED
    BY <1>6, <2>3, <2>4 DEF postDelegate
<1>7. CASE lockDelegator(q)
  <2> DEFINE n == nextLock(q)
             r == [s EXCEPT !.wanted = @ \ {n}, !.held = @ \cup {n}]
  <2>1. n \in s.wanted /\ \A e \in s.wanted : n <= e
    BY <1>2, <1>7, NextLockLeast DEF lockDelegator
  <2>2. /\ r \in RelayState /\ r.pc = "lock" /\ r.permits = s.permits /\ r.wanted = s.wanted \ {n}
        /\ r.held = s.held \cup {n} /\ s.pc = "lock"
    <3>1. s.wanted \ {n} \in SUBSET Nat /\ s.held \cup {n} \in SUBSET Nat
      BY <1>2, <2>1 DEF RelayState
    <3>2. s.pc = "lock"
      BY <1>7 DEF lockDelegator
    <3> HIDE DEF n, s
    <3>3. QED
      BY <1>2, <3>1, <3>2 DEF RelayState
  <2>3. relay' = [relay EXCEPT ![q] = r] /\ UNCHANGED permitLog
    BY <1>2, <1>7 DEF lockDelegator
  <2>4. \A o \in RelayRequests : o # q => n \notin relay[o].held
    BY <1>7 DEF lockDelegator, HeldByOthers
  <2>5. s.wanted \in SUBSET Nat /\ s.held \in SUBSET Nat
    BY <1>2 DEF RelayState
  <2> HIDE DEF n, r, s
  <2>6. \A d \in r.held : \A e \in r.wanted : d < e
    BY <2>1, <2>2, <2>5, <1>3
  <2>7. r.held \cup r.wanted = Delegators(r.permits)
    BY <2>1, <2>2, <1>3
  <2>8. \A o \in RelayRequests : o # q => r.held \cap relay[o].held = {}
    BY <2>2, <2>4, <1>3
  <2>9. QED
    BY <2>2, <2>3, <2>6, <2>7, <2>8, RequestStep
<1>8. CASE checkQuota(q)
  <2> DEFINE r == [s EXCEPT !.pc = "submit"]
  <2>1. s.pc = "lock" /\ s.wanted = {} /\ UNCHANGED permitLog
    BY <1>8 DEF checkQuota
  <2>2. CASE WithinQuota(s.permits)
    <3>1. relay' = [relay EXCEPT ![q] = r]
      BY <1>8, <2>2, <1>2 DEF checkQuota
    <3>2. /\ r \in RelayState /\ r.pc = "submit" /\ r.permits = s.permits /\ r.wanted = s.wanted /\ r.held = s.held
      BY <1>2 DEF RelayState
    <3> HIDE DEF r, s
    <3>3. QED
      BY <3>1, <3>2, <2>1, <2>2, <1>3, RequestStep
  <2>3. CASE ~WithinQuota(s.permits)
    BY <1>4, <1>8, <2>3, <1>2 DEF checkQuota
  <2>4. QED
    BY <2>2, <2>3
<1>9. CASE submitInvocation(q)
  <2> DEFINE r == [s EXCEPT !.pc = "log"]
  <2>1. s.pc = "submit" /\ UNCHANGED permitLog
    BY <1>9 DEF submitInvocation
  <2>2. CASE relay' = [relay EXCEPT ![q].pc = "log"]
    <3>1. relay' = [relay EXCEPT ![q] = r]
      BY <2>2, <1>2
    <3>2. /\ r \in RelayState /\ r.pc = "log" /\ r.permits = s.permits /\ r.wanted = s.wanted /\ r.held = s.held
      BY <1>2 DEF RelayState
    <3>3. s.wanted = {} /\ WithinQuota(s.permits)
      BY <2>1 DEF RelayInv, StillWithinQuota
    <3> HIDE DEF r, s
    <3>4. QED
      BY <3>1, <3>2, <3>3, <2>1, <1>3, RequestStep
  <2>3. CASE relay' = [relay EXCEPT ![q] = NoRelay]
    BY <1>4, <2>1, <2>3
  <2>4. QED
    BY <1>9, <2>2, <2>3 DEF submitInvocation
<1>10. CASE logRelayedPermit(q)
  BY <1>10, LogStep
<1>11. QED
  BY <1>1, <1>6, <1>7, <1>8, <1>9, <1>10

(* Of finitely many requests, take the one with the fewest others whose next *)
(* delegator is above its own.  A request that waits for another, which      *)
(* waits itself, waits for a delegator below the other's next one, so the    *)
(* other would have fewer still.                                             *)
Above(S, a) == {b \in S : nextLock(b) > nextLock(a)}
LEMMA AscendingNeverCycle == ASSUME RelayInv PROVE NoLockCycle
<1>1. SUFFICES ASSUME NEW S \in SUBSET RelayRequests, S # {}, IsFiniteSet(S),
                      \A a \in S : \E b \in S \ {a} : WaitsFor(a, b)
               PROVE  FALSE
  BY DEF NoLockCycle
<1>2. relay \in [RelayRequests -> RelayState]
  BY DEF RelayInv, RelayTyped
<1>3. \A a \in S : nextLock(a) \in relay[a].wanted /\ nextLock(a) \in Nat
  <2>1. SUFFICES ASSUME NEW a \in S PROVE nextLock(a) \in relay[a].wanted /\ nextLock(a) \in Nat
    OBVIOUS
  <2>2. nextLock(a) \in relay[a].wanted
    BY <1>1, <1>2, NextLockLeast DEF WaitsFor
  <2>3. QED
    BY <1>2, <2>2 DEF RelayState
<1>4. \A a, b \in S : WaitsFor(a, b) => nextLock(a) < nextLock(b)
  BY <1>3 DEF RelayInv, LocksAscend, WaitsFor
<1>5. \A a \in S : IsFiniteSet(Above(S, a)) /\ Cardinality(Above(S, a)) \in Nat
  BY <1>1, FS_Subset, FS_CardinalityType DEF Above
<1>6. PICK a \in S : \A b \in S : Cardinality(Above(S, a)) <= Cardinality(Above(S, b))
  <2> DEFINE counts == {Cardinality(Above(S, x)) : x \in S}
  <2>1. counts \in SUBSET Nat /\ counts # {}
    BY <1>1, <1>5
  <2>2. PICK c \in counts : \A d \in counts : c <= d
    BY <2>1, LeastNat
  <2>3. QED
    BY <2>2
<1>7. PICK b \in S : WaitsFor(a, b)
  BY <1>1, <1>6
<1>8. Above(S, b) \subseteq Above(S, a) /\ Above(S, b) # Above(S, a)
  <2>1. nextLock(a) < nextLock(b)
    BY <1>4, <1>6, <1>7
  <2>2. b \in Above(S, a) /\ b \notin Above(S, b)
    BY <1>3, <1>6, <1>7, <2>1 DEF Above
  <2>3. Above(S, b) \subseteq Above(S, a)
    BY <1>3, <1>6, <1>7, <2>1 DEF Above
  <2>4. QED
    BY <2>2, <2>3
<1>9. Cardinality(Above(S, b)) < Cardinality(Above(S, a))
  BY <1>5, <1>6, <1>7, <1>8, FS_Subset
<1>10. QED
  BY <1>5, <1>6, <1>7, <1>9

LEMMA RelayAlways == Spec => []RelayInv
<1>1. Init => RelayInv
  BY RelayInitial DEF Init
<1>2. RelayInv /\ [Next]_vars => RelayInv'
  <2>1. SUFFICES ASSUME RelayInv, [Next]_vars PROVE RelayInv'
    OBVIOUS
  <2>2. CASE Relaying(RelayNext)
    BY <2>1, <2>2, RelayStep DEF Relaying
  <2>3. CASE UNCHANGED relayVars
    BY <2>1, <2>3, RelayUnchanged DEF relayVars
  <2>4. QED
    BY <2>1, <2>2, <2>3 DEF Next, vars, Rewards, Notify, Relaying, Polling, Tuning, Streaming
<1>3. QED
  BY <1>1, <1>2, PTL DEF Spec

(* For every number of requests, every body and every limit: a delegator's   *)
(* permits on record stay within the quota, because its lock is held from    *)
(* the count to the log (lockDelegator, relayedPermitCountToday).            *)
THEOREM RelaysWithinQuota == Spec => []PermitQuota
<1>1. RelayInv => PermitQuota
  BY DEF RelayInv
<1>2. QED
  BY <1>1, RelayAlways, PTL

(* For every number of requests and every body: requests never wait for each *)
(* other's advisory locks in a circle of any length, because                 *)
(* uniqueDelegators is sorted (POST /relayer/delegate-batch).                *)
THEOREM RelaysNeverDeadlock == Spec => []NoLockCycle
<1>1. RelayInv => NoLockCycle
  BY AscendingNeverCycle
<1>2. QED
  BY <1>1, RelayAlways, PTL

-----------------------------------------------------------------------------
(* The notification engine.                                                  *)

(* A row of notification_deliveries, of notification_rules, and the copy of  *)
(* a rule that an evaluation works from.                                     *)
Dues == {Never} \cup {t + 2^n : t, n \in Nat}
Statuses == {"pending", "delivered", "retrying", "failed", "deleted"}
DeliveryRow == [rule : RuleIds, event : Nat, channel : STRING, status : Statuses, attempts : Nat, due : Dues]
RuleKeys == {"trigger", "on", "limit", "channels", "enabled", "cooldown", "last", "since"}
RuleCopy == [id : RuleIds \cup {0}, channels : Seq(STRING), cooldown : Nat, last : Int]
Processors ==
  [pc : {"idle", "event", "timers", "rule", "channel"}, next : Nat, last : Nat, event : Nat,
   matched : SUBSET RuleCopy, rule : RuleCopy, channels : Seq(STRING)]

Histories == [failed : SUBSET Nat, stops : Nat, requests : Nat]

StoreTyped ==
  /\ eventLog \in Seq(LoggedEvents) /\ deliveries \in Seq(DeliveryRow)
  /\ notifCursor \in 0..Len(eventLog) /\ notifTime \in Nat
  /\ notifHistory \in Histories

(* A trigger is never in the future, so that a rule with no cooldown is      *)
(* never cooling down.                                                       *)
RulesTyped ==
  /\ DOMAIN rules \subseteq RuleIds
  /\ \A r \in DOMAIN rules :
       /\ DOMAIN rules[r] = RuleKeys /\ rules[r].channels \in Seq(STRING) /\ rules[r].cooldown \in Nat
       /\ rules[r].last \in Int /\ rules[r].last <= notifTime /\ rules[r].since \in Nat
ProcessorTyped ==
  /\ processor \in Processors
  /\ \A m \in processor.matched : m.last <= notifTime

(* The rule r has what event i owes it.                                      *)
Delivered(r, i, channel) ==
  \E d \in DOMAIN deliveries :
    Exists(d) /\ deliveries[d].rule = r /\ deliveries[d].event = i /\ deliveries[d].channel = channel
Settled(i, r) ==
  rules[r].since < i /\ Fires(rules[r], eventLog[i]) /\ i \notin notifHistory.failed =>
    \/ rules[r].cooldown > 0 /\ rules[r].last # Never
    \/ \A c \in DOMAIN rules[r].channels : Delivered(r, i, rules[r].channels[c])
AllSettled(i) == \A r \in DOMAIN rules : Settled(i, r)

(* The batch runs from the cursor to the end it was read with, and the       *)
(* events behind the one in hand are settled.                                *)
BatchSoFar ==
  /\ processor.pc = "event" =>
       /\ notifCursor < processor.next /\ processor.next <= processor.last + 1 /\ processor.last <= Len(eventLog)
       /\ \A i \in notifCursor + 1..processor.next - 1 : AllSettled(i)
  /\ processor.pc \in {"rule", "channel"} /\ processor.event # 0 =>
       /\ notifCursor < processor.event /\ processor.next = processor.event + 1
       /\ processor.event <= processor.last /\ processor.last <= Len(eventLog)
       /\ \A i \in notifCursor + 1..processor.event - 1 : AllSettled(i)

(* The copy m still says of rule r what settling needs.                      *)
Copies(m, r) ==
  /\ m.id = r /\ m.channels = rules[r].channels /\ m.cooldown = rules[r].cooldown
  /\ m.last # Never => rules[r].last # Never

(* The event in hand is settled for every rule as old as it, or the rule is  *)
(* still to be evaluated, or is the one being delivered.                     *)
EventInHand ==
  processor.pc \in {"rule", "channel"} /\ processor.event # 0 =>
    \A r \in DOMAIN rules : rules[r].since < processor.event =>
      \/ Settled(processor.event, r)
      \/ \E m \in processor.matched : Copies(m, r)
      \/ processor.pc = "channel" /\ Copies(processor.rule, r)

(* The channels of the rule in hand that are not left have their delivery.   *)
Delivering ==
  processor.pc = "channel" =>
    \E k \in 0..Len(processor.rule.channels) :
      /\ Len(processor.channels) = Len(processor.rule.channels) - k
      /\ \A j \in 1..Len(processor.channels) : processor.channels[j] = processor.rule.channels[k + j]
      /\ processor.event # 0 /\ processor.rule.id \in DOMAIN rules /\ rules[processor.rule.id].since < processor.event =>
           \A j \in 1..k : Delivered(processor.rule.id, processor.event, processor.rule.channels[j])

NotifInv ==
  /\ StoreTyped /\ RulesTyped /\ ProcessorTyped
  /\ NotifiedAtLeastOnce /\ BatchSoFar /\ EventInHand /\ Delivering

(* What an event fires depends on a rule's condition alone.                  *)
SameRule(a, b) ==
  /\ a.trigger = b.trigger /\ a.on = b.on /\ a.limit = b.limit /\ a.enabled = b.enabled
  /\ a.channels = b.channels /\ a.cooldown = b.cooldown /\ a.since = b.since
LEMMA FiresSame == ASSUME NEW a, NEW b, NEW e, SameRule(a, b) PROVE Fires(a, e) <=> Fires(b, e)
BY DEF SameRule, Fires, ruleMatchesEvent

(* Every step keeps the log, the failures, the deliveries of each rule, and  *)
(* the rule itself, unless it is rewritten later than the log's last event.  *)
StoreKept ==
  /\ Len(eventLog) <= Len(eventLog') /\ \A i \in 1..Len(eventLog) : eventLog'[i] = eventLog[i]
  /\ notifHistory.failed \subseteq notifHistory'.failed
  /\ \A r \in DOMAIN rules' :
       \/ rules'[r].since >= Len(eventLog)
       \/ /\ r \in DOMAIN rules /\ SameRule(rules[r], rules'[r]) /\ (rules[r].last # Never => rules'[r].last # Never)
          /\ \A i, c : Delivered(r, i, c) => Delivered(r, i, c)'

LEMMA SettledKept ==
  ASSUME StoreTyped, RulesTyped', StoreKept, NEW i \in 1..Len(eventLog), NEW r \in DOMAIN rules', rules'[r].since < i
  PROVE  /\ r \in DOMAIN rules /\ rules[r].since = rules'[r].since
         /\ Settled(i, r) => Settled(i, r)'
         /\ \A m : Copies(m, r) => Copies(m, r)'
<1>1. rules'[r].since \in Nat /\ Len(eventLog) \in Nat
  BY DEF RulesTyped, StoreTyped
<1>2. ~(rules'[r].since >= Len(eventLog))
  BY <1>1
<1>3. /\ r \in DOMAIN rules /\ SameRule(rules[r], rules'[r]) /\ (rules[r].last # Never => rules'[r].last # Never)
      /\ \A j, c : Delivered(r, j, c) => Delivered(r, j, c)'
  BY <1>2 DEF StoreKept
<1>4. rules[r].since = rules'[r].since /\ rules[r].cooldown = rules'[r].cooldown /\ rules[r].channels = rules'[r].channels
  BY <1>3 DEF SameRule
<1>5. Fires(rules'[r], eventLog'[i]) <=> Fires(rules[r], eventLog[i])
  <2>1. eventLog'[i] = eventLog[i]
    BY DEF StoreKept
  <2>2. QED
    BY <2>1, <1>3, FiresSame
<1>6. PICK ch : ch = rules[r].channels /\ ch = rules'[r].channels
  BY <1>4
<1>7. Settled(i, r) => Settled(i, r)'
  <2>1. Settled(i, r)' <=>
          (rules'[r].since < i /\ Fires(rules'[r], eventLog'[i]) /\ i \notin notifHistory'.failed =>
            \/ rules'[r].cooldown > 0 /\ rules'[r].last # Never
            \/ \A c \in DOMAIN ch : Delivered(r, i, ch[c])')
    BY <1>6 DEF Settled, Fires, ruleMatchesEvent, Delivered, Exists, Never
  <2>2. Settled(i, r) <=>
          (rules[r].since < i /\ Fires(rules[r], eventLog[i]) /\ i \notin notifHistory.failed =>
            \/ rules[r].cooldown > 0 /\ rules[r].last # Never
            \/ \A c \in DOMAIN ch : Delivered(r, i, ch[c]))
    BY <1>6 DEF Settled
  <2>3. i \in notifHistory.failed => i \in notifHistory'.failed
    BY DEF StoreKept
  <2>4. \A c \in DOMAIN ch : Delivered(r, i, ch[c]) => Delivered(r, i, ch[c])'
    BY <1>3
  <2>5. QED
    BY <2>1, <2>2, <2>3, <2>4, <1>3, <1>4, <1>5
<1>8. \A m : Copies(m, r) => Copies(m, r)'
  BY <1>3, <1>4 DEF Copies, Never
<1>9. QED
  BY <1>3, <1>4, <1>7, <1>8

LEMMA AllSettledKept ==
  ASSUME StoreTyped, RulesTyped', StoreKept, NEW i \in 1..Len(eventLog), AllSettled(i) PROVE AllSettled(i)'
<1>1. SUFFICES ASSUME NEW r \in DOMAIN rules' PROVE Settled(i, r)'
  BY DEF AllSettled, Settled, Delivered, Exists
<1>2. CASE rules'[r].since < i
  BY <1>2, SettledKept DEF AllSettled
<1>3. CASE ~(rules'[r].since < i)
  BY <1>3 DEF Settled
<1>4. QED
  BY <1>2, <1>3

(* Nothing that was notified is lost.                                        *)
LEMMA PastKept ==
  ASSUME StoreTyped, RulesTyped', StoreKept, NotifiedAtLeastOnce, UNCHANGED notifCursor
  PROVE  NotifiedAtLeastOnce'
<1>1. \A i \in 1..notifCursor : i \in 1..Len(eventLog)
  BY DEF StoreTyped, Histories
<1>2. \A i \in 1..notifCursor : AllSettled(i)
  BY DEF NotifiedAtLeastOnce, AllSettled, Settled, Delivered
<1>3. \A i \in 1..notifCursor : AllSettled(i)'
  BY <1>1, <1>2, AllSettledKept
<1>4. QED
  BY <1>3 DEF NotifiedAtLeastOnce, AllSettled, Settled, Delivered

(* A step that leaves the store alone keeps it.                              *)
LEMMA StoreSame ==
  ASSUME StoreTyped, UNCHANGED <<eventLog, rules, deliveries, notifHistory>> PROVE StoreKept
<1>1. Len(eventLog) \in Nat
  BY DEF StoreTyped, Histories
<1>2. \A r, i, c : Delivered(r, i, c) => Delivered(r, i, c)'
  BY DEF Delivered, Exists
<1>3. QED
  BY <1>1, <1>2 DEF StoreKept, SameRule

(* A new row, and a row rewritten, take no delivery away.                    *)
LEMMA AppendDelivers ==
  ASSUME StoreTyped, NEW x \in DeliveryRow, x.status # "deleted", deliveries' = Append(deliveries, x)
  PROVE  /\ deliveries' \in Seq(DeliveryRow)
         /\ Delivered(x.rule, x.event, x.channel)'
         /\ \A r, i, c : Delivered(r, i, c) => Delivered(r, i, c)'
<1>1. /\ deliveries' \in Seq(DeliveryRow) /\ Len(deliveries) \in Nat /\ DOMAIN deliveries = 1..Len(deliveries)
      /\ DOMAIN deliveries' = 1..Len(deliveries) + 1
      /\ deliveries'[Len(deliveries) + 1] = x /\ \A d \in DOMAIN deliveries : deliveries'[d] = deliveries[d]
  BY DEF StoreTyped, Histories
<1>2. Len(deliveries) + 1 \in DOMAIN deliveries' /\ \A d \in DOMAIN deliveries : d \in DOMAIN deliveries'
  BY <1>1
<1>3. Delivered(x.rule, x.event, x.channel)'
  BY <1>1, <1>2 DEF Delivered, Exists
<1>4. \A r, i, c : Delivered(r, i, c) => Delivered(r, i, c)'
  BY <1>1, <1>2 DEF Delivered, Exists
<1>5. QED
  BY <1>1, <1>3, <1>4

LEMMA RewriteDelivers ==
  ASSUME StoreTyped, NEW row \in DOMAIN deliveries, NEW x \in DeliveryRow, x.status # "deleted",
         x.rule = deliveries[row].rule, x.event = deliveries[row].event, x.channel = deliveries[row].channel,
         deliveries' = [deliveries EXCEPT ![row] = x]
  PROVE  /\ deliveries' \in Seq(DeliveryRow)
         /\ \A r, i, c : Delivered(r, i, c) => Delivered(r, i, c)'
<1>1. /\ deliveries' \in Seq(DeliveryRow) /\ DOMAIN deliveries' = DOMAIN deliveries
      /\ \A d \in DOMAIN deliveries : deliveries'[d] = IF d = row THEN x ELSE deliveries[d]
  BY DEF StoreTyped, Histories
<1>2. \A r, i, c : Delivered(r, i, c) => Delivered(r, i, c)'
  BY <1>1 DEF Delivered, Exists
<1>3. QED
  BY <1>1, <1>2

(* A step of anyone but the processor.                                       *)
LEMMA Bystander ==
  ASSUME NotifInv, StoreKept, StoreTyped', RulesTyped', notifTime' >= notifTime, UNCHANGED <<processor, notifCursor>>
  PROVE  NotifInv'
<1>1. /\ StoreTyped /\ ProcessorTyped /\ Len(eventLog) \in Nat /\ Len(eventLog') \in Nat /\ notifCursor \in Nat
      /\ Len(eventLog) <= Len(eventLog')
      /\ processor.next \in Nat /\ processor.last \in Nat /\ processor.event \in Nat
  BY DEF NotifInv, StoreTyped, ProcessorTyped, Processors, StoreKept
<1>2. NotifiedAtLeastOnce'
  BY <1>1, PastKept DEF NotifInv
<1>3. ProcessorTyped'
  <2>1. \A m \in processor.matched : m.last \in Int /\ m.last <= notifTime
    BY <1>1 DEF ProcessorTyped, Processors, RuleCopy
  <2>2. notifTime \in Nat /\ notifTime' \in Nat
    BY <1>1 DEF StoreTyped, Histories
  <2>3. \A m \in processor.matched : m.last <= notifTime'
    BY <2>1, <2>2
  <2>4. QED
    BY <2>3, <1>1 DEF ProcessorTyped
<1>4. BatchSoFar'
  <2>1. CASE processor.pc = "event"
    <3>1. /\ notifCursor < processor.next /\ processor.next <= processor.last + 1 /\ processor.last <= Len(eventLog)
          /\ \A i \in notifCursor + 1..processor.next - 1 : AllSettled(i)
      BY <2>1 DEF NotifInv, BatchSoFar
    <3>2. \A i \in notifCursor + 1..processor.next - 1 : i \in 1..Len(eventLog)
      BY <1>1, <3>1
    <3>3. \A i \in notifCursor + 1..processor.next - 1 : AllSettled(i)'
      BY <1>1, <3>1, <3>2, AllSettledKept
    <3>4. processor.last <= Len(eventLog')
      BY <1>1, <3>1
    <3>5. QED
      BY <2>1, <3>1, <3>3, <3>4 DEF BatchSoFar
  <2>2. CASE processor.pc \in {"rule", "channel"} /\ processor.event # 0
    <3>1. /\ notifCursor < processor.event /\ processor.next = processor.event + 1
          /\ processor.event <= processor.last /\ processor.last <= Len(eventLog)
          /\ \A i \in notifCursor + 1..processor.event - 1 : AllSettled(i)
      BY <2>2 DEF NotifInv, BatchSoFar
    <3>2. \A i \in notifCursor + 1..processor.event - 1 : i \in 1..Len(eventLog)
      BY <1>1, <3>1
    <3>3. \A i \in notifCursor + 1..processor.event - 1 : AllSettled(i)'
      BY <1>1, <3>1, <3>2, AllSettledKept
    <3>4. processor.last <= Len(eventLog')
      BY <1>1, <3>1
    <3>5. QED
      BY <2>2, <3>1, <3>3, <3>4 DEF BatchSoFar
  <2>3. QED
    BY <2>1, <2>2 DEF BatchSoFar
<1>5. ASSUME processor.pc \in {"rule", "channel"}, processor.event # 0 PROVE processor.event \in 1..Len(eventLog)
  BY <1>1, <1>5 DEF NotifInv, BatchSoFar
<1>6. EventInHand'
  <2>1. SUFFICES ASSUME processor.pc \in {"rule", "channel"}, processor.event # 0, NEW r \in DOMAIN rules',
                        rules'[r].since < processor.event
                 PROVE  \/ Settled(processor.event, r)'
                        \/ \E m \in processor.matched : Copies(m, r)'
                        \/ processor.pc = "channel" /\ Copies(processor.rule, r)'
    BY DEF EventInHand, Copies, Settled, Delivered, Exists, Never
  <2>2. processor.event \in 1..Len(eventLog)
    BY <1>5, <2>1
  <2>3. /\ r \in DOMAIN rules /\ rules[r].since = rules'[r].since
        /\ Settled(processor.event, r) => Settled(processor.event, r)'
        /\ \A m : Copies(m, r) => Copies(m, r)'
    <3>1. PICK e : e = processor.event
      OBVIOUS
    <3>2. e \in 1..Len(eventLog) /\ rules'[r].since < e /\ e = processor'.event
      BY <2>1, <2>2, <3>1
    <3>3. /\ r \in DOMAIN rules /\ rules[r].since = rules'[r].since
          /\ Settled(e, r) => Settled(e, r)'
          /\ \A m : Copies(m, r) => Copies(m, r)'
      BY <3>2, <1>1, SettledKept
    <3>4. Settled(processor.event, r)' <=> Settled(e, r)'
      BY <3>2 DEF Settled, Delivered, Exists
    <3>5. QED
      BY <3>1, <3>3, <3>4
  <2>4. \/ Settled(processor.event, r)
        \/ \E m \in processor.matched : Copies(m, r)
        \/ processor.pc = "channel" /\ Copies(processor.rule, r)
    BY <2>1, <2>3 DEF NotifInv, EventInHand
  <2>5. Copies(processor.rule, r) => Copies(processor.rule, r)'
    BY <2>3 DEF Copies
  <2>6. QED
    BY <2>3, <2>4, <2>5
<1>7. Delivering'
  <2>1. SUFFICES ASSUME processor.pc = "channel" PROVE Delivering'
    BY DEF Delivering
  <2>2. PICK k \in 0..Len(processor.rule.channels) :
          /\ Len(processor.channels) = Len(processor.rule.channels) - k
          /\ \A j \in 1..Len(processor.channels) : processor.channels[j] = processor.rule.channels[k + j]
          /\ processor.event # 0 /\ processor.rule.id \in DOMAIN rules /\ rules[processor.rule.id].since < processor.event =>
               \A j \in 1..k : Delivered(processor.rule.id, processor.event, processor.rule.channels[j])
    BY <2>1 DEF NotifInv, Delivering
  <2>3. ASSUME processor.event # 0, processor.rule.id \in DOMAIN rules', rules'[processor.rule.id].since < processor.event
        PROVE  \A j \in 1..k : Delivered(processor.rule.id, processor.event, processor.rule.channels[j])'
    <3>1. processor.event \in 1..Len(eventLog)
      BY <1>5, <2>1, <2>3
    <3> DEFINE r == processor.rule.id
    <3>2. rules'[r].since \in Nat
      BY <2>3 DEF RulesTyped
    <3>3. ~(rules'[r].since >= Len(eventLog))
      BY <3>1, <3>2, <2>3, <1>1
    <3>4. /\ r \in DOMAIN rules /\ SameRule(rules[r], rules'[r])
          /\ \A i, c : Delivered(r, i, c) => Delivered(r, i, c)'
      BY <3>3, <2>3 DEF StoreKept
    <3>5. \A j \in 1..k : Delivered(processor.rule.id, processor.event, processor.rule.channels[j])
      BY <2>2, <2>3, <3>4 DEF SameRule
    <3>6. PICK p : p = processor /\ p = processor'
      OBVIOUS
    <3>7. \A j \in 1..k : Delivered(p.rule.id, p.event, p.rule.channels[j])'
      BY <3>4, <3>5, <3>6
    <3>8. QED
      BY <3>6, <3>7 DEF Delivered, Exists
  <2>4. QED
    BY <2>2, <2>3 DEF Delivering, Delivered, Exists
<1>8. QED
  BY <1>2, <1>3, <1>4, <1>6, <1>7 DEF NotifInv

(* Steps of the rest of the process.                                         *)
LEMMA RulesSame ==
  ASSUME RulesTyped, StoreTyped, UNCHANGED rules, notifTime' \in Nat, notifTime' >= notifTime PROVE RulesTyped'
<1>1. notifTime \in Nat
  BY DEF StoreTyped, Histories
<1>2. \A r \in DOMAIN rules : rules[r].last \in Int /\ rules[r].last <= notifTime
  BY DEF RulesTyped
<1>3. \A r \in DOMAIN rules : rules[r].last <= notifTime'
  BY <1>1, <1>2
<1>4. QED
  BY <1>3 DEF RulesTyped

LEMMA LogAndClock ==
  ASSUME NotifInv, NotifClock \/ \E e \in LoggedEvents : IndexerLogs(e) PROVE NotifInv'
<1>1. StoreTyped /\ RulesTyped
  BY DEF NotifInv
<1>2. CASE NotifClock
  <2>1. /\ notifTime' \in Nat /\ notifTime' >= notifTime
        /\ UNCHANGED <<eventLog, rules, deliveries, notifHistory, notifCursor, processor>>
    BY <1>1, <1>2 DEF NotifClock, StoreTyped
  <2>2. StoreKept /\ StoreTyped' /\ RulesTyped'
    BY <1>1, <2>1, StoreSame, RulesSame DEF StoreTyped, Histories
  <2>3. QED
    BY <2>1, <2>2, Bystander
<1>3. CASE \E e \in LoggedEvents : IndexerLogs(e)
  <2>1. PICK e \in LoggedEvents : IndexerLogs(e)
    BY <1>3
  <2>2. /\ eventLog' = Append(eventLog, e)
        /\ UNCHANGED <<rules, deliveries, inbox, notifCursor, notifTime, processor, attempt, dueRows, notifHistory>>
    BY <2>1 DEF IndexerLogs
  <2>3. /\ eventLog' \in Seq(LoggedEvents) /\ Len(eventLog) \in Nat /\ Len(eventLog') = Len(eventLog) + 1
        /\ \A i \in 1..Len(eventLog) : eventLog'[i] = eventLog[i]
    BY <1>1, <2>2 DEF StoreTyped, Histories
  <2>4. \A r, i, c : Delivered(r, i, c) => Delivered(r, i, c)'
    BY <2>2 DEF Delivered, Exists
  <2>5. StoreKept
    BY <2>2, <2>3, <2>4 DEF StoreKept, SameRule
  <2>6. StoreTyped'
    BY <1>1, <2>2, <2>3 DEF StoreTyped, Histories
  <2>7. notifTime' \in Nat /\ notifTime' >= notifTime
    BY <1>1, <2>2 DEF StoreTyped, Histories
  <2>8. QED
    BY <1>1, <2>2, <2>5, <2>6, <2>7, RulesSame, Bystander
<1>4. QED
  BY <1>2, <1>3

(* A step that leaves the log, the rules, the clock and the processor alone  *)
(* and takes no delivery away.                                               *)
LEMMA DeliveryStep ==
  ASSUME NotifInv, UNCHANGED <<eventLog, rules, notifTime, notifCursor, processor>>,
         deliveries' \in Seq(DeliveryRow), \A r, i, c : Delivered(r, i, c) => Delivered(r, i, c)',
         notifHistory' \in Histories, notifHistory'.failed = notifHistory.failed
  PROVE  NotifInv'
<1>1. StoreTyped /\ RulesTyped
  BY DEF NotifInv
<1>2. StoreTyped' /\ RulesTyped' /\ notifTime' >= notifTime
  BY <1>1 DEF StoreTyped, Histories, RulesTyped
<1>3. Len(eventLog) \in Nat
  BY <1>1 DEF StoreTyped, Histories
<1>4. StoreKept
  BY <1>3 DEF StoreKept, SameRule
<1>5. QED
  BY <1>2, <1>4, Bystander

LEMMA SameDeliveries ==
  ASSUME NotifInv, UNCHANGED <<eventLog, rules, deliveries, notifTime, notifCursor, processor>>,
         notifHistory' \in Histories, notifHistory'.failed = notifHistory.failed
  PROVE  NotifInv'
<1>1. deliveries' \in Seq(DeliveryRow)
  BY DEF NotifInv, StoreTyped
<1>2. \A r, i, c : Delivered(r, i, c) => Delivered(r, i, c)'
  BY DEF Delivered, Exists
<1>3. QED
  BY <1>1, <1>2, DeliveryStep

(* The bookkeeping of a request.                                             *)
LEMMA RequestCounts ==
  ASSUME StoreTyped, Request
  PROVE  /\ notifHistory' \in Histories
         /\ notifHistory'.failed = notifHistory.failed
<1>1. notifHistory.requests + 1 \in Nat
  BY DEF StoreTyped, Histories
<1>2. QED
  BY <1>1 DEF StoreTyped, Histories, Request

LEMMA SendStep == ASSUME NotifInv, NEW w \in Workers, Send(w) PROVE NotifInv'
<1>1. UNCHANGED <<eventLog, rules, deliveries, notifTime, notifCursor, processor, notifHistory>>
  BY DEF Send
<1>2. QED
  BY <1>1, SameDeliveries DEF NotifInv, StoreTyped

(* A row rewritten is a row.                                                 *)
RewriteOf(x, row) ==
  x \in DeliveryRow /\ x.status # "deleted" /\ x.rule = row.rule /\ x.event = row.event /\ x.channel = row.channel
LEMMA RowRewritten ==
  ASSUME NEW row \in DeliveryRow, NEW st \in {"delivered", "retrying", "failed"}, NEW n \in Nat, NEW t \in Dues, NEW x
  PROVE  /\ x = [row EXCEPT !.attempts = n, !.status = st, !.due = t] => RewriteOf(x, row)
         /\ x = [row EXCEPT !.status = st, !.attempts = n] => RewriteOf(x, row)
         /\ x = [row EXCEPT !.status = st, !.due = t] => RewriteOf(x, row)
<1>1. st \in Statuses /\ st # "deleted"
  BY DEF Statuses
<1>2. x = [row EXCEPT !.attempts = n, !.status = st, !.due = t] => RewriteOf(x, row)
  BY <1>1 DEF DeliveryRow, RewriteOf
<1>3. x = [row EXCEPT !.status = st, !.attempts = n] => RewriteOf(x, row)
  BY <1>1 DEF DeliveryRow, RewriteOf
<1>4. x = [row EXCEPT !.status = st, !.due = t] => RewriteOf(x, row)
  BY <1>1 DEF DeliveryRow, RewriteOf
<1>5. QED
  BY <1>2, <1>3, <1>4

(* What an attempt writes into a row that exists.                            *)
LEMMA RetryRow == ASSUME NotifInv, NEW row \in DeliveryRow PROVE RewriteOf(enqueueRetry(row), row)
<1>1. PICK n \in Nat : n = row.attempts + 1
  BY DEF DeliveryRow
<1>2. PICK t \in Dues : t = notifTime + 2^row.attempts
  BY DEF DeliveryRow, NotifInv, StoreTyped, Dues
<1>3. Never \in Dues
  BY DEF Dues
<1>4. CASE n >= MAX_RETRIES
  <2>1. enqueueRetry(row) = [row EXCEPT !.attempts = n, !.status = "failed", !.due = Never]
    BY <1>1, <1>4 DEF enqueueRetry
  <2>2. QED
    BY <2>1, <1>3, RowRewritten
<1>5. CASE ~(n >= MAX_RETRIES)
  <2>1. enqueueRetry(row) = [row EXCEPT !.attempts = n, !.status = "retrying", !.due = t]
    BY <1>1, <1>2, <1>5 DEF enqueueRetry
  <2>2. QED
    BY <2>1, RowRewritten
<1>6. QED
  BY <1>4, <1>5

LEMMA AttemptStep == ASSUME NotifInv, NEW w \in Workers, attemptDelivery(w) PROVE NotifInv'
<1> DEFINE row == attempt[w].row
           x == IF attempt[w].done = "ok"
                THEN [deliveries[row] EXCEPT !.status = "delivered", !.attempts = deliveries[row].attempts + 1]
                ELSE enqueueRetry(deliveries[row])
<1>1. UNCHANGED <<eventLog, rules, notifTime, notifCursor, processor, notifHistory>>
  BY DEF attemptDelivery
<1>2. StoreTyped /\ deliveries \in Seq(DeliveryRow)
  BY DEF NotifInv, StoreTyped
<1>3. CASE ~Exists(row)
  <2>1. deliveries' = deliveries
    BY <1>3 DEF attemptDelivery
  <2>2. QED
    BY <1>1, <1>2, <2>1, SameDeliveries DEF StoreTyped, Histories
<1>4. CASE Exists(row)
  <2>1. row \in DOMAIN deliveries
    BY <1>4 DEF Exists
  <2>2. deliveries' = [deliveries EXCEPT ![row] = x]
    BY <1>4 DEF attemptDelivery
  <2>3. PICK old \in DeliveryRow : old = deliveries[row]
    BY <1>2, <2>1
  <2>4. RewriteOf(x, old)
    <3>1. CASE attempt[w].done = "ok"
      <4>1. PICK n \in Nat : n = old.attempts + 1
        BY DEF DeliveryRow
      <4>2. x = [old EXCEPT !.status = "delivered", !.attempts = n]
        BY <3>1, <2>3, <4>1
      <4>3. Never \in Dues
        BY DEF Dues
      <4> HIDE DEF x
      <4>4. QED
        BY <4>2, <4>3, RowRewritten
    <3>2. CASE attempt[w].done # "ok"
      <4>1. x = enqueueRetry(old)
        BY <3>2, <2>3
      <4> HIDE DEF x
      <4>2. QED
        BY <4>1, RetryRow
    <3>3. QED
      BY <3>1, <3>2
  <2> HIDE DEF row, x
  <2>5. deliveries' \in Seq(DeliveryRow) /\ \A r, i, c : Delivered(r, i, c) => Delivered(r, i, c)'
    BY <1>2, <2>1, <2>2, <2>3, <2>4, RewriteDelivers DEF RewriteOf
  <2>6. notifHistory' \in Histories /\ notifHistory'.failed = notifHistory.failed
    BY <1>1, <1>2 DEF StoreTyped, Histories
  <2>7. QED
    BY <1>1, <2>5, <2>6, DeliveryStep
<1>5. QED
  BY <1>3, <1>4

LEMMA RetryJobStep == ASSUME NotifInv, RetryTick \/ processDueRetries PROVE NotifInv'
<1>1. UNCHANGED <<eventLog, rules, notifTime, notifCursor, processor, notifHistory>>
  BY DEF RetryTick, processDueRetries
<1>2. StoreTyped /\ deliveries \in Seq(DeliveryRow)
  BY DEF NotifInv, StoreTyped
<1>3. CASE deliveries' = deliveries
  BY <1>1, <1>2, <1>3, SameDeliveries DEF StoreTyped, Histories
<1>4. CASE processDueRetries /\ deliveries' # deliveries
  <2> DEFINE row == Head(dueRows).row
             x == [deliveries[row] EXCEPT !.status = "failed", !.due = Never]
  <2>1. deliveries' = [deliveries EXCEPT ![row] = x] /\ row \in DOMAIN deliveries
    BY <1>4 DEF processDueRetries, Exists
  <2>2. PICK old \in DeliveryRow : old = deliveries[row]
    BY <1>2, <2>1
  <2>3. RewriteOf(x, old)
    <3>1. x = [old EXCEPT !.status = "failed", !.due = Never]
      BY <2>2
    <3>2. Never \in Dues /\ 0 \in Nat
      BY DEF Dues
    <3> HIDE DEF x
    <3>3. QED
      BY <3>1, <3>2, RowRewritten
  <2> HIDE DEF x
  <2>4. deliveries' \in Seq(DeliveryRow) /\ \A r, i, c : Delivered(r, i, c) => Delivered(r, i, c)'
    BY <1>2, <2>1, <2>2, <2>3, RewriteDelivers DEF RewriteOf
  <2>5. notifHistory' \in Histories /\ notifHistory'.failed = notifHistory.failed
    BY <1>1, <1>2 DEF StoreTyped, Histories
  <2>6. QED
    BY <1>1, <2>4, <2>5, DeliveryStep
<1>5. QED
  BY <1>3, <1>4 DEF RetryTick

(* The requests: a rule that is written or rewritten is younger than every   *)
(* event of the log, and a rule that is deleted owes nothing.                *)
LEMMA WriteRuleStep ==
  ASSUME NotifInv, NEW r \in RuleIds, NEW rule \in NewRules, postRule(r, rule) \/ putRule(r, rule) PROVE NotifInv'
<1>1. /\ StoreTyped /\ RulesTyped /\ Request
      /\ UNCHANGED <<eventLog, notifCursor, notifTime, processor, deliveries>>
  BY DEF NotifInv, postRule, putRule, notifRequestRest
<1>2. Len(eventLog) \in Nat /\ notifTime \in Nat
  BY <1>1 DEF StoreTyped, Histories
<1>3. /\ notifHistory' \in Histories
      /\ notifHistory'.failed = notifHistory.failed
  BY <1>1, RequestCounts
<1>4. PICK t : /\ t \in Int /\ t <= notifTime
               /\ DOMAIN rules' = DOMAIN rules \cup {r}
               /\ rules'[r] = Row(rule, t)
               /\ \A q \in DOMAIN rules : q # r => rules'[q] = rules[q]
  <2>1. CASE postRule(r, rule)
    <3>1. Never \in Int /\ Never <= notifTime
      BY <1>2 DEF Never
    <3>2. rules' = [q \in DOMAIN rules \cup {r} |-> IF q = r THEN Row(rule, Never) ELSE rules[q]]
      BY <2>1 DEF postRule
    <3>3. QED
      BY <3>1, <3>2
  <2>2. CASE putRule(r, rule)
    <3>1. r \in DOMAIN rules /\ rules' = [rules EXCEPT ![r] = Row(rule, rules[r].last)]
      BY <2>2 DEF putRule
    <3>2. rules[r].last \in Int /\ rules[r].last <= notifTime
      BY <1>1, <3>1 DEF RulesTyped
    <3>3. QED
      BY <3>1, <3>2
  <2>3. QED
    BY <2>1, <2>2
<1>5. /\ DOMAIN Row(rule, t) = RuleKeys /\ Row(rule, t).channels \in Seq(STRING) /\ Row(rule, t).cooldown \in Nat
      /\ Row(rule, t).last = t /\ Row(rule, t).since = Len(eventLog)
  BY NotifAssumption DEF Row, RuleKeys
<1>6. RulesTyped'
  <2>1. DOMAIN rules' \subseteq RuleIds
    BY <1>1, <1>4 DEF RulesTyped
  <2>2. ASSUME NEW q \in DOMAIN rules'
        PROVE  /\ DOMAIN rules'[q] = RuleKeys /\ rules'[q].channels \in Seq(STRING) /\ rules'[q].cooldown \in Nat
               /\ rules'[q].last \in Int /\ rules'[q].last <= notifTime /\ rules'[q].since \in Nat
    <3>1. CASE q = r
      BY <3>1, <1>2, <1>4, <1>5
    <3>2. CASE q # r
      BY <2>2, <3>2, <1>1, <1>4 DEF RulesTyped
    <3>3. QED
      BY <3>1, <3>2
  <2>3. QED
    BY <1>1, <2>1, <2>2 DEF RulesTyped
<1>7. StoreTyped'
  BY <1>1, <1>3 DEF StoreTyped, Histories
<1>8. \A q, i, c : Delivered(q, i, c) => Delivered(q, i, c)'
  BY <1>1 DEF Delivered, Exists
<1>9. rules'[r].since >= Len(eventLog)
  BY <1>2, <1>4, <1>5
<1>10. StoreKept
  BY <1>1, <1>2, <1>3, <1>4, <1>8, <1>9 DEF StoreKept, SameRule
<1>11. QED
  BY <1>1, <1>2, <1>6, <1>7, <1>10, Bystander

LEMMA DeleteRuleStep == ASSUME NotifInv, NEW r \in RuleIds, deleteRule(r) PROVE NotifInv'
<1>1. /\ StoreTyped /\ RulesTyped /\ Request
      /\ UNCHANGED <<eventLog, notifCursor, notifTime, processor>>
      /\ rules' = [q \in DOMAIN rules \ {r} |-> rules[q]]
      /\ deliveries' = [i \in DOMAIN deliveries |->
                          IF deliveries[i].rule = r THEN [deliveries[i] EXCEPT !.status = "deleted"] ELSE deliveries[i]]
  BY DEF NotifInv, deleteRule, notifRequestRest
<1>2. Len(eventLog) \in Nat /\ notifTime \in Nat
  BY <1>1 DEF StoreTyped, Histories
<1>3. /\ notifHistory' \in Histories
      /\ notifHistory'.failed = notifHistory.failed
  BY <1>1, RequestCounts
<1>4. deliveries' \in Seq(DeliveryRow)
  <2>1. /\ deliveries \in Seq(DeliveryRow) /\ Len(deliveries) \in Nat /\ DOMAIN deliveries = 1..Len(deliveries)
        /\ \A i \in DOMAIN deliveries : deliveries[i] \in DeliveryRow
    BY <1>1 DEF StoreTyped, Histories
  <2>2. "deleted" \in Statuses
    BY DEF Statuses
  <2>3. \A i \in DOMAIN deliveries : [deliveries[i] EXCEPT !.status = "deleted"] \in DeliveryRow
    BY <2>1, <2>2 DEF DeliveryRow
  <2>4. \A i \in 1..Len(deliveries) : deliveries'[i] \in DeliveryRow
    BY <1>1, <2>1, <2>3
  <2>5. deliveries' \in [1..Len(deliveries) -> DeliveryRow]
    BY <1>1, <2>1, <2>4
  <2>6. QED
    BY <2>1, <2>5
<1>5. StoreTyped' /\ RulesTyped'
  BY <1>1, <1>3, <1>4 DEF StoreTyped, Histories, RulesTyped
<1>6. ASSUME NEW q, q # r, NEW i, NEW c, Delivered(q, i, c) PROVE Delivered(q, i, c)'
  BY <1>1, <1>6 DEF Delivered, Exists
<1>7. StoreKept
  <2>1. \A q \in DOMAIN rules' : q \in DOMAIN rules /\ q # r /\ rules'[q] = rules[q]
    BY <1>1
  <2>2. QED
    BY <2>1, <1>1, <1>2, <1>3, <1>6 DEF StoreKept, SameRule
<1>8. QED
  BY <1>1, <1>2, <1>5, <1>7, Bystander

LEMMA TryOutStep == ASSUME NotifInv, NEW r \in RuleIds, testRule(r) PROVE NotifInv'
<1>1. /\ StoreTyped /\ RulesTyped /\ Request /\ r \in DOMAIN rules
      /\ UNCHANGED <<eventLog, notifCursor, notifTime, processor, rules>>
  BY DEF NotifInv, testRule, notifRequestRest
<1>2. PICK c \in {rules[r].channels[i] : i \in DOMAIN rules[r].channels} : recordDelivery("request", r, 0, c)
  BY DEF testRule
<1> DEFINE x == [rule |-> r, event |-> 0, channel |-> c, status |-> "pending", attempts |-> 0, due |-> Never]
<1>3. c \in STRING
  <2>1. rules[r].channels \in Seq(STRING)
    BY <1>1 DEF RulesTyped
  <2>2. QED
    BY <2>1, <1>2
<1>4. x \in DeliveryRow /\ x.status # "deleted"
  BY <1>3 DEF DeliveryRow, Statuses, Dues
<1>5. deliveries' = Append(deliveries, x)
  BY <1>2 DEF recordDelivery
<1> HIDE DEF x
<1>6. deliveries' \in Seq(DeliveryRow) /\ \A q, i, d : Delivered(q, i, d) => Delivered(q, i, d)'
  BY <1>1, <1>4, <1>5, AppendDelivers
<1>7. QED
  BY <1>1, <1>6, RequestCounts, DeliveryStep

LEMMA OtherRequestStep ==
  ASSUME NotifInv, markInboxRead \/ markAllInboxRead \/ \E row \in DOMAIN deliveries : retryDelivery(row)
  PROVE  NotifInv'
<1>1. UNCHANGED <<eventLog, rules, deliveries, notifTime, notifCursor, processor>>
  BY DEF markInboxRead, markAllInboxRead, retryDelivery, notifRequestRest
<1>2. StoreTyped
  BY DEF NotifInv
<1>3. /\ notifHistory' \in Histories
      /\ notifHistory'.failed = notifHistory.failed
  <2>1. CASE Request
    BY <1>2, <2>1, RequestCounts
  <2>2. CASE UNCHANGED notifHistory
    BY <1>2, <2>2 DEF StoreTyped, Histories
  <2>3. QED
    BY <2>1, <2>2 DEF markInboxRead, markAllInboxRead, retryDelivery
<1>4. QED
  BY <1>1, <1>3, SameDeliveries

(* The processor.                                                            *)
LEMMA IdleTyped == /\ NoRule \in RuleCopy /\ IdleProcessor \in Processors
                   /\ IdleProcessor.matched = {} /\ IdleProcessor.pc = "idle"
<1>1. NoRule \in RuleCopy
  BY DEF NoRule, RuleCopy, Never
<1>2. QED
  BY <1>1 DEF IdleProcessor, Processors

(* Between ticks, between the batch and the timers, and while the timers'    *)
(* rules are evaluated, no event is in hand.                                 *)
LEMMA NothingInHand ==
  ASSUME processor'.pc \in {"idle", "timers"} \/ (processor'.pc = "rule" /\ processor'.event = 0)
  PROVE  (BatchSoFar /\ EventInHand /\ Delivering)'
BY DEF BatchSoFar, EventInHand, Delivering

LEMMA RestartStep == ASSUME NotifInv, NotifRestart PROVE NotifInv'
<1>1. /\ StoreTyped /\ RulesTyped /\ processor' = IdleProcessor
      /\ UNCHANGED <<eventLog, rules, deliveries, notifCursor, notifTime>>
  BY DEF NotifInv, NotifRestart
<1>2. /\ notifHistory' \in Histories
      /\ notifHistory'.failed = notifHistory.failed
  <2>1. notifHistory.stops + 1 \in Nat
    BY <1>1 DEF StoreTyped, Histories
  <2>2. QED
    BY <1>1, <2>1 DEF StoreTyped, Histories, NotifRestart
<1>3. StoreTyped' /\ RulesTyped'
  BY <1>1, <1>2 DEF StoreTyped, Histories, RulesTyped
<1>4. \A q, i, c : Delivered(q, i, c) => Delivered(q, i, c)'
  BY <1>1 DEF Delivered, Exists
<1>5. Len(eventLog) \in Nat
  BY <1>1 DEF StoreTyped, Histories
<1>6. StoreKept
  BY <1>1, <1>2, <1>4, <1>5 DEF StoreKept, SameRule
<1>7. NotifiedAtLeastOnce'
  BY <1>1, <1>3, <1>6, PastKept DEF NotifInv
<1>8. ProcessorTyped'
  BY <1>1, IdleTyped DEF ProcessorTyped
<1>9. (BatchSoFar /\ EventInHand /\ Delivering)'
  BY <1>1, IdleTyped, NothingInHand
<1>10. QED
  BY <1>3, <1>7, <1>8, <1>9 DEF NotifInv

(* A step of the processor that leaves the store alone.                      *)
LEMMA ProcessorOnly ==
  ASSUME NotifInv, UNCHANGED <<eventLog, rules, deliveries, notifTime, notifHistory>>
  PROVE  /\ StoreKept /\ RulesTyped' /\ (notifCursor' = notifCursor => StoreTyped' /\ NotifiedAtLeastOnce')
         /\ \A i, r : Settled(i, r)' <=> Settled(i, r)
         /\ \A i : AllSettled(i)' <=> AllSettled(i)
         /\ \A m, r : Copies(m, r)' <=> Copies(m, r)
         /\ \A i, r, c : Delivered(r, i, c)' <=> Delivered(r, i, c)
<1>1. StoreTyped /\ RulesTyped
  BY DEF NotifInv
<1>2. StoreKept
  BY <1>1, StoreSame
<1>3. RulesTyped'
  BY <1>1 DEF RulesTyped
<1>4. notifCursor' = notifCursor => StoreTyped' /\ NotifiedAtLeastOnce'
  <2>1. SUFFICES ASSUME notifCursor' = notifCursor PROVE StoreTyped' /\ NotifiedAtLeastOnce'
    OBVIOUS
  <2>2. StoreTyped'
    BY <1>1, <2>1 DEF StoreTyped, Histories
  <2>3. NotifiedAtLeastOnce'
    BY <1>1, <1>2, <1>3, <2>1, PastKept DEF NotifInv
  <2>4. QED
    BY <2>2, <2>3
<1>5. \A i, r, c : Delivered(r, i, c)' <=> Delivered(r, i, c)
  BY DEF Delivered, Exists
<1>6. \A i, r : Settled(i, r)' <=> Settled(i, r)
  BY DEF Settled, Delivered, Exists
<1>7. \A i : AllSettled(i)' <=> AllSettled(i)
  BY <1>6 DEF AllSettled
<1>8. \A m, r : Copies(m, r)' <=> Copies(m, r)
  BY DEF Copies
<1>9. QED
  BY <1>2, <1>3, <1>4, <1>5, <1>6, <1>7, <1>8

(* Facts about sequences.                                                    *)
LEMMA EmptyIsSeq == ASSUME NEW S PROVE << >> \in Seq(S)
OBVIOUS
LEMMA TailOfSeq ==
  ASSUME NEW S, NEW s \in Seq(S), s # << >>
  PROVE  /\ Tail(s) \in Seq(S) /\ Len(Tail(s)) = Len(s) - 1
         /\ \A j \in 1..Len(s) - 1 : Tail(s)[j] = s[j + 1]
<1>1. Tail(s) \in Seq(S)
  OBVIOUS
<1>2. Len(Tail(s)) = Len(s) - 1
  OBVIOUS
<1>3. \A j \in 1..Len(s) - 1 : Tail(s)[j] = s[j + 1]
  OBVIOUS
<1>4. QED
  BY <1>1, <1>2, <1>3

LEMMA StartBatch == ASSUME NotifInv, processNewEvents PROVE NotifInv'
<1> DEFINE n == notifCursor + 1
           b == BatchEnd
<1>1. /\ UNCHANGED <<eventLog, rules, deliveries, notifTime, notifHistory, notifCursor>>
      /\ processor' = [IdleProcessor EXCEPT !.pc = "event", !.next = n, !.last = b]
  BY DEF processNewEvents, procRest
<1>2. /\ n \in Nat /\ b \in Nat /\ n = notifCursor + 1 /\ notifCursor \in Nat
      /\ notifCursor <= b /\ b <= Len(eventLog)
  BY NotifAssumption DEF NotifInv, StoreTyped, BatchEnd
<1>3. StoreTyped' /\ RulesTyped' /\ NotifiedAtLeastOnce'
  BY <1>1, ProcessorOnly
<1> HIDE DEF n, b
<1>4. /\ processor' \in Processors /\ processor'.matched = {} /\ processor'.pc = "event"
      /\ processor'.next = n /\ processor'.last = b
  BY <1>1, <1>2, IdleTyped DEF Processors
<1>5. ProcessorTyped'
  BY <1>4 DEF ProcessorTyped
<1>6. \A i : ~(i \in notifCursor + 1..n - 1)
  BY <1>2
<1>7. BatchSoFar'
  BY <1>1, <1>2, <1>4, <1>6 DEF BatchSoFar
<1>8. EventInHand' /\ Delivering'
  BY <1>4 DEF EventInHand, Delivering
<1>9. QED
  BY <1>3, <1>5, <1>7, <1>8 DEF NotifInv

LEMMA CursorMoves == ASSUME NotifInv, setCursor PROVE NotifInv'
<1>1. /\ UNCHANGED <<eventLog, rules, deliveries, notifTime, notifHistory>>
      /\ processor.pc = "event" /\ processor.next > processor.last /\ notifCursor' = processor.last
      /\ processor' = [IdleProcessor EXCEPT !.pc = "timers"]
  BY DEF setCursor, procRest, Processing
<1>2. /\ processor.next \in Nat /\ processor.last \in Nat /\ notifCursor \in Nat /\ Len(eventLog) \in Nat
      /\ StoreTyped
  BY DEF NotifInv, ProcessorTyped, Processors, StoreTyped
<1>3. /\ notifCursor < processor.next /\ processor.next <= processor.last + 1 /\ processor.last <= Len(eventLog)
      /\ \A i \in notifCursor + 1..processor.next - 1 : AllSettled(i)
  BY <1>1 DEF NotifInv, BatchSoFar
<1>4. \A i \in 1..processor.last : AllSettled(i)
  <2>1. \A i \in 1..notifCursor : AllSettled(i)
    BY DEF NotifInv, NotifiedAtLeastOnce, AllSettled, Settled, Delivered
  <2>2. \A i \in 1..processor.last : i \in 1..notifCursor \/ i \in notifCursor + 1..processor.next - 1
    BY <1>1, <1>2, <1>3
  <2>3. QED
    BY <2>1, <2>2, <1>3
<1>5. NotifiedAtLeastOnce'
  <2>1. \A i \in 1..processor.last : AllSettled(i)'
    BY <1>1, <1>4, ProcessorOnly
  <2>2. \A i \in 1..notifCursor' : AllSettled(i)'
    BY <1>1, <2>1
  <2>3. QED
    BY <2>2 DEF NotifiedAtLeastOnce, AllSettled, Settled, Delivered
<1>6. StoreTyped' /\ RulesTyped'
  BY <1>1, <1>2, <1>3, ProcessorOnly DEF StoreTyped, Histories
<1>7. processor' \in Processors /\ processor'.matched = {} /\ processor'.pc = "timers"
  BY <1>1, IdleTyped DEF Processors
<1>8. ProcessorTyped' /\ (BatchSoFar /\ EventInHand /\ Delivering)'
  BY <1>7, NothingInHand DEF ProcessorTyped
<1>9. QED
  BY <1>5, <1>6, <1>8 DEF NotifInv

(* The copies that matchRules takes.                                         *)
LEMMA CopiesTaken ==
  ASSUME NotifInv, NEW e
  PROVE  /\ matchRules(e) \in SUBSET RuleCopy
         /\ \A m \in matchRules(e) : m.last <= notifTime
         /\ \A r \in DOMAIN rules : Fires(rules[r], e) => \E m \in matchRules(e) : Copies(m, r)
<1> DEFINE copy(r) == [id |-> r, channels |-> rules[r].channels, cooldown |-> rules[r].cooldown, last |-> rules[r].last]
<1>1. matchRules(e) = {copy(r) : r \in {q \in DOMAIN rules : Fires(rules[q], e)}}
  BY DEF matchRules
<1>2. \A r \in DOMAIN rules :
        /\ r \in RuleIds /\ rules[r].channels \in Seq(STRING) /\ rules[r].cooldown \in Nat
        /\ rules[r].last \in Int /\ rules[r].last <= notifTime
  BY DEF NotifInv, RulesTyped
<1>3. \A r \in DOMAIN rules : copy(r) \in RuleCopy /\ copy(r).last <= notifTime /\ Copies(copy(r), r)
  BY <1>2 DEF RuleCopy, Copies
<1> HIDE DEF copy
<1>4. QED
  BY <1>1, <1>3

LEMMA NextEvent == ASSUME NotifInv, EvaluateNext PROVE NotifInv'
<1> DEFINE e == processor.next
           M == matchRules(eventLog[processor.next])
<1>1. /\ UNCHANGED <<eventLog, rules, deliveries, notifTime, notifHistory, notifCursor>>
      /\ processor.pc = "event" /\ e <= processor.last
      /\ processor' = [processor EXCEPT !.pc = "rule", !.event = e, !.next = e + 1, !.matched = M]
  BY DEF EvaluateNext, procRest, Processing
<1>2. /\ processor \in Processors /\ e \in Nat /\ e + 1 \in Nat /\ processor.last \in Nat
      /\ notifCursor \in Nat /\ Len(eventLog) \in Nat
  BY DEF NotifInv, ProcessorTyped, Processors, StoreTyped
<1>3. /\ notifCursor < e /\ processor.last <= Len(eventLog)
      /\ \A i \in notifCursor + 1..e - 1 : AllSettled(i)
  BY <1>1 DEF NotifInv, BatchSoFar
<1>4. StoreTyped' /\ RulesTyped' /\ NotifiedAtLeastOnce'
  BY <1>1, ProcessorOnly
<1>5. /\ M \in SUBSET RuleCopy /\ \A m \in M : m.last <= notifTime
      /\ \A r \in DOMAIN rules : Fires(rules[r], eventLog[e]) => \E m \in M : Copies(m, r)
  BY CopiesTaken
<1> HIDE DEF M, e
<1>6. /\ processor' \in Processors /\ processor'.pc = "rule" /\ processor'.event = e /\ processor'.next = e + 1
      /\ processor'.matched = M /\ processor'.last = processor.last
  BY <1>1, <1>2, <1>5 DEF Processors
<1>7. ProcessorTyped'
  BY <1>1, <1>5, <1>6 DEF ProcessorTyped
<1>8. BatchSoFar'
  <2>1. \A i \in notifCursor + 1..e - 1 : AllSettled(i)'
    BY <1>1, <1>3, ProcessorOnly
  <2>2. QED
    BY <1>1, <1>3, <1>6, <2>1 DEF BatchSoFar
<1>9. EventInHand'
  <2>1. SUFFICES ASSUME NEW r \in DOMAIN rules PROVE Settled(processor.event, r)' \/ \E m \in M : Copies(m, r)'
    BY <1>1, <1>6 DEF EventInHand, Settled, Copies
  <2>2. PICK i : i = e
    OBVIOUS
  <2>3. CASE Fires(rules[r], eventLog[e])
    BY <2>1, <2>3, <1>1, <1>5, ProcessorOnly
  <2>4. CASE ~Fires(rules[r], eventLog[e])
    <3>1. Settled(i, r)
      BY <2>2, <2>4 DEF Settled
    <3>2. Settled(i, r)'
      BY <3>1, <1>1, ProcessorOnly
    <3>3. QED
      BY <3>2, <2>2, <1>6 DEF Settled, Delivered, Exists
  <2>5. QED
    BY <2>3, <2>4
<1>10. Delivering'
  BY <1>6 DEF Delivering
<1>11. QED
  BY <1>4, <1>7, <1>8, <1>9, <1>10 DEF NotifInv

LEMMA TimersStep == ASSUME NotifInv, checkProposalTimers PROVE NotifInv'
<1> DEFINE M == matchRules(EndingSoon)
<1>1. /\ UNCHANGED <<eventLog, rules, deliveries, notifTime, notifHistory, notifCursor>>
      /\ \/ processor' = IdleProcessor
         \/ processor' = [processor EXCEPT !.pc = "rule", !.event = 0, !.matched = M]
  BY DEF checkProposalTimers, procRest
<1>2. StoreTyped' /\ RulesTyped' /\ NotifiedAtLeastOnce'
  BY <1>1, ProcessorOnly
<1>3. M \in SUBSET RuleCopy /\ \A m \in M : m.last <= notifTime
  BY CopiesTaken
<1> HIDE DEF M
<1>4. processor \in Processors
  BY DEF NotifInv, ProcessorTyped
<1>5. CASE processor' = IdleProcessor
  <2>1. ProcessorTyped' /\ (BatchSoFar /\ EventInHand /\ Delivering)'
    BY <1>5, IdleTyped, NothingInHand DEF ProcessorTyped
  <2>2. QED
    BY <1>2, <2>1 DEF NotifInv
<1>6. CASE processor' = [processor EXCEPT !.pc = "rule", !.event = 0, !.matched = M]
  <2>1. processor' \in Processors /\ processor'.pc = "rule" /\ processor'.event = 0 /\ processor'.matched = M
    BY <1>3, <1>4, <1>6 DEF Processors
  <2>2. ProcessorTyped' /\ (BatchSoFar /\ EventInHand /\ Delivering)'
    BY <1>1, <1>3, <2>1, NothingInHand DEF ProcessorTyped
  <2>3. QED
    BY <1>2, <2>2 DEF NotifInv
<1>7. QED
  BY <1>1, <1>5, <1>6

(* What the evaluation of an event's rules writes.                           *)
Written(p, pc, M, rule, ch) == [p EXCEPT !.pc = pc, !.matched = M, !.rule = rule, !.channels = ch]
LEMMA ProcessorWritten ==
  ASSUME NEW p \in Processors, NEW pc \in {"event", "rule", "channel"}, NEW M \in SUBSET RuleCopy,
         NEW rule \in RuleCopy, NEW ch \in Seq(STRING), NEW x, x = Written(p, pc, M, rule, ch)
  PROVE  /\ x \in Processors /\ x.pc = pc /\ x.matched = M /\ x.rule = rule /\ x.channels = ch
         /\ x.next = p.next /\ x.last = p.last /\ x.event = p.event
BY DEF Processors, Written

(* The end of an event that is settled for every rule.                       *)
LEMMA Proceeds ==
  ASSUME NotifInv, StoreKept, StoreTyped', RulesTyped', UNCHANGED <<notifCursor, notifTime>>,
         processor.pc \in {"rule", "channel"}, processor' = Proceed(processor),
         \A i : i = processor.event /\ i # 0 => AllSettled(i)'
  PROVE  NotifInv'
<1>1. NotifiedAtLeastOnce'
  BY PastKept DEF NotifInv
<1>2. /\ processor \in Processors /\ StoreTyped /\ notifCursor \in Nat /\ Len(eventLog) \in Nat /\ Len(eventLog') \in Nat
      /\ Len(eventLog) <= Len(eventLog')
  BY DEF NotifInv, ProcessorTyped, StoreTyped, StoreKept
<1>3. CASE processor.event = 0
  <2>1. processor' = IdleProcessor
    BY <1>3 DEF Proceed
  <2>2. ProcessorTyped' /\ (BatchSoFar /\ EventInHand /\ Delivering)'
    BY <2>1, IdleTyped, NothingInHand DEF ProcessorTyped
  <2>3. QED
    BY <1>1, <2>2 DEF NotifInv
<1>4. CASE processor.event # 0
  <2>1. processor' = Written(processor, "event", {}, NoRule, << >>)
    BY <1>4 DEF Proceed, Written
  <2>2. /\ processor' \in Processors /\ processor'.pc = "event" /\ processor'.matched = {}
        /\ processor'.next = processor.next /\ processor'.last = processor.last
    <3>1. PICK none \in SUBSET RuleCopy : none = {}
      OBVIOUS
    <3>2. PICK ch \in Seq(STRING) : ch = << >>
      BY EmptyIsSeq
    <3>3. processor' = Written(processor, "event", none, NoRule, ch)
      BY <2>1, <3>1, <3>2
    <3>4. QED
      BY <1>2, <3>1, <3>3, IdleTyped, ProcessorWritten
  <2>3. /\ notifCursor < processor.event /\ processor.next = processor.event + 1
        /\ processor.event <= processor.last /\ processor.last <= Len(eventLog)
        /\ \A i \in notifCursor + 1..processor.event - 1 : AllSettled(i)
    BY <1>4 DEF NotifInv, BatchSoFar
  <2>4. processor.event \in Nat /\ processor.last \in Nat /\ processor.next \in Nat
    BY <1>2 DEF Processors
  <2>5. ASSUME NEW i \in notifCursor + 1..processor.next - 1 PROVE AllSettled(i)'
    <3>1. i \in 1..Len(eventLog) /\ (i \in notifCursor + 1..processor.event - 1 \/ i = processor.event)
      BY <1>2, <2>3, <2>4
    <3>2. CASE i = processor.event
      BY <1>4, <3>2
    <3>3. CASE i \in notifCursor + 1..processor.event - 1
      BY <1>2, <2>3, <3>1, <3>3, AllSettledKept
    <3>4. QED
      BY <3>1, <3>2, <3>3
  <2>6. processor.next <= processor.last + 1 /\ notifCursor < processor.next /\ processor.last <= Len(eventLog')
    BY <1>2, <2>3, <2>4
  <2>7. BatchSoFar'
    BY <2>2, <2>5, <2>6 DEF BatchSoFar
  <2>8. ProcessorTyped' /\ EventInHand' /\ Delivering'
    BY <2>2 DEF ProcessorTyped, EventInHand, Delivering
  <2>9. QED
    BY <1>1, <2>7, <2>8 DEF NotifInv
<1>5. QED
  BY <1>3, <1>4

LEMMA EvaluateStep == ASSUME NotifInv, evaluateEvent PROVE NotifInv'
<1>1. UNCHANGED <<eventLog, rules, deliveries, notifTime, notifHistory, notifCursor>> /\ processor.pc = "rule"
  BY DEF evaluateEvent, procRest, Processing
<1>2. StoreTyped' /\ RulesTyped' /\ NotifiedAtLeastOnce' /\ StoreKept
  BY <1>1, ProcessorOnly
<1>3. /\ processor \in Processors /\ notifTime \in Nat /\ \A m \in processor.matched : m.last <= notifTime
      /\ processor.matched \in SUBSET RuleCopy /\ processor.rule \in RuleCopy /\ processor.channels \in Seq(STRING)
  BY DEF NotifInv, ProcessorTyped, Processors, StoreTyped
<1>4. CASE processor.matched = {} /\ processor' = Proceed(processor)
  <2>1. ASSUME NEW i, i = processor.event, i # 0 PROVE AllSettled(i)'
    <3>1. ASSUME NEW r \in DOMAIN rules PROVE Settled(i, r)
      <4>1. CASE rules[r].since < processor.event
        BY <1>1, <1>4, <2>1, <4>1 DEF NotifInv, EventInHand
      <4>2. CASE ~(rules[r].since < processor.event)
        BY <2>1, <4>2 DEF Settled
      <4>3. QED
        BY <4>1, <4>2
    <3>2. AllSettled(i)
      BY <3>1 DEF AllSettled
    <3>3. QED
      BY <3>2, <1>1, ProcessorOnly
  <2>2. QED
    BY <1>1, <1>2, <1>4, <2>1, Proceeds
<1>5. ASSUME NEW m \in processor.matched,
             processor' = IF isInCooldown(m) THEN [processor EXCEPT !.matched = @ \ {m}]
                          ELSE [processor EXCEPT !.pc = "channel", !.matched = @ \ {m}, !.rule = m, !.channels = m.channels]
      PROVE  NotifInv'
  <2> DEFINE M == processor.matched \ {m}
  <2>1. m \in RuleCopy /\ M \in SUBSET RuleCopy /\ m.channels \in Seq(STRING) /\ m.cooldown \in Nat /\ m.last \in Int
    BY <1>3, <1>5 DEF RuleCopy
  <2>2. /\ processor' \in Processors /\ processor'.matched = M
        /\ processor'.next = processor.next /\ processor'.last = processor.last /\ processor'.event = processor.event
        /\ processor'.pc = IF isInCooldown(m) THEN "rule" ELSE "channel"
        /\ ~isInCooldown(m) => processor'.rule = m /\ processor'.channels = m.channels
    <3>1. CASE isInCooldown(m)
      BY <1>1, <1>3, <1>5, <2>1, <3>1 DEF Processors
    <3>2. CASE ~isInCooldown(m)
      <4>1. processor' = Written(processor, "channel", M, m, m.channels)
        BY <1>5, <3>2 DEF Written
      <4> HIDE DEF M
      <4>2. QED
        BY <1>3, <2>1, <3>2, <4>1, ProcessorWritten
    <3>3. QED
      BY <3>1, <3>2
  <2>3. ProcessorTyped'
    BY <1>1, <1>3, <2>2 DEF ProcessorTyped
  <2>4. BatchSoFar'
    <3>1. SUFFICES ASSUME processor.event # 0 PROVE BatchSoFar'
      BY <2>2 DEF BatchSoFar
    <3>2. /\ notifCursor < processor.event /\ processor.next = processor.event + 1
          /\ processor.event <= processor.last /\ processor.last <= Len(eventLog)
          /\ \A i \in notifCursor + 1..processor.event - 1 : AllSettled(i)
      BY <1>1, <3>1 DEF NotifInv, BatchSoFar
    <3>3. \A i \in notifCursor + 1..processor.event - 1 : AllSettled(i)'
      BY <1>1, <3>2, ProcessorOnly
    <3>4. QED
      BY <1>1, <2>2, <3>2, <3>3 DEF BatchSoFar
  <2>5. EventInHand'
    <3>1. PICK e : e = processor.event /\ e = processor'.event
      BY <2>2
    <3>2. ASSUME e # 0, NEW r \in DOMAIN rules, rules[r].since < e
          PROVE  \/ Settled(e, r)
                 \/ \E x \in M : Copies(x, r)
                 \/ ~isInCooldown(m) /\ Copies(m, r)
      <4>1. Settled(e, r) \/ \E x \in processor.matched : Copies(x, r)
        BY <1>1, <3>1, <3>2 DEF NotifInv, EventInHand
      <4>2. CASE Copies(m, r) /\ isInCooldown(m)
        <5>1. m.last # Never /\ notifTime - m.last < m.cooldown /\ m.last <= notifTime
          BY <4>2, <1>3, <1>5 DEF isInCooldown
        <5>2. m.cooldown > 0
          BY <5>1, <2>1, <1>3
        <5>3. rules[r].cooldown > 0 /\ rules[r].last # Never
          BY <4>2, <5>1, <5>2 DEF Copies
        <5>4. QED
          BY <5>3 DEF Settled
      <4>3. QED
        BY <4>1, <4>2
    <3>3. \A r : Settled(processor.event, r)' <=> Settled(e, r)
      <4>1. \A r : Settled(e, r)' <=> Settled(e, r)
        BY <1>1, ProcessorOnly
      <4>2. QED
        BY <3>1, <4>1 DEF Settled, Delivered, Exists
    <3>4. \A x, r : Copies(x, r)' <=> Copies(x, r)
      BY <1>1, ProcessorOnly
    <3>5. ~isInCooldown(m) => \A r : Copies(m, r) => Copies(processor.rule, r)'
      BY <1>1, <2>2 DEF Copies
    <3>6. QED
      BY <1>1, <2>2, <3>1, <3>2, <3>3, <3>4, <3>5 DEF EventInHand
  <2>6. Delivering'
    <3>1. SUFFICES ASSUME ~isInCooldown(m) PROVE Delivering'
      BY <2>2 DEF Delivering
    <3>2. /\ processor'.rule = m /\ processor'.channels = m.channels /\ Len(m.channels) \in Nat
      BY <2>1, <2>2, <3>1
    <3>3. 0 \in 0..Len(m.channels) /\ Len(m.channels) = Len(m.channels) - 0
      BY <3>2
    <3>4. \A j \in 1..Len(m.channels) : 0 + j = j
      OBVIOUS
    <3>5. \A j : ~(j \in 1..0)
      OBVIOUS
    <3>6. QED
      BY <3>2, <3>3, <3>4, <3>5 DEF Delivering
  <2>7. QED
    BY <1>2, <2>3, <2>4, <2>5, <2>6 DEF NotifInv
<1>6. QED
  BY <1>4, <1>5 DEF evaluateEvent

(* The rule in hand was deleted: the event counts as failed.                 *)
LEMMA EvaluationFails ==
  ASSUME NotifInv, deliverNotification, processor.rule.id \notin DOMAIN rules PROVE NotifInv'
<1>1. /\ UNCHANGED <<eventLog, rules, deliveries, notifTime, notifCursor>> /\ processor.pc = "channel"
      /\ notifHistory' = [notifHistory EXCEPT !.failed = @ \cup {processor.event}]
      /\ processor' = Proceed(processor)
  BY DEF deliverNotification, procRest, Processing
<1>2. StoreTyped /\ RulesTyped /\ Len(eventLog) \in Nat /\ processor.event \in Nat
  BY DEF NotifInv, StoreTyped, ProcessorTyped, Processors
<1>3. /\ notifHistory' \in Histories
      /\ notifHistory'.failed = notifHistory.failed \cup {processor.event}
  BY <1>1, <1>2 DEF StoreTyped, Histories
<1>4. StoreTyped' /\ RulesTyped'
  BY <1>1, <1>2, <1>3 DEF StoreTyped, Histories, RulesTyped
<1>5. \A r, i, c : Delivered(r, i, c) => Delivered(r, i, c)'
  BY <1>1 DEF Delivered, Exists
<1>6. StoreKept
  BY <1>1, <1>2, <1>3, <1>5 DEF StoreKept, SameRule
<1>7. \A i : i = processor.event => AllSettled(i)'
  BY <1>3 DEF AllSettled, Settled
<1>8. QED
  BY <1>1, <1>4, <1>6, <1>7, Proceeds

(* One more channel of the rule in hand has its delivery.                    *)
LEMMA DeliverStep ==
  ASSUME NotifInv, deliverNotification, processor.rule.id \in DOMAIN rules PROVE NotifInv'
<1> DEFINE x == [rule |-> processor.rule.id, event |-> processor.event, channel |-> Head(processor.channels),
                 status |-> "pending", attempts |-> 0, due |-> Never]
<1>1. /\ UNCHANGED <<eventLog, rules, notifTime, notifCursor, notifHistory>> /\ processor.pc = "channel"
      /\ processor.channels # << >> /\ deliveries' = Append(deliveries, x)
      /\ processor' = [processor EXCEPT !.channels = Tail(@)]
  BY DEF deliverNotification, procRest, Processing, recordDelivery
<1>2. /\ StoreTyped /\ RulesTyped /\ Len(eventLog) \in Nat /\ processor \in Processors /\ processor.event \in Nat
      /\ processor.channels \in Seq(STRING) /\ processor.rule.id \in RuleIds /\ processor.rule.channels \in Seq(STRING)
  BY DEF NotifInv, StoreTyped, RulesTyped, ProcessorTyped, Processors, RuleCopy
<1>3. PICK ch \in Seq(STRING) : ch = processor.channels /\ ch # << >>
  BY <1>1, <1>2
<1>4. Len(ch) \in Nat /\ Len(ch) > 0 /\ Head(ch) = ch[1] /\ Head(ch) \in STRING
  BY <1>3
<1>5. /\ Tail(ch) \in Seq(STRING) /\ Len(Tail(ch)) = Len(ch) - 1
      /\ \A j \in 1..Len(ch) - 1 : Tail(ch)[j] = ch[j + 1]
  BY <1>3, TailOfSeq
<1>6. PICK p \in Processors : p = processor
  BY <1>2
<1>7. /\ processor' \in Processors /\ processor'.channels = Tail(ch) /\ processor'.pc = "channel"
      /\ processor'.next = p.next /\ processor'.last = p.last /\ processor'.event = p.event
      /\ processor'.matched = p.matched /\ processor'.rule = p.rule
  BY <1>1, <1>3, <1>5, <1>6 DEF Processors
<1>8. PICK y \in DeliveryRow :
        /\ y = x /\ y.status = "pending" /\ y.rule = p.rule.id /\ y.event = p.event /\ y.channel = ch[1]
  <2>1. x.event \in Nat /\ x.rule \in RuleIds /\ x.channel \in STRING /\ x.channel = ch[1]
    BY <1>2, <1>3, <1>4
  <2>2. Never \in Dues /\ "pending" \in Statuses
    BY DEF Dues, Statuses
  <2>3. x \in DeliveryRow
    BY <2>1, <2>2 DEF DeliveryRow
  <2>4. QED
    BY <2>1, <2>3, <1>6
<1> HIDE DEF x
<1>9. /\ deliveries' \in Seq(DeliveryRow) /\ \A r, i, c : Delivered(r, i, c) => Delivered(r, i, c)'
      /\ Delivered(y.rule, y.event, y.channel)'
  BY <1>1, <1>2, <1>8, AppendDelivers
<1>10. StoreTyped' /\ RulesTyped'
  BY <1>1, <1>2, <1>9 DEF StoreTyped, Histories, RulesTyped
<1>11. StoreKept
  BY <1>1, <1>2, <1>9 DEF StoreKept, SameRule
<1>12. NotifiedAtLeastOnce'
  BY <1>1, <1>2, <1>10, <1>11, PastKept DEF NotifInv
<1>13. ProcessorTyped'
  BY <1>1, <1>6, <1>7 DEF NotifInv, ProcessorTyped
<1>14. p.event # 0 =>
         /\ notifCursor < p.event /\ p.next = p.event + 1 /\ p.event <= p.last /\ p.last <= Len(eventLog)
         /\ p.event \in 1..Len(eventLog)
         /\ \A i \in notifCursor + 1..p.event - 1 : AllSettled(i)
  <2>1. SUFFICES ASSUME p.event # 0 PROVE
         /\ notifCursor < p.event /\ p.next = p.event + 1 /\ p.event <= p.last /\ p.last <= Len(eventLog)
         /\ p.event \in 1..Len(eventLog)
         /\ \A i \in notifCursor + 1..p.event - 1 : AllSettled(i)
    OBVIOUS
  <2>2. /\ notifCursor < p.event /\ p.next = p.event + 1 /\ p.event <= p.last /\ p.last <= Len(eventLog)
        /\ \A i \in notifCursor + 1..p.event - 1 : AllSettled(i)
    BY <1>1, <1>6, <2>1 DEF NotifInv, BatchSoFar
  <2>3. p.event \in Nat /\ p.last \in Nat /\ notifCursor \in Nat
    BY <1>2, <1>6 DEF Processors, StoreTyped
  <2>4. QED
    BY <2>2, <2>3, <1>2
<1>15. BatchSoFar'
  <2>1. SUFFICES ASSUME p.event # 0 PROVE BatchSoFar'
    BY <1>7 DEF BatchSoFar
  <2>2. notifCursor \in Nat /\ p.event \in Nat
    BY <1>2, <1>6 DEF StoreTyped, Histories
  <2>3. \A i \in notifCursor + 1..p.event - 1 : i \in 1..Len(eventLog)
    BY <1>2, <1>14, <2>1, <2>2
  <2>4. \A i \in notifCursor + 1..p.event - 1 : AllSettled(i)'
    BY <1>2, <1>10, <1>11, <1>14, <2>1, <2>3, AllSettledKept
  <2>5. QED
    BY <1>1, <1>7, <1>14, <2>1, <2>4 DEF BatchSoFar
<1>16. EventInHand'
  <2>1. PICK e : e = p.event
    OBVIOUS
  <2>2. ASSUME e # 0, NEW r \in DOMAIN rules', rules'[r].since < e
        PROVE  Settled(e, r)' \/ (\E m \in p.matched : Copies(m, r)') \/ Copies(p.rule, r)'
    <3>1. /\ r \in DOMAIN rules /\ rules[r].since < e
          /\ Settled(e, r) => Settled(e, r)'
          /\ \A m : Copies(m, r) => Copies(m, r)'
      BY <1>2, <1>10, <1>11, <1>14, <2>1, <2>2, SettledKept
    <3>2. Settled(e, r) \/ (\E m \in p.matched : Copies(m, r)) \/ Copies(p.rule, r)
      BY <1>1, <1>6, <2>1, <2>2, <3>1 DEF NotifInv, EventInHand
    <3>3. QED
      BY <3>1, <3>2
  <2>3. \A r : Settled(processor.event, r)' <=> Settled(e, r)'
    BY <1>7, <2>1 DEF Settled, Delivered, Exists
  <2>4. \A r : Copies(processor.rule, r)' <=> Copies(p.rule, r)'
    BY <1>7 DEF Copies
  <2>5. QED
    BY <1>7, <2>1, <2>2, <2>3, <2>4 DEF EventInHand
<1>17. Delivering'
  <2>1. PICK k \in 0..Len(p.rule.channels) :
          /\ Len(ch) = Len(p.rule.channels) - k
          /\ \A j \in 1..Len(ch) : ch[j] = p.rule.channels[k + j]
          /\ p.event # 0 /\ p.rule.id \in DOMAIN rules /\ rules[p.rule.id].since < p.event =>
               \A j \in 1..k : Delivered(p.rule.id, p.event, p.rule.channels[j])
    BY <1>1, <1>3, <1>6 DEF NotifInv, Delivering
  <2>2. Len(p.rule.channels) \in Nat
    BY <1>2, <1>6
  <2>3. k + 1 \in 0..Len(p.rule.channels) /\ Len(Tail(ch)) = Len(p.rule.channels) - (k + 1)
    BY <1>4, <1>5, <2>1, <2>2
  <2>4. ASSUME NEW j \in 1..Len(Tail(ch)) PROVE Tail(ch)[j] = p.rule.channels[(k + 1) + j]
    <3>0. Len(ch) \in Nat /\ Len(Tail(ch)) = Len(ch) - 1 /\ j \in 1..Len(Tail(ch)) /\ k \in Nat
      BY <1>4, <1>5, <2>1, <2>4
    <3>1. j \in 1..Len(ch) - 1 /\ j + 1 \in 1..Len(ch) /\ k + (j + 1) = (k + 1) + j
      <4>1. PICK n \in Nat : n = Len(ch)
        BY <3>0
      <4>2. j \in Int /\ 1 <= j /\ j <= n - 1
        BY <3>0, <4>1
      <4>3. QED
        BY <3>0, <4>1, <4>2
    <3>2. QED
      BY <3>1, <1>5, <2>1
  <2>5. ASSUME p.event # 0, p.rule.id \in DOMAIN rules, rules[p.rule.id].since < p.event, NEW j \in 1..k + 1
        PROVE  Delivered(p.rule.id, p.event, p.rule.channels[j])'
    <3>1. CASE j \in 1..k
      BY <1>9, <2>1, <2>5, <3>1
    <3>2. CASE j = k + 1
      <4>1. ch[1] = p.rule.channels[k + 1]
        BY <1>4, <2>1
      <4>2. QED
        BY <1>8, <1>9, <3>2, <4>1
    <3>3. QED
      BY <2>5, <3>1, <3>2
  <2>6. \A j : Delivered(processor.rule.id, processor.event, processor.rule.channels[j])' <=>
               Delivered(p.rule.id, p.event, p.rule.channels[j])'
    BY <1>7 DEF Delivered, Exists
  <2>7. QED
    BY <1>1, <1>7, <2>3, <2>4, <2>5, <2>6 DEF Delivering
<1>18. QED
  BY <1>10, <1>12, <1>13, <1>15, <1>16, <1>17 DEF NotifInv

(* All channels of the rule in hand have their delivery.                     *)
LEMMA TriggeredStep == ASSUME NotifInv, RuleTriggered PROVE NotifInv'
<1>1. /\ UNCHANGED <<eventLog, deliveries, notifTime, notifCursor, notifHistory>>
      /\ processor.pc = "channel" /\ processor.channels = << >>
      /\ rules' = [r \in DOMAIN rules |-> IF r = processor.rule.id THEN [rules[r] EXCEPT !.last = notifTime] ELSE rules[r]]
      /\ processor' = [processor EXCEPT !.pc = "rule", !.rule = NoRule]
  BY DEF RuleTriggered, procRest, Processing
<1>2. StoreTyped /\ RulesTyped /\ Len(eventLog) \in Nat /\ notifTime \in Nat /\ notifCursor \in Nat
  BY DEF NotifInv, StoreTyped
<1>3. PICK p \in Processors : p = processor
  BY DEF NotifInv, ProcessorTyped
<1>4. /\ processor' \in Processors /\ processor'.pc = "rule" /\ processor'.matched = p.matched
      /\ processor'.next = p.next /\ processor'.last = p.last /\ processor'.event = p.event
  BY <1>1, <1>3, IdleTyped DEF Processors
<1>5. notifTime # Never
  BY <1>2 DEF Never
<1>6. /\ DOMAIN rules' = DOMAIN rules
      /\ \A r \in DOMAIN rules :
           /\ SameRule(rules[r], rules'[r]) /\ DOMAIN rules'[r] = RuleKeys
           /\ rules'[r].last \in {rules[r].last, notifTime}
  <2>1. ASSUME NEW r \in DOMAIN rules PROVE /\ SameRule(rules[r], rules'[r]) /\ DOMAIN rules'[r] = RuleKeys
                                            /\ rules'[r].last \in {rules[r].last, notifTime}
    <3>1. DOMAIN rules[r] = RuleKeys
      BY <1>2, <2>1 DEF RulesTyped
    <3>2. CASE rules'[r] = rules[r]
      BY <3>1, <3>2 DEF SameRule
    <3>3. CASE rules'[r] = [rules[r] EXCEPT !.last = notifTime]
      BY <3>1, <3>3 DEF SameRule, RuleKeys
    <3>4. QED
      BY <1>1, <2>1, <3>2, <3>3
  <2>2. QED
    BY <1>1, <2>1
<1>7. StoreTyped'
  BY <1>1, <1>2 DEF StoreTyped, Histories
<1>8. RulesTyped'
  <2>1. ASSUME NEW r \in DOMAIN rules
        PROVE  /\ rules'[r].channels \in Seq(STRING) /\ rules'[r].cooldown \in Nat
               /\ rules'[r].last \in Int /\ rules'[r].last <= notifTime /\ rules'[r].since \in Nat
    <3>1. /\ rules[r].channels \in Seq(STRING) /\ rules[r].cooldown \in Nat
          /\ rules[r].last \in Int /\ rules[r].last <= notifTime /\ rules[r].since \in Nat
      BY <1>2, <2>1 DEF RulesTyped
    <3>2. QED
      BY <3>1, <2>1, <1>2, <1>6 DEF SameRule
  <2>2. QED
    BY <1>1, <1>2, <1>6, <2>1 DEF RulesTyped
<1>9. \A r, i, c : Delivered(r, i, c) <=> Delivered(r, i, c)'
  BY <1>1 DEF Delivered, Exists
<1>10. StoreKept
  BY <1>1, <1>2, <1>5, <1>6, <1>9 DEF StoreKept
<1>11. NotifiedAtLeastOnce'
  BY <1>1, <1>2, <1>8, <1>10, PastKept DEF NotifInv
<1>12. ProcessorTyped'
  BY <1>1, <1>3, <1>4 DEF NotifInv, ProcessorTyped
<1>13. p.event # 0 =>
         /\ notifCursor < p.event /\ p.next = p.event + 1 /\ p.event <= p.last /\ p.last <= Len(eventLog)
         /\ \A i \in notifCursor + 1..p.event - 1 : AllSettled(i)
  BY <1>1, <1>3 DEF NotifInv, BatchSoFar
<1>14. p.event \in Nat /\ p.last \in Nat /\ p.rule \in RuleCopy /\ p.rule.channels \in Seq(STRING)
  BY <1>3 DEF Processors, RuleCopy
<1>15. p.event # 0 => p.event \in 1..Len(eventLog)
  BY <1>2, <1>13, <1>14
<1>16. BatchSoFar'
  <2>1. SUFFICES ASSUME p.event # 0 PROVE BatchSoFar'
    BY <1>4 DEF BatchSoFar
  <2>2. \A i \in notifCursor + 1..p.event - 1 : i \in 1..Len(eventLog)
    BY <1>2, <1>13, <1>14, <2>1
  <2>3. \A i \in notifCursor + 1..p.event - 1 : AllSettled(i)'
    BY <1>2, <1>8, <1>10, <1>13, <2>1, <2>2, AllSettledKept
  <2>4. QED
    BY <1>1, <1>4, <1>13, <2>1, <2>3 DEF BatchSoFar
<1>17. EventInHand'
  <2>1. PICK e : e = p.event
    OBVIOUS
  <2>2. ASSUME e # 0, NEW r \in DOMAIN rules', rules'[r].since < e
        PROVE  Settled(e, r)' \/ \E m \in p.matched : Copies(m, r)'
    <3>1. /\ r \in DOMAIN rules /\ rules[r].since < e
          /\ Settled(e, r) => Settled(e, r)'
          /\ \A m : Copies(m, r) => Copies(m, r)'
      BY <1>2, <1>8, <1>10, <1>15, <2>1, <2>2, SettledKept
    <3>2. Settled(e, r) \/ (\E m \in p.matched : Copies(m, r)) \/ Copies(p.rule, r)
      BY <1>1, <1>3, <2>1, <2>2, <3>1 DEF NotifInv, EventInHand
    <3>3. CASE Copies(p.rule, r)
      <4>1. PICK k \in 0..Len(p.rule.channels) :
              /\ Len(<< >>) = Len(p.rule.channels) - k
              /\ p.event # 0 /\ p.rule.id \in DOMAIN rules /\ rules[p.rule.id].since < p.event =>
                   \A j \in 1..k : Delivered(p.rule.id, p.event, p.rule.channels[j])
        BY <1>1, <1>3 DEF NotifInv, Delivering
      <4>2. k = Len(p.rule.channels) /\ DOMAIN p.rule.channels = 1..Len(p.rule.channels)
        BY <1>14, <4>1
      <4>3. p.rule.id = r /\ p.rule.channels = rules[r].channels
        BY <3>3 DEF Copies
      <4>4. \A c \in DOMAIN rules[r].channels : Delivered(r, e, rules[r].channels[c])
        BY <2>1, <2>2, <3>1, <4>1, <4>2, <4>3
      <4>5. Settled(e, r)
        BY <4>4 DEF Settled
      <4>6. QED
        BY <3>1, <4>5
    <3>4. QED
      BY <3>1, <3>2, <3>3
  <2>3. \A r : Settled(processor.event, r)' <=> Settled(e, r)'
    BY <1>4, <2>1 DEF Settled, Delivered, Exists
  <2>4. QED
    BY <1>4, <2>1, <2>2, <2>3 DEF EventInHand
<1>18. Delivering'
  BY <1>4 DEF Delivering
<1>19. QED
  BY <1>7, <1>8, <1>11, <1>12, <1>16, <1>17, <1>18 DEF NotifInv

LEMMA NotifInitial == NotifInit => NotifInv
<1>1. SUFFICES ASSUME NotifInit PROVE NotifInv
  OBVIOUS
<1>2. /\ eventLog = << >> /\ rules = << >> /\ deliveries = << >> /\ notifCursor = 0 /\ notifTime = 0
      /\ processor = IdleProcessor /\ notifHistory = [failed |-> {}, stops |-> 0, requests |-> 0]
  BY <1>1 DEF NotifInit
<1>3. StoreTyped
  <2>1. eventLog \in Seq(LoggedEvents) /\ deliveries \in Seq(DeliveryRow) /\ Len(eventLog) = 0
    BY <1>2, EmptyIsSeq
  <2>2. notifHistory \in Histories
    BY <1>2 DEF Histories
  <2>3. notifCursor \in 0..Len(eventLog) /\ notifTime \in Nat
    BY <1>2, <2>1
  <2>4. QED
    BY <2>1, <2>2, <2>3 DEF StoreTyped, Histories
<1>4. DOMAIN rules = {}
  BY <1>2
<1>5. RulesTyped
  BY <1>4 DEF RulesTyped
<1>6. ProcessorTyped
  BY <1>2, IdleTyped DEF ProcessorTyped
<1>7. NotifiedAtLeastOnce
  BY <1>4 DEF NotifiedAtLeastOnce
<1>8. BatchSoFar /\ EventInHand /\ Delivering
  BY <1>2, IdleTyped DEF BatchSoFar, EventInHand, Delivering
<1>9. QED
  BY <1>3, <1>5, <1>6, <1>7, <1>8 DEF NotifInv

LEMMA NotifStep == ASSUME NotifInv, NotifNext PROVE NotifInv'
<1>1. CASE NotifClock \/ \E e \in LoggedEvents : IndexerLogs(e)
  BY <1>1, LogAndClock
<1>2. CASE processNewEvents \/ setCursor \/ EvaluateNext \/ checkProposalTimers \/ evaluateEvent
  BY <1>2, StartBatch, CursorMoves, NextEvent, TimersStep, EvaluateStep
<1>3. CASE deliverNotification \/ RuleTriggered
  BY <1>3, DeliverStep, EvaluationFails, TriggeredStep
<1>4. CASE RetryTick \/ processDueRetries
  BY <1>4, RetryJobStep
<1>5. CASE \E w \in Workers : Send(w) \/ attemptDelivery(w)
  BY <1>5, SendStep, AttemptStep
<1>6. CASE \E r \in RuleIds : deleteRule(r) \/ testRule(r) \/ \E rule \in NewRules : postRule(r, rule) \/ putRule(r, rule)
  BY <1>6, DeleteRuleStep, TryOutStep, WriteRuleStep
<1>7. CASE markInboxRead \/ markAllInboxRead \/ \E row \in DOMAIN deliveries : retryDelivery(row)
  BY <1>7, OtherRequestStep
<1>8. CASE NotifRestart
  BY <1>8, RestartStep
<1>9. QED
  BY <1>1, <1>2, <1>3, <1>4, <1>5, <1>6, <1>7, <1>8 DEF NotifNext

LEMMA NotifUnchanged == ASSUME NotifInv, UNCHANGED notifVars PROVE NotifInv'
<1>1. UNCHANGED <<eventLog, rules, deliveries, notifTime, notifCursor, processor, notifHistory>>
  BY DEF notifVars
<1>2. QED
  BY <1>1, SameDeliveries DEF NotifInv, StoreTyped

(* For every number of events, rules, channels, crashes and requests: once   *)
(* the cursor is past an event, every rule as old as it that it fires has    *)
(* its deliveries, unless it was cooling down or the evaluation failed       *)
(* (processNewEvents, evaluateEvent, deliverNotification, setCursor).        *)
THEOREM EveryEventNotified == Spec => []NotifiedAtLeastOnce
<1>1. Init => NotifInv
  BY NotifInitial DEF Init
<1>2. NotifInv /\ [Next]_vars => NotifInv'
  <2>1. SUFFICES ASSUME NotifInv, [Next]_vars PROVE NotifInv'
    OBVIOUS
  <2>2. CASE Notify(NotifNext)
    BY <2>1, <2>2, NotifStep DEF Notify
  <2>3. CASE UNCHANGED notifVars
    BY <2>1, <2>3, NotifUnchanged
  <2>4. QED
    BY <2>1, <2>2, <2>3 DEF Next, vars, Rewards, Notify, Relaying, Polling, Tuning, Streaming
<1>3. NotifInv => NotifiedAtLeastOnce
  BY DEF NotifInv
<1>4. QED
  BY <1>1, <1>2, <1>3, PTL DEF Spec
=============================================================================
