-------------------------- MODULE TokenVotesProofs --------------------------
(***************************************************************************)
(* Proofs about TokenVotes, for every set of accounts, balances, splits,    *)
(* retention periods and numbers of calls: the past is immutable, pruning    *)
(* keeps what may still be asked for, the registry agrees with the           *)
(* delegations, and voting power is conserved.                              *)
(***************************************************************************)
EXTENDS TokenVotes, FiniteSetTheorems, SequenceTheorems, SumTheorems, TLAPS

-----------------------------------------------------------------------------
(* Logs of checkpoints.                                                     *)

(* Every log is dated by ledgers.                                            *)
Dated ==
    /\ seq \in Ledgers
    /\ DOMAIN checkpoints = Accounts
    /\ \A a \in Accounts : DOMAIN checkpoints[a] \subseteq Ledgers
    /\ DOMAIN totals \subseteq Ledgers
    /\ accountList \subseteq Accounts

(* A set of ledgers that is not empty has a last one.                        *)
LEMMA LastLedger ==
    ASSUME NEW T \in SUBSET Ledgers, T # {}
    PROVE  Max(T) \in T /\ \A k \in T : k <= Max(T)
  <1> DEFINE left == {MaxLedger - k : k \in T}
  <1>1. left \in SUBSET Nat
    <2>1. \A k \in T : k \in Nat /\ k <= MaxLedger /\ MaxLedger \in Nat
      BY TokenNumbers DEF Ledgers
    <2>2. QED
      BY <2>1
  <1>2. left # {}
    OBVIOUS
  <1>3. PICK x \in left : \A y \in left : x <= y
    <2> HIDE DEF left
    <2>1. QED
      BY <1>1, <1>2, LeastNat
  <1>4. PICK k \in T : x = MaxLedger - k
    BY <1>3
  <1>5. \A j \in T : MaxLedger - k <= MaxLedger - j
    BY <1>3, <1>4
  <1>6. \A j \in T : k >= j
    BY <1>5, TokenNumbers DEF Ledgers
  <1>7. \E y \in T : \A z \in T : y >= z
    BY <1>4, <1>6
  <1>8. Max(T) \in T /\ \A z \in T : Max(T) >= z
    BY <1>7 DEF Max
  <1>9. QED
    BY <1>8 DEF Ledgers

(* What is written at the current ledger does not show before it.            *)
LEMMA PutKeepsPast ==
    ASSUME seq \in Ledgers, NEW log, DOMAIN log \subseteq Ledgers, NEW dv, NEW dw,
           NEW l \in 0..(seq - 1)
    PROVE  Latest(Put(log, dv, dw), l) = Latest(log, l)
  <1> DEFINE new == Put(log, dv, dw)
             ks == {k \in DOMAIN log : k <= l}
  <1>1. DOMAIN new = DOMAIN log \cup {seq}
    BY DEF Put
  <1>2. ~(seq <= l)
    BY DEF Ledgers
  <1>3. {k \in DOMAIN new : k <= l} = ks
    BY <1>1, <1>2
  <1>4. \A k \in ks : new[k] = log[k]
    BY <1>2 DEF Put
  <1>5. CASE ks = {}
    BY <1>3, <1>5 DEF Latest
  <1>6. CASE ks # {}
    <2>1. Max(ks) \in ks
      BY <1>6, LastLedger
    <2>2. QED
      BY <1>3, <1>4, <1>6, <2>1 DEF Latest
  <1>7. QED
    BY <1>5, <1>6

(* Both logs are written by the same two operators.                          *)
PutOrKept(log, new) == new = log \/ \E dv, dw : new = Put(log, dv, dw)

Writes ==
    /\ \A a \in Accounts : PutOrKept(checkpoints[a], checkpoints'[a])
    /\ PutOrKept(totals, totals')
    /\ DOMAIN checkpoints' = Accounts
    /\ accountList' \subseteq Accounts
    /\ seq' = seq

LEMMA RedistributeWrites ==
    ASSUME Dated, NEW old, NEW r, NEW new, NEW n, NEW touched \in SUBSET Accounts,
           Redistribute(old, r, new, n, touched), seq' = seq
    PROVE  Writes
  <1> DEFINE dv(b) == Share(new, n.balance, b) - Share(old, r.balance, b)
             dw(b) == Share(new, n.balance, b) * n.start_ledger
                         - Share(old, r.balance, b) * r.start_ledger
  <1>1. /\ checkpoints' = [b \in Accounts |-> IF b \in touched
                              THEN Put(checkpoints[b], dv(b), dw(b)) ELSE checkpoints[b]]
        /\ accountList' = accountList \cup touched
        /\ totals' = totals \/ \E x, y : totals' = Put(totals, x, y)
    BY DEF Redistribute
  <1>2. \A a \in Accounts : PutOrKept(checkpoints[a], checkpoints'[a])
    <2> SUFFICES ASSUME NEW a \in Accounts PROVE PutOrKept(checkpoints[a], checkpoints'[a])
      OBVIOUS
    <2>1. PICK x, y : x = dv(a) /\ y = dw(a)
      OBVIOUS
    <2>2. checkpoints'[a] = IF a \in touched THEN Put(checkpoints[a], x, y) ELSE checkpoints[a]
      BY <1>1, <2>1
    <2>3. QED
      BY <2>2 DEF PutOrKept
  <1>3. DOMAIN checkpoints' = Accounts /\ accountList' \subseteq Accounts
    BY <1>1 DEF Dated
  <1>4. QED
    BY <1>1, <1>2, <1>3 DEF Writes, PutOrKept

(* What the delegations of an account refer to are accounts.                 *)
Referring ==
    /\ delegate \in [Accounts -> Accounts \cup {None}]
    /\ splits \in [Accounts -> Splits \cup {<<>>}]

LEMMA TargetsTyped ==
    ASSUME Referring, NEW a \in Accounts
    PROVE  /\ Targets(Legacy(a)) \subseteq Accounts
           /\ Targets(splits[a]) \subseteq Accounts
           /\ \A s \in Splits : Targets(s) \subseteq Accounts
           /\ \A b \in Accounts : Targets(One(b)) = {b}
           /\ Targets(<<>>) = {}
  <1>1. \A s \in Splits : Targets(s) \subseteq Accounts
    <2> SUFFICES ASSUME NEW s \in Splits PROVE Targets(s) \subseteq Accounts
      OBVIOUS
    <2>1. s \in Seq([delegatee : Accounts, weight_bps : Nat])
      BY SplitsAssumption
    <2>2. \A i \in DOMAIN s : s[i] \in [delegatee : Accounts, weight_bps : Nat]
      <3>1. DOMAIN s = 1..Len(s)
        BY <2>1
      <3>2. QED
        BY <2>1, <3>1, ElementOfSeq
    <2>3. \A i \in DOMAIN s : s[i].delegatee \in Accounts
      BY <2>2
    <2>4. QED
      BY <2>3, Zenon DEF Targets
  <1>2. Targets(<<>>) = {}
    BY DEF Targets
  <1>3. \A b : Targets(One(b)) = {b}
    BY DEF Targets, One
  <1>4. QED
    BY <1>1, <1>2, <1>3 DEF Referring, Legacy

(* Every call but pruning writes checkpoints at the current ledger or not at  *)
(* all.                                                                       *)
LEMMA DelegationWrites ==
    ASSUME Dated, Referring, NEW a \in Accounts, NEW b \in Accounts, NEW bal,
           apply_delegation(a, b, bal), seq' = seq
    PROVE  Writes
  <1>1. PICK n : Redistribute(Legacy(a), record[a], One(b), n, Targets(Legacy(a)) \cup {b})
    BY DEF apply_delegation
  <1>2. Targets(Legacy(a)) \cup {b} \in SUBSET Accounts
    BY TargetsTyped
  <1>3. QED
    BY <1>1, <1>2, RedistributeWrites

LEMMA RevocationWrites ==
    ASSUME Dated, Referring, NEW a \in Accounts, revoke_delegation(a)
    PROVE  Writes
  <1>1. PICK touched \in SUBSET Accounts :
           Redistribute(One(delegate[a]), record[a], <<>>, NoRecord, touched)
    <2>1. (IF record[a].balance > 0 THEN {delegate[a]} ELSE {}) \in SUBSET Accounts
      BY DEF Referring, revoke_delegation
    <2>2. QED
      BY <2>1 DEF revoke_delegation
  <1>2. QED
    BY <1>1, RedistributeWrites DEF revoke_delegation

LEMMA SplitWrites ==
    ASSUME Dated, NEW a \in Accounts, NEW s, apply_split_core(a, s)
    PROVE  Writes
  <1>1. PICK old, n : Redistribute(old, record[a], s, n,
              {b \in Accounts : Share(old, record[a].balance, b) # 0
                                  \/ Share(s, n.balance, b) # 0})
    BY Zenon DEF apply_split_core
  <1>2. PICK touched \in SUBSET Accounts : Redistribute(old, record[a], s, n, touched)
    BY <1>1, Zenon
  <1>3. QED
    BY <1>2, RedistributeWrites DEF apply_split_core

LEMMA KeptWrites ==
    ASSUME Dated, UNCHANGED <<seq, power>>
    PROVE  Writes
  BY DEF Writes, PutOrKept, power, Dated

LEMMA CallWrites ==
    ASSUME Dated, Referring, Call
    PROVE  Writes \/ \E m \in Ledgers \cup {None} : prune_checkpoints(m)
  <1>1. ASSUME NEW a \in Accounts, NEW b \in Accounts, WholeDelegation(a, b)
        PROVE  Writes
    BY <1>1, DelegationWrites DEF WholeDelegation, delegate_to, delegate_by_sig
  <1>2. ASSUME NEW a \in Accounts, NEW to \in Accounts, NEW amount, NEW b \in Accounts,
               transfer_and_delegate(a, to, amount, b)
        PROVE  Writes
    BY <1>2, DelegationWrites DEF transfer_and_delegate
  <1>3. ASSUME NEW a \in Accounts, undelegate(a) \/ revoke_delegation(a) \/ undelegate_split(a)
        PROVE  Writes
    BY <1>3, DelegationWrites, RevocationWrites, SplitWrites DEF undelegate, undelegate_split
  <1>4. ASSUME NEW a \in Accounts, NEW s \in Splits, delegate_split(a, s)
        PROVE  Writes
    BY <1>4, SplitWrites DEF delegate_split
  <1>5. ASSUME NEW a \in RawAccounts, NEW v \in RawVotes, checkpoint(a, v)
        PROVE  Writes
    <2>1. PICK dv, dw : checkpoints' = [checkpoints EXCEPT ![a] = Put(checkpoints[a], dv, dw)]
      BY <1>5 DEF checkpoint
    <2>2. UNCHANGED <<seq, totals, accountList>>
      BY <1>5 DEF checkpoint
    <2>3. QED
      BY <2>1, <2>2, TokenNumbers DEF Writes, PutOrKept, Dated
  <1>6. ASSUME \/ \E a \in Signers : invalidate_all_permits(a)
               \/ \E n \in Limits : set_delegation_depth_limit(n)
               \/ \E r \in Retentions : set_checkpoint_retention_period(r)
               \/ \E a, b \in Accounts, amount \in Amounts : Transfer(a, b, amount)
        PROVE  Writes
    BY <1>6, KeptWrites
    DEF invalidate_all_permits, set_delegation_depth_limit, set_checkpoint_retention_period, Transfer
  <1>7. QED
    BY <1>1, <1>2, <1>3, <1>4, <1>5, <1>6 DEF Call

LEMMA WritesKeepPast ==
    ASSUME Dated, Writes, NEW l \in 0..(seq - 1)
    PROVE  /\ \A a \in Accounts : Latest(checkpoints'[a], l) = Latest(checkpoints[a], l)
           /\ Latest(totals', l) = Latest(totals, l)
  BY PutKeepsPast DEF Writes, PutOrKept, Dated

LEMMA WritesDated == ASSUME Dated, Writes PROVE Dated'
  <1>1. \A log, dv, dw : DOMAIN Put(log, dv, dw) = DOMAIN log \cup {seq}
    BY DEF Put
  <1>2. \A log, new : PutOrKept(log, new) /\ DOMAIN log \subseteq Ledgers
                          => DOMAIN new \subseteq Ledgers
    <2> SUFFICES ASSUME NEW log, NEW new, PutOrKept(log, new), DOMAIN log \subseteq Ledgers
                 PROVE  DOMAIN new \subseteq Ledgers
      OBVIOUS
    <2>1. CASE new = log
      BY <2>1
    <2>2. CASE \E dv, dw : new = Put(log, dv, dw)
      <3>1. PICK dv, dw : new = Put(log, dv, dw)
        BY <2>2
      <3>2. DOMAIN new = DOMAIN log \cup {seq} /\ seq \in Ledgers
        BY <1>1, <3>1, Zenon DEF Dated
      <3>3. QED
        BY <3>2
    <2>3. QED
      BY <2>1, <2>2 DEF PutOrKept
  <1>3. \A a \in Accounts : DOMAIN checkpoints'[a] \subseteq Ledgers
    BY <1>2, Zenon DEF Dated, Writes
  <1>4. DOMAIN totals' \subseteq Ledgers
    BY <1>2, Zenon DEF Dated, Writes
  <1>5. QED
    BY <1>3, <1>4 DEF Dated, Writes

-----------------------------------------------------------------------------
(* Pruning.                                                                 *)

(* What is asked for at the cutoff or later is found where it was.           *)
LEMMA PrunedKeepsVotes ==
    ASSUME NEW log, DOMAIN log \subseteq Ledgers, NEW c \in Nat, NEW l \in Nat, c <= l
    PROVE  Latest(prune_account_checkpoints(log, c), l) = Latest(log, l)
  <1> DEFINE older == {k \in DOMAIN log : k <= c}
             ks == {k \in DOMAIN log : k <= l}
             new == prune_account_checkpoints(log, c)
             left == {k \in DOMAIN new : k <= l}
  <1>1. CASE older = {}
    BY <1>1 DEF prune_account_checkpoints
  <1>2. CASE older # {}
    <2>1. Max(older) \in older
      BY <1>2, LastLedger
    <2>2. PICK o \in DOMAIN log : o = Max(older) /\ o <= c
      BY <2>1
    <2>3. new = [k \in {k \in DOMAIN log : k >= o} |-> log[k]]
      BY <1>2, <2>2 DEF prune_account_checkpoints, Keep
    <2> HIDE DEF new
    <2>4. o \in Nat /\ o <= l
      BY <2>2 DEF Ledgers
    <2>5. o \in left /\ o \in ks
      BY <2>2, <2>3, <2>4
    <2>6. left = {k \in ks : k >= o}
      BY <2>3
    <2>7. /\ Max(ks) \in ks /\ \A k \in ks : k <= Max(ks)
          /\ Max(left) \in left /\ \A k \in left : k <= Max(left)
      <3>1. ks \in SUBSET Ledgers /\ ks # {}
        BY <2>5
      <3>2. left \in SUBSET Ledgers /\ left # {}
        BY <2>5, <2>6
      <3> HIDE DEF ks, left
      <3>3. QED
        BY <3>1, <3>2, LastLedger
    <2>8. PICK x \in ks : x = Max(ks)
      BY <2>7
    <2>9. PICK y \in left : y = Max(left)
      BY <2>7
    <2>10. x >= o /\ x \in left /\ y \in ks /\ x \in Nat /\ y \in Nat
      <3>1. x >= o
        BY <2>5, <2>7, <2>8, <2>4 DEF Ledgers
      <3>2. QED
        BY <2>6, <2>8, <2>9, <3>1 DEF Ledgers
    <2>11. x = y
      BY <2>7, <2>8, <2>9, <2>10
    <2>12. new[x] = log[x]
      BY <2>3, <2>10
    <2>13. Latest(new, l) = new[y] /\ Latest(log, l) = log[x]
      BY <2>5, <2>8, <2>9, Zenon DEF Latest
    <2>14. QED
      BY <2>11, <2>12, <2>13 DEF new
  <1>3. QED
    BY <1>1, <1>2

(* The cutoff is a ledger number.                                            *)
LEMMA CutoffIsNumber ==
    ASSUME seq \in Ledgers, retention \in Nat, NEW m \in Ledgers \cup {None}
    PROVE  SafeCutoff(m) \in Nat
  BY TokenNumbers DEF SafeCutoff, Ledgers

(* Pruning drops checkpoints and dates none.                                 *)
LEMMA PruningDated ==
    ASSUME Dated, NEW m, prune_checkpoints(m)
    PROVE  Dated'
  <1>1. PICK c : c = SafeCutoff(m)
    OBVIOUS
  <1>2. \A log : DOMAIN prune_account_checkpoints(log, c) \subseteq DOMAIN log
    BY DEF prune_account_checkpoints, Keep
  <1>3. ASSUME NEW log, DOMAIN log \subseteq Ledgers
        PROVE  DOMAIN prune_total_supply_checkpoints(log, c) \subseteq Ledgers
    <2>1. DOMAIN log # {} => Max(DOMAIN log) \in DOMAIN log
      BY <1>3, LastLedger
    <2>2. QED
      BY <1>3, <2>1 DEF prune_total_supply_checkpoints, Keep
  <1>4. DOMAIN totals' \subseteq Ledgers
    BY <1>1, <1>3 DEF prune_checkpoints, Dated
  <1>5. checkpoints' = [a \in Accounts |-> IF a \in accountList
          THEN prune_account_checkpoints(checkpoints[a], c) ELSE checkpoints[a]]
    BY <1>1 DEF prune_checkpoints
  <1>6. \A a \in Accounts : DOMAIN checkpoints'[a] \subseteq Ledgers
    <2> SUFFICES ASSUME NEW a \in Accounts PROVE DOMAIN checkpoints'[a] \subseteq Ledgers
      OBVIOUS
    <2>1. DOMAIN checkpoints'[a] \subseteq DOMAIN checkpoints[a]
      BY <1>2, <1>5
    <2>2. QED
      BY <2>1 DEF Dated
  <1>7. QED
    BY <1>4, <1>5, <1>6 DEF Dated, prune_checkpoints

-----------------------------------------------------------------------------
(* The registry.                                                            *)

Once(b, S) == IF b \in S THEN 1 ELSE 0

(* Parts and a whole delegation are on file together only for an account that  *)
(* delegated as a whole over its parts.                                      *)
Exclusive ==
    /\ covered \subseteq Accounts
    /\ \A a \in Accounts \ covered : delegate[a] # None => splits[a] = <<>>

RegistryTyped ==
    /\ received \in [Accounts -> [Accounts -> Nat]]
    /\ count \in [Accounts -> Nat]
    /\ active \in [Accounts -> SUBSET Accounts]

(* How often b is on file as a delegatee of a.                                *)
WholeOf(a, b) == IF a # b /\ delegate[a] = b THEN 1 ELSE 0
PartOf(a, b) == IF a # b /\ b \in Targets(splits[a]) THEN 1 ELSE 0
Filed(a, b) == WholeOf(a, b) + PartOf(a, b)

Listed ==
    \A a, b \in Accounts :
       /\ received[b][a] >= Filed(a, b)
       /\ a \notin covered =>
             /\ received[b][a] = Filed(a, b)
             /\ received[b][a] <= 1
             /\ b \in active[a] <=> received[b][a] = 1
Counting == \A b \in Accounts : count[b] = Total(received[b])

(* The invariant of delegations and registry.                                *)
Distributed == Referring /\ Exclusive /\ RegistryTyped /\ Listed /\ Counting

LEMMA ReceivedSum ==
    ASSUME NEW b, DOMAIN received[b] = Accounts
    PROVE  MapThenSumSet(LAMBDA a : received[b][a], Accounts) = Total(received[b])
  <1> DEFINE e(a) == received[b][a]
             f == received[b]
             Adds(iter) == iter = [v \in SUBSET Accounts |-> IF v = {} THEN 0
                ELSE e(CHOOSE x \in v : TRUE) + iter[v \ {CHOOSE x \in v : TRUE}]]
  <1>1. MapThenSumSet(LAMBDA a : received[b][a], Accounts) = (CHOOSE iter : Adds(iter))[Accounts]
    BY DEF MapThenSumSet, MapThenFoldSet
  <1>2. DOMAIN f = Accounts /\ \A x \in Accounts : f[x] = e(x)
    OBVIOUS
  <1> HIDE DEF e, f
  <1>3. ASSUME NEW it PROVE Adds(it) <=> IsSum(f, Accounts, it)
    <2>1. \A v \in SUBSET Accounts : v # {} => f[Pick(v)] = e(CHOOSE x \in v : TRUE)
      BY <1>2, PickOne DEF Pick
    <2>2. QED
      BY <2>1 DEF IsSum, Pick
  <1> HIDE DEF Adds
  <1>4. (CHOOSE iter : Adds(iter)) = CHOOSE iter : IsSum(f, Accounts, iter)
    BY <1>3, Zenon
  <1>5. QED
    BY <1>1, <1>2, <1>4, Zenon DEF Total, f

LEMMA DistributedAgrees == Distributed => RegistryAgrees
  <1> SUFFICES ASSUME Distributed PROVE RegistryAgrees
    OBVIOUS
  <1>1. ASSUME NEW b \in Accounts
        PROVE  count[b] = MapThenSumSet(LAMBDA a : received[b][a], Accounts)
    <2>1. DOMAIN received[b] = Accounts
      BY DEF Distributed, RegistryTyped
    <2>2. QED
      BY <2>1, ReceivedSum DEF Distributed, Counting
  <1>2. QED
    BY <1>1 DEF RegistryAgrees, Distributed, Listed, Filed, WholeOf, PartOf

(* Only a's entries change, by what is revoked and what is registered, and the  *)
(* registry follows what is on file for a.                                   *)
LEMMA RegistryFollows ==
    ASSUME Distributed, Referring', Exclusive', NEW a \in Accounts,
           \A x \in Accounts \ {a} : delegate'[x] = delegate[x] /\ splits'[x] = splits[x],
           covered \subseteq covered', covered' \subseteq covered \cup {a},
           NEW revoked, NEW registered, registered \subseteq Accounts,
           Register(a, revoked, registered),
           \A b \in Accounts : /\ b \in revoked => Filed(a, b) >= 1
                               /\ Filed(a, b)' <= Filed(a, b) - Once(b, revoked) + Once(b, registered)
                               /\ a \notin covered' =>
                                    Filed(a, b)' = Filed(a, b) - Once(b, revoked) + Once(b, registered)
    PROVE  Distributed'
  <1>1. RegistryTyped /\ Listed /\ Counting
    BY DEF Distributed
  <1>2. \A x, b \in Accounts : Filed(x, b) \in Nat /\ Filed(x, b)' \in Nat
    BY DEF Filed, WholeOf, PartOf
  <1>3. \A x \in Accounts \ {a}, b \in Accounts : Filed(x, b)' = Filed(x, b)
    BY DEF Filed, WholeOf, PartOf, Targets
  <1>4. ASSUME NEW b \in Accounts
        PROVE  /\ received[b] \in [Accounts -> Nat] /\ count[b] = Total(received[b])
               /\ Once(b, revoked) \in Nat /\ Once(b, registered) \in Nat
               /\ b \in revoked => received[b][a] >= 1
    BY <1>1, <1>2 DEF RegistryTyped, Listed, Counting, Once
  <1>5. ASSUME NEW b \in Accounts, b \in revoked PROVE count[b] >= 1
    <2>1. PICK f : f = received[b] /\ f \in [Accounts -> Nat] /\ f[a] >= 1
      BY <1>4, <1>5
    <2>2. PICK g : g = [f EXCEPT ![a] = 0]
      OBVIOUS
    <2>3. Summable(f, Accounts) /\ Summable(g, Accounts) /\ g \in [Accounts -> Nat] /\ g[a] = 0
      BY <2>1, <2>2, AccountsFinite DEF Summable
    <2>4. \A x \in Accounts : x # a => f[x] = g[x]
      BY <2>1, <2>2
    <2>5. Total(g) = Total(f) - f[a] + g[a]
      BY <2>3, <2>4, TotalChange
    <2>6. Total(g) >= 0
      BY <2>3, AccountsFinite, TotalNat
    <2>7. Total(f) \in Int /\ Total(g) \in Int /\ f[a] \in Int
      BY <2>1, <2>3, TotalInteger
    <2>8. count[b] = Total(f)
      BY <1>4, <2>1
    <2>9. QED
      BY <2>1, <2>3, <2>5, <2>6, <2>7, <2>8
  <1>6. ASSUME NEW b \in Accounts
        PROVE  /\ received'[b] = [received[b] EXCEPT
                                    ![a] = received[b][a] + Once(b, registered) - Once(b, revoked)]
               /\ count'[b] = count[b] + Once(b, registered) - Once(b, revoked)
    <2>1. received'[b] = [received[b] EXCEPT ![a] = received[b][a]
                + ((IF b \in registered THEN 1 ELSE 0)
                               - IF b \in revoked /\ received[b][a] > 0 THEN 1 ELSE 0)]
      BY DEF Register
    <2>2. count'[b] = count[b] + ((IF b \in registered THEN 1 ELSE 0)
                               - IF b \in revoked /\ count[b] > 0 THEN 1 ELSE 0)
      BY DEF Register
    <2>3. received[b][a] \in Nat /\ count[b] \in Nat
      BY <1>1 DEF RegistryTyped
    <2>4. b \in revoked => received[b][a] > 0 /\ count[b] > 0
      BY <1>4, <1>5, <2>3
    <2>5. received[b][a] + ((IF b \in registered THEN 1 ELSE 0)
                               - IF b \in revoked /\ received[b][a] > 0 THEN 1 ELSE 0)
            = received[b][a] + Once(b, registered) - Once(b, revoked)
      BY <2>3, <2>4 DEF Once
    <2>6. QED
      BY <2>1, <2>2, <2>3, <2>4, <2>5 DEF Once
  <1>7. ASSUME NEW b \in Accounts
        PROVE  /\ received'[b] \in [Accounts -> Nat]
               /\ received'[b][a] = received[b][a] + Once(b, registered) - Once(b, revoked)
               /\ \A x \in Accounts \ {a} : received'[b][x] = received[b][x]
    <2>1. PICK v : v = received[b][a] + Once(b, registered) - Once(b, revoked)
      OBVIOUS
    <2>2. v \in Nat
      BY <1>4, <2>1 DEF Once
    <2>3. received'[b] = [received[b] EXCEPT ![a] = v]
      BY <1>6, <2>1
    <2>4. QED
      BY <1>4, <2>1, <2>2, <2>3
  <1>8. active' = [active EXCEPT ![a] = (active[a] \ revoked) \cup registered]
    BY DEF Register
  <1>9. ASSUME NEW b \in Accounts PROVE count'[b] = Total(received'[b]) /\ count'[b] \in Nat
    <2>1. PICK f \in [Accounts -> Nat], g \in [Accounts -> Nat] : f = received[b] /\ g = received'[b]
      BY <1>4, <1>7
    <2>2. Summable(f, Accounts) /\ Summable(g, Accounts)
      BY AccountsFinite DEF Summable
    <2>3. Total(g) = Total(f) - f[a] + g[a]
      <3>1. \A x \in Accounts : x # a => f[x] = g[x]
        BY <1>7, <2>1
      <3>2. QED
        BY <2>2, <3>1, TotalChange
    <2>4. Total(f) \in Int /\ Total(g) \in Int /\ Total(g) >= 0
      BY <2>2, TotalInteger, AccountsFinite, TotalNat
    <2>5. g[a] = f[a] + Once(b, registered) - Once(b, revoked)
      BY <1>7, <2>1
    <2>6. count'[b] = Total(f) + Once(b, registered) - Once(b, revoked)
      BY <1>4, <1>6, <2>1
    <2>7. PICK i \in Int, j \in Int, k \in Int, x \in Int, y \in Int :
             /\ i = Total(f) /\ j = Total(g) /\ k = f[a]
             /\ x = Once(b, registered) /\ y = Once(b, revoked)
      BY <1>4, <2>4
    <2>8. j = i - k + (k + x - y) /\ count'[b] = i + x - y /\ j >= 0
      BY <2>3, <2>4, <2>5, <2>6, <2>7
    <2>9. count'[b] = j
      BY <2>8
    <2>10. QED
      BY <2>1, <2>7, <2>8, <2>9
  <1>10. RegistryTyped'
    <2>1. DOMAIN received' = Accounts /\ DOMAIN count' = Accounts
      BY DEF Register
    <2>2. active' \in [Accounts -> SUBSET Accounts]
      BY <1>1, <1>8 DEF RegistryTyped
    <2>3. received' \in [Accounts -> [Accounts -> Nat]] /\ count' \in [Accounts -> Nat]
      BY <1>7, <1>9, <2>1 DEF Register
    <2>4. QED
      BY <2>2, <2>3 DEF RegistryTyped
  <1>11. Counting'
    BY <1>9 DEF Counting
  <1>12. ASSUME NEW x \in Accounts \ {a}, NEW b \in Accounts
         PROVE  /\ received'[b][x] >= Filed(x, b)'
                /\ x \notin covered' =>
                      /\ received'[b][x] = Filed(x, b)'
                      /\ received'[b][x] <= 1
                      /\ b \in active'[x] <=> received'[b][x] = 1
    <2>1. active'[x] = active[x]
      BY <1>1, <1>8 DEF RegistryTyped
    <2>2. received'[b][x] = received[b][x] /\ Filed(x, b)' = Filed(x, b) /\ (x \notin covered' => x \notin covered)
      BY <1>3, <1>7
    <2>3. QED
      BY <1>1, <2>1, <2>2 DEF Listed
  <1>13. ASSUME NEW b \in Accounts
         PROVE  /\ received'[b][a] >= Filed(a, b)'
                /\ a \notin covered' =>
                      /\ received'[b][a] = Filed(a, b)'
                      /\ received'[b][a] <= 1
                      /\ b \in active'[a] <=> received'[b][a] = 1
    <2>1. received[b][a] \in Nat /\ received[b][a] >= Filed(a, b)
      BY <1>1, <1>4 DEF Listed
    <2>2. PICK o \in Nat, i \in Nat, fo \in Nat, fn \in Nat :
             /\ o = Once(b, revoked) /\ i = Once(b, registered)
             /\ fo = Filed(a, b) /\ fn = Filed(a, b)'
      BY <1>2, <1>4
    <2>3. received'[b][a] = received[b][a] + i - o
      BY <1>7, <2>2
    <2>4. received'[b][a] >= fn
      BY <2>1, <2>2, <2>3
    <2>5. ASSUME a \notin covered'
          PROVE  /\ received'[b][a] = fn /\ received'[b][a] <= 1
                 /\ b \in active'[a] <=> received'[b][a] = 1
      <3>1. a \notin covered
        BY <2>5
      <3>2. received[b][a] = fo /\ fo <= 1 /\ (b \in active[a] <=> fo = 1)
        BY <1>1, <2>2, <3>1 DEF Listed
      <3>3. fn = fo - o + i
        BY <2>2, <2>5
      <3>4. fn <= 1
        <4>1. delegate'[a] # None => splits'[a] = <<>>
          BY <2>5 DEF Exclusive
        <4>2. CASE splits'[a] = <<>>
          <5>1. Targets(splits'[a]) = {}
            BY <4>2 DEF Targets
          <5>2. QED
            BY <2>2, <5>1 DEF Filed, WholeOf, PartOf
        <4>3. CASE delegate'[a] = None
          <5>1. WholeOf(a, b)' = 0
            BY <4>3, TokenNone DEF WholeOf
          <5>2. QED
            BY <2>2, <5>1 DEF Filed, PartOf
        <4>4. QED
          BY <4>1, <4>2, <4>3
      <3>5. b \in active'[a] <=> (b \in active[a] /\ b \notin revoked) \/ b \in registered
        BY <1>1, <1>8 DEF RegistryTyped
      <3>6. o = (IF b \in revoked THEN 1 ELSE 0) /\ i = (IF b \in registered THEN 1 ELSE 0)
        BY <2>2 DEF Once
      <3>7. b \in revoked => fo >= 1
        BY <2>2
      <3>8. QED
        BY <2>3, <3>2, <3>3, <3>4, <3>5, <3>6, <3>7
    <2>6. QED
      BY <2>2, <2>4, <2>5
  <1>14. Listed'
    BY <1>12, <1>13 DEF Listed
  <1>15. QED
    BY <1>10, <1>11, <1>14 DEF Distributed

(* A whole delegation, over parts on file or not.                             *)
LEMMA DelegationDistributes ==
    ASSUME Distributed, NEW a \in Accounts, NEW b \in Accounts, NEW bal,
           apply_delegation(a, b, bal)
    PROVE  Distributed'
  <1>1. PICK old, revoked, registered :
           /\ old = Targets(Legacy(a))
           /\ revoked = old \ {a, b} /\ registered = {b} \ (old \cup {a})
    OBVIOUS
  <1>2. /\ delegate' = [delegate EXCEPT ![a] = b] /\ splits' = splits
        /\ Register(a, revoked, registered)
    BY <1>1 DEF apply_delegation
  <1>3. covered' = IF delegate[a] = None /\ splits[a] # <<>> THEN covered \cup {a} ELSE covered
    BY DEF apply_delegation, Cover, overlays
  <1>4. /\ delegate'[a] = b /\ splits'[a] = splits[a]
        /\ \A x \in Accounts \ {a} : delegate'[x] = delegate[x] /\ splits'[x] = splits[x]
    BY <1>2 DEF Distributed, Referring
  <1>5. Referring'
    BY <1>2 DEF Distributed, Referring
  <1>6. Exclusive'
    BY <1>3, <1>4 DEF Distributed, Exclusive
  <1>7. old = IF delegate[a] = None THEN {} ELSE {delegate[a]}
    <2>1. delegate[a] \in Accounts \cup {None}
      BY DEF Distributed, Referring
    <2>2. QED
      BY <1>1, <2>1, TargetsTyped DEF Legacy, Distributed
  <1>8. ASSUME NEW c \in Accounts
        PROVE  /\ c \in revoked => Filed(a, c) >= 1
               /\ Filed(a, c)' = Filed(a, c) - Once(c, revoked) + Once(c, registered)
    <2>1. Targets(splits'[a]) = Targets(splits[a])
      BY <1>4
    <2>2. PartOf(a, c)' = PartOf(a, c) /\ PartOf(a, c) \in Nat
      BY <2>1 DEF PartOf
    <2>3. WholeOf(a, c)' = WholeOf(a, c) - Once(c, revoked) + Once(c, registered)
      BY <1>1, <1>4, <1>7, TokenNone DEF WholeOf, Once
    <2>4. c \in revoked => WholeOf(a, c) = 1
      BY <1>1, <1>7 DEF WholeOf
    <2>5. WholeOf(a, c) \in Nat /\ Once(c, revoked) \in Nat /\ Once(c, registered) \in Nat
      BY DEF WholeOf, Once
    <2>6. QED
      BY <2>2, <2>3, <2>4, <2>5 DEF Filed
  <1>9. registered \subseteq Accounts /\ covered \subseteq covered' /\ covered' \subseteq covered \cup {a}
    BY <1>1, <1>3
  <1>10. \A c \in Accounts : Filed(a, c)' \in Int
    BY DEF Filed, WholeOf, PartOf
  <1>11. QED
    BY <1>2, <1>4, <1>5, <1>6, <1>8, <1>9, <1>10, RegistryFollows

LEMMA RevocationDistributes ==
    ASSUME Distributed, NEW a \in Accounts, revoke_delegation(a)
    PROVE  Distributed'
  <1>1. PICK d \in Accounts : d = delegate[a] /\ d # a
    BY DEF revoke_delegation, Distributed, Referring
  <1>2. PICK revoked, registered : revoked = {d} /\ registered = {}
    OBVIOUS
  <1>3. /\ delegate' = [delegate EXCEPT ![a] = None] /\ splits' = splits /\ covered' = covered
        /\ Register(a, revoked, registered) /\ delegate[a] # None
    BY <1>2, <1>1 DEF revoke_delegation, overlays
  <1>4. /\ delegate'[a] = None /\ splits'[a] = splits[a]
        /\ \A x \in Accounts \ {a} : delegate'[x] = delegate[x] /\ splits'[x] = splits[x]
    BY <1>3 DEF Distributed, Referring
  <1>5. Referring' /\ Exclusive'
    BY <1>3 DEF Distributed, Referring, Exclusive
  <1>6. ASSUME NEW c \in Accounts
        PROVE  /\ c \in revoked => Filed(a, c) >= 1
               /\ Filed(a, c)' = Filed(a, c) - Once(c, revoked) + Once(c, registered)
               /\ Filed(a, c)' \in Int
    <2>1. Targets(splits'[a]) = Targets(splits[a])
      BY <1>4
    <2>2. PartOf(a, c)' = PartOf(a, c) /\ PartOf(a, c) \in Nat
      BY <2>1 DEF PartOf
    <2>3. /\ WholeOf(a, c) = Once(c, revoked) /\ WholeOf(a, c)' = 0
          /\ Once(c, registered) = 0 /\ Once(c, revoked) \in Nat
      BY <1>2, <1>1, <1>4, TokenNone DEF WholeOf, Once
    <2>4. c \in revoked => WholeOf(a, c) = 1
      BY <1>2, <1>1 DEF WholeOf
    <2>5. QED
      BY <2>2, <2>3, <2>4 DEF Filed
  <1>7. registered \subseteq Accounts /\ covered \subseteq covered' /\ covered' \subseteq covered \cup {a}
    BY <1>2, <1>3
  <1>8. QED
    BY <1>3, <1>4, <1>5, <1>6, <1>7, RegistryFollows

(* A split: one part is stored as a whole delegation, more as parts; a whole    *)
(* delegation and parts that were on file together both go.                   *)
LEMMA SplitDistributes ==
    ASSUME Distributed, NEW a \in Accounts, NEW s, apply_split_core(a, s),
           s \in Splits \/ s = One(a)
    PROVE  Distributed'
  <1>1. PICK old, revoked, registered :
           old = Targets(Current(a)) /\ revoked = old \ {a} /\ registered = Targets(s) \ {a}
    OBVIOUS
  <1>2. /\ s # <<>>
        /\ delegate' = [delegate EXCEPT ![a] = IF Len(s) = 1 THEN s[1].delegatee ELSE None]
        /\ splits' = [splits EXCEPT ![a] = IF Len(s) = 1 THEN <<>> ELSE s]
        /\ Register(a, revoked, registered)
        /\ covered' = covered
    BY <1>1 DEF apply_split_core, validate_splits, overlays
  <1>3. Targets(s) \subseteq Accounts
    BY TargetsTyped DEF Distributed
  <1>4. Len(s) = 1 => DOMAIN s = {1}
    <2>1. CASE s \in Splits
      BY <2>1, SplitsAssumption
    <2>2. CASE s = One(a)
      BY <2>2 DEF One
    <2>3. QED
      BY <2>1, <2>2
  <1>5. Len(s) = 1 => s[1].delegatee \in Accounts /\ Targets(s) = {s[1].delegatee}
    <2>1. SUFFICES ASSUME Len(s) = 1
                   PROVE  s[1].delegatee \in Accounts /\ Targets(s) = {s[1].delegatee}
      OBVIOUS
    <2>2. DOMAIN s = {1}
      BY <1>4, <2>1
    <2>3. Targets(s) = {s[1].delegatee}
      BY <2>2, Zenon DEF Targets
    <2>4. QED
      BY <1>3, <2>3
  <1>6. Len(s) # 1 => s \in Splits
    BY DEF One
  <1>7. Referring'
    BY <1>2, <1>5, <1>6 DEF Distributed, Referring
  <1>8. /\ \A x \in Accounts \ {a} : delegate'[x] = delegate[x] /\ splits'[x] = splits[x]
        /\ delegate'[a] = IF Len(s) = 1 THEN s[1].delegatee ELSE None
        /\ splits'[a] = IF Len(s) = 1 THEN <<>> ELSE s
    BY <1>2 DEF Distributed, Referring
  <1>9. Exclusive'
    BY <1>2, <1>8 DEF Distributed, Exclusive
  <1>10. ASSUME NEW c \in Accounts PROVE Filed(a, c)' = Once(c, registered)
    <2>1. CASE Len(s) = 1
      <3>1. Targets(splits'[a]) = {}
        BY <1>8, <2>1 DEF Targets
      <3>2. PartOf(a, c)' = 0
        BY <3>1 DEF PartOf
      <3>3. WholeOf(a, c)' = Once(c, registered)
        BY <1>1, <1>5, <1>8, <2>1 DEF WholeOf, Once
      <3>4. QED
        BY <3>2, <3>3 DEF Filed, Once
    <2>2. CASE Len(s) # 1
      <3>1. WholeOf(a, c)' = 0
        BY <1>8, <2>2, TokenNone DEF WholeOf
      <3>2. splits'[a] = s
        BY <1>8, <2>2
      <3>3. PartOf(a, c)' = IF a # c /\ c \in Targets(s) THEN 1 ELSE 0
        BY <3>2 DEF PartOf
      <3>4. QED
        BY <1>1, <3>1, <3>3 DEF Filed, Once
    <2>3. QED
      BY <2>1, <2>2
  <1>11. ASSUME NEW c \in Accounts
         PROVE  /\ c \in revoked => Filed(a, c) >= 1
                /\ Filed(a, c) - Once(c, revoked) >= 0
                /\ a \notin covered => Filed(a, c) - Once(c, revoked) = 0
                /\ Filed(a, c) \in Int
    <2>1. CASE delegate[a] # None
      <3>1. PICK d \in Accounts : d = delegate[a]
        BY <2>1 DEF Distributed, Referring
      <3>2. old = {d}
        BY <1>1, <2>1, <3>1, TargetsTyped DEF Current, Legacy, Distributed
      <3>3. WholeOf(a, c) = Once(c, revoked)
        BY <1>1, <3>1, <3>2 DEF WholeOf, Once
      <3>4. a \notin covered => Targets(splits[a]) = {}
        BY <2>1 DEF Distributed, Exclusive, Targets
      <3>5. a \notin covered => PartOf(a, c) = 0
        BY <3>4 DEF PartOf
      <3>6. PartOf(a, c) \in {0, 1}
        BY DEF PartOf
      <3>7. QED
        BY <3>3, <3>5, <3>6 DEF Filed, Once
    <2>2. CASE delegate[a] = None
      <3>1. WholeOf(a, c) = 0
        BY <2>2, TokenNone DEF WholeOf
      <3>2. old = Targets(splits[a])
        BY <1>1, <2>2 DEF Current
      <3>3. PartOf(a, c) = Once(c, revoked)
        BY <1>1, <3>2 DEF PartOf, Once
      <3>4. QED
        BY <3>1, <3>3 DEF Filed, Once
    <2>3. QED
      BY <2>1, <2>2
  <1>12. ASSUME NEW c \in Accounts
         PROVE  /\ Filed(a, c)' <= Filed(a, c) - Once(c, revoked) + Once(c, registered)
                /\ a \notin covered' =>
                     Filed(a, c)' = Filed(a, c) - Once(c, revoked) + Once(c, registered)
    <2>1. Once(c, revoked) \in Int /\ Once(c, registered) \in Int
      BY DEF Once
    <2>2. QED
      BY <1>2, <1>10, <1>11, <2>1
  <1>13. registered \subseteq Accounts /\ covered \subseteq covered' /\ covered' \subseteq covered \cup {a}
    BY <1>1, <1>2, <1>3
  <1>14. QED
    BY <1>2, <1>7, <1>8, <1>9, <1>11, <1>12, <1>13, RegistryFollows

LEMMA KeptDistributes ==
    ASSUME Distributed, UNCHANGED <<distribution, registry, overlays>>
    PROVE  Distributed'
  <1>1. UNCHANGED <<delegate, splits, received, count, active, covered>>
    BY DEF distribution, registry, overlays
  <1>2. Referring' /\ Exclusive' /\ RegistryTyped' /\ Counting'
    BY <1>1 DEF Distributed, Referring, Exclusive, RegistryTyped, Counting
  <1>3. \A a, b \in Accounts : Filed(a, b)' = Filed(a, b)
    BY <1>1 DEF Filed, WholeOf, PartOf, Targets
  <1>4. Listed'
    BY <1>1, <1>3 DEF Distributed, Listed
  <1>5. QED
    BY <1>2, <1>4 DEF Distributed

-----------------------------------------------------------------------------
(* What the parts of a distribution add up to.                              *)

PartList == Seq([delegatee : Accounts, weight_bps : Nat])
Distinct(s) == \A i, j \in DOMAIN s : s[i].delegatee = s[j].delegatee => i = j

(* The rounded parts but the last, and what every account gets of t.          *)
Rounded(s, t) == [j \in 1..(Len(s) - 1) |-> (t * s[j].weight_bps) \div Bps]
Shares(s, t) == [b \in Accounts |-> Share(s, t, b)]

LEMMA PartTyped ==
    ASSUME NEW s \in PartList, NEW i \in DOMAIN s
    PROVE  s[i].delegatee \in Accounts /\ s[i].weight_bps \in Nat
  <1>1. PICK P : P = [delegatee : Accounts, weight_bps : Nat]
    OBVIOUS
  <1>2. s \in Seq(P)
    BY <1>1 DEF PartList
  <1>3. s[i] \in P
    BY <1>2
  <1>4. QED
    BY <1>1, <1>3

(* The last part is what the rounded ones leave.                             *)
LEMMA SplitAmounts ==
    ASSUME NEW s \in PartList, s # <<>>, NEW t \in Nat
    PROVE  /\ Summable(Rounded(s, t), 1..(Len(s) - 1))
           /\ split_amount(s, Len(s), t) = t - Total(Rounded(s, t))
           /\ \A i \in 1..(Len(s) - 1) : split_amount(s, i, t) = Rounded(s, t)[i]
  <1>1. PICK k : k = Len(s) - 1
    OBVIOUS
  <1>2. k \in Nat /\ Len(s) = k + 1 /\ Len(s) \in Nat /\ DOMAIN s = 1..Len(s)
    BY <1>1 DEF PartList
  <1>3. PICK f : f = Rounded(s, t) /\ f = [j \in 1..k |-> (t * s[j].weight_bps) \div Bps]
    BY <1>1 DEF Rounded
  <1>4. Summable(f, 1..k)
    <2>1. IsFiniteSet(1..k)
      BY <1>2, FS_Interval
    <2>2. ASSUME NEW j \in 1..k PROVE (t * s[j].weight_bps) \div Bps \in Int
      <3>1. PICK w \in Nat : w = s[j].weight_bps
        BY <1>2, PartTyped
      <3>2. t * w \in Int
        OBVIOUS
      <3>3. QED
        BY <3>1, <3>2 DEF Bps
    <2>3. QED
      BY <1>3, <2>1, <2>2 DEF Summable
  <1>5. split_amount(s, Len(s), t) = t - Total(f)
    <2> DEFINE e(j) == (t * s[j].weight_bps) \div Bps
               A == 1..k
               Adds(iter) == iter = [v \in SUBSET A |-> IF v = {} THEN 0
                  ELSE e(CHOOSE x \in v : TRUE) + iter[v \ {CHOOSE x \in v : TRUE}]]
    <2>1. split_amount(s, Len(s), t) = t - (CHOOSE iter : Adds(iter))[A]
      BY <1>1 DEF split_amount, MapThenSumSet, MapThenFoldSet
    <2>2. DOMAIN f = A /\ \A x \in A : f[x] = e(x)
      BY <1>3
    <2> HIDE DEF e, A
    <2>3. ASSUME NEW it PROVE Adds(it) <=> IsSum(f, A, it)
      <3>1. \A v \in SUBSET A : v # {} => f[Pick(v)] = e(CHOOSE x \in v : TRUE)
        BY <2>2, PickOne DEF Pick
      <3>2. QED
        BY <3>1 DEF IsSum, Pick
    <2> HIDE DEF Adds
    <2>4. (CHOOSE iter : Adds(iter)) = CHOOSE iter : IsSum(f, A, iter)
      BY <2>3, Zenon
    <2>5. QED
      BY <2>1, <2>2, <2>4, Zenon DEF Total
  <1>6. ASSUME NEW i \in 1..k PROVE split_amount(s, i, t) = f[i]
    <2>1. i # Len(s)
      BY <1>2
    <2>2. split_amount(s, i, t) = (t * s[i].weight_bps) \div Bps
      BY <2>1, Zenon DEF split_amount
    <2>3. QED
      BY <1>3, <2>2
  <1>7. QED
    BY <1>1, <1>3, <1>4, <1>5, <1>6

(* An account that is listed gets the amount of its part.                     *)
LEMMA ShareIs ==
    ASSUME NEW s \in PartList, Distinct(s), NEW t, NEW i \in DOMAIN s
    PROVE  Share(s, t, s[i].delegatee) = split_amount(s, i, t)
  <1>1. PICK b : b = s[i].delegatee
    OBVIOUS
  <1>2. b \in Targets(s)
    BY <1>1 DEF Targets
  <1>3. PICK c : c = CHOOSE j \in DOMAIN s : s[j].delegatee = b
    OBVIOUS
  <1>4. c \in DOMAIN s /\ s[c].delegatee = b
    BY <1>1, <1>3
  <1>5. c = i
    BY <1>1, <1>4 DEF Distinct
  <1>6. Share(s, t, b) = split_amount(s, c, t)
    BY <1>2, <1>3, Zenon DEF Share
  <1>7. QED
    BY <1>1, <1>5, <1>6

(* Nothing is lost or created by a distribution, whatever is rounded.          *)
LEMMA SharesAddUp ==
    ASSUME NEW s \in PartList, Distinct(s), s # <<>>, NEW t \in Nat
    PROVE  Summable(Shares(s, t), Accounts) /\ Total(Shares(s, t)) = t
  <1>1. PICK k \in Nat : k = Len(s) - 1 /\ Len(s) = k + 1 /\ DOMAIN s = 1..(k + 1)
    BY DEF PartList
  <1>2. PICK p : p = Rounded(s, t)
    OBVIOUS
  <1>3. /\ Summable(p, 1..k) /\ split_amount(s, k + 1, t) = t - Total(p)
        /\ \A i \in 1..k : split_amount(s, i, t) = p[i]
    BY <1>1, <1>2, SplitAmounts
  <1>4. Total(p) \in Int
    BY <1>3, TotalInteger
  <1>5. PICK f : f = [i \in 1..(k + 1) |-> split_amount(s, i, t)]
    OBVIOUS
  <1>6. \A i \in 1..(k + 1) : f[i] \in Int
    <2>1. \A i \in 1..k : p[i] \in Int
      BY <1>3 DEF Summable
    <2>2. \A i \in 1..(k + 1) : i \in 1..k \/ i = k + 1
      OBVIOUS
    <2>3. split_amount(s, k + 1, t) \in Int
      BY <1>3, <1>4
    <2>4. QED
      BY <1>3, <1>5, <2>1, <2>2, <2>3
  <1>7. IsFiniteSet(1..(k + 1))
    BY FS_Interval
  <1>8. Total(f) = t
    <2>1. PICK A, B : A = 1..k /\ B = 1..(k + 1)
      OBVIOUS
    <2>2. k + 1 \notin A /\ B = A \cup {k + 1}
      BY <2>1
    <2>3. Summable(f, B)
      BY <1>5, <1>6, <1>7, <2>1 DEF Summable
    <2>4. \A i \in A : p[i] = f[i]
      BY <1>3, <1>5, <2>1
    <2>5. Summable(p, A)
      BY <1>3, <2>1
    <2>6. Total(f) = Total(p) + f[k + 1]
      BY <2>2, <2>3, <2>4, <2>5, TotalAdd
    <2>7. f[k + 1] = t - Total(p)
      BY <1>3, <1>5
    <2>8. QED
      BY <1>4, <2>6, <2>7
  <1>9. PICK T \in SUBSET Accounts : T = Targets(s)
    BY PartTyped DEF Targets
  <1>10. PICK h : h = [i \in 1..(k + 1) |-> s[i].delegatee]
    OBVIOUS
  <1>11. /\ h \in [1..(k + 1) -> T]
         /\ \A x, y \in 1..(k + 1) : h[x] = h[y] => x = y
         /\ \A y \in T : \E x \in 1..(k + 1) : h[x] = y
    <2>1. \A i \in 1..(k + 1) : s[i].delegatee \in T
      BY <1>1, <1>9 DEF Targets
    <2>2. \A y \in T : \E x \in 1..(k + 1) : s[x].delegatee = y
      BY <1>1, <1>9 DEF Targets
    <2>3. QED
      BY <1>1, <1>10, <2>1, <2>2 DEF Distinct
  <1>12. PICK g : g = [b \in T |-> Share(s, t, b)]
    OBVIOUS
  <1>13. \A i \in 1..(k + 1) : f[i] = g[h[i]]
    <2>1. ASSUME NEW i \in 1..(k + 1) PROVE Share(s, t, s[i].delegatee) = split_amount(s, i, t)
      BY <1>1, ShareIs
    <2>2. QED
      BY <1>5, <1>10, <1>11, <1>12, <2>1
  <1>14. IsFiniteSet(T)
    BY AccountsFinite, FS_Subset
  <1>15. Summable(g, T)
    <2>1. \A b \in T : g[b] \in Int
      BY <1>6, <1>11, <1>13
    <2>2. QED
      BY <1>12, <1>14, <2>1 DEF Summable
  <1>16. Total(f) = Total(g)
    <2>1. PICK A : A = 1..(k + 1)
      OBVIOUS
    <2>2. IsFiniteSet(A) /\ DOMAIN f = A
      BY <1>5, <1>7, <2>1
    <2>3. /\ h \in [A -> T]
          /\ \A x, y \in A : h[x] = h[y] => x = y
          /\ \A y \in T : \E x \in A : h[x] = y
          /\ \A i \in A : f[i] = g[h[i]]
      BY <1>11, <1>13, <2>1
    <2>4. QED
      BY <1>15, <2>2, <2>3, TotalReindex
  <1>17. PICK F : F = Shares(s, t)
    OBVIOUS
  <1>18. DOMAIN F = Accounts /\ (\A b \in T : F[b] = g[b]) /\ \A b \in Accounts \ T : F[b] = 0
    BY <1>9, <1>12, <1>17 DEF Shares, Share
  <1>19. Summable(F, Accounts)
    <2>1. ASSUME NEW b \in Accounts PROVE F[b] \in Int
      BY <1>15, <1>18 DEF Summable
    <2>2. QED
      BY <1>18, <2>1, AccountsFinite DEF Summable
  <1>20. Total(g) = Total(F)
    <2>1. DOMAIN g = T /\ \A b \in T : F[b] = g[b]
      BY <1>12, <1>18
    <2>2. \A b \in Accounts \ T : F[b] = 0
      BY <1>18
    <2>3. QED
      BY <1>19, <2>1, <2>2, TotalSubset
  <1>21. QED
    BY <1>8, <1>16, <1>17, <1>19, <1>20

-----------------------------------------------------------------------------
(* The sums of PowerConserved as totals.                                    *)

(* What the accounts give b, what they hold, what was left, and the powers.    *)
Gifts(b) == [a \in Accounts |-> Share(Current(a), record[a].balance, b)]
WeightedGifts(b) ==
    [a \in Accounts |-> Share(Current(a), record[a].balance, b) * record[a].start_ledger]
Counted == {a \in Accounts : Current(a) # <<>>}
Held == [a \in Accounts |-> IF a \in Counted THEN record[a].balance ELSE 0]
WeightedHeld ==
    [a \in Accounts |-> IF a \in Counted THEN record[a].balance * record[a].start_ledger ELSE 0]
Strays == [b \in Accounts |-> stray[b].votes]
WeightedStrays == [b \in Accounts |-> stray[b].weighted_sum]
Powers == [b \in Accounts |-> Latest(checkpoints[b], seq).votes]

LEMMA GiftsSum ==
    ASSUME NEW b
    PROVE  MapThenSumSet(LAMBDA a : Share(Current(a), record[a].balance, b), Accounts)
             = Total(Gifts(b))
  <1> DEFINE e(a) == Share(Current(a), record[a].balance, b)
             f == Gifts(b)
             Adds(iter) == iter = [v \in SUBSET Accounts |-> IF v = {} THEN 0
                ELSE e(CHOOSE x \in v : TRUE) + iter[v \ {CHOOSE x \in v : TRUE}]]
  <1>1. MapThenSumSet(LAMBDA a : Share(Current(a), record[a].balance, b), Accounts)
          = (CHOOSE iter : Adds(iter))[Accounts]
    BY DEF MapThenSumSet, MapThenFoldSet
  <1>2. DOMAIN f = Accounts /\ \A x \in Accounts : f[x] = e(x)
    BY DEF Gifts
  <1> HIDE DEF e, f
  <1>3. ASSUME NEW it PROVE Adds(it) <=> IsSum(f, Accounts, it)
    <2>1. \A v \in SUBSET Accounts : v # {} => f[Pick(v)] = e(CHOOSE x \in v : TRUE)
      BY <1>2, PickOne DEF Pick
    <2>2. QED
      BY <2>1 DEF IsSum, Pick
  <1> HIDE DEF Adds
  <1>4. (CHOOSE iter : Adds(iter)) = CHOOSE iter : IsSum(f, Accounts, iter)
    BY <1>3, Zenon
  <1>5. QED
    BY <1>1, <1>2, <1>4, Zenon DEF Total, f

LEMMA WeightedGiftsSum ==
    ASSUME NEW b
    PROVE  MapThenSumSet(LAMBDA a : Share(Current(a), record[a].balance, b)
                                       * record[a].start_ledger, Accounts)
             = Total(WeightedGifts(b))
  <1> DEFINE e(a) == Share(Current(a), record[a].balance, b) * record[a].start_ledger
             f == WeightedGifts(b)
             Adds(iter) == iter = [v \in SUBSET Accounts |-> IF v = {} THEN 0
                ELSE e(CHOOSE x \in v : TRUE) + iter[v \ {CHOOSE x \in v : TRUE}]]
  <1>1. MapThenSumSet(LAMBDA a : Share(Current(a), record[a].balance, b)
                                    * record[a].start_ledger, Accounts)
          = (CHOOSE iter : Adds(iter))[Accounts]
    BY DEF MapThenSumSet, MapThenFoldSet
  <1>2. DOMAIN f = Accounts /\ \A x \in Accounts : f[x] = e(x)
    BY DEF WeightedGifts
  <1> HIDE DEF e, f
  <1>3. ASSUME NEW it PROVE Adds(it) <=> IsSum(f, Accounts, it)
    <2>1. \A v \in SUBSET Accounts : v # {} => f[Pick(v)] = e(CHOOSE x \in v : TRUE)
      BY <1>2, PickOne DEF Pick
    <2>2. QED
      BY <2>1 DEF IsSum, Pick
  <1> HIDE DEF Adds
  <1>4. (CHOOSE iter : Adds(iter)) = CHOOSE iter : IsSum(f, Accounts, iter)
    BY <1>3, Zenon
  <1>5. QED
    BY <1>1, <1>2, <1>4, Zenon DEF Total, f

LEMMA HeldSum ==
    ASSUME Summable(Held, Accounts)
    PROVE  MapThenSumSet(LAMBDA a : record[a].balance, Counted) = Total(Held)
  <1> DEFINE e(a) == record[a].balance
             f == [a \in Counted |-> record[a].balance]
             Adds(iter) == iter = [v \in SUBSET Counted |-> IF v = {} THEN 0
                ELSE e(CHOOSE x \in v : TRUE) + iter[v \ {CHOOSE x \in v : TRUE}]]
  <1>1. MapThenSumSet(LAMBDA a : record[a].balance, Counted) = (CHOOSE iter : Adds(iter))[Counted]
    BY DEF MapThenSumSet, MapThenFoldSet
  <1>2. DOMAIN f = Counted /\ \A x \in Counted : f[x] = e(x)
    OBVIOUS
  <1>3. (\A x \in Counted : Held[x] = f[x]) /\ \A x \in Accounts \ Counted : Held[x] = 0
    BY DEF Held, Counted
  <1> HIDE DEF e, f
  <1>4. ASSUME NEW it PROVE Adds(it) <=> IsSum(f, Counted, it)
    <2>1. \A v \in SUBSET Counted : v # {} => f[Pick(v)] = e(CHOOSE x \in v : TRUE)
      BY <1>2, PickOne DEF Pick
    <2>2. QED
      BY <2>1 DEF IsSum, Pick
  <1> HIDE DEF Adds
  <1>5. (CHOOSE iter : Adds(iter)) = CHOOSE iter : IsSum(f, Counted, iter)
    BY <1>4, Zenon
  <1>6. Total(f) = Total(Held)
    <2>1. PICK C \in SUBSET Accounts : C = Counted
      BY DEF Counted
    <2>2. QED
      BY <1>2, <1>3, <2>1, TotalSubset
  <1>7. QED
    BY <1>1, <1>2, <1>5, <1>6, Zenon DEF Total

LEMMA WeightedHeldSum ==
    ASSUME Summable(WeightedHeld, Accounts)
    PROVE  MapThenSumSet(LAMBDA a : record[a].balance * record[a].start_ledger, Counted)
             = Total(WeightedHeld)
  <1> DEFINE e(a) == record[a].balance * record[a].start_ledger
             f == [a \in Counted |-> record[a].balance * record[a].start_ledger]
             Adds(iter) == iter = [v \in SUBSET Counted |-> IF v = {} THEN 0
                ELSE e(CHOOSE x \in v : TRUE) + iter[v \ {CHOOSE x \in v : TRUE}]]
  <1>1. MapThenSumSet(LAMBDA a : record[a].balance * record[a].start_ledger, Counted)
          = (CHOOSE iter : Adds(iter))[Counted]
    BY DEF MapThenSumSet, MapThenFoldSet
  <1>2. DOMAIN f = Counted /\ \A x \in Counted : f[x] = e(x)
    OBVIOUS
  <1>3. (\A x \in Counted : WeightedHeld[x] = f[x]) /\ \A x \in Accounts \ Counted : WeightedHeld[x] = 0
    BY DEF WeightedHeld, Counted
  <1> HIDE DEF e, f
  <1>4. ASSUME NEW it PROVE Adds(it) <=> IsSum(f, Counted, it)
    <2>1. \A v \in SUBSET Counted : v # {} => f[Pick(v)] = e(CHOOSE x \in v : TRUE)
      BY <1>2, PickOne DEF Pick
    <2>2. QED
      BY <2>1 DEF IsSum, Pick
  <1> HIDE DEF Adds
  <1>5. (CHOOSE iter : Adds(iter)) = CHOOSE iter : IsSum(f, Counted, iter)
    BY <1>4, Zenon
  <1>6. Total(f) = Total(WeightedHeld)
    <2>1. PICK C \in SUBSET Accounts : C = Counted
      BY DEF Counted
    <2>2. QED
      BY <1>2, <1>3, <2>1, TotalSubset
  <1>7. QED
    BY <1>1, <1>2, <1>5, <1>6, Zenon DEF Total

LEMMA PowersSum ==
    MapThenSumSet(LAMBDA b : Latest(checkpoints[b], seq).votes, Accounts) = Total(Powers)
  <1> DEFINE e(b) == Latest(checkpoints[b], seq).votes
             f == Powers
             Adds(iter) == iter = [v \in SUBSET Accounts |-> IF v = {} THEN 0
                ELSE e(CHOOSE x \in v : TRUE) + iter[v \ {CHOOSE x \in v : TRUE}]]
  <1>1. MapThenSumSet(LAMBDA b : Latest(checkpoints[b], seq).votes, Accounts)
          = (CHOOSE iter : Adds(iter))[Accounts]
    BY DEF MapThenSumSet, MapThenFoldSet
  <1>2. DOMAIN f = Accounts /\ \A x \in Accounts : f[x] = e(x)
    BY DEF Powers
  <1> HIDE DEF e, f
  <1>3. ASSUME NEW it PROVE Adds(it) <=> IsSum(f, Accounts, it)
    <2>1. \A v \in SUBSET Accounts : v # {} => f[Pick(v)] = e(CHOOSE x \in v : TRUE)
      BY <1>2, PickOne DEF Pick
    <2>2. QED
      BY <2>1 DEF IsSum, Pick
  <1> HIDE DEF Adds
  <1>4. (CHOOSE iter : Adds(iter)) = CHOOSE iter : IsSum(f, Accounts, iter)
    BY <1>3, Zenon
  <1>5. QED
    BY <1>1, <1>2, <1>4, Zenon DEF Total, f

LEMMA StraysSum ==
    MapThenSumSet(LAMBDA b : stray[b].votes, Accounts) = Total(Strays)
  <1> DEFINE e(b) == stray[b].votes
             f == Strays
             Adds(iter) == iter = [v \in SUBSET Accounts |-> IF v = {} THEN 0
                ELSE e(CHOOSE x \in v : TRUE) + iter[v \ {CHOOSE x \in v : TRUE}]]
  <1>1. MapThenSumSet(LAMBDA b : stray[b].votes, Accounts)
          = (CHOOSE iter : Adds(iter))[Accounts]
    BY DEF MapThenSumSet, MapThenFoldSet
  <1>2. DOMAIN f = Accounts /\ \A x \in Accounts : f[x] = e(x)
    BY DEF Strays
  <1> HIDE DEF e, f
  <1>3. ASSUME NEW it PROVE Adds(it) <=> IsSum(f, Accounts, it)
    <2>1. \A v \in SUBSET Accounts : v # {} => f[Pick(v)] = e(CHOOSE x \in v : TRUE)
      BY <1>2, PickOne DEF Pick
    <2>2. QED
      BY <2>1 DEF IsSum, Pick
  <1> HIDE DEF Adds
  <1>4. (CHOOSE iter : Adds(iter)) = CHOOSE iter : IsSum(f, Accounts, iter)
    BY <1>3, Zenon
  <1>5. QED
    BY <1>1, <1>2, <1>4, Zenon DEF Total, f

LEMMA WeightedStraysSum ==
    MapThenSumSet(LAMBDA b : stray[b].weighted_sum, Accounts) = Total(WeightedStrays)
  <1> DEFINE e(b) == stray[b].weighted_sum
             f == WeightedStrays
             Adds(iter) == iter = [v \in SUBSET Accounts |-> IF v = {} THEN 0
                ELSE e(CHOOSE x \in v : TRUE) + iter[v \ {CHOOSE x \in v : TRUE}]]
  <1>1. MapThenSumSet(LAMBDA b : stray[b].weighted_sum, Accounts)
          = (CHOOSE iter : Adds(iter))[Accounts]
    BY DEF MapThenSumSet, MapThenFoldSet
  <1>2. DOMAIN f = Accounts /\ \A x \in Accounts : f[x] = e(x)
    BY DEF WeightedStrays
  <1> HIDE DEF e, f
  <1>3. ASSUME NEW it PROVE Adds(it) <=> IsSum(f, Accounts, it)
    <2>1. \A v \in SUBSET Accounts : v # {} => f[Pick(v)] = e(CHOOSE x \in v : TRUE)
      BY <1>2, PickOne DEF Pick
    <2>2. QED
      BY <2>1 DEF IsSum, Pick
  <1> HIDE DEF Adds
  <1>4. (CHOOSE iter : Adds(iter)) = CHOOSE iter : IsSum(f, Accounts, iter)
    BY <1>3, Zenon
  <1>5. QED
    BY <1>1, <1>2, <1>4, Zenon DEF Total, f

(* PowerConserved in terms of totals.                                        *)
AccountsConserved ==
    \A b \in Accounts \ raw : Latest(checkpoints[b], seq) =
       [votes |-> Total(Gifts(b)) + stray[b].votes,
        weighted_sum |-> Total(WeightedGifts(b)) + stray[b].weighted_sum]
TotalConserved ==
    Latest(totals, seq) = [votes |-> Total(Held) + Total(Strays),
                           weighted_sum |-> Total(WeightedHeld) + Total(WeightedStrays)]
PowersAddUp == raw = {} => Latest(totals, seq).votes = Total(Powers)

LEMMA ConservedIsTotals ==
    ASSUME AccountsConserved, TotalConserved, PowersAddUp,
           Summable(Held, Accounts), Summable(WeightedHeld, Accounts)
    PROVE  PowerConserved
  <1>1. ASSUME NEW b \in Accounts \ raw
        PROVE  Latest(checkpoints[b], seq) =
          [votes |-> MapThenSumSet(LAMBDA a : Share(Current(a), record[a].balance, b), Accounts)
                       + stray[b].votes,
           weighted_sum |-> MapThenSumSet(LAMBDA a : Share(Current(a), record[a].balance, b)
                                                        * record[a].start_ledger, Accounts)
                              + stray[b].weighted_sum]
    <2>1. MapThenSumSet(LAMBDA a : Share(Current(a), record[a].balance, b), Accounts)
             = Total(Gifts(b))
      BY GiftsSum
    <2>2. MapThenSumSet(LAMBDA a : Share(Current(a), record[a].balance, b)
                                      * record[a].start_ledger, Accounts)
             = Total(WeightedGifts(b))
      BY WeightedGiftsSum, Zenon
    <2>3. Latest(checkpoints[b], seq) =
             [votes |-> Total(Gifts(b)) + stray[b].votes,
              weighted_sum |-> Total(WeightedGifts(b)) + stray[b].weighted_sum]
      BY DEF AccountsConserved
    <2>4. QED
      BY <2>1, <2>2, <2>3, Zenon
  <1>2. Latest(totals, seq) =
          [votes |-> MapThenSumSet(LAMBDA a : record[a].balance, Counted)
                       + MapThenSumSet(LAMBDA b : stray[b].votes, Accounts),
           weighted_sum |-> MapThenSumSet(LAMBDA a : record[a].balance * record[a].start_ledger, Counted)
                              + MapThenSumSet(LAMBDA b : stray[b].weighted_sum, Accounts)]
    BY HeldSum, WeightedHeldSum, StraysSum, WeightedStraysSum, Zenon DEF TotalConserved
  <1>3. raw = {} => Latest(totals, seq).votes =
          MapThenSumSet(LAMBDA b : Latest(checkpoints[b], seq).votes, Accounts)
    BY PowersSum DEF PowersAddUp
  <1>4. QED
    BY <1>1, <1>2, <1>3, Zenon DEF PowerConserved, Counted

-----------------------------------------------------------------------------
(* Conservation of voting power.                                            *)

Recorded ==
    /\ record \in [Accounts -> DelegatorRecord] /\ balance \in [Accounts -> Nat]
    /\ stray \in [Accounts -> Checkpoint]
PartsDistinct == \A a \in Accounts : Distinct(splits[a])

(* No log has a checkpoint after the present ledger.                         *)
Present ==
    /\ \A a \in Accounts : \A k \in DOMAIN checkpoints[a] : k <= seq
    /\ \A k \in DOMAIN totals : k <= seq

Accounted == Referring /\ PartsDistinct /\ Recorded
Conserved == AccountsConserved /\ TotalConserved /\ PowersAddUp

LEMMA OneIsList ==
    ASSUME NEW b \in Accounts
    PROVE  One(b) \in PartList /\ Distinct(One(b)) /\ One(b) # <<>>
  <1>1. One(b) \in PartList /\ One(b) # <<>>
    BY DEF One, PartList, Bps
  <1>2. DOMAIN One(b) = {1}
    BY DEF One
  <1>3. QED
    BY <1>1, <1>2 DEF Distinct

LEMMA NothingIsList == <<>> \in PartList /\ Distinct(<<>>)
  BY DEF PartList, Distinct

(* Everything on file is a list of distinct parts.                           *)
LEMMA OnFile ==
    ASSUME Accounted, NEW a \in Accounts
    PROVE  Current(a) \in PartList /\ Distinct(Current(a))
  <1>1. splits[a] \in PartList /\ Distinct(splits[a])
    BY SplitsAssumption, NothingIsList DEF Accounted, Referring, PartsDistinct, PartList
  <1>2. Legacy(a) \in PartList /\ Distinct(Legacy(a))
    <2>1. delegate[a] \in Accounts \cup {None}
      BY DEF Accounted, Referring
    <2>2. QED
      BY <2>1, OneIsList, NothingIsList, Zenon DEF Legacy
  <1>3. QED
    BY <1>1, <1>2, Zenon DEF Current

(* The total of the shares of a list.                                        *)
LEMMA SharesTotal ==
    ASSUME NEW s \in PartList, Distinct(s), NEW t \in Nat
    PROVE  /\ Summable(Shares(s, t), Accounts)
           /\ Total(Shares(s, t)) = IF s = <<>> THEN 0 ELSE t
           /\ \A b \in Accounts : Shares(s, t)[b] = Share(s, t, b) /\ Share(s, t, b) \in Int
  <1>1. \A b \in Accounts : Shares(s, t)[b] = Share(s, t, b)
    BY DEF Shares
  <1>2. CASE s = <<>>
    <2>1. \A b \in Accounts : Share(s, t, b) = 0
      BY <1>2 DEF Share, Targets
    <2>2. PICK f : f = Shares(s, t) /\ DOMAIN f = Accounts /\ \A b \in Accounts : f[b] = 0
      BY <1>1, <2>1 DEF Shares
    <2>3. Summable(f, Accounts) /\ Total(f) = 0
      BY <2>2, AccountsFinite, TotalZero DEF Summable
    <2>4. QED
      BY <1>1, <1>2, <2>1, <2>2, <2>3
  <1>3. CASE s # <<>>
    BY <1>1, <1>3, SharesAddUp DEF Summable
  <1>4. QED
    BY <1>2, <1>3

(* All sums are of integers.                                                 *)
SumsTyped ==
    /\ \A b \in Accounts : Summable(Gifts(b), Accounts) /\ Summable(WeightedGifts(b), Accounts)
    /\ Summable(Held, Accounts) /\ Summable(WeightedHeld, Accounts)
    /\ Summable(Strays, Accounts) /\ Summable(WeightedStrays, Accounts)

LEMMA AccountedSums == Accounted => SumsTyped
  <1> SUFFICES ASSUME Accounted PROVE SumsTyped
    OBVIOUS
  <1>1. ASSUME NEW a \in Accounts
        PROVE  record[a].balance \in Nat /\ record[a].start_ledger \in Nat
    BY DEF Accounted, Recorded, DelegatorRecord
  <1>2. ASSUME NEW a \in Accounts, NEW b \in Accounts
        PROVE  Share(Current(a), record[a].balance, b) \in Int
    BY <1>1, OnFile, SharesTotal
  <1>3. ASSUME NEW b \in Accounts
        PROVE  Summable(Gifts(b), Accounts) /\ Summable(WeightedGifts(b), Accounts)
    <2>1. \A a \in Accounts : Gifts(b)[a] \in Int
      BY <1>2 DEF Gifts
    <2>2. ASSUME NEW a \in Accounts PROVE WeightedGifts(b)[a] \in Int
      <3>1. PICK x \in Int, y \in Int :
               x = Share(Current(a), record[a].balance, b) /\ y = record[a].start_ledger
        BY <1>1, <1>2
      <3>2. WeightedGifts(b)[a] = x * y
        BY <3>1 DEF WeightedGifts
      <3>3. QED
        BY <3>2
    <2>3. QED
      BY <2>1, <2>2, AccountsFinite DEF Summable, Gifts, WeightedGifts
  <1>4. Summable(Held, Accounts)
    BY <1>1, AccountsFinite DEF Summable, Held
  <1>5. Summable(WeightedHeld, Accounts)
    <2>1. ASSUME NEW a \in Accounts PROVE WeightedHeld[a] \in Int
      <3>1. PICK x \in Int, y \in Int : x = record[a].balance /\ y = record[a].start_ledger
        BY <1>1
      <3>2. WeightedHeld[a] = IF a \in Counted THEN x * y ELSE 0
        BY <3>1 DEF WeightedHeld
      <3>3. QED
        BY <3>2
    <2>2. QED
      BY <2>1, AccountsFinite DEF Summable, WeightedHeld
  <1>6. Summable(Strays, Accounts) /\ Summable(WeightedStrays, Accounts)
    BY AccountsFinite DEF Summable, Strays, WeightedStrays, Accounted, Recorded, Checkpoint
  <1>7. QED
    BY <1>3, <1>4, <1>5, <1>6 DEF SumsTyped

(* A checkpoint is in force at once.                                         *)
LEMMA PutInForce ==
    ASSUME seq \in Ledgers, NEW log, DOMAIN log \subseteq Ledgers, NEW dv, NEW dw
    PROVE  Latest(Put(log, dv, dw), seq) =
             [votes |-> Latest(log, seq).votes + dv, weighted_sum |-> Latest(log, seq).weighted_sum + dw]
  <1>1. PICK new : new = Put(log, dv, dw)
    OBVIOUS
  <1>2. PICK ks \in SUBSET Ledgers : ks = {k \in DOMAIN new : k <= seq}
    BY <1>1 DEF Put
  <1>3. seq \in ks
    BY <1>1, <1>2, TokenNumbers DEF Put, Ledgers
  <1>4. Max(ks) \in ks /\ \A k \in ks : k <= Max(ks)
    BY <1>3, LastLedger
  <1>5. Max(ks) = seq
    BY <1>2, <1>3, <1>4, TokenNumbers DEF Ledgers
  <1>6. Latest(new, seq) = new[seq]
    BY <1>2, <1>3, <1>5 DEF Latest
  <1>7. new[seq] = [votes |-> Latest(log, seq).votes + dv, weighted_sum |-> Latest(log, seq).weighted_sum + dw]
    BY <1>1 DEF Put
  <1>8. QED
    BY <1>1, <1>6, <1>7

(* The power of a, so far distributed as old, is distributed as new; what is     *)
(* on file for a and not taken back is left behind.                           *)
Moves(a, old, new, touched) ==
    /\ Redistribute(old, record[a], new, record'[a], touched)
    /\ \A x \in Accounts \ {a} : Current(x)' = Current(x) /\ record'[x] = record[x]
    /\ \A b \in Accounts :
          Share(new, record'[a].balance, b) = Share(Current(a)', record'[a].balance, b)
    /\ IF new = <<>> THEN record'[a] = NoRecord ELSE Current(a)' # <<>>
    /\ \A b \in Accounts \ touched : /\ Share(old, record[a].balance, b) = 0
                                     /\ Share(new, record'[a].balance, b) = 0
    /\ \/ old = Current(a) /\ stray' = stray
       \/ /\ old = <<>>
          /\ stray' = [b \in Accounts |->
                [votes |-> stray[b].votes + Share(Current(a), record[a].balance, b),
                 weighted_sum |-> stray[b].weighted_sum
                    + Share(Current(a), record[a].balance, b) * record[a].start_ledger]]
    /\ seq' = seq /\ raw' = raw

(* The records and the shares it is about.                                   *)
LEMMA MovesTyped ==
    ASSUME Accounted, Accounted', NEW a \in Accounts, NEW old, NEW new \in PartList, Distinct(new),
           NEW touched, Moves(a, old, new, touched)
    PROVE  /\ old \in PartList /\ Distinct(old)
           /\ record[a] \in DelegatorRecord /\ record'[a] \in DelegatorRecord
           /\ \A b \in Accounts : /\ Share(old, record[a].balance, b) \in Int
                                  /\ Share(new, record'[a].balance, b) \in Int
                                  /\ Share(Current(a), record[a].balance, b) \in Int
           /\ stray \in [Accounts -> Checkpoint] /\ stray' \in [Accounts -> Checkpoint]
  <1>1. Current(a) \in PartList /\ Distinct(Current(a))
    BY OnFile
  <1>2. old \in PartList /\ Distinct(old)
    BY <1>1, NothingIsList DEF Moves
  <1>3. record[a] \in DelegatorRecord /\ record'[a] \in DelegatorRecord
    BY DEF Accounted, Recorded
  <1>4. record[a].balance \in Nat /\ record'[a].balance \in Nat
    BY <1>3 DEF DelegatorRecord
  <1>5. QED
    BY <1>1, <1>2, <1>3, <1>4, SharesTotal DEF Accounted, Recorded

(* What a gives b, with what it left behind, changes by what the parts change. *)
LEMMA MovesGift ==
    ASSUME Accounted, Accounted', NEW a \in Accounts, NEW old, NEW new \in PartList, Distinct(new),
           NEW touched, Moves(a, old, new, touched), NEW b \in Accounts
    PROVE  /\ Gifts(b)'[a] + stray'[b].votes = Gifts(b)[a] + stray[b].votes
                + (Share(new, record'[a].balance, b) - Share(old, record[a].balance, b))
           /\ WeightedGifts(b)'[a] + stray'[b].weighted_sum = WeightedGifts(b)[a] + stray[b].weighted_sum
                + (Share(new, record'[a].balance, b) * record'[a].start_ledger
                     - Share(old, record[a].balance, b) * record[a].start_ledger)
  <1>1. PICK r \in DelegatorRecord, n \in DelegatorRecord : r = record[a] /\ n = record'[a]
    BY MovesTyped
  <1>2. PICK o \in Int, w \in Int, g \in Int :
           /\ o = Share(old, r.balance, b) /\ w = Share(new, n.balance, b)
           /\ g = Share(Current(a), r.balance, b)
    BY <1>1, MovesTyped
  <1>3. PICK ow \in Int, ww \in Int, gw \in Int :
           ow = o * r.start_ledger /\ ww = w * n.start_ledger /\ gw = g * r.start_ledger
    BY <1>1, <1>2 DEF DelegatorRecord
  <1>4. Gifts(b)[a] = g /\ WeightedGifts(b)[a] = gw
    BY <1>1, <1>2, <1>3 DEF Gifts, WeightedGifts
  <1>5. Gifts(b)'[a] = w /\ WeightedGifts(b)'[a] = ww
    <2>1. Share(new, record'[a].balance, b) = Share(Current(a)', record'[a].balance, b)
      BY DEF Moves
    <2>2. Gifts(b)'[a] = Share(Current(a)', record'[a].balance, b)
      BY DEF Gifts
    <2>3. WeightedGifts(b)'[a] = Share(Current(a)', record'[a].balance, b) * record'[a].start_ledger
      BY DEF WeightedGifts
    <2>4. QED
      BY <1>1, <1>2, <1>3, <2>1, <2>2, <2>3
  <1>6. PICK v \in Int, x \in Int : v = stray[b].votes /\ x = stray[b].weighted_sum
    BY MovesTyped DEF Checkpoint
  <1>7. CASE old = Current(a) /\ stray' = stray
    BY <1>1, <1>2, <1>3, <1>4, <1>5, <1>6, <1>7
  <1>8. CASE ~(old = Current(a) /\ stray' = stray)
    <2>1. /\ old = <<>>
          /\ stray' = [c \in Accounts |->
                [votes |-> stray[c].votes + Share(Current(a), record[a].balance, c),
                 weighted_sum |-> stray[c].weighted_sum
                    + Share(Current(a), record[a].balance, c) * record[a].start_ledger]]
      BY <1>8, Zenon DEF Moves
    <2>2. stray'[b].votes = v + g /\ stray'[b].weighted_sum = x + gw
      BY <1>1, <1>2, <1>3, <1>6, <2>1
    <2>3. o = 0
      BY <1>2, <2>1 DEF Share, Targets
    <2>4. ow = 0
      BY <1>1, <1>3, <2>3 DEF DelegatorRecord
    <2>5. w + (v + g) = g + v + (w - o) /\ ww + (x + gw) = gw + x + (ww - ow)
      BY <2>3, <2>4
    <2>6. QED
      BY <1>1, <1>2, <1>3, <1>4, <1>5, <1>6, <2>2, <2>5
  <1>9. QED
    BY <1>7, <1>8

(* What it does to the checkpoints of b, ...                                 *)
LEMMA MovesPower ==
    ASSUME Dated, Accounted, Accounted', NEW a \in Accounts, NEW old, NEW new \in PartList,
           Distinct(new), NEW touched \in SUBSET Accounts, Moves(a, old, new, touched), NEW b \in Accounts,
           NEW V \in Int, NEW W \in Int,
           Latest(checkpoints[b], seq) = [votes |-> V, weighted_sum |-> W]
    PROVE  Latest(checkpoints[b], seq)' =
             [votes |-> V + (Share(new, record'[a].balance, b) - Share(old, record[a].balance, b)),
              weighted_sum |-> W + (Share(new, record'[a].balance, b) * record'[a].start_ledger
                                      - Share(old, record[a].balance, b) * record[a].start_ledger)]
  <1>1. PICK r \in DelegatorRecord, n \in DelegatorRecord : r = record[a] /\ n = record'[a]
    BY MovesTyped
  <1>2. PICK o \in Int, w \in Int : o = Share(old, r.balance, b) /\ w = Share(new, n.balance, b)
    BY <1>1, MovesTyped
  <1>3. PICK ow \in Int, ww \in Int : ow = o * r.start_ledger /\ ww = w * n.start_ledger
    BY <1>1, <1>2 DEF DelegatorRecord
  <1>4. seq' = seq
    BY DEF Moves
  <1>5. checkpoints'[b] = IF b \in touched THEN Put(checkpoints[b], w - o, ww - ow) ELSE checkpoints[b]
    <2>1. Redistribute(old, r, new, n, touched)
      BY <1>1 DEF Moves
    <2>2. QED
      BY <1>2, <1>3, <2>1 DEF Redistribute
  <1>6. Latest(checkpoints'[b], seq) = [votes |-> V + (w - o), weighted_sum |-> W + (ww - ow)]
    <2>1. CASE b \in touched
      <3>1. seq \in Ledgers /\ DOMAIN checkpoints[b] \subseteq Ledgers
        BY DEF Dated
      <3>2. QED
        BY <1>5, <2>1, <3>1, PutInForce
    <2>2. CASE b \notin touched
      <3>1. o = 0 /\ w = 0
        BY <1>1, <1>2, <2>2 DEF Moves
      <3>2. ow = 0 /\ ww = 0
        BY <1>1, <1>3, <3>1 DEF DelegatorRecord
      <3>3. V + (w - o) = V /\ W + (ww - ow) = W
        BY <3>1, <3>2
      <3>4. QED
        BY <1>5, <2>2, <3>3
    <2>3. QED
      BY <2>1, <2>2
  <1>7. QED
    BY <1>1, <1>2, <1>3, <1>4, <1>6

LEMMA MovesGifts ==
    ASSUME Accounted, Accounted', NEW a \in Accounts, NEW old, NEW new, NEW touched,
           Moves(a, old, new, touched), NEW b \in Accounts
    PROVE  /\ Total(Gifts(b))' = Total(Gifts(b)) + (Gifts(b)'[a] - Gifts(b)[a])
           /\ Total(WeightedGifts(b))' =
                Total(WeightedGifts(b)) + (WeightedGifts(b)'[a] - WeightedGifts(b)[a])
           /\ Gifts(b)[a] \in Int /\ Gifts(b)'[a] \in Int
           /\ WeightedGifts(b)[a] \in Int /\ WeightedGifts(b)'[a] \in Int
           /\ Total(Gifts(b)) \in Int /\ Total(WeightedGifts(b)) \in Int
  <1>1. PICK f, g : f = Gifts(b) /\ g = Gifts(b)'
    OBVIOUS
  <1>2. PICK fw, gw : fw = WeightedGifts(b) /\ gw = WeightedGifts(b)'
    OBVIOUS
  <1>3. Summable(f, Accounts) /\ Summable(fw, Accounts)
    BY <1>1, <1>2, AccountedSums DEF SumsTyped
  <1>4. Summable(g, Accounts) /\ Summable(gw, Accounts)
    <2>1. SumsTyped'
      BY AccountedSums, PTL
    <2>2. QED
      BY <1>1, <1>2, <2>1 DEF SumsTyped, Summable
  <1>5. ASSUME NEW x \in Accounts, x # a PROVE f[x] = g[x] /\ fw[x] = gw[x]
    <2>1. Current(x)' = Current(x) /\ record'[x] = record[x]
      BY <1>5 DEF Moves
    <2>2. QED
      BY <1>1, <1>2, <2>1 DEF Gifts, WeightedGifts
  <1>6. Total(g) = Total(f) - f[a] + g[a] /\ Total(gw) = Total(fw) - fw[a] + gw[a]
    BY <1>3, <1>4, <1>5, TotalChange
  <1>7. Total(f) \in Int /\ Total(fw) \in Int
    BY <1>3, TotalInteger
  <1>8. f[a] \in Int /\ fw[a] \in Int /\ g[a] \in Int /\ gw[a] \in Int
    BY <1>3, <1>4 DEF Summable
  <1>9. Total(g) = Total(f) + (g[a] - f[a]) /\ Total(gw) = Total(fw) + (gw[a] - fw[a])
    BY <1>6, <1>7, <1>8
  <1>10. Total(Gifts(b))' = Total(g) /\ Total(WeightedGifts(b))' = Total(gw)
    BY <1>1, <1>2
  <1>11. QED
    BY <1>1, <1>2, <1>7, <1>8, <1>9, <1>10

(* ... to the total, ...                                                     *)

(* What is left behind is what a was held to have and no longer is.            *)
LEMMA MovesStrays ==
    ASSUME Accounted, Accounted', NEW a \in Accounts, NEW old, NEW new \in PartList, Distinct(new),
           NEW touched, Moves(a, old, new, touched),
           NEW had, had = IF old = <<>> THEN NoRecord ELSE record[a]
    PROVE  /\ Total(Strays)' = Total(Strays) + (Held[a] - had.balance)
           /\ Total(WeightedStrays)' = Total(WeightedStrays)
                + (WeightedHeld[a] - had.balance * had.start_ledger)
           /\ Total(Strays) \in Int /\ Total(WeightedStrays) \in Int
           /\ Held[a] \in Int /\ WeightedHeld[a] \in Int
  <1>1. PICK r \in DelegatorRecord : r = record[a]
    BY MovesTyped
  <1>2. PICK f, g, fw, gw : /\ f = Strays /\ g = Strays'
                            /\ fw = WeightedStrays /\ gw = WeightedStrays'
    OBVIOUS
  <1>3. /\ Summable(f, Accounts) /\ Summable(fw, Accounts)
        /\ Held[a] \in Int /\ WeightedHeld[a] \in Int
    BY <1>2, AccountedSums DEF SumsTyped, Summable
  <1>4. Summable(g, Accounts) /\ Summable(gw, Accounts)
    <2>1. SumsTyped'
      BY AccountedSums, PTL
    <2>2. QED
      BY <1>2, <2>1 DEF SumsTyped, Summable
  <1>5. Total(f) \in Int /\ Total(fw) \in Int
    BY <1>3, TotalInteger
  <1>6. Held[a] = (IF Current(a) = <<>> THEN 0 ELSE r.balance)
    BY <1>1 DEF Held, Counted
  <1>7. WeightedHeld[a] = (IF Current(a) = <<>> THEN 0 ELSE r.balance * r.start_ledger)
    BY <1>1 DEF WeightedHeld, Counted
  <1>8. Total(g) = Total(f) + (Held[a] - had.balance)
          /\ Total(gw) = Total(fw) + (WeightedHeld[a] - had.balance * had.start_ledger)
    <2>1. CASE old = Current(a) /\ stray' = stray
      <3>1. f = g /\ fw = gw
        BY <1>2, <2>1 DEF Strays, WeightedStrays
      <3>2. Held[a] = had.balance /\ WeightedHeld[a] = had.balance * had.start_ledger
        BY <1>1, <1>6, <1>7, <2>1 DEF NoRecord
      <3>3. QED
        BY <1>3, <1>5, <3>1, <3>2
    <2>2. CASE ~(old = Current(a) /\ stray' = stray)
      <3>1. /\ old = <<>>
            /\ stray' = [c \in Accounts |->
                  [votes |-> stray[c].votes + Share(Current(a), record[a].balance, c),
                   weighted_sum |-> stray[c].weighted_sum
                      + Share(Current(a), record[a].balance, c) * record[a].start_ledger]]
        BY <2>2, Zenon DEF Moves
      <3>2. PICK t \in Nat, l \in Nat : t = r.balance /\ l = r.start_ledger
        BY DEF DelegatorRecord
      <3>3. PICK h : h = Shares(Current(a), t)
        OBVIOUS
      <3>4. /\ Summable(h, Accounts) /\ Total(h) = (IF Current(a) = <<>> THEN 0 ELSE t)
            /\ \A c \in Accounts : h[c] = Share(Current(a), t, c)
        BY <3>2, <3>3, OnFile, SharesTotal
      <3>5. PICK hw : hw = [c \in Accounts |-> h[c] * l]
        OBVIOUS
      <3>6. Summable(hw, Accounts) /\ Total(hw) = Total(h) * l
        <4>1. \A c \in Accounts : h[c] \in Int
          BY <3>4 DEF Summable
        <4>2. \A c \in Accounts : hw[c] \in Int
          BY <3>5, <4>1
        <4>3. Summable(hw, Accounts) /\ \A c \in Accounts : hw[c] = h[c] * l
          BY <3>5, <4>2, AccountsFinite DEF Summable
        <4>4. l \in Int
          BY <3>2
        <4>5. DOMAIN hw = Accounts
          BY <3>5
        <4>6. Total(hw) = Total(h) * l
          BY <3>4, <4>3, <4>4, <4>5, TotalTimes
        <4>7. QED
          BY <4>3, <4>6
      <3>7. \A c \in Accounts : g[c] = f[c] + h[c] /\ gw[c] = fw[c] + hw[c]
        BY <1>1, <1>2, <3>1, <3>2, <3>4, <3>5 DEF Strays, WeightedStrays
      <3>8. Total(g) = Total(f) + Total(h) /\ Total(gw) = Total(fw) + Total(hw)
        BY <1>3, <1>4, <3>4, <3>6, <3>7, TotalPlus
      <3>9. Held[a] = Total(h)
        BY <1>6, <3>2, <3>4
      <3>10. WeightedHeld[a] = Total(hw)
        <4>1. CASE Current(a) = <<>>
          BY <1>7, <3>2, <3>4, <3>6, <4>1
        <4>2. CASE Current(a) # <<>>
          BY <1>7, <3>2, <3>4, <3>6, <4>2
        <4>3. QED
          BY <4>1, <4>2
      <3>11. had.balance = 0 /\ had.balance * had.start_ledger = 0
        BY <3>1 DEF NoRecord
      <3>12. QED
        BY <1>3, <1>5, <3>8, <3>9, <3>10, <3>11
    <2>3. QED
      BY <2>1, <2>2
  <1>9. Total(Strays)' = Total(g) /\ Total(WeightedStrays)' = Total(gw)
    BY <1>2
  <1>10. QED
    BY <1>2, <1>3, <1>5, <1>8, <1>9

LEMMA MovesTotal ==
    ASSUME Dated, Accounted, Accounted', TotalConserved, NEW a \in Accounts, NEW old,
           NEW new \in PartList, Distinct(new), NEW touched, Moves(a, old, new, touched),
           NEW had, had = IF old = <<>> THEN NoRecord ELSE record[a]
    PROVE  /\ TotalConserved'
           /\ Latest(totals, seq)'.votes = Latest(totals, seq).votes + (record'[a].balance - had.balance)
  <1>1. PICK f, g, fw, gw : f = Held /\ g = Held' /\ fw = WeightedHeld /\ gw = WeightedHeld'
    OBVIOUS
  <1>2. Summable(f, Accounts) /\ Summable(fw, Accounts)
    BY <1>1, AccountedSums DEF SumsTyped
  <1>3. Summable(g, Accounts) /\ Summable(gw, Accounts)
    <2>1. SumsTyped'
      BY AccountedSums, PTL
    <2>2. QED
      BY <1>1, <2>1 DEF SumsTyped, Summable
  <1>4. ASSUME NEW x \in Accounts, x # a PROVE f[x] = g[x] /\ fw[x] = gw[x]
    <2>1. Current(x)' = Current(x) /\ record'[x] = record[x]
      BY <1>4 DEF Moves
    <2>2. QED
      BY <1>1, <2>1 DEF Held, WeightedHeld, Counted
  <1>5. Total(g) = Total(f) - f[a] + g[a] /\ Total(gw) = Total(fw) - fw[a] + gw[a]
    BY <1>2, <1>3, <1>4, TotalChange
  <1>6. PICK F \in Int, FW \in Int, ho \in Int, wo \in Int, hn \in Int, wn \in Int :
           /\ F = Total(f) /\ FW = Total(fw)
           /\ ho = f[a] /\ hn = g[a] /\ wo = fw[a] /\ wn = gw[a]
    BY <1>2, <1>3, TotalInteger DEF Summable
  <1>7. PICK r \in DelegatorRecord, n \in DelegatorRecord : r = record[a] /\ n = record'[a]
    BY MovesTyped
  <1>8. PICK p \in Int, q \in Int : p = had.balance /\ q = had.balance * had.start_ledger
    <2>1. PICK x \in Int, y \in Int : x = had.balance /\ y = had.start_ledger
      BY <1>7 DEF NoRecord, DelegatorRecord
    <2>2. x * y \in Int
      OBVIOUS
    <2>3. QED
      BY <2>1, <2>2
  <1>9. hn = n.balance /\ wn = n.balance * n.start_ledger
    <2>1. new = <<>> => n.balance = 0 /\ n.start_ledger = 0
      BY <1>7 DEF Moves, NoRecord
    <2>2. new # <<>> => a \in Counted'
      BY DEF Moves, Counted
    <2>3. g[a] = IF a \in Counted' THEN n.balance ELSE 0
      BY <1>1, <1>7 DEF Held
    <2>4. gw[a] = IF a \in Counted' THEN n.balance * n.start_ledger ELSE 0
      BY <1>1, <1>7 DEF WeightedHeld
    <2>5. QED
      BY <1>6, <2>1, <2>2, <2>3, <2>4
  <1>10. totals' = IF hn - p # 0 \/ wn - q # 0 THEN Put(totals, hn - p, wn - q) ELSE totals
    <2>1. Redistribute(old, r, new, n, touched)
      BY <1>7 DEF Moves
    <2>2. QED
      BY <1>7, <1>8, <1>9, <2>1 DEF Redistribute
  <1>11. PICK S \in Int, SW \in Int : S = Total(Strays) /\ SW = Total(WeightedStrays)
    BY MovesStrays
  <1>12. Total(Strays)' = S + (ho - p) /\ Total(WeightedStrays)' = SW + (wo - q)
    BY <1>1, <1>6, <1>8, <1>11, MovesStrays
  <1>13. Latest(totals, seq) = [votes |-> F + S, weighted_sum |-> FW + SW]
    BY <1>1, <1>6, <1>11 DEF TotalConserved
  <1>14. Latest(totals', seq) = [votes |-> (F + S) + (hn - p), weighted_sum |-> (FW + SW) + (wn - q)]
    <2>1. CASE hn - p # 0 \/ wn - q # 0
      <3>1. seq \in Ledgers /\ DOMAIN totals \subseteq Ledgers
        BY DEF Dated
      <3>2. QED
        BY <1>10, <1>13, <2>1, <3>1, PutInForce
    <2>2. CASE ~(hn - p # 0 \/ wn - q # 0)
      <3>1. (F + S) + (hn - p) = F + S /\ (FW + SW) + (wn - q) = FW + SW
        BY <2>2
      <3>2. QED
        BY <1>10, <1>13, <2>2, <3>1
    <2>3. QED
      BY <2>1, <2>2
  <1>15. Latest(totals, seq)' = [votes |-> (F + S) + (hn - p), weighted_sum |-> (FW + SW) + (wn - q)]
    BY <1>14 DEF Moves
  <1>16. /\ Total(g) + Total(Strays)' = (F + S) + (hn - p)
         /\ Total(gw) + Total(WeightedStrays)' = (FW + SW) + (wn - q)
    <2>1. PICK U \in Int, UW \in Int : U = Total(Strays)' /\ UW = Total(WeightedStrays)'
      BY <1>11, <1>12
    <2>2. U = S + (ho - p) /\ UW = SW + (wo - q)
      BY <1>12, <2>1
    <2>3. Total(g) = F - ho + hn /\ Total(gw) = FW - wo + wn
      BY <1>5, <1>6
    <2>4. /\ (F - ho + hn) + U = (F + S) + (hn - p)
          /\ (FW - wo + wn) + UW = (FW + SW) + (wn - q)
      BY <2>2
    <2>5. QED
      BY <2>1, <2>3, <2>4
  <1>17. TotalConserved'
    BY <1>1, <1>15, <1>16 DEF TotalConserved
  <1>18. QED
    BY <1>7, <1>8, <1>9, <1>13, <1>15, <1>17

(* ... and to all together: as much as to the total.                          *)
LEMMA MovesConserve ==
    ASSUME Dated, Accounted, Accounted', Conserved, NEW a \in Accounts, NEW old, NEW new \in PartList,
           Distinct(new), NEW touched \in SUBSET Accounts, Moves(a, old, new, touched)
    PROVE  Conserved'
  <1>1. raw' = raw
    BY DEF Moves
  <1>2. PICK r \in DelegatorRecord, n \in DelegatorRecord : r = record[a] /\ n = record'[a]
    BY MovesTyped
  <1>3. PICK o, w : o = Shares(old, r.balance) /\ w = Shares(new, n.balance)
    OBVIOUS
  <1>4. /\ Summable(o, Accounts) /\ Summable(w, Accounts)
        /\ Total(o) = IF old = <<>> THEN 0 ELSE r.balance
        /\ Total(w) = IF new = <<>> THEN 0 ELSE n.balance
        /\ \A b \in Accounts : /\ o[b] = Share(old, r.balance, b) /\ w[b] = Share(new, n.balance, b)
                               /\ o[b] \in Int /\ w[b] \in Int
    <2>1. r.balance \in Nat /\ n.balance \in Nat
      BY DEF DelegatorRecord
    <2>2. old \in PartList /\ Distinct(old)
      BY MovesTyped
    <2>3. QED
      BY <1>3, <2>1, <2>2, SharesTotal
  <1>5. ASSUME NEW b \in Accounts \ raw
        PROVE  /\ Latest(checkpoints[b], seq)' =
                    [votes |-> Total(Gifts(b))' + stray'[b].votes,
                     weighted_sum |-> Total(WeightedGifts(b))' + stray'[b].weighted_sum]
               /\ Latest(checkpoints[b], seq)'.votes = Latest(checkpoints[b], seq).votes + (w[b] - o[b])
               /\ Latest(checkpoints[b], seq).votes \in Int
    <2>1. PICK G \in Int, GW \in Int, g \in Int, gn \in Int, gw \in Int, gwn \in Int :
             /\ G = Total(Gifts(b)) /\ GW = Total(WeightedGifts(b))
             /\ g = Gifts(b)[a] /\ gn = Gifts(b)'[a] /\ gw = WeightedGifts(b)[a] /\ gwn = WeightedGifts(b)'[a]
      BY MovesGifts
    <2>2. PICK v \in Int, x \in Int, vn \in Int, xn \in Int :
             /\ v = stray[b].votes /\ x = stray[b].weighted_sum
             /\ vn = stray'[b].votes /\ xn = stray'[b].weighted_sum
      BY MovesTyped DEF Checkpoint
    <2>3. PICK dw \in Int : dw = Share(new, n.balance, b) * n.start_ledger
                                   - Share(old, r.balance, b) * r.start_ledger
      <3>1. PICK i \in Int, j \in Int, k \in Int, l \in Int :
               /\ i = Share(new, n.balance, b) /\ j = Share(old, r.balance, b)
               /\ k = n.start_ledger /\ l = r.start_ledger
        <4>1. /\ Share(new, record'[a].balance, b) \in Int
              /\ Share(old, record[a].balance, b) \in Int
          BY MovesTyped
        <4>2. QED
          BY <1>2, <4>1 DEF DelegatorRecord
      <3>2. i * k - j * l \in Int
        OBVIOUS
      <3>3. QED
        BY <3>1, <3>2
    <2>4. Latest(checkpoints[b], seq) = [votes |-> G + v, weighted_sum |-> GW + x]
      BY <2>1, <2>2 DEF Conserved, AccountsConserved
    <2>5. Latest(checkpoints[b], seq)' =
             [votes |-> (G + v) + (w[b] - o[b]), weighted_sum |-> (GW + x) + dw]
      <3>1. G + v \in Int /\ GW + x \in Int
        OBVIOUS
      <3>2. QED
        BY <1>2, <1>4, <2>3, <2>4, <3>1, MovesPower
    <2>6. gn + vn = g + v + (w[b] - o[b]) /\ gwn + xn = gw + x + dw
      BY <1>2, <1>4, <2>1, <2>2, <2>3, MovesGift
    <2>7. Total(Gifts(b))' = G + (gn - g) /\ Total(WeightedGifts(b))' = GW + (gwn - gw)
      BY <2>1, MovesGifts
    <2>8. PICK d \in Int : d = w[b] - o[b]
      BY <1>4
    <2>9. (G + v) + d = (G + (gn - g)) + vn /\ (GW + x) + dw = (GW + (gwn - gw)) + xn
      <3>1. gn + vn = g + v + d /\ gwn + xn = gw + x + dw
        BY <2>6, <2>8
      <3>2. QED
        BY <3>1
    <2>10. QED
      BY <2>2, <2>4, <2>5, <2>7, <2>8, <2>9
  <1>6. AccountsConserved'
    BY <1>1, <1>5 DEF AccountsConserved
  <1>7. PICK had : had = IF old = <<>> THEN NoRecord ELSE record[a]
    OBVIOUS
  <1>8. /\ TotalConserved'
        /\ Latest(totals, seq)'.votes = Latest(totals, seq).votes + (n.balance - had.balance)
    BY <1>2, <1>7, MovesTotal DEF Conserved
  <1>9. PowersAddUp'
    <2> SUFFICES ASSUME raw = {} PROVE Latest(totals, seq)'.votes = Total(Powers')
      BY <1>1 DEF PowersAddUp
    <2>1. PICK P, Q : P = Powers /\ Q = Powers'
      OBVIOUS
    <2>2. ASSUME NEW b \in Accounts PROVE P[b] \in Int /\ Q[b] = P[b] + (w[b] - o[b])
      <3>1. b \in Accounts \ raw
        OBVIOUS
      <3>2. P[b] = Latest(checkpoints[b], seq).votes /\ Q[b] = Latest(checkpoints[b], seq)'.votes
        BY <2>1 DEF Powers
      <3>3. QED
        BY <1>5, <3>1, <3>2
    <2>3. PICK S : S = [b \in Accounts |-> P[b] + w[b]]
      OBVIOUS
    <2>4. \A b \in Accounts : S[b] = P[b] + w[b] /\ S[b] = Q[b] + o[b] /\ S[b] \in Int /\ Q[b] \in Int
      BY <1>4, <2>2, <2>3
    <2>5. Summable(S, Accounts) /\ Summable(P, Accounts) /\ Summable(Q, Accounts)
      BY <2>1, <2>2, <2>3, <2>4, AccountsFinite DEF Summable, Powers
    <2>6. Total(S) = Total(P) + Total(w)
      BY <1>4, <2>4, <2>5, TotalPlus
    <2>7. Total(S) = Total(Q) + Total(o)
      BY <1>4, <2>4, <2>5, TotalPlus
    <2>8. Total(P) \in Int /\ Total(Q) \in Int /\ Total(o) \in Int /\ Total(w) \in Int
      BY <1>4, <2>5, TotalInteger
    <2>9. had.balance = Total(o)
      BY <1>2, <1>4, <1>7 DEF NoRecord
    <2>10. n.balance = Total(w)
      BY <1>2, <1>4 DEF Moves, NoRecord
    <2>11. Latest(totals, seq).votes = Total(P)
      BY <2>1 DEF Conserved, PowersAddUp
    <2>12. Total(Q) = Total(P) + (Total(w) - Total(o))
      <3>1. PICK i \in Int, j \in Int, k \in Int, l \in Int :
               i = Total(P) /\ j = Total(Q) /\ k = Total(o) /\ l = Total(w)
        BY <2>8
      <3>2. i + l = j + k
        BY <2>6, <2>7, <3>1
      <3>3. j = i + (l - k)
        BY <3>2
      <3>4. QED
        BY <3>1, <3>3
    <2>13. QED
      BY <1>8, <2>1, <2>9, <2>10, <2>11, <2>12
  <1>10. QED
    BY <1>6, <1>8, <1>9 DEF Conserved

(* A record that is brought up to date.                                      *)
LEMMA RecordMade ==
    ASSUME seq \in Ledgers, NEW r \in DelegatorRecord, NEW bal \in Nat
    PROVE  NewRecord(r, bal) \in DelegatorRecord
  <1>1. PICK x \in Nat, y \in Nat : x = r.balance /\ y = r.start_ledger
    BY DEF DelegatorRecord
  <1>2. seq \in Nat
    BY TokenNumbers DEF Ledgers
  <1>3. ASSUME bal > x PROVE (x * y + (bal - x) * seq) \div bal \in Nat
    <2>1. PICK z \in Nat : z = bal - x
      BY <1>3
    <2>2. PICK u \in Nat, v \in Nat : u = x * y /\ v = z * seq
      BY <1>2
    <2>3. (u + v) \div bal \in Nat
      BY <1>3
    <2>4. QED
      BY <2>1, <2>2, <2>3
  <1>4. QED
    BY <1>1, <1>3 DEF NewRecord, DelegatorRecord

(* A single part is everything.                                              *)
LEMMA ShareOfOne ==
    ASSUME NEW s \in PartList, Len(s) = 1, NEW t \in Nat, NEW b
    PROVE  Share(s, t, b) = IF b = s[1].delegatee THEN t ELSE 0
  <1>1. DOMAIN s = {1} /\ s # <<>> /\ Distinct(s)
    <2>1. DOMAIN s = 1..1
      BY DEF PartList
    <2>2. \A i \in 1..1 : i = 1
      OBVIOUS
    <2>3. s # <<>>
      <3>1. Len(<<>>) = 0 /\ Len(s) # 0
        OBVIOUS
      <3>2. QED
        BY <3>1, Zenon
    <2>4. QED
      BY <2>1, <2>2, <2>3 DEF Distinct
  <1>2. Targets(s) = {s[1].delegatee}
    BY <1>1 DEF Targets
  <1>3. PICK f : f = Rounded(s, t) /\ DOMAIN f = {}
    BY DEF Rounded
  <1>4. Total(f) = 0
    BY <1>3, TotalEmpty
  <1>5. split_amount(s, 1, t) = t - Total(f)
    BY <1>1, <1>3, SplitAmounts
  <1>6. Share(s, t, s[1].delegatee) = t
    BY <1>1, <1>4, <1>5, ShareIs
  <1>7. b # s[1].delegatee => Share(s, t, b) = 0
    BY <1>2 DEF Share
  <1>8. QED
    BY <1>6, <1>7

LEMMA OneIsSingle == \A b : Len(One(b)) = 1 /\ One(b)[1].delegatee = b
  BY DEF One

(* Parts of nothing are nothing.                                             *)
LEMMA ShareOfNothing ==
    ASSUME NEW s \in PartList, Distinct(s), NEW b
    PROVE  Share(s, 0, b) = 0
  <1>1. CASE b \notin Targets(s)
    BY <1>1 DEF Share
  <1>2. CASE b \in Targets(s)
    <2>1. PICK i \in DOMAIN s : b = s[i].delegatee
      BY <1>2 DEF Targets
    <2>2. Share(s, 0, b) = split_amount(s, i, 0)
      BY <2>1, ShareIs
    <2>3. PICK k \in Nat : k = Len(s) - 1 /\ Len(s) = k + 1 /\ DOMAIN s = 1..(k + 1) /\ s # <<>>
      BY <2>1 DEF PartList
    <2>4. PICK f : f = Rounded(s, 0)
      OBVIOUS
    <2>5. DOMAIN f = 1..k /\ \A j \in 1..k : f[j] = 0
      <3>1. \A j \in 1..k : s[j].weight_bps \in Nat
        BY <2>3, PartTyped
      <3>2. \A j \in 1..k : f[j] = (0 * s[j].weight_bps) \div Bps
        BY <2>3, <2>4 DEF Rounded
      <3>3. \A w \in Nat : (0 * w) \div Bps = 0
        BY DEF Bps
      <3>4. QED
        BY <2>3, <2>4, <3>1, <3>2, <3>3 DEF Rounded
    <2>6. Total(f) = 0
      <3>1. IsFiniteSet(1..k)
        BY <2>3, FS_Interval
      <3>2. QED
        BY <2>5, <3>1, TotalZero
    <2>7. /\ split_amount(s, k + 1, 0) = 0 - Total(f)
          /\ \A j \in 1..k : split_amount(s, j, 0) = f[j]
      BY <2>3, <2>4, SplitAmounts
    <2>8. QED
      BY <2>2, <2>3, <2>5, <2>6, <2>7
  <1>3. QED
    BY <1>1, <1>2

(* A call of a changes what is on file for a alone.                          *)
LEMMA OthersKept ==
    ASSUME NEW a, NEW x, delegate'[x] = delegate[x], splits'[x] = splits[x]
    PROVE  Current(x)' = Current(x)
  BY DEF Current, Legacy

LEMMA DelegationMoves ==
    ASSUME Dated, Accounted, Referring', balance' \in [Accounts -> Nat],
           NEW a \in Accounts, NEW b \in Accounts, NEW bal \in Nat,
           apply_delegation(a, b, bal), seq' = seq, raw' = raw
    PROVE  Accounted' /\ Moves(a, Legacy(a), One(b), Targets(Legacy(a)) \cup {b})
  <1>1. PICK r \in DelegatorRecord, n \in DelegatorRecord : r = record[a] /\ n = NewRecord(record[a], bal)
    <2>1. record[a] \in DelegatorRecord /\ seq \in Ledgers
      BY DEF Accounted, Recorded, Dated
    <2>2. QED
      BY <2>1, RecordMade
  <1>2. /\ delegate' = [delegate EXCEPT ![a] = b] /\ splits' = splits
        /\ record' = [record EXCEPT ![a] = n]
    BY <1>1 DEF apply_delegation
  <1>3. record'[a] = n /\ delegate'[a] = b /\ b # None
    BY <1>2, TokenNone DEF Accounted, Referring, Recorded
  <1>4. Current(a)' = One(b)
    BY <1>3, Zenon DEF Current, Legacy
  <1>5. Redistribute(Legacy(a), r, One(b), n, Targets(Legacy(a)) \cup {b})
    BY <1>1, Zenon DEF apply_delegation
  <1>6. ASSUME NEW x \in Accounts \ {a}
        PROVE  Current(x)' = Current(x) /\ record'[x] = record[x]
    <2>1. delegate'[x] = delegate[x] /\ splits'[x] = splits[x] /\ record'[x] = record[x]
      BY <1>2 DEF Accounted, Referring, Recorded
    <2>2. QED
      BY <2>1, OthersKept
  <1>7. ASSUME NEW c \in Accounts \ (Targets(Legacy(a)) \cup {b})
        PROVE  Share(Legacy(a), r.balance, c) = 0 /\ Share(One(b), n.balance, c) = 0
    <2>1. Targets(One(b)) = {b}
      BY TargetsTyped DEF Accounted
    <2>2. QED
      BY <2>1 DEF Share
  <1>8. One(b) # <<>>
    BY OneIsList
  <1>9. \/ Legacy(a) = Current(a) /\ stray' = stray
        \/ /\ Legacy(a) = <<>>
           /\ stray' = [c \in Accounts |->
                 [votes |-> stray[c].votes + Share(Current(a), record[a].balance, c),
                  weighted_sum |-> stray[c].weighted_sum
                     + Share(Current(a), record[a].balance, c) * record[a].start_ledger]]
    <2>1. Cover(a)
      BY DEF apply_delegation
    <2>2. CASE delegate[a] = None /\ splits[a] # <<>>
      <3>1. Legacy(a) = <<>> /\ Current(a) = splits[a]
        BY <2>2, Zenon DEF Legacy, Current
      <3>2. QED
        BY <2>1, <2>2, <3>1 DEF Cover
    <2>3. CASE ~(delegate[a] = None /\ splits[a] # <<>>)
      <3>1. Legacy(a) = Current(a)
        BY <2>3, Zenon DEF Legacy, Current
      <3>2. stray' = stray
        BY <2>1, <2>3 DEF Cover, overlays
      <3>3. QED
        BY <3>1, <3>2
    <2>4. QED
      BY <2>2, <2>3
  <1>10. Moves(a, Legacy(a), One(b), Targets(Legacy(a)) \cup {b})
    BY <1>1, <1>3, <1>4, <1>5, <1>6, <1>7, <1>8, <1>9 DEF Moves
  <1>11. stray' \in [Accounts -> Checkpoint]
    <2>1. ASSUME NEW c \in Accounts
          PROVE  /\ stray[c].votes + Share(Current(a), r.balance, c) \in Int
                 /\ stray[c].weighted_sum + Share(Current(a), r.balance, c) * r.start_ledger \in Int
      <3>1. PICK v \in Int, x \in Int, l \in Int :
               v = stray[c].votes /\ x = stray[c].weighted_sum /\ l = r.start_ledger
        BY DEF Accounted, Recorded, Checkpoint, DelegatorRecord
      <3>2. PICK g \in Int : g = Share(Current(a), r.balance, c)
        <4>1. r.balance \in Nat
          BY DEF DelegatorRecord
        <4>2. QED
          BY <4>1, OnFile, SharesTotal
      <3>3. v + g \in Int /\ x + g * l \in Int
        OBVIOUS
      <3>4. QED
        BY <3>1, <3>2, <3>3
    <2>2. CASE stray' = stray
      BY <2>2 DEF Accounted, Recorded
    <2>3. CASE stray' # stray
      BY <1>1, <1>9, <2>1, <2>3 DEF Checkpoint
    <2>4. QED
      BY <2>2, <2>3
  <1>12. PartsDistinct' /\ Recorded'
    BY <1>2, <1>11 DEF Accounted, PartsDistinct, Recorded
  <1>13. QED
    BY <1>10, <1>12 DEF Accounted

LEMMA RevocationMoves ==
    ASSUME Dated, Accounted, Referring', NEW a \in Accounts, revoke_delegation(a)
    PROVE  Accounted' /\ \E touched \in SUBSET Accounts : \E old : Moves(a, old, <<>>, touched)
  <1>1. PICK d \in Accounts : d = delegate[a] /\ d # a
    BY DEF revoke_delegation, Accounted, Referring
  <1>2. PICK r \in DelegatorRecord : r = record[a]
    BY DEF Accounted, Recorded
  <1>3. PICK touched \in SUBSET Accounts : touched = IF r.balance > 0 THEN {d} ELSE {}
    OBVIOUS
  <1>4. /\ delegate' = [delegate EXCEPT ![a] = None] /\ splits' = splits /\ stray' = stray
        /\ record' = [record EXCEPT ![a] = NoRecord]
        /\ delegate[a] # None /\ seq' = seq /\ raw' = raw /\ balance' = balance
    BY <1>1 DEF revoke_delegation, overlays
  <1>5. record'[a] = NoRecord /\ delegate'[a] = None /\ splits'[a] = splits[a]
    BY <1>4 DEF Accounted, Referring, Recorded
  <1>6. Current(a) = One(d)
    BY <1>1, <1>4, Zenon DEF Current, Legacy
  <1>7. Current(a)' = splits[a]
    BY <1>5, Zenon DEF Current
  <1>8. Redistribute(One(d), r, <<>>, NoRecord, touched)
    BY <1>1, <1>2, <1>3, Zenon DEF revoke_delegation
  <1>9. ASSUME NEW x \in Accounts \ {a}
         PROVE  Current(x)' = Current(x) /\ record'[x] = record[x]
    <2>1. delegate'[x] = delegate[x] /\ splits'[x] = splits[x] /\ record'[x] = record[x]
      BY <1>4 DEF Accounted, Referring, Recorded
    <2>2. QED
      BY <2>1, OthersKept
  <1>10. NoRecord.balance = 0
    BY DEF NoRecord
  <1>11. ASSUME NEW c \in Accounts
         PROVE  /\ Share(<<>>, NoRecord.balance, c) = 0
                /\ Share(splits[a], NoRecord.balance, c) = 0
                /\ c \notin touched => Share(One(d), r.balance, c) = 0
    <2>1. Share(<<>>, NoRecord.balance, c) = 0
      BY DEF Share, Targets
    <2>2. splits[a] \in PartList /\ Distinct(splits[a])
      BY SplitsAssumption, NothingIsList DEF Accounted, Referring, PartsDistinct, PartList
    <2>3. Share(splits[a], 0, c) = 0
      BY <2>2, ShareOfNothing
    <2>4. PICK t \in Nat : t = r.balance
      BY DEF DelegatorRecord
    <2>5. Share(One(d), t, c) = IF c = d THEN t ELSE 0
      BY OneIsList, OneIsSingle, ShareOfOne
    <2>6. c \notin touched /\ c = d => t = 0
      BY <1>3, <2>4
    <2>7. QED
      BY <1>10, <2>1, <2>3, <2>4, <2>5, <2>6
  <1>12. Moves(a, One(d), <<>>, touched)
    BY <1>2, <1>4, <1>5, <1>6, <1>7, <1>8, <1>9, <1>11 DEF Moves
  <1>13. PartsDistinct' /\ Recorded'
    BY <1>4 DEF Accounted, PartsDistinct, Recorded, NoRecord, DelegatorRecord
  <1>14. QED
    BY <1>12, <1>13 DEF Accounted

LEMMA SplitMoves ==
    ASSUME Dated, Accounted, Referring', NEW a \in Accounts, NEW s \in PartList,
           apply_split_core(a, s)
    PROVE  /\ Accounted' /\ Distinct(s)
           /\ \E touched \in SUBSET Accounts : \E old : Moves(a, old, s, touched)
  <1>1. PICK old : old = Current(a)
    OBVIOUS
  <1>2. PICK r \in DelegatorRecord, n \in DelegatorRecord : r = record[a] /\ n = NewRecord(record[a], balance[a])
    <2>1. record[a] \in DelegatorRecord /\ seq \in Ledgers /\ balance[a] \in Nat
      BY DEF Accounted, Recorded, Dated
    <2>2. QED
      BY <2>1, RecordMade
  <1>3. PICK touched \in SUBSET Accounts :
          touched = {b \in Accounts : Share(old, r.balance, b) # 0 \/ Share(s, n.balance, b) # 0}
    BY Zenon
  <1>4. /\ s # <<>>
        /\ record' = [record EXCEPT ![a] = n]
        /\ delegate' = [delegate EXCEPT ![a] = IF Len(s) = 1 THEN s[1].delegatee ELSE None]
        /\ splits' = [splits EXCEPT ![a] = IF Len(s) = 1 THEN <<>> ELSE s]
        /\ seq' = seq /\ raw' = raw /\ balance' = balance /\ stray' = stray
    BY <1>2 DEF apply_split_core, validate_splits, overlays
  <1>5. Distinct(s)
    BY DEF apply_split_core, validate_splits, Distinct
  <1>6. Redistribute(old, r, s, n, touched)
    BY <1>1, <1>2, <1>3, Zenon DEF apply_split_core
  <1>7. record'[a] = n
    BY <1>4 DEF Accounted, Recorded
  <1>8. ASSUME NEW x \in Accounts \ {a}
        PROVE  Current(x)' = Current(x) /\ record'[x] = record[x]
    <2>1. delegate'[x] = delegate[x] /\ splits'[x] = splits[x] /\ record'[x] = record[x]
      BY <1>4 DEF Accounted, Referring, Recorded
    <2>2. QED
      BY <2>1, OthersKept
  <1>9. /\ Current(a)' # <<>>
        /\ \A b \in Accounts : Share(s, n.balance, b) = Share(Current(a)', n.balance, b)
    <2>1. CASE Len(s) = 1
      <3>1. PICK d : d = s[1].delegatee
        OBVIOUS
      <3>2. d \in Accounts /\ d # None
        <4>1. 1 \in DOMAIN s
          BY <2>1 DEF PartList
        <4>2. QED
          BY <3>1, <4>1, PartTyped, TokenNone
      <3>3. delegate'[a] = d
        BY <1>4, <2>1, <3>1 DEF Accounted, Referring
      <3>4. Current(a)' = One(d)
        BY <3>2, <3>3, Zenon DEF Current, Legacy
      <3>5. PICK t \in Nat : t = n.balance
        BY DEF DelegatorRecord
      <3>6. \A b : Share(s, t, b) = Share(One(d), t, b)
        BY <2>1, <3>1, <3>2, OneIsList, OneIsSingle, ShareOfOne
      <3>7. QED
        BY <3>2, <3>4, <3>5, <3>6, OneIsList
    <2>2. CASE Len(s) # 1
      <3>1. splits'[a] = s /\ delegate'[a] = None
        BY <1>4, <2>2 DEF Accounted, Referring
      <3>2. Current(a)' = s
        BY <3>1, Zenon DEF Current
      <3>3. QED
        BY <1>4, <3>2
    <2>3. QED
      BY <2>1, <2>2
  <1>10. Moves(a, old, s, touched)
    <2>1. \A b \in Accounts \ touched : Share(old, r.balance, b) = 0 /\ Share(s, n.balance, b) = 0
      BY <1>3
    <2>2. QED
      BY <1>1, <1>2, <1>4, <1>6, <1>7, <1>8, <1>9, <2>1 DEF Moves
  <1>11. Recorded'
    BY <1>4 DEF Accounted, Recorded
  <1>12. PartsDistinct'
    <2>1. \A x \in Accounts : splits'[x] = splits[x] \/ splits'[x] = s \/ splits'[x] = <<>>
      BY <1>4 DEF Accounted, Referring
    <2>2. QED
      BY <1>5, <2>1, NothingIsList DEF Accounted, PartsDistinct
  <1>13. QED
    BY <1>5, <1>10, <1>11, <1>12 DEF Accounted

-----------------------------------------------------------------------------
(* The invariant and the theorems.                                          *)

TokenInv == Dated /\ Distributed /\ retention \in Nat

LEMMA TokenInit == Init => TokenInv
  <1> SUFFICES ASSUME Init PROVE TokenInv
    OBVIOUS
  <1>1. Dated /\ retention \in Nat
    BY TokenNumbers DEF Init, Dated, Ledgers
  <1>2. Referring /\ Exclusive /\ RegistryTyped
    BY DEF Init, Referring, Exclusive, RegistryTyped
  <1>3. \A a, b \in Accounts : Filed(a, b) = 0
    <2>1. \A a, b \in Accounts : WholeOf(a, b) = 0 /\ b \notin Targets(splits[a])
      BY TokenNone DEF Init, WholeOf, Targets
    <2>2. QED
      BY <2>1 DEF Filed, PartOf
  <1>4. Listed
    BY <1>3 DEF Listed, Init
  <1>5. ASSUME NEW b \in Accounts PROVE count[b] = Total(received[b])
    <2>1. PICK f : f = received[b] /\ DOMAIN f = Accounts /\ \A a \in Accounts : f[a] = 0
      BY DEF Init
    <2>2. Total(f) = 0
      BY <2>1, AccountsFinite, TotalZero
    <2>3. QED
      BY <2>1, <2>2 DEF Init
  <1>6. QED
    BY <1>1, <1>2, <1>4, <1>5 DEF TokenInv, Distributed, Counting

LEMMA CallDistributes ==
    ASSUME Distributed, Call PROVE Distributed'
  <1>1. ASSUME NEW a \in Accounts, NEW b \in Accounts, WholeDelegation(a, b)
        PROVE  Distributed'
    BY <1>1, DelegationDistributes DEF WholeDelegation, delegate_to, delegate_by_sig
  <1>2. ASSUME NEW a \in Accounts, NEW to \in Accounts, NEW amount, NEW b \in Accounts,
               transfer_and_delegate(a, to, amount, b)
        PROVE  Distributed'
    BY <1>2, DelegationDistributes DEF transfer_and_delegate
  <1>3. ASSUME NEW a \in Accounts, undelegate(a)
        PROVE  Distributed'
    BY <1>3, DelegationDistributes DEF undelegate
  <1>4. ASSUME NEW a \in Accounts, undelegate_split(a)
        PROVE  Distributed'
    BY <1>4, SplitDistributes DEF undelegate_split
  <1>5. ASSUME NEW a \in Accounts, NEW s \in Splits, delegate_split(a, s)
        PROVE  Distributed'
    BY <1>5, SplitDistributes DEF delegate_split
  <1>6. ASSUME \/ \E a \in Signers : invalidate_all_permits(a)
               \/ \E a \in RawAccounts, v \in RawVotes : checkpoint(a, v)
               \/ \E n \in Limits : set_delegation_depth_limit(n)
               \/ \E r \in Retentions : set_checkpoint_retention_period(r)
               \/ \E m \in Ledgers \cup {None} : prune_checkpoints(m)
               \/ \E a, b \in Accounts, amount \in Amounts : Transfer(a, b, amount)
        PROVE  Distributed'
    BY <1>6, KeptDistributes
    DEF invalidate_all_permits, checkpoint, set_delegation_depth_limit,
        set_checkpoint_retention_period, prune_checkpoints, Transfer
  <1>7. QED
    BY <1>1, <1>2, <1>3, <1>4, <1>5, <1>6, RevocationDistributes, Zenon DEF Call

LEMMA CallKeepsRetention ==
    ASSUME retention \in Nat, Call PROVE retention' \in Nat
  BY TokenNumbers
  DEF Call, WholeDelegation, delegate_to, delegate_by_sig, transfer_and_delegate, undelegate,
      revoke_delegation, undelegate_split, delegate_split, apply_split_core,
      invalidate_all_permits, checkpoint, set_delegation_depth_limit,
      set_checkpoint_retention_period, prune_checkpoints, Transfer, config

LEMMA TokenStep == TokenInv /\ [Next]_vars => TokenInv'
  <1> SUFFICES ASSUME TokenInv, [Next]_vars PROVE TokenInv'
    OBVIOUS
  <1>1. CASE Call
    <2>1. Dated'
      BY <1>1, CallWrites, WritesDated, PruningDated DEF TokenInv, Distributed
    <2>2. QED
      BY <1>1, <2>1, CallDistributes, CallKeepsRetention DEF TokenInv
  <1>2. CASE CloseLedger
    <2>1. Dated'
      BY <1>2, TokenNumbers DEF CloseLedger, power, Dated, Ledgers, TokenInv
    <2>2. QED
      BY <1>2, <2>1, KeptDistributes DEF CloseLedger, config, TokenInv
  <1>3. CASE UNCHANGED vars
    BY <1>3, KeptDistributes DEF vars, power, config, TokenInv, Dated
  <1>4. QED
    BY <1>1, <1>2, <1>3 DEF Next

LEMMA TokenInvariant == Spec => []TokenInv
  BY TokenInit, TokenStep, PTL DEF Spec

(* The registry agrees with the delegations, whatever is delegated, split,     *)
(* revoked, signed for or undone, by whom and in which order: the counters      *)
(* count what is listed, every delegatee on file is listed, and exactly once     *)
(* unless its delegator covered parts with a whole delegation                 *)
(* (register_delegation, revoke_registry_entry).                             *)
THEOREM RegistryInStep == Spec => []RegistryAgrees
  <1>1. TokenInv => RegistryAgrees
    BY DistributedAgrees DEF TokenInv
  <1>2. QED
    BY <1>1, TokenInvariant, PTL

(* Nothing but pruning changes what a query for a closed ledger returns       *)
(* (Put writes at the current ledger alone).                                  *)
THEOREM PastImmutable == Spec => SnapshotIsolation
  <1>1. TokenInv /\ [Next]_vars =>
          [\/ \A l \in 0..(seq - 1) :
                 /\ \A a \in Accounts : Latest(checkpoints'[a], l) = Latest(checkpoints[a], l)
                 /\ Latest(totals', l) = Latest(totals, l)
           \/ \E m \in Ledgers \cup {None} : prune_checkpoints(m)]_vars
    <2> SUFFICES ASSUME TokenInv, Next
                 PROVE  \/ \A l \in 0..(seq - 1) :
                             /\ \A a \in Accounts : Latest(checkpoints'[a], l) = Latest(checkpoints[a], l)
                             /\ Latest(totals', l) = Latest(totals, l)
                        \/ \E m \in Ledgers \cup {None} : prune_checkpoints(m)
      OBVIOUS
    <2>1. CASE Call
      <3>1. Writes \/ \E m \in Ledgers \cup {None} : prune_checkpoints(m)
        BY <2>1, CallWrites DEF TokenInv, Distributed
      <3>2. QED
        BY <3>1, WritesKeepPast DEF TokenInv
    <2>2. CASE CloseLedger
      BY <2>2 DEF CloseLedger, power
    <2>3. QED
      BY <2>1, <2>2 DEF Next
  <1>2. QED
    BY <1>1, TokenInvariant, PTL DEF Spec, SnapshotIsolation

(* Pruning leaves the power of every account as it was from the cutoff on,     *)
(* whatever the retention period and the oldest open proposal                 *)
(* (prune_account_checkpoints).                                              *)
THEOREM PruningSound == Spec => PruningKeepsVotes
  <1>1. TokenInv /\ [Next]_vars =>
          [\A m \in Ledgers \cup {None} :
             \/ \A a \in Accounts, l \in SafeCutoff(m)..MaxLedger :
                   Latest(checkpoints'[a], l) = Latest(checkpoints[a], l)
             \/ ~prune_checkpoints(m)]_vars
    <2> SUFFICES ASSUME TokenInv, NEW m \in Ledgers \cup {None}, prune_checkpoints(m),
                        NEW a \in Accounts, NEW l \in SafeCutoff(m)..MaxLedger
                 PROVE  Latest(checkpoints'[a], l) = Latest(checkpoints[a], l)
      OBVIOUS
    <2>1. PICK c \in Nat : c = SafeCutoff(m)
      BY CutoffIsNumber DEF TokenInv, Dated
    <2>2. l \in Nat /\ c <= l
      BY <2>1, TokenNumbers
    <2>3. checkpoints'[a] = IF a \in accountList
             THEN prune_account_checkpoints(checkpoints[a], c) ELSE checkpoints[a]
      BY <2>1 DEF prune_checkpoints
    <2>4. DOMAIN checkpoints[a] \subseteq Ledgers
      BY DEF TokenInv, Dated
    <2>5. QED
      BY <2>2, <2>3, <2>4, PrunedKeepsVotes
  <1>2. QED
    BY <1>1, TokenInvariant, PTL DEF Spec, PruningKeepsVotes

-----------------------------------------------------------------------------
(* The other steps leave what is in force as it is.                          *)

LEMMA KeptConserves ==
    ASSUME Conserved, delegate' = delegate, splits' = splits, record' = record, stray' = stray,
           raw \subseteq raw',
           \A b \in Accounts \ raw' : Latest(checkpoints[b], seq)' = Latest(checkpoints[b], seq),
           Latest(totals, seq)' = Latest(totals, seq)
    PROVE  Conserved'
  <1>1. \A a \in Accounts : Current(a)' = Current(a)
    BY OthersKept
  <1>2. \A b : Gifts(b)' = Gifts(b) /\ WeightedGifts(b)' = WeightedGifts(b)
    BY <1>1 DEF Gifts, WeightedGifts
  <1>3. /\ Held' = Held /\ WeightedHeld' = WeightedHeld
        /\ Strays' = Strays /\ WeightedStrays' = WeightedStrays
    BY <1>1 DEF Held, WeightedHeld, Counted, Strays, WeightedStrays
  <1>4. AccountsConserved'
    BY <1>2 DEF Conserved, AccountsConserved
  <1>5. TotalConserved'
    BY <1>3 DEF Conserved, TotalConserved
  <1>6. raw' = {} => Powers' = Powers
    BY DEF Powers
  <1>7. PowersAddUp'
    <2> SUFFICES ASSUME raw' = {} PROVE Latest(totals, seq)'.votes = Total(Powers')
      BY DEF PowersAddUp
    <2>1. raw = {}
      OBVIOUS
    <2>2. Latest(totals, seq).votes = Total(Powers)
      BY <2>1 DEF Conserved, PowersAddUp
    <2>3. QED
      BY <1>6, <2>2
  <1>8. QED
    BY <1>4, <1>5, <1>7 DEF Conserved

(* Pruning the totals keeps the last one.                                    *)
LEMMA PrunedKeepsTotal ==
    ASSUME seq \in Ledgers, NEW log, DOMAIN log \subseteq Ledgers, \A k \in DOMAIN log : k <= seq,
           NEW c \in Nat
    PROVE  Latest(prune_total_supply_checkpoints(log, c), seq) = Latest(log, seq)
  <1>1. CASE DOMAIN log = {}
    BY <1>1 DEF prune_total_supply_checkpoints
  <1>2. CASE DOMAIN log # {}
    <2>1. PICK D \in SUBSET Ledgers : D = DOMAIN log
      OBVIOUS
    <2>2. PICK m : m = Max(D)
      OBVIOUS
    <2>3. m \in D /\ \A k \in D : k <= m
      BY <1>2, <2>1, <2>2, LastLedger
    <2>4. PICK newer \in SUBSET D : newer = {k \in D : k > c}
      OBVIOUS
    <2>5. PICK ks \in SUBSET D : ks = IF newer = {} THEN {m} ELSE newer
      BY <2>3
    <2>6. D \subseteq Int /\ c \in Int
      BY <2>1, TokenNumbers DEF Ledgers
    <2>7. m \in ks
      <3>1. CASE newer = {}
        BY <2>5, <3>1
      <3>2. CASE newer # {}
        <4>1. PICK k \in D : k > c
          BY <2>4, <3>2
        <4>2. m > c
          BY <2>3, <2>6, <4>1
        <4>3. QED
          BY <2>3, <2>4, <2>5, <3>2, <4>2
      <3>3. QED
        BY <3>1, <3>2
    <2>8. PICK new : new = [k \in ks |-> log[k]] /\ new = prune_total_supply_checkpoints(log, c)
      BY <1>2, <2>1, <2>2, <2>4, <2>5 DEF prune_total_supply_checkpoints, Keep
    <2>9. Max(ks) = m
      <3>1. ks \in SUBSET Ledgers /\ ks # {}
        BY <2>1, <2>7
      <3>2. PICK x : x = Max(ks) /\ x \in ks /\ \A k \in ks : k <= x
        BY <3>1, LastLedger
      <3>3. x \in D /\ x <= m /\ m <= x
        BY <2>3, <2>5, <2>7, <3>2
      <3>4. x = m
        BY <2>3, <2>6, <3>3
      <3>5. QED
        BY <3>2, <3>4
    <2>10. {k \in DOMAIN new : k <= seq} = ks /\ {k \in DOMAIN log : k <= seq} = D
      BY <2>1, <2>8
    <2>11. Latest(log, seq) = log[m]
      BY <1>2, <2>1, <2>2, <2>10, Zenon DEF Latest
    <2>12. Latest(new, seq) = new[m]
      <3>1. ks # {}
        BY <2>7
      <3>2. QED
        BY <2>9, <2>10, <3>1, Zenon DEF Latest
    <2>13. new[m] = log[m]
      BY <2>7, <2>8
    <2>14. QED
      BY <2>8, <2>11, <2>12, <2>13
  <1>3. QED
    BY <1>1, <1>2

LEMMA PruningConserves ==
    ASSUME TokenInv, Present, Conserved, NEW m \in Ledgers \cup {None}, prune_checkpoints(m)
    PROVE  Conserved' /\ Present'
  <1>1. seq \in Ledgers /\ seq \in Nat /\ retention \in Nat
    BY TokenNumbers DEF TokenInv, Dated, Ledgers
  <1>2. PICK c \in Nat : c = SafeCutoff(m) /\ c <= seq
    <2>1. PICK x \in Nat : x = (IF seq > retention THEN seq - retention ELSE 0) /\ x <= seq
      <3>1. CASE seq > retention
        BY <1>1, <3>1
      <3>2. CASE ~(seq > retention)
        BY <1>1, <3>2
      <3>3. QED
        BY <3>1, <3>2
    <2>2. SafeCutoff(m) = IF m # None /\ m < x THEN m ELSE x
      BY <2>1 DEF SafeCutoff
    <2>3. CASE m # None /\ m < x
      <3>1. m \in Nat
        BY <2>3, TokenNumbers DEF Ledgers
      <3>2. QED
        BY <1>1, <2>1, <2>2, <2>3, <3>1
    <2>4. CASE ~(m # None /\ m < x)
      BY <2>1, <2>2, <2>4
    <2>5. QED
      BY <2>3, <2>4
  <1>3. /\ totals' = prune_total_supply_checkpoints(totals, c)
        /\ checkpoints' = [a \in Accounts |-> IF a \in accountList
              THEN prune_account_checkpoints(checkpoints[a], c) ELSE checkpoints[a]]
        /\ seq' = seq /\ raw' = raw /\ delegate' = delegate /\ splits' = splits /\ record' = record
        /\ stray' = stray
    BY <1>2 DEF prune_checkpoints, distribution, overlays
  <1>4. ASSUME NEW b \in Accounts PROVE Latest(checkpoints'[b], seq) = Latest(checkpoints[b], seq)
    <2>1. DOMAIN checkpoints[b] \subseteq Ledgers
      BY DEF TokenInv, Dated
    <2>2. QED
      BY <1>1, <1>2, <1>3, <2>1, PrunedKeepsVotes
  <1>5. Latest(totals', seq) = Latest(totals, seq)
    BY <1>1, <1>3, PrunedKeepsTotal DEF TokenInv, Dated, Present
  <1>6. Conserved'
    BY <1>3, <1>4, <1>5, KeptConserves
  <1>7. ASSUME NEW log PROVE DOMAIN prune_account_checkpoints(log, c) \subseteq DOMAIN log
    BY DEF prune_account_checkpoints, Keep
  <1>8. DOMAIN totals' \subseteq DOMAIN totals
    <2>1. PICK D \in SUBSET Ledgers : D = DOMAIN totals
      BY DEF TokenInv, Dated
    <2>2. D # {} => Max(D) \in D
      BY LastLedger
    <2>3. QED
      BY <1>3, <2>1, <2>2 DEF prune_total_supply_checkpoints, Keep
  <1>9. Present'
    BY <1>3, <1>7, <1>8 DEF Present
  <1>10. QED
    BY <1>6, <1>9

LEMMA WritesPresent ==
    ASSUME TokenInv, Present, Writes PROVE Present'
  <1>1. \A log, dv, dw : DOMAIN Put(log, dv, dw) = DOMAIN log \cup {seq}
    BY DEF Put
  <1>2. ASSUME NEW log, NEW new, PutOrKept(log, new), \A k \in DOMAIN log : k <= seq
        PROVE  \A k \in DOMAIN new : k <= seq
    <2>1. seq <= seq
      BY TokenNumbers DEF TokenInv, Dated, Ledgers
    <2>2. DOMAIN new \subseteq DOMAIN log \cup {seq}
      BY <1>1, <1>2 DEF PutOrKept
    <2>3. QED
      BY <1>2, <2>1, <2>2
  <1>3. QED
    BY <1>2 DEF Writes, Present

LEMMA ClosingConserves ==
    ASSUME TokenInv, Present, Conserved, CloseLedger PROVE Conserved' /\ Present'
  <1>1. seq \in Int /\ seq' = seq + 1
    BY TokenNumbers DEF TokenInv, Dated, Ledgers, CloseLedger
  <1>2. UNCHANGED <<delegate, splits, record, checkpoints, totals, raw, stray>>
    BY DEF CloseLedger, distribution, power, overlays
  <1>3. ASSUME NEW log, DOMAIN log \subseteq Ledgers, \A k \in DOMAIN log : k <= seq
        PROVE  Latest(log, seq + 1) = Latest(log, seq)
    <2>1. {k \in DOMAIN log : k <= seq + 1} = {k \in DOMAIN log : k <= seq}
      BY <1>1, <1>3, TokenNumbers DEF Ledgers
    <2>2. QED
      BY <2>1 DEF Latest
  <1>4. /\ \A b \in Accounts : Latest(checkpoints[b], seq)' = Latest(checkpoints[b], seq)
        /\ Latest(totals, seq)' = Latest(totals, seq)
    BY <1>1, <1>2, <1>3 DEF TokenInv, Dated, Present
  <1>5. Conserved'
    BY <1>2, <1>4, KeptConserves
  <1>6. Present'
    BY <1>1, <1>2, TokenNumbers DEF TokenInv, Dated, Ledgers, Present
  <1>7. QED
    BY <1>5, <1>6

-----------------------------------------------------------------------------
(* Power is conserved.                                                      *)

PowerInv == TokenInv /\ Present /\ PartsDistinct /\ Recorded /\ Conserved

LEMMA PowerInit == Init => PowerInv
  <1> SUFFICES ASSUME Init PROVE PowerInv
    OBVIOUS
  <1>1. TokenInv
    BY TokenInit
  <1>2. Present /\ PartsDistinct /\ Recorded
    BY HoldingsAssumption, NothingIsList
    DEF Init, Present, PartsDistinct, Recorded, NoRecord, DelegatorRecord, Zero, Checkpoint
  <1>3. \A a \in Accounts : Current(a) = <<>>
    BY DEF Init, Current, Legacy
  <1>4. \A a, b \in Accounts : Share(Current(a), record[a].balance, b) = 0
    BY <1>3 DEF Share, Targets
  <1>5. ASSUME NEW b \in Accounts PROVE Total(Gifts(b)) = 0 /\ Total(WeightedGifts(b)) = 0
    <2>1. PICK f, g : f = Gifts(b) /\ g = WeightedGifts(b)
      OBVIOUS
    <2>2. DOMAIN f = Accounts /\ DOMAIN g = Accounts /\ \A a \in Accounts : f[a] = 0 /\ g[a] = 0
      BY <1>4, <2>1 DEF Gifts, WeightedGifts, Init, NoRecord
    <2>3. Total(f) = 0 /\ Total(g) = 0
      BY <2>2, AccountsFinite, TotalZero
    <2>4. QED
      BY <2>1, <2>3
  <1>6. Total(Held) = 0 /\ Total(WeightedHeld) = 0 /\ Total(Strays) = 0 /\ Total(WeightedStrays) = 0
    <2>1. ASSUME NEW f \in {Held, WeightedHeld, Strays, WeightedStrays}
          PROVE  DOMAIN f = Accounts /\ \A a \in Accounts : f[a] = 0
      BY <1>3 DEF Held, WeightedHeld, Counted, Strays, WeightedStrays, Init, Zero
    <2>2. QED
      BY <2>1, AccountsFinite, TotalZero
  <1>7. Latest(<<>>, seq) = Zero
    BY DEF Latest
  <1>8. (\A b \in Accounts : Latest(checkpoints[b], seq) = Zero) /\ Latest(totals, seq) = Zero
    BY <1>7 DEF Init
  <1>9. Total(Powers) = 0
    <2>1. PICK f : f = Powers
      OBVIOUS
    <2>2. DOMAIN f = Accounts /\ \A b \in Accounts : f[b] = 0
      BY <1>8, <2>1 DEF Powers, Zero
    <2>3. QED
      BY <2>1, <2>2, AccountsFinite, TotalZero
  <1>10. Conserved
    BY <1>5, <1>6, <1>8, <1>9
    DEF Conserved, AccountsConserved, TotalConserved, PowersAddUp, Zero, Init
  <1>11. QED
    BY <1>1, <1>2, <1>10 DEF PowerInv

(* One call.                                                                 *)
LEMMA CallConserves ==
    ASSUME PowerInv, TokenInv', Call PROVE Conserved' /\ PartsDistinct' /\ Recorded'
  <1>1. Dated /\ Accounted /\ Conserved /\ Present /\ TokenInv
    BY DEF PowerInv, TokenInv, Distributed, Accounted
  <1>2. Referring'
    BY DEF TokenInv, Distributed
  <1>3. ASSUME NEW a \in Accounts, NEW s \in PartList, Distinct(s), Accounted',
               NEW touched \in SUBSET Accounts, NEW old, Moves(a, old, s, touched)
        PROVE  Conserved' /\ PartsDistinct' /\ Recorded'
    BY <1>1, <1>3, MovesConserve DEF Accounted
  <1>4. ASSUME NEW a \in Accounts, NEW b \in Accounts, NEW bal \in Nat,
               apply_delegation(a, b, bal), seq' = seq, raw' = raw, balance' \in [Accounts -> Nat]
        PROVE  Conserved' /\ PartsDistinct' /\ Recorded'
    <2>1. Accounted' /\ Moves(a, Legacy(a), One(b), Targets(Legacy(a)) \cup {b})
      BY <1>1, <1>2, <1>4, DelegationMoves
    <2>2. PICK touched \in SUBSET Accounts : touched = Targets(Legacy(a)) \cup {b}
      BY <1>1, TargetsTyped DEF Accounted
    <2>3. PICK s \in PartList : s = One(b) /\ Distinct(s)
      BY OneIsList
    <2>4. QED
      BY <1>3, <2>1, <2>2, <2>3
  <1>5. balance \in [Accounts -> Nat]
    BY <1>1 DEF Accounted, Recorded
  <1>6. ASSUME NEW a \in Accounts, NEW b \in Accounts, WholeDelegation(a, b)
        PROVE  Conserved' /\ PartsDistinct' /\ Recorded'
    <2>1. /\ apply_delegation(a, b, balance[a])
          /\ seq' = seq /\ raw' = raw /\ balance' = balance
      BY <1>6 DEF WholeDelegation, delegate_to, delegate_by_sig
    <2>2. QED
      BY <1>4, <1>5, <2>1
  <1>7. ASSUME NEW a \in Accounts, NEW to \in Accounts, NEW amount \in Amounts, NEW b \in Accounts,
               transfer_and_delegate(a, to, amount, b)
        PROVE  Conserved' /\ PartsDistinct' /\ Recorded'
    <2>1. balance' \in [Accounts -> Nat]
      <3>1. /\ balance[a] >= amount
            /\ balance' = [x \in Accounts |-> balance[x] + (IF x = to THEN amount ELSE 0)
                                                - (IF x = a THEN amount ELSE 0)]
        BY <1>7 DEF transfer_and_delegate
      <3>2. amount \in Nat
        BY TokenNumbers
      <3>3. ASSUME NEW x \in Accounts PROVE balance'[x] \in Nat
        <4>1. balance[x] \in Nat /\ balance[a] \in Nat
          BY <1>5
        <4>2. QED
          BY <3>1, <3>2, <4>1
      <3>4. QED
        BY <3>1, <3>3
    <2>2. PICK bal \in Nat : bal = balance'[to]
      BY <2>1
    <2>3. apply_delegation(to, b, bal) /\ seq' = seq /\ raw' = raw
      BY <1>7, <2>2 DEF transfer_and_delegate
    <2>4. QED
      BY <1>4, <1>7, <2>1, <2>3
  <1>8. ASSUME NEW a \in Accounts, undelegate(a)
        PROVE  Conserved' /\ PartsDistinct' /\ Recorded'
    <2>1. /\ apply_delegation(a, a, balance[a])
          /\ seq' = seq /\ raw' = raw /\ balance' = balance
      BY <1>8 DEF undelegate
    <2>2. QED
      BY <1>4, <1>5, <2>1
  <1>9. ASSUME NEW a \in Accounts, revoke_delegation(a)
        PROVE  Conserved' /\ PartsDistinct' /\ Recorded'
    BY <1>1, <1>2, <1>3, <1>9, RevocationMoves, NothingIsList
  <1>10. ASSUME NEW a \in Accounts, NEW s \in PartList, apply_split_core(a, s)
         PROVE  Conserved' /\ PartsDistinct' /\ Recorded'
    BY <1>1, <1>2, <1>3, <1>10, SplitMoves
  <1>11. ASSUME NEW a \in Accounts, undelegate_split(a)
         PROVE  Conserved' /\ PartsDistinct' /\ Recorded'
    BY <1>10, <1>11, OneIsList DEF undelegate_split
  <1>12. ASSUME NEW a \in Accounts, NEW s \in Splits, delegate_split(a, s)
         PROVE  Conserved' /\ PartsDistinct' /\ Recorded'
    BY <1>10, <1>12, SplitsAssumption DEF delegate_split, PartList
  <1>13. ASSUME NEW a \in RawAccounts, NEW v \in RawVotes, checkpoint(a, v)
         PROVE  Conserved' /\ PartsDistinct' /\ Recorded'
    <2>1. /\ UNCHANGED <<seq, balance, delegate, splits, record, totals, stray>>
          /\ raw' = raw \cup {a}
          /\ \A b \in Accounts \ {a} : checkpoints'[b] = checkpoints[b]
      BY <1>1, <1>13 DEF checkpoint, distribution, overlays, Dated
    <2>2. \A b \in Accounts \ raw' : Latest(checkpoints[b], seq)' = Latest(checkpoints[b], seq)
      BY <2>1
    <2>3. QED
      BY <1>1, <2>1, <2>2, KeptConserves DEF Accounted, PartsDistinct, Recorded
  <1>14. ASSUME NEW m \in Ledgers \cup {None}, prune_checkpoints(m)
         PROVE  Conserved' /\ PartsDistinct' /\ Recorded'
    <2>1. UNCHANGED <<balance, splits, record, stray>>
      BY <1>14 DEF prune_checkpoints, distribution, overlays
    <2>2. QED
      BY <1>1, <1>14, <2>1, PruningConserves DEF Accounted, PartsDistinct, Recorded
  <1>15. ASSUME \/ \E a \in Signers : invalidate_all_permits(a)
                \/ \E n \in Limits : set_delegation_depth_limit(n)
                \/ \E r \in Retentions : set_checkpoint_retention_period(r)
                \/ \E a, b \in Accounts, amount \in Amounts : Transfer(a, b, amount)
         PROVE  Conserved' /\ PartsDistinct' /\ Recorded'
    <2>1. UNCHANGED <<seq, delegate, splits, record, checkpoints, totals, raw, stray>>
      BY <1>15 DEF invalidate_all_permits, set_delegation_depth_limit,
                   set_checkpoint_retention_period, Transfer, distribution, power, overlays
    <2>2. balance' \in [Accounts -> Nat]
      BY <1>5, <1>15, TokenNumbers
      DEF invalidate_all_permits, set_delegation_depth_limit, set_checkpoint_retention_period, Transfer
    <2>3. QED
      BY <1>1, <2>1, <2>2, KeptConserves DEF Accounted, PartsDistinct, Recorded
  <1>16. QED
    BY <1>6, <1>7, <1>8, <1>9, <1>11, <1>12, <1>13, <1>14, <1>15, Zenon DEF Call

LEMMA PowerStep == PowerInv /\ [Next]_vars => PowerInv'
  <1> SUFFICES ASSUME PowerInv, [Next]_vars PROVE PowerInv'
    OBVIOUS
  <1>1. TokenInv /\ Present /\ Conserved /\ PartsDistinct /\ Recorded
    BY DEF PowerInv
  <1>2. TokenInv'
    BY <1>1, TokenStep
  <1>3. CASE Call
    <2>1. Conserved' /\ PartsDistinct' /\ Recorded'
      BY <1>2, <1>3, CallConserves
    <2>2. Present'
      <3>1. Writes \/ \E m \in Ledgers \cup {None} : prune_checkpoints(m)
        BY <1>1, <1>3, CallWrites DEF TokenInv, Distributed
      <3>2. QED
        BY <1>1, <3>1, WritesPresent, PruningConserves
    <2>3. QED
      BY <1>2, <2>1, <2>2 DEF PowerInv
  <1>4. CASE CloseLedger
    <2>1. UNCHANGED <<balance, splits, record, stray>>
      BY <1>4 DEF CloseLedger, distribution, overlays
    <2>2. Conserved' /\ Present'
      BY <1>1, <1>4, ClosingConserves
    <2>3. QED
      BY <1>1, <1>2, <2>1, <2>2 DEF PowerInv, PartsDistinct, Recorded
  <1>5. CASE UNCHANGED vars
    <2>1. UNCHANGED <<seq, balance, delegate, splits, record, checkpoints, totals, raw, stray>>
      BY <1>5 DEF vars, distribution, power, overlays
    <2>2. Conserved'
      BY <1>1, <2>1, KeptConserves
    <2>3. QED
      BY <1>1, <1>2, <2>1, <2>2 DEF PowerInv, PartsDistinct, Recorded, Present
  <1>6. QED
    BY <1>3, <1>4, <1>5 DEF Next

(* Voting power is accounted for, for any accounts, balances and splits and     *)
(* any number of calls, whatever is rounded, split, revoked, signed for,        *)
(* transferred or pruned: the power of every delegatee is what its delegators    *)
(* give it and what parts left behind that a whole delegation covered, the       *)
(* total is what they had when they delegated and what was left behind, and the  *)
(* powers add up to it.  A whole delegation over parts is the only step that     *)
(* creates power, and it creates exactly those parts (apply_delegation,         *)
(* apply_split_core, revoke_delegation, prune_checkpoints).                    *)
THEOREM PowerNeverLost == Spec => []PowerConserved
  <1>1. PowerInv => PowerConserved
    <2> SUFFICES ASSUME PowerInv PROVE PowerConserved
      OBVIOUS
    <2>1. Accounted /\ Conserved
      BY DEF PowerInv, TokenInv, Distributed, Accounted
    <2>2. SumsTyped
      BY <2>1, AccountedSums
    <2>3. QED
      BY <2>1, <2>2, ConservedIsTotals DEF Conserved, SumsTyped
  <1>2. QED
    BY <1>1, PowerInit, PowerStep, PTL DEF Spec
=============================================================================
