--------------------------- MODULE TreasuryProofs ---------------------------
(***************************************************************************)
(* Proofs about Treasury, for every set of addresses, every number of       *)
(* transactions and streams and every configuration.                        *)
(***************************************************************************)
EXTENDS Treasury, FiniteSetTheorems, SumTheorems, TLAPS

-----------------------------------------------------------------------------
(* The inductive invariant.                                                 *)

(* Nothing was set up, and so nothing was submitted.                        *)
Blank ==
    /\ governor = None /\ pendingOwner = None
    /\ \A a \in Addresses : owners[a] = 0
    /\ \A i \in TxIds : tx[i] = None

(* As many owners as the threshold asks for.                                *)
Attainable == Blank \/ threshold <= Size(owners)

(* The counter of a transaction whose id was not given out before is the    *)
(* number of those who approved it.                                         *)
ApprovalsCounted ==
    \A i \in TxIds :
        /\ tx[i] = None => hasApproved[i] = {}
        /\ tx[i] # None /\ i \notin reused => tx[i].approvals = Cardinality(hasApproved[i])

(* Streams are numbered without gaps and listed for their owners.           *)
StreamsListed ==
    /\ \A s \in StreamIds : stream[s] # None <=> s <= streamCount
    /\ \A a \in Addresses, s \in StreamIds :
           s \in ownerStreams[a] <=> stream[s] # None /\ stream[s].owner = a

(* Marks are numbers of streams that exist.                                 *)
MarksBounded == \A a \in Addresses : slashMark[a] <= streamCount

IndInv ==
    /\ TypeOK
    /\ Attainable /\ ApprovalsCounted
    /\ StreamsListed /\ MarksBounded /\ SlashRevokes

-----------------------------------------------------------------------------
(* Facts about finite sets and counts.                                      *)

(* What a set has beyond another is at least the difference in size.        *)
LEMMA BeyondSize ==
    ASSUME NEW A, NEW B, IsFiniteSet(A), IsFiniteSet(B)
    PROVE  Cardinality(B) + Cardinality(A \ B) >= Cardinality(A)
  <1>1. IsFiniteSet(A \ B) /\ Cardinality(A \ B) = Cardinality(A) - Cardinality(A \cap B)
    BY FS_Difference
  <1>2. IsFiniteSet(A \cap B) /\ Cardinality(A \cap B) <= Cardinality(B)
    BY FS_Subset, A \cap B \subseteq B
  <1>3. Cardinality(A) \in Nat /\ Cardinality(B) \in Nat /\ Cardinality(A \cap B) \in Nat
    BY <1>2, FS_CardinalityType
  <1>4. QED
    BY <1>1, <1>2, <1>3

(* Owners are counted as often as they are listed.                          *)
LEMMA SizeTotal ==
    ASSUME NEW o \in OwnerLists
    PROVE  Size(o) = Total(o) /\ Summable(o, Addresses) /\ Size(o) \in Int
  <1> DEFINE e(a) == o[a]
             Adds(iter) == iter = [v \in SUBSET Addresses |-> IF v = {} THEN 0
                ELSE e(CHOOSE x \in v : TRUE) + iter[v \ {CHOOSE x \in v : TRUE}]]
  <1>1. Size(o) = (CHOOSE iter : Adds(iter))[Addresses]
    BY DEF Size, MapThenSumSet, MapThenFoldSet
  <1>2. DOMAIN o = Addresses /\ \A x \in Addresses : o[x] = e(x)
    BY DEF OwnerLists
  <1>3. Summable(o, Addresses)
    BY ArgumentsAssumption DEF OwnerLists, Summable
  <1> HIDE DEF e
  <1>4. ASSUME NEW it PROVE Adds(it) <=> IsSum(o, Addresses, it)
    <2>1. \A v \in SUBSET Addresses : v # {} => o[Pick(v)] = e(CHOOSE x \in v : TRUE)
      BY <1>2, PickOne DEF Pick
    <2>2. QED
      BY <2>1 DEF IsSum, Pick
  <1> HIDE DEF Adds
  <1>5. (CHOOSE iter : Adds(iter)) = CHOOSE iter : IsSum(o, Addresses, iter)
    BY <1>4, Zenon
  <1>6. Size(o) = Total(o)
    BY <1>1, <1>2, <1>5, Zenon DEF Total
  <1>7. QED
    BY <1>3, <1>6, TotalInteger

(* One owner listed more or less often.                                     *)
LEMMA SizeChange ==
    ASSUME NEW o \in OwnerLists, NEW p \in OwnerLists, NEW a \in Addresses,
           \A x \in Addresses : x # a => o[x] = p[x]
    PROVE  Size(p) = Size(o) - o[a] + p[a]
  <1>1. Summable(o, Addresses) /\ Summable(p, Addresses)
          /\ Size(o) = Total(o) /\ Size(p) = Total(p)
    BY SizeTotal
  <1>2. Total(p) = Total(o) - o[a] + p[a]
    BY <1>1, TotalChange
  <1>3. QED
    BY <1>1, <1>2

(* Owners listed once are as many as the list is long.                      *)
LEMMA SizeDistinct ==
    ASSUME NEW o \in OwnerLists, Distinct(o)
    PROVE  Size(o) = Cardinality({a \in Addresses : o[a] > 0})
  <1>1. o \in [Addresses -> Nat] /\ IsFiniteSet(Addresses) /\ \A a \in Addresses : o[a] <= 1
    BY ArgumentsAssumption DEF OwnerLists, Distinct
  <1>2. Total(o) = Cardinality({a \in Addresses : o[a] > 0})
    BY <1>1, TotalOnes
  <1>3. QED
    BY <1>2, SizeTotal

(* A set of streams has a size.                                             *)
LEMMA StreamSets ==
    ASSUME NEW ss \in SUBSET StreamIds
    PROVE  IsFiniteSet(ss) /\ Cardinality(ss) \in Nat
  <1>1. IsFiniteSet(StreamIds)
    BY FS_Interval, NumbersAssumption DEF StreamIds
  <1>2. IsFiniteSet(ss)
    BY <1>1, FS_Subset
  <1>3. QED
    BY <1>2, FS_CardinalityType

-----------------------------------------------------------------------------
(* What the steps of Next write, by group.                                  *)

(* Every step is one of these.                                              *)
LEMMA StepCases ==
    ASSUME [Next]_vars
    PROVE  \/ \E n \in Initializations : initialize(n.owners, n.threshold, n.governor)
           \/ \E p \in Addresses, n \in Reservations \cup {0} :
                  submit_internal(p, n) /\ (UNCHANGED daily \/ submit_with_limit(p, n))
           \/ \E a \in Addresses, i \in TxIds : approve(a, i)
           \/ \E c \in Addresses \cup Governors, i \in TxIds : cancel(c, i)
           \/ \E g \in Governors, a \in Addresses : slash_signer(g, a) \/ unslash_signer(g, a)
           \/ /\ UNCHANGED <<signers, txs>>
              /\ \/ CloseLedger
                 \/ UNCHANGED vars
                 \/ \E g \in Governors :
                      \/ \E h \in Successors : propose_owner(g, h)
                      \/ accept_ownership(g)
                      \/ \E c \in Caps : set_spending_cap(g, c)
                      \/ \E n \in Amounts : batch_transfer(g, n)
                      \/ \E a \in Addresses, n, most \in Amounts, start \in Starts,
                            end \in Ends, w \in Cooldowns :
                            create_stream(g, a, n, start, end, most, w)
                      \/ \E s \in StreamIds :
                            \/ revoke_stream(g, s)
                            \/ \E end \in Ends : extend_stream(g, s, end)
                            \/ \E n \in Amounts : top_up_stream(g, s, n)
                 \/ \E a \in Addresses, s \in StreamIds, total, largest, n \in Nat :
                        Spend(a, s, total, largest, n)
  <1>1. CASE UNCHANGED vars
    BY <1>1 DEF vars
  <1>2. CASE CloseLedger
    BY <1>2 DEF CloseLedger
  <1>3. CASE SignerStep
    <2>1. CASE \E a \in Addresses : submit(a)
      BY <2>1 DEF submit
    <2>2. CASE \E a \in Addresses, n \in Reservations : submit_with_limit(a, n)
      BY <2>2 DEF submit_with_limit
    <2>3. QED
      BY <1>3, <2>1, <2>2 DEF SignerStep
  <1>4. CASE \E g \in Governors : GovernorStep(g)
    <2> PICK g \in Governors : GovernorStep(g)
      BY <1>4
    <2>1. CASE \/ \E h \in Successors : propose_owner(g, h)
               \/ accept_ownership(g)
               \/ \E c \in Caps : set_spending_cap(g, c)
               \/ \E n \in Amounts : batch_transfer(g, n)
      BY <2>1 DEF propose_owner, accept_ownership, set_spending_cap, batch_transfer
    <2>2. CASE \E a \in Addresses : slash_signer(g, a) \/ unslash_signer(g, a)
      BY <2>2
    <2>3. CASE \E a \in Addresses, n, most \in Amounts, start \in Starts,
                  end \in Ends, w \in Cooldowns :
                  create_stream(g, a, n, start, end, most, w)
      BY <2>3 DEF create_stream
    <2>4. CASE \E s \in StreamIds : \/ revoke_stream(g, s)
                                    \/ \E end \in Ends : extend_stream(g, s, end)
                                    \/ \E n \in Amounts : top_up_stream(g, s, n)
      BY <2>4 DEF revoke_stream, extend_stream, top_up_stream
    <2>5. QED
      BY <2>1, <2>2, <2>3, <2>4 DEF GovernorStep
  <1>5. CASE DepartmentStep
    <2> PICK a \in Addresses, s \in StreamIds :
            \/ \E n \in Amounts : stream_spend(a, s, n)
            \/ \E m, n \in Amounts : stream_batch_spend(a, s, m, n)
      BY <1>5 DEF DepartmentStep
    <2>1. \E total, largest, n \in Nat : Spend(a, s, total, largest, n)
      <3>1. CASE \E n \in Amounts : stream_spend(a, s, n)
        BY <3>1, NumbersAssumption DEF stream_spend
      <3>2. CASE \E m, n \in Amounts : stream_batch_spend(a, s, m, n)
        <4> PICK m \in Amounts, n \in Amounts : stream_batch_spend(a, s, m, n)
          BY <3>2
        <4>1. m + n \in Nat /\ (IF m > n THEN m ELSE n) \in Nat
          BY NumbersAssumption
        <4>2. QED
          BY <4>1 DEF stream_batch_spend
      <3>3. QED
        BY <3>1, <3>2
    <2>2. UNCHANGED <<signers, txs>>
      BY <2>1 DEF Spend
    <2>3. QED
      BY <2>1, <2>2
  <1>6. CASE AnyoneStep
    BY <1>6 DEF AnyoneStep
  <1>7. QED
    BY <1>1, <1>2, <1>3, <1>4, <1>5, <1>6 DEF Next

-----------------------------------------------------------------------------
(* Types.                                                                   *)

Totals == [streamed : Nat, spent : Nat, active : Nat]

(* Totals and streams with other numbers are totals and streams.            *)
LEMMA RecordTypes ==
    ASSUME NEW t \in Totals, NEW b \in BudgetStream, NEW x \in Nat, NEW y \in Nat,
           NEW z \in Nat, NEW f \in BOOLEAN
    PROVE  /\ [t EXCEPT !.spent = x, !.active = y] \in Totals
           /\ [t EXCEPT !.streamed = x, !.active = y] \in Totals
           /\ [b EXCEPT !.total_allocated = x, !.is_active = f] \in BudgetStream
           /\ [b EXCEPT !.total_spent = x, !.last_spend_ledger = y,
                        !.spend_count = z, !.is_active = f] \in BudgetStream
  <1>1. [t EXCEPT !.spent = x, !.active = y] \in Totals
    BY DEF Totals
  <1>2. [t EXCEPT !.streamed = x, !.active = y] \in Totals
    BY DEF Totals
  <1>3. [b EXCEPT !.total_allocated = x, !.is_active = f] \in BudgetStream
    BY DEF BudgetStream
  <1>4. [b EXCEPT !.total_spent = x, !.last_spend_ledger = y,
                  !.spend_count = z, !.is_active = f] \in BudgetStream
    BY DEF BudgetStream
  <1>5. QED
    BY <1>1, <1>2, <1>3, <1>4

(* The payment of an amount keeps the books of the cap in type.             *)
LEMMA CommitType ==
    ASSUME TypeOK, NEW n \in Nat, commit_spending_cap(n)
    PROVE  spentThisPeriod' \in [Ledgers -> Nat] /\ counted' \in [Ledgers -> Nat]
  <1>1. CASE cap = None
    BY <1>1 DEF commit_spending_cap, TypeOK
  <1>2. CASE cap # None
    BY <1>2 DEF commit_spending_cap, TypeOK
  <1>3. QED
    BY <1>1, <1>2

(* Revoking stored streams keeps the types of streams and totals.           *)
LEMMA RevokeType ==
    ASSUME TypeOK, NEW ss \in SUBSET StreamIds, \A s \in ss : stream[s] # None, RevokeAll(ss)
    PROVE  stream' \in [StreamIds -> BudgetStream \cup {None}]
             /\ totals' \in [streamed : Nat, spent : Nat, active : Nat]
  <1> DEFINE live == {s \in ss : ~stream[s].is_revoked}
  <1>1. Cardinality(live) \in Nat
    BY StreamSets
  <1>2. ASSUME NEW s \in live
        PROVE  [stream[s] EXCEPT !.is_revoked = TRUE, !.is_active = FALSE] \in BudgetStream
    <2>1. stream[s] \in BudgetStream
      BY DEF TypeOK
    <2>2. QED
      BY <2>1 DEF BudgetStream
  <1>3. stream' = [s \in StreamIds |->
              IF s \in live
              THEN [stream[s] EXCEPT !.is_revoked = TRUE, !.is_active = FALSE]
              ELSE stream[s]]
    BY DEF RevokeAll
  <1>4. stream' \in [StreamIds -> BudgetStream \cup {None}]
    BY <1>2, <1>3 DEF TypeOK
  <1>5. totals' = [totals EXCEPT !.active =
              IF @ > Cardinality(live) THEN @ - Cardinality(live) ELSE 0]
    BY DEF RevokeAll
  <1>6. totals' \in [streamed : Nat, spent : Nat, active : Nat]
    BY <1>1, <1>5 DEF TypeOK
  <1>7. QED
    BY <1>4, <1>6

(* Initially the types are right.                                           *)
LEMMA TypeInit == Init => TypeOK
  BY NumbersAssumption DEF Init, TypeOK, OwnerLists, Ledgers

(* Setting up keeps the types right.                                        *)
LEMMA TypeInitialize ==
    ASSUME TypeOK, NEW n \in Initializations, initialize(n.owners, n.threshold, n.governor)
    PROVE  TypeOK'
  <1>1. n.owners \in OwnerLists /\ n.threshold \in Nat /\ n.governor \in Governors
    BY ArgumentsAssumption
  <1>2. 0 \in 0..MaxTx
    BY NumbersAssumption
  <1>3. QED
    BY <1>1, <1>2 DEF initialize, TypeOK, clock, capVars, streams

(* The signers' steps keep the types right.                                 *)
LEMMA TypeSigners ==
    ASSUME IndInv,
           \/ \E p \in Addresses, n \in Reservations \cup {0} :
                  submit_internal(p, n) /\ (UNCHANGED daily \/ submit_with_limit(p, n))
           \/ \E a \in Addresses, i \in TxIds : approve(a, i)
           \/ \E c \in Addresses \cup Governors, i \in TxIds : cancel(c, i)
    PROVE  TypeOK'
  <1>0. \A n \in Reservations \cup {0} : n \in Int
    BY NumbersAssumption DEF I128
  <1> USE NumbersAssumption DEF IndInv, clock, ownership, signers, capVars, streams
  <1>1. ASSUME NEW p \in Addresses, NEW n \in Reservations \cup {0}, submit_internal(p, n),
               UNCHANGED daily \/ submit_with_limit(p, n)
        PROVE  TypeOK'
    <2> n \in Int
      BY <1>0
    <2>1. [proposer |-> p, created_ledger |-> seq, approvals |-> 0,
           executed |-> FALSE, cancelled |-> FALSE, reserved_amount |-> n] \in TxProposal
      BY DEF TypeOK, TxProposal
    <2>2. tx' \in [TxIds -> TxProposal \cup {None}] /\ txCount' \in 0..MaxTx
            /\ reused' \subseteq TxIds
      <3>1. txCount' = txCount + 1 /\ txCount \in 0..MaxTx /\ txCount < MaxTx /\ MaxTx \in Nat
        BY <1>1 DEF submit_internal, TypeOK
      <3>2. txCount' \in 0..MaxTx
        BY <3>1
      <3>3. tx' \in [TxIds -> TxProposal \cup {None}]
        BY <1>1, <2>1 DEF submit_internal, TypeOK
      <3>4. reused' \subseteq TxIds
        <4>1. txCount + 1 \in TxIds
          BY <3>1 DEF TxIds
        <4>2. QED
          BY <1>1, <4>1 DEF submit_internal, TypeOK
      <3>5. QED
        BY <3>2, <3>3, <3>4
    <2>3. dailySpent' \in Int /\ dayWindowStart' \in Nat
      <3>1. CASE UNCHANGED daily
        BY <3>1 DEF daily, TypeOK
      <3>2. CASE submit_with_limit(p, n)
        BY <3>2 DEF submit_with_limit, TypeOK
      <3>3. QED
        BY <1>1, <3>1, <3>2
    <2>4. QED
      BY <1>1, <2>2, <2>3 DEF submit_internal, TypeOK
  <1>2. ASSUME NEW a \in Addresses, NEW i \in TxIds, approve(a, i)
        PROVE  TypeOK'
    <2>1. tx[i] \in TxProposal
      BY <1>2 DEF approve, Pending, TypeOK
    <2> DEFINE enough == tx[i].approvals + 1 >= threshold
    <2>2. [tx[i] EXCEPT !.approvals = @ + 1, !.executed = enough] \in TxProposal
      <3>1. tx[i].approvals + 1 \in Nat /\ enough \in BOOLEAN
        BY <2>1 DEF TxProposal, TypeOK
      <3> HIDE DEF enough
      <3>2. QED
        BY <2>1, <3>1 DEF TxProposal
    <2>3. tx' \in [TxIds -> TxProposal \cup {None}]
      BY <1>2, <2>2 DEF approve, TypeOK
    <2>4. QED
      BY <1>2, <2>3 DEF approve, TypeOK, daily
  <1>3. ASSUME NEW c \in Addresses \cup Governors, NEW i \in TxIds, cancel(c, i)
        PROVE  TypeOK'
    <2>1. tx[i] \in TxProposal
      BY <1>3 DEF cancel, Pending, TypeOK
    <2>2. [tx[i] EXCEPT !.cancelled = TRUE] \in TxProposal /\ tx[i].reserved_amount \in Int
      BY <2>1 DEF TxProposal
    <2>3. tx' \in [TxIds -> TxProposal \cup {None}] /\ dailySpent' \in Int
      BY <1>3, <2>2 DEF cancel, Credited, TypeOK
    <2>4. QED
      BY <1>3, <2>3 DEF cancel, TypeOK
  <1>4. QED
    BY <1>1, <1>2, <1>3

(* Slashing and restoring keep the types right.                             *)
LEMMA TypeSlash ==
    ASSUME IndInv, NEW g \in Governors, NEW a \in Addresses,
           slash_signer(g, a) \/ unslash_signer(g, a)
    PROVE  TypeOK'
  <1> USE DEF IndInv, clock, ownership, txs, daily, capVars
  <1>1. CASE slash_signer(g, a)
    <2>1. \A s \in ownerStreams[a] : s \in StreamIds /\ stream[s] # None
      BY DEF TypeOK, StreamsListed
    <2>2. /\ stream' \in [StreamIds -> BudgetStream \cup {None}]
          /\ totals' \in [streamed : Nat, spent : Nat, active : Nat]
      BY <1>1, <2>1, RevokeType DEF slash_signer, TypeOK
    <2>3. PICK m \in Nat : m = owners[a] - 1
      BY <1>1 DEF slash_signer, is_owner, OwnerLists, TypeOK
    <2>4. PICK remaining \in OwnerLists : remaining = [owners EXCEPT ![a] = m]
      BY <2>3 DEF OwnerLists, TypeOK
    <2>5. owners' = remaining /\ threshold' = AdjustedThreshold(remaining) /\ Size(remaining) > 0
      BY <1>1, <2>3, <2>4 DEF slash_signer
    <2>6. threshold' \in Nat
      <3>1. Size(remaining) \in Int
        BY SizeTotal
      <3>2. QED
        BY <2>5, <3>1 DEF AdjustedThreshold, TypeOK
    <2>7. UNCHANGED <<streamCount, ownerStreams>>
      BY <1>1 DEF slash_signer, RevokeAll
    <2>8. QED
      BY <1>1, <2>2, <2>5, <2>6, <2>7 DEF slash_signer, TypeOK
  <1>2. CASE unslash_signer(g, a)
    <2>1. owners' \in OwnerLists
      BY <1>2 DEF unslash_signer, OwnerLists, TypeOK
    <2>2. QED
      BY <1>2, <2>1 DEF unslash_signer, TypeOK, streams
  <1>3. QED
    BY <1>1, <1>2

(* Closing a ledger, handing over the treasury and setting or using the cap *)
(* keep the types right.                                                    *)
LEMMA TypeGovernor ==
    ASSUME IndInv,
           \/ CloseLedger \/ UNCHANGED vars
           \/ \E g \in Governors :
                \/ \E h \in Successors : propose_owner(g, h)
                \/ accept_ownership(g)
                \/ \E c \in Caps : set_spending_cap(g, c)
                \/ \E n \in Amounts : batch_transfer(g, n)
    PROVE  TypeOK'
  <1> USE NumbersAssumption DEF IndInv, clock, ownership, signers, txs, daily, capVars, streams
  <1>1. CASE CloseLedger
    BY <1>1 DEF CloseLedger, TypeOK
  <1>2. CASE UNCHANGED vars
    BY <1>2 DEF vars, TypeOK
  <1>3. ASSUME NEW g \in Governors, NEW h \in Successors, propose_owner(g, h) PROVE TypeOK'
    BY <1>3, ArgumentsAssumption DEF propose_owner, TypeOK
  <1>4. ASSUME NEW g \in Governors, accept_ownership(g) PROVE TypeOK'
    BY <1>4 DEF accept_ownership, TypeOK
  <1>5. ASSUME NEW g \in Governors, NEW c \in Caps, set_spending_cap(g, c) PROVE TypeOK'
    <2>1. cap' \in SpendingCap
      BY <1>5 DEF set_spending_cap, SpendingCap
    <2>2. counted' \in [Ledgers -> Nat]
      BY <1>5 DEF set_spending_cap, TypeOK
    <2>3. QED
      BY <1>5, <2>1, <2>2 DEF set_spending_cap, TypeOK
  <1>6. ASSUME NEW g \in Governors, NEW n \in Amounts, batch_transfer(g, n) PROVE TypeOK'
    <2>1. spentThisPeriod' \in [Ledgers -> Nat] /\ counted' \in [Ledgers -> Nat]
      BY <1>6, CommitType DEF batch_transfer
    <2>2. QED
      BY <1>6, <2>1 DEF batch_transfer, TypeOK
  <1>7. QED
    BY <1>1, <1>2, <1>3, <1>4, <1>5, <1>6

(* A new stream is a stream.                                                *)
LEMMA TypeCreate ==
    ASSUME IndInv, NEW g \in Governors, NEW a \in Addresses, NEW n \in Amounts,
           NEW most \in Amounts, NEW start \in Starts, NEW end \in Ends,
           NEW w \in Cooldowns, create_stream(g, a, n, start, end, most, w)
    PROVE  TypeOK'
  <1> USE DEF IndInv, clock, ownership, signers, txs, daily, capVars
  <1> DEFINE new ==
        [owner |-> a, total_allocated |-> n, total_spent |-> 0,
         start_ledger |-> start, end_ledger |-> end,
         is_active |-> TRUE, is_revoked |-> FALSE, max_single_spend |-> most,
         cooldown_ledgers |-> w, last_spend_ledger |-> 0, spend_count |-> 0]
  <1>1. n \in Nat /\ most \in Nat /\ start \in Nat /\ end \in Nat /\ w \in Nat
    BY NumbersAssumption
  <1>2. new \in BudgetStream
    BY <1>1 DEF BudgetStream
  <1>3. streamCount + 1 \in StreamIds /\ streamCount' \in 0..MaxStreams
    <2>1. streamCount' = streamCount + 1 /\ streamCount \in 0..MaxStreams
            /\ streamCount < MaxStreams /\ MaxStreams \in Nat
      BY NumbersAssumption DEF create_stream, TypeOK
    <2>2. QED
      BY <2>1 DEF StreamIds
  <1>4. stream' = [stream EXCEPT ![streamCount + 1] = new]
    BY DEF create_stream
  <1> HIDE DEF new
  <1>5. stream' \in [StreamIds -> BudgetStream \cup {None}]
    BY <1>2, <1>4 DEF TypeOK
  <1>6. ownerStreams' \in [Addresses -> SUBSET StreamIds]
    BY <1>3 DEF create_stream, add_stream_to_owner, TypeOK
  <1>7. totals' \in Totals
    <2>1. totals \in Totals /\ totals.streamed + n \in Nat /\ totals.active + 1 \in Nat
      BY <1>1 DEF Totals, TypeOK
    <2>2. totals' = [totals EXCEPT !.streamed = totals.streamed + n, !.active = totals.active + 1]
      BY DEF create_stream
    <2>3. QED
      BY <1>2, <2>1, <2>2, RecordTypes
  <1>8. QED
    BY <1>3, <1>5, <1>6, <1>7 DEF create_stream, TypeOK, Totals

(* The governor's changes to a stream keep the types right.                 *)
LEMMA TypeChange ==
    ASSUME IndInv, NEW g \in Governors, NEW s \in StreamIds,
           \/ revoke_stream(g, s)
           \/ \E end \in Ends : extend_stream(g, s, end)
           \/ \E n \in Amounts : top_up_stream(g, s, n)
    PROVE  TypeOK'
  <1> USE DEF IndInv, clock, ownership, signers, txs, daily, capVars
  <1>1. CASE revoke_stream(g, s)
    <2>1. /\ stream' \in [StreamIds -> BudgetStream \cup {None}]
          /\ totals' \in [streamed : Nat, spent : Nat, active : Nat]
      BY <1>1, RevokeType DEF revoke_stream
    <2>2. UNCHANGED <<streamCount, ownerStreams>>
      BY <1>1 DEF revoke_stream, RevokeAll
    <2>3. QED
      BY <1>1, <2>1, <2>2 DEF revoke_stream, TypeOK
  <1>2. ASSUME NEW end \in Ends, extend_stream(g, s, end)
        PROVE  TypeOK'
    <2>1. stream[s] \in BudgetStream /\ end \in Nat
      BY <1>2, NumbersAssumption DEF extend_stream, TypeOK
    <2>2. [stream[s] EXCEPT !.end_ledger = end] \in BudgetStream
      BY <2>1 DEF BudgetStream
    <2>3. stream' \in [StreamIds -> BudgetStream \cup {None}]
      BY <1>2, <2>2 DEF extend_stream, TypeOK
    <2>4. QED
      BY <1>2, <2>3 DEF extend_stream, TypeOK
  <1>3. ASSUME NEW n \in Amounts, top_up_stream(g, s, n)
        PROVE  TypeOK'
    <2> DEFINE active == IF Reactivates(s) THEN totals.active + 1 ELSE totals.active
               usable == IF Reactivates(s) THEN TRUE ELSE stream[s].is_active
    <2>1. stream[s] \in BudgetStream /\ n \in Nat
      BY <1>3, NumbersAssumption DEF top_up_stream, TypeOK
    <2>2. stream' = [stream EXCEPT ![s] = [stream[s] EXCEPT
                            !.total_allocated = stream[s].total_allocated + n,
                            !.is_active = usable]]
      BY <1>3 DEF top_up_stream
    <2>3. totals' = [totals EXCEPT !.streamed = totals.streamed + n, !.active = active]
      BY <1>3 DEF top_up_stream
    <2>4. /\ totals \in Totals /\ totals.streamed + n \in Nat /\ active \in Nat
          /\ stream[s].total_allocated + n \in Nat /\ usable \in BOOLEAN
      <3>1. totals \in Totals /\ stream[s].is_active \in BOOLEAN
        BY <2>1 DEF Totals, BudgetStream, TypeOK
      <3>2. usable \in BOOLEAN
        BY <3>1
      <3>3. totals.streamed + n \in Nat /\ active \in Nat
        BY <2>1, <3>1 DEF Totals
      <3>4. stream[s].total_allocated + n \in Nat
        BY <2>1 DEF BudgetStream
      <3>5. QED
        BY <3>1, <3>2, <3>3, <3>4
    <2> HIDE DEF active, usable
    <2>5. stream' \in [StreamIds -> BudgetStream \cup {None}]
      BY <2>1, <2>2, <2>4, RecordTypes DEF TypeOK
    <2>6. totals' \in Totals
      BY <2>1, <2>3, <2>4, RecordTypes
    <2>7. QED
      BY <1>3, <2>5, <2>6 DEF top_up_stream, TypeOK, Totals
  <1>4. QED
    BY <1>1, <1>2, <1>3

(* Spending from a stream keeps the types right.                            *)
LEMMA TypeSpend ==
    ASSUME IndInv, NEW a \in Addresses, NEW s \in StreamIds, NEW total \in Nat,
           NEW largest \in Nat, NEW n \in Nat, Spend(a, s, total, largest, n)
    PROVE  TypeOK'
  <1> USE DEF IndInv, clock, ownership, signers, txs, daily
  <1> DEFINE left == total # Remaining(s)
  <1>1. stream[s] \in BudgetStream /\ seq \in Nat
    BY DEF Spend, TypeOK
  <1>2. left \in BOOLEAN
    OBVIOUS
  <1> DEFINE active == IF total = Remaining(s) /\ totals.active > 0
                       THEN totals.active - 1 ELSE totals.active
  <1>3. /\ stream' = [stream EXCEPT ![s] = [stream[s] EXCEPT
                          !.total_spent = stream[s].total_spent + total,
                          !.last_spend_ledger = seq,
                          !.spend_count = stream[s].spend_count + n,
                          !.is_active = left]]
        /\ totals' = [totals EXCEPT !.spent = totals.spent + total, !.active = active]
    BY DEF Spend
  <1>4. /\ totals \in Totals /\ totals.spent + total \in Nat /\ active \in Nat
        /\ stream[s].total_spent + total \in Nat /\ stream[s].spend_count + n \in Nat
    BY <1>1 DEF Totals, BudgetStream, TypeOK
  <1> HIDE DEF left, active
  <1>5. stream' \in [StreamIds -> BudgetStream \cup {None}]
    BY <1>1, <1>2, <1>3, <1>4, RecordTypes DEF TypeOK
  <1>6. totals' \in Totals
    BY <1>1, <1>2, <1>3, <1>4, RecordTypes
  <1>7. spentThisPeriod' \in [Ledgers -> Nat] /\ counted' \in [Ledgers -> Nat]
    BY CommitType DEF Spend
  <1>8. QED
    BY <1>5, <1>6, <1>7 DEF Spend, TypeOK, Totals

(* Every step keeps the types right.                                        *)
LEMMA TypeStep == IndInv /\ [Next]_vars => TypeOK'
  <1> SUFFICES ASSUME IndInv, [Next]_vars PROVE TypeOK'
    OBVIOUS
  <1>1. TypeOK
    BY DEF IndInv
  <1>2. QED
    BY <1>1, StepCases, TypeInitialize, TypeSigners, TypeSlash, TypeGovernor, TypeCreate,
       TypeChange, TypeSpend

-----------------------------------------------------------------------------
(* The signers.                                                             *)

(* Setting up asks for enough owners, slashing lowers the threshold with    *)
(* the number of owners, restoring adds an owner, and nothing else changes  *)
(* either.  Before the first setting up nobody can do anything else.        *)
LEMMA AttainableStep == IndInv /\ [Next]_vars => Attainable'
  <1> SUFFICES ASSUME IndInv, [Next]_vars PROVE Attainable'
    OBVIOUS
  <1> USE DEF IndInv
  <1>1. owners \in OwnerLists /\ threshold \in Nat /\ Size(owners) \in Int
    BY SizeTotal DEF TypeOK
  <1>2. ASSUME NEW g \in Governors, NEW a \in Addresses, slash_signer(g, a)
        PROVE  Attainable'
    <2>1. PICK remaining : remaining = [owners EXCEPT ![a] = owners[a] - 1]
      OBVIOUS
    <2>2. owners' = remaining /\ threshold' = AdjustedThreshold(remaining)
      BY <1>2, <2>1 DEF slash_signer
    <2>3. PICK m \in Nat : m = owners[a] - 1
      BY <1>1, <1>2 DEF slash_signer, is_owner, OwnerLists
    <2>4. remaining \in OwnerLists
      BY <1>1, <2>1, <2>3 DEF OwnerLists
    <2>5. Size(remaining) \in Int
      BY <2>4, SizeTotal
    <2>6. threshold' <= Size(remaining)
      BY <1>1, <2>2, <2>5 DEF AdjustedThreshold
    <2>7. QED
      BY <2>2, <2>6 DEF Attainable
  <1>3. ASSUME NEW g \in Governors, NEW a \in Addresses, unslash_signer(g, a)
        PROVE  Attainable'
    <2>1. PICK more \in OwnerLists :
             /\ more = [owners EXCEPT ![a] = 1]
             /\ more[a] = 1 /\ \A x \in Addresses : x # a => owners[x] = more[x]
      <3>1. PICK more : more = [owners EXCEPT ![a] = 1]
        OBVIOUS
      <3>2. owners \in [Addresses -> Nat]
        BY <1>1 DEF OwnerLists
      <3>3. more \in [Addresses -> Nat] /\ more[a] = 1
              /\ \A x \in Addresses : x # a => owners[x] = more[x]
        BY <3>1, <3>2
      <3>4. QED
        BY <3>1, <3>3 DEF OwnerLists
    <2>2. owners' = more /\ threshold' = threshold /\ ~(owners[a] > 0)
      BY <1>3, <2>1 DEF unslash_signer, is_owner
    <2>3. owners[a] = 0
      BY <1>1, <2>2 DEF OwnerLists
    <2>4. Size(more) = Size(owners) - owners[a] + more[a]
      BY <1>1, <2>1, SizeChange
    <2>5. ~Blank
      BY <1>3, NoneAssumption DEF unslash_signer, require_governor, Blank
    <2>6. threshold <= Size(owners)
      BY <2>5 DEF Attainable
    <2>7. threshold' <= Size(more)
      BY <1>1, <2>1, <2>2, <2>3, <2>4, <2>6
    <2>8. QED
      BY <2>2, <2>7 DEF Attainable
  <1>4. ASSUME NEW n \in Initializations, initialize(n.owners, n.threshold, n.governor)
        PROVE  Attainable'
    BY <1>4 DEF initialize, Attainable
  <1>5. CASE UNCHANGED <<owners, threshold>> /\ (Blank => Blank')
    BY <1>5 DEF Attainable
  <1>6. ASSUME Blank, NEW p \in Addresses
        PROVE  ~(owners[p] > 0)
    BY <1>6 DEF Blank
  <1>7. ASSUME NEW p \in Addresses, NEW n, submit_internal(p, n)
        PROVE  UNCHANGED <<owners, threshold>> /\ (Blank => Blank')
    <2>1. ~Blank
      BY <1>6, <1>7 DEF submit_internal, is_owner
    <2>2. QED
      BY <1>7, <2>1 DEF submit_internal, signers
  <1>8. ASSUME NEW a, NEW i \in TxIds, approve(a, i) \/ cancel(a, i)
        PROVE  UNCHANGED <<owners, threshold>> /\ (Blank => Blank')
    <2>1. ~Blank
      BY <1>8 DEF approve, cancel, Pending, Blank
    <2>2. QED
      BY <1>8, <2>1 DEF approve, cancel, signers
  <1>9. ASSUME UNCHANGED <<signers, txs>>, UNCHANGED ownership
        PROVE  UNCHANGED <<owners, threshold>> /\ (Blank => Blank')
    BY <1>9 DEF signers, txs, ownership, Blank
  <1>10. ASSUME UNCHANGED <<signers, txs>>, NEW g \in Governors, NEW h,
                propose_owner(g, h) \/ accept_ownership(g)
         PROVE  UNCHANGED <<owners, threshold>> /\ (Blank => Blank')
    <2>1. ~Blank
      BY <1>10, NoneAssumption DEF propose_owner, accept_ownership, require_governor, Blank
    <2>2. QED
      BY <1>10, <2>1 DEF signers
  <1>11. QED
    <2>1. \A g, c, n : CloseLedger \/ UNCHANGED vars \/ set_spending_cap(g, c)
             \/ batch_transfer(g, n) => UNCHANGED ownership
      BY DEF CloseLedger, vars, set_spending_cap, batch_transfer
    <2>2. \A g, s, x : revoke_stream(g, s) \/ extend_stream(g, s, x) \/ top_up_stream(g, s, x)
             => UNCHANGED ownership
      BY DEF revoke_stream, extend_stream, top_up_stream
    <2>3. \A g, a, n, most, start, end, w : create_stream(g, a, n, start, end, most, w)
             => UNCHANGED ownership
      BY DEF create_stream
    <2>4. \A a, s, total, largest, n : Spend(a, s, total, largest, n) => UNCHANGED ownership
      BY DEF Spend
    <2>5. QED
      BY StepCases, <1>2, <1>3, <1>4, <1>5, <1>7, <1>8, <1>9, <1>10, <2>1, <2>2, <2>3, <2>4

(* An approval is counted when it is entered, once per approver.            *)
LEMMA ApprovalsStep == IndInv /\ [Next]_vars => ApprovalsCounted'
  <1> SUFFICES ASSUME IndInv, [Next]_vars PROVE ApprovalsCounted'
    OBVIOUS
  <1> USE DEF IndInv
  <1>1. ASSUME NEW p \in Addresses, NEW n \in Reservations \cup {0}, submit_internal(p, n)
        PROVE  ApprovalsCounted'
    <2> DEFINE new == [proposer |-> p, created_ledger |-> seq, approvals |-> 0,
                       executed |-> FALSE, cancelled |-> FALSE, reserved_amount |-> n]
    <2>1. /\ hasApproved' = hasApproved
          /\ tx \in [TxIds -> TxProposal \cup {None}]
          /\ tx' = [tx EXCEPT ![txCount + 1] = new]
          /\ reused' = IF tx[txCount + 1] = None THEN reused ELSE reused \cup {txCount + 1}
      BY <1>1 DEF submit_internal, TypeOK
    <2>2. new \in TxProposal /\ new.approvals = 0
      <3>1. n \in Int /\ seq \in Nat
        BY NumbersAssumption DEF I128, TypeOK
      <3>2. QED
        BY <3>1 DEF TxProposal
    <2>3. new # None
      BY <2>2, NoneAssumption
    <2> HIDE DEF new
    <2> SUFFICES ASSUME NEW i \in TxIds
                 PROVE  /\ tx'[i] = None => hasApproved[i] = {}
                        /\ tx'[i] # None /\ i \notin reused'
                             => tx'[i].approvals = Cardinality(hasApproved[i])
      BY <2>1 DEF ApprovalsCounted
    <2>4. CASE i = txCount + 1
      <3>1. tx'[i] = new
        BY <2>1, <2>4
      <3>2. i \notin reused' => hasApproved[i] = {}
        BY <2>1, <2>4 DEF ApprovalsCounted
      <3>3. QED
        BY <2>2, <2>3, <3>1, <3>2, FS_EmptySet
    <2>5. CASE i # txCount + 1
      <3>1. tx'[i] = tx[i] /\ (i \in reused' <=> i \in reused)
        BY <2>1, <2>5
      <3>2. QED
        BY <3>1 DEF ApprovalsCounted
    <2>6. QED
      BY <2>4, <2>5
  <1>2. ASSUME NEW a \in Addresses, NEW j \in TxIds, approve(a, j)
        PROVE  ApprovalsCounted'
    <2>1. /\ tx \in [TxIds -> TxProposal \cup {None}] /\ hasApproved \in [TxIds -> SUBSET Addresses]
          /\ reused' = reused
          /\ hasApproved' = [hasApproved EXCEPT ![j] = @ \cup {a}]
          /\ a \notin hasApproved[j] /\ tx[j] # None
      BY <1>2 DEF approve, Pending, TypeOK
    <2>2. tx[j] \in TxProposal
      BY <2>1
    <2>3. /\ tx'[j].approvals = tx[j].approvals + 1 /\ tx'[j] \in TxProposal
          /\ \A i \in TxIds : i # j => tx'[i] = tx[i]
      <3> DEFINE enough == tx[j].approvals + 1 >= threshold
                 more == tx[j].approvals + 1
      <3>1. tx' = [tx EXCEPT ![j] = [tx[j] EXCEPT !.approvals = more, !.executed = enough]]
        BY <1>2 DEF approve
      <3>2. more \in Nat /\ enough \in BOOLEAN /\ more = tx[j].approvals + 1
        BY <2>2 DEF TxProposal
      <3> HIDE DEF enough, more
      <3>3. PICK new : new = [tx[j] EXCEPT !.approvals = more, !.executed = enough]
        OBVIOUS
      <3>4. new \in TxProposal /\ new.approvals = more
        BY <2>2, <3>2, <3>3 DEF TxProposal
      <3>5. tx'[j] = new /\ \A i \in TxIds : i # j => tx'[i] = tx[i]
        BY <2>1, <3>1, <3>3
      <3>6. QED
        BY <3>2, <3>4, <3>5
    <2>4. IsFiniteSet(hasApproved[j])
      BY <2>1, ArgumentsAssumption, FS_Subset
    <2>5. Cardinality(hasApproved'[j]) = Cardinality(hasApproved[j]) + 1
      BY <2>1, <2>4, FS_AddElement
    <2>6. \A i \in TxIds : i # j => hasApproved'[i] = hasApproved[i]
      BY <2>1
    <2>7. tx'[j] # None
      BY <2>3, NoneAssumption
    <2>8. QED
      BY <2>1, <2>3, <2>5, <2>6, <2>7 DEF ApprovalsCounted
  <1>3. ASSUME NEW c \in Addresses \cup Governors, NEW j \in TxIds, cancel(c, j)
        PROVE  ApprovalsCounted'
    <2>1. /\ tx \in [TxIds -> TxProposal \cup {None}]
          /\ reused' = reused /\ hasApproved' = hasApproved
          /\ tx[j] # None
          /\ tx' = [tx EXCEPT ![j].cancelled = TRUE]
      BY <1>3 DEF cancel, Pending, TypeOK
    <2>2. tx[j] \in TxProposal
      BY <2>1
    <2>3. /\ tx'[j].approvals = tx[j].approvals /\ tx'[j] \in TxProposal
          /\ \A i \in TxIds : i # j => tx'[i] = tx[i]
      BY <2>1, <2>2 DEF TxProposal
    <2>4. tx'[j] # None
      BY <2>3, NoneAssumption
    <2>5. QED
      BY <2>1, <2>3, <2>4 DEF ApprovalsCounted
  <1>4. CASE UNCHANGED <<tx, hasApproved, reused>>
    BY <1>4 DEF ApprovalsCounted
  <1>5. QED
    <2>1. \A g, a : slash_signer(g, a) \/ unslash_signer(g, a) => UNCHANGED <<tx, hasApproved, reused>>
      BY DEF slash_signer, unslash_signer, txs
    <2>2. \A n, m, g : initialize(n, m, g) => UNCHANGED <<tx, hasApproved, reused>>
      BY DEF initialize
    <2>3. UNCHANGED txs => UNCHANGED <<tx, hasApproved, reused>>
      BY DEF txs
    <2>4. QED
      BY StepCases, <1>1, <1>2, <1>3, <1>4, <2>1, <2>2, <2>3

-----------------------------------------------------------------------------
(* The streams.                                                             *)

(* Revoking changes no owner of a stream, creates none and keeps what was   *)
(* revoked; it revokes what it is told to.                                  *)
LEMMA RevokeEffect ==
    ASSUME TypeOK, NEW ss \in SUBSET StreamIds, \A s \in ss : stream[s] # None, RevokeAll(ss)
    PROVE  /\ UNCHANGED <<streamCount, ownerStreams>>
           /\ \A s \in StreamIds :
                 /\ stream'[s] # None <=> stream[s] # None
                 /\ stream[s] # None => /\ stream'[s].owner = stream[s].owner
                                        /\ stream[s].is_revoked => stream'[s].is_revoked
           /\ \A s \in ss : stream'[s].is_revoked
  <1> DEFINE live == {s \in ss : ~stream[s].is_revoked}
  <1>1. UNCHANGED <<streamCount, ownerStreams>>
    BY DEF RevokeAll
  <1>2. stream' = [s \in StreamIds |->
              IF s \in live
              THEN [stream[s] EXCEPT !.is_revoked = TRUE, !.is_active = FALSE]
              ELSE stream[s]]
    BY DEF RevokeAll
  <1>3. ASSUME NEW s \in live
        PROVE  stream'[s] # None /\ stream'[s].owner = stream[s].owner /\ stream'[s].is_revoked
    <2>1. stream[s] \in BudgetStream
      BY DEF TypeOK
    <2>2. stream'[s] = [stream[s] EXCEPT !.is_revoked = TRUE, !.is_active = FALSE]
      BY <1>2
    <2>3. stream'[s] \in BudgetStream /\ stream'[s].owner = stream[s].owner
            /\ stream'[s].is_revoked
      BY <2>1, <2>2 DEF BudgetStream
    <2>4. QED
      BY <2>3, NoneAssumption
  <1>4. \A s \in StreamIds \ live : stream'[s] = stream[s]
    BY <1>2
  <1>5. \A s \in ss : s \notin live => stream[s].is_revoked
    OBVIOUS
  <1>6. \A s \in live : s \in ss /\ stream[s] # None
    OBVIOUS
  <1> HIDE DEF live
  <1>7. ASSUME NEW s \in StreamIds
        PROVE  /\ stream'[s] # None <=> stream[s] # None
               /\ stream[s] # None => /\ stream'[s].owner = stream[s].owner
                                      /\ stream[s].is_revoked => stream'[s].is_revoked
    <2>1. CASE s \in live
      BY <1>3, <1>6, <2>1
    <2>2. CASE s \notin live
      <3>1. stream'[s] = stream[s]
        BY <1>4, <2>2
      <3>2. QED
        BY <3>1
    <2>3. QED
      BY <2>1, <2>2
  <1>8. ASSUME NEW s \in ss
        PROVE  stream'[s].is_revoked
    <2>1. CASE s \in live
      BY <1>3, <2>1
    <2>2. CASE s \notin live
      <3>1. stream'[s] = stream[s]
        BY <1>4, <2>2
      <3>2. QED
        BY <1>5, <2>2, <3>1
    <2>3. QED
      BY <2>1, <2>2
  <1>9. QED
    BY <1>1, <1>7, <1>8

(* A step that creates no stream, changes no owner and restores no stream.  *)
StreamsKept ==
    /\ UNCHANGED <<streamCount, ownerStreams>>
    /\ \A s \in StreamIds :
          /\ stream'[s] # None <=> stream[s] # None
          /\ stream[s] # None => /\ stream'[s].owner = stream[s].owner
                                 /\ stream[s].is_revoked => stream'[s].is_revoked

(* Spending, extending and topping up change one stream and neither its     *)
(* owner nor whether it is revoked.                                         *)
LEMMA ChangeKeeps ==
    ASSUME IndInv, NEW s \in StreamIds, stream[s] # None, NEW b,
           stream' = [stream EXCEPT ![s] = b], b \in BudgetStream,
           b.owner = stream[s].owner, b.is_revoked = stream[s].is_revoked,
           UNCHANGED <<streamCount, ownerStreams>>
    PROVE  StreamsKept
  <1>1. stream'[s] = b /\ \A r \in StreamIds : r # s => stream'[r] = stream[r]
    BY DEF IndInv, TypeOK
  <1>2. b # None
    BY NoneAssumption
  <1>3. QED
    BY <1>1, <1>2 DEF StreamsKept

(* Keeping streams as they are keeps the invariants about them.             *)
LEMMA KeptSafe ==
    ASSUME IndInv, StreamsKept, UNCHANGED slashMark
    PROVE  StreamsListed' /\ SlashRevokes'
  <1>1. StreamsListed'
    BY DEF IndInv, StreamsKept, StreamsListed
  <1>2. \A s \in 1..streamCount : s \in StreamIds /\ stream[s] # None
    BY NumbersAssumption DEF IndInv, TypeOK, StreamsListed, StreamIds
  <1>3. SlashRevokes'
    BY <1>2 DEF IndInv, StreamsKept, SlashRevokes
  <1>4. QED
    BY <1>1, <1>3

(* A new stream is not revoked, but its number is higher than any mark.     *)
LEMMA CreateSafe ==
    ASSUME IndInv, NEW g \in Governors, NEW a \in Addresses, NEW n \in Amounts,
           NEW most \in Amounts, NEW start \in Starts, NEW end \in Ends,
           NEW w \in Cooldowns, create_stream(g, a, n, start, end, most, w), TypeOK'
    PROVE  StreamsListed' /\ SlashRevokes'
  <1> USE DEF IndInv
  <1> DEFINE new == streamCount + 1
  <1>1. /\ streamCount \in Nat /\ new \in StreamIds /\ streamCount' = new
        /\ StreamIds \subseteq Nat
    <2>1. streamCount' = streamCount + 1 /\ streamCount \in 0..MaxStreams
            /\ streamCount < MaxStreams /\ MaxStreams \in Nat
      BY NumbersAssumption DEF create_stream, TypeOK
    <2>2. QED
      BY <2>1 DEF StreamIds
  <1>2. stream'[new].owner = a /\ stream'[new] # None
    <2>1. stream'[new].owner = a
      BY <1>1 DEF create_stream, TypeOK
    <2>2. stream'[new] = [owner |-> a, total_allocated |-> n, total_spent |-> 0,
             start_ledger |-> start, end_ledger |-> end,
             is_active |-> TRUE, is_revoked |-> FALSE, max_single_spend |-> most,
             cooldown_ledgers |-> w, last_spend_ledger |-> 0, spend_count |-> 0]
      BY <1>1 DEF create_stream, TypeOK
    <2>3. n \in Nat /\ most \in Nat /\ start \in Nat /\ end \in Nat /\ w \in Nat
      BY NumbersAssumption
    <2>4. stream'[new] \in BudgetStream
      BY <2>2, <2>3 DEF BudgetStream
    <2>5. QED
      BY <2>1, <2>4, NoneAssumption
  <1>3. \A s \in StreamIds : s # new => stream'[s] = stream[s]
    BY DEF create_stream, TypeOK
  <1>4. ownerStreams' = [ownerStreams EXCEPT ![a] = @ \cup {new}]
    BY DEF create_stream, add_stream_to_owner
  <1>5. stream[new] = None
    BY <1>1 DEF StreamsListed
  <1>6. ASSUME NEW s \in StreamIds
        PROVE  stream'[s] # None <=> s <= streamCount'
    <2>1. CASE s = new
      BY <1>1, <1>2, <2>1
    <2>2. CASE s # new
      BY <1>1, <1>3, <2>2 DEF StreamsListed
    <2>3. QED
      BY <2>1, <2>2
  <1>7. ASSUME NEW b \in Addresses, NEW s \in StreamIds
        PROVE  s \in ownerStreams'[b] <=> stream'[s] # None /\ stream'[s].owner = b
    <2>1. ownerStreams'[b] = IF b = a THEN ownerStreams[b] \cup {new} ELSE ownerStreams[b]
      BY <1>4 DEF TypeOK
    <2>2. CASE s = new
      <3>1. s \notin ownerStreams[b]
        BY <1>5, <2>2 DEF StreamsListed
      <3>2. QED
        BY <1>2, <2>1, <2>2, <3>1
    <2>3. CASE s # new
      BY <1>3, <2>1, <2>3 DEF StreamsListed
    <2>4. QED
      BY <2>2, <2>3
  <1>8. ASSUME NEW s \in 1..streamCount', s <= slashMark'[stream'[s].owner]
        PROVE  stream'[s].is_revoked
    <2>1. slashMark' = slashMark
      BY DEF create_stream, signers
    <2>2. \A r \in 1..streamCount : r \in StreamIds
      <3>1. streamCount \in 0..MaxStreams /\ MaxStreams \in Nat
        BY NumbersAssumption DEF TypeOK
      <3>2. QED
        BY <3>1 DEF StreamIds
    <2>3. CASE s = new
      <3>1. slashMark[a] \in Nat /\ slashMark[a] <= streamCount
        BY DEF MarksBounded, TypeOK
      <3>2. QED
        BY <1>1, <1>2, <1>8, <2>1, <2>3, <3>1
    <2>4. CASE s # new
      <3>1. s \in 1..streamCount
        BY <1>1, <2>4
      <3>2. stream'[s] = stream[s]
        BY <1>3, <2>2, <2>4, <3>1
      <3>3. QED
        BY <1>8, <2>1, <3>1, <3>2 DEF SlashRevokes
    <2>5. QED
      BY <2>3, <2>4
  <1>9. QED
    BY <1>6, <1>7, <1>8 DEF StreamsListed, SlashRevokes

(* Slashing sets the mark and revokes every stream up to it.                *)
LEMMA SlashSafe ==
    ASSUME IndInv, NEW g \in Governors, NEW a \in Addresses, slash_signer(g, a)
    PROVE  StreamsListed' /\ SlashRevokes'
  <1> USE DEF IndInv
  <1>1. ownerStreams[a] \in SUBSET StreamIds /\ \A s \in ownerStreams[a] : stream[s] # None
    BY DEF TypeOK, StreamsListed
  <1>2. StreamsKept /\ \A s \in ownerStreams[a] : stream'[s].is_revoked
    BY <1>1, RevokeEffect DEF slash_signer, StreamsKept
  <1>3. StreamsListed'
    BY <1>2 DEF StreamsKept, StreamsListed
  <1>4. \A s \in 1..streamCount : s \in StreamIds /\ stream[s] # None
    BY NumbersAssumption DEF TypeOK, StreamsListed, StreamIds
  <1>5. ASSUME NEW s \in 1..streamCount', s <= slashMark'[stream'[s].owner]
        PROVE  stream'[s].is_revoked
    <2>1. s \in 1..streamCount /\ s \in StreamIds /\ stream[s] # None
            /\ stream'[s].owner = stream[s].owner
      BY <1>2, <1>4 DEF StreamsKept
    <2>2. stream[s].owner \in Addresses
      <3>1. stream[s] \in BudgetStream
        BY <2>1 DEF TypeOK
      <3>2. QED
        BY <3>1 DEF BudgetStream
    <2>3. CASE stream[s].owner = a
      BY <1>2, <2>1, <2>2, <2>3 DEF StreamsListed
    <2>4. CASE stream[s].owner # a
      <3>1. slashMark'[stream[s].owner] = slashMark[stream[s].owner]
        BY <2>2, <2>4 DEF slash_signer, TypeOK
      <3>2. stream[s].is_revoked
        BY <1>5, <2>1, <3>1 DEF SlashRevokes
      <3>3. QED
        BY <1>2, <2>1, <3>2 DEF StreamsKept
    <2>5. QED
      BY <2>3, <2>4
  <1>6. QED
    BY <1>3, <1>5 DEF SlashRevokes

(* No other step creates a stream, changes an owner or restores a stream.   *)
LEMMA OthersKeep ==
    ASSUME IndInv, NEW g, NEW a, NEW s \in StreamIds,
           \/ revoke_stream(g, s)
           \/ \E end \in Ends : extend_stream(g, s, end)
           \/ \E n \in Amounts : top_up_stream(g, s, n)
           \/ \E total, largest, n \in Nat : Spend(a, s, total, largest, n)
    PROVE  StreamsKept
  <1> USE DEF IndInv
  <1>1. CASE revoke_stream(g, s)
    BY <1>1, RevokeEffect DEF revoke_stream, StreamsKept
  <1>2. ASSUME NEW end \in Ends, extend_stream(g, s, end)
        PROVE  StreamsKept
    <2> DEFINE b == [stream[s] EXCEPT !.end_ledger = end]
    <2>1. stream[s] # None /\ stream[s] \in BudgetStream /\ end \in Nat
      BY <1>2, NumbersAssumption DEF extend_stream, TypeOK
    <2>2. b \in BudgetStream /\ b.owner = stream[s].owner /\ b.is_revoked = stream[s].is_revoked
      BY <2>1 DEF BudgetStream
    <2>3. stream' = [stream EXCEPT ![s] = b] /\ UNCHANGED <<streamCount, ownerStreams>>
      BY <1>2 DEF extend_stream
    <2> HIDE DEF b
    <2>4. QED
      BY <2>1, <2>2, <2>3, ChangeKeeps
  <1>3. ASSUME NEW n \in Amounts, top_up_stream(g, s, n)
        PROVE  StreamsKept
    <2> DEFINE usable == IF Reactivates(s) THEN TRUE ELSE stream[s].is_active
               b == [stream[s] EXCEPT !.total_allocated = stream[s].total_allocated + n,
                                      !.is_active = usable]
    <2>1. stream[s] # None /\ stream[s] \in BudgetStream /\ n \in Nat
      BY <1>3, NumbersAssumption DEF top_up_stream, TypeOK
    <2>2. stream' = [stream EXCEPT ![s] = b] /\ UNCHANGED <<streamCount, ownerStreams>>
      BY <1>3 DEF top_up_stream
    <2>3. stream[s].total_allocated + n \in Nat /\ stream[s].is_active \in BOOLEAN
      BY <2>1 DEF BudgetStream
    <2>4. usable \in BOOLEAN
      BY <2>3
    <2> HIDE DEF usable
    <2>5. b \in BudgetStream /\ b.owner = stream[s].owner /\ b.is_revoked = stream[s].is_revoked
      BY <2>1, <2>3, <2>4 DEF BudgetStream
    <2> HIDE DEF b
    <2>6. QED
      BY <2>1, <2>2, <2>5, ChangeKeeps
  <1>4. ASSUME NEW total \in Nat, NEW largest \in Nat, NEW n \in Nat,
               Spend(a, s, total, largest, n)
        PROVE  StreamsKept
    <2> DEFINE left == total # Remaining(s)
               b == [stream[s] EXCEPT !.total_spent = stream[s].total_spent + total,
                                      !.last_spend_ledger = seq,
                                      !.spend_count = stream[s].spend_count + n,
                                      !.is_active = left]
    <2>1. stream[s] # None /\ stream[s] \in BudgetStream /\ seq \in Nat
      BY <1>4 DEF Spend, TypeOK
    <2>2. stream' = [stream EXCEPT ![s] = b] /\ UNCHANGED <<streamCount, ownerStreams>>
      <3>1. stream' = [stream EXCEPT ![s] = b]
        BY <1>4 DEF Spend
      <3>2. QED
        BY <1>4, <3>1 DEF Spend
    <2>3. stream[s].total_spent + total \in Nat /\ stream[s].spend_count + n \in Nat
      BY <2>1 DEF BudgetStream
    <2>4. left \in BOOLEAN
      OBVIOUS
    <2> HIDE DEF left
    <2>5. b \in BudgetStream /\ b.owner = stream[s].owner /\ b.is_revoked = stream[s].is_revoked
      BY <2>1, <2>3, <2>4 DEF BudgetStream
    <2> HIDE DEF b
    <2>6. QED
      BY <2>1, <2>2, <2>5, ChangeKeeps
  <1>5. QED
    BY <1>1, <1>2, <1>3, <1>4

(* Every step keeps the invariants about streams.                           *)
LEMMA StreamStep ==
    IndInv /\ [Next]_vars => StreamsListed' /\ MarksBounded' /\ SlashRevokes'
  <1> SUFFICES ASSUME IndInv, [Next]_vars
               PROVE  StreamsListed' /\ MarksBounded' /\ SlashRevokes'
    OBVIOUS
  <1>1. streamCount \in Nat /\ slashMark \in [Addresses -> 0..MaxStreams] /\ MarksBounded
    BY DEF IndInv, TypeOK
  <1>2. ASSUME StreamsKept, UNCHANGED slashMark
        PROVE  StreamsListed' /\ MarksBounded' /\ SlashRevokes'
    BY <1>2, KeptSafe DEF IndInv, MarksBounded, StreamsKept
  <1>3. CASE \E g \in Governors, a \in Addresses : slash_signer(g, a)
    <2> PICK g \in Governors, a \in Addresses : slash_signer(g, a)
      BY <1>3
    <2>1. streamCount' = streamCount /\ slashMark' = [slashMark EXCEPT ![a] = streamCount]
      BY DEF slash_signer, RevokeAll
    <2>2. MarksBounded'
      BY <1>1, <2>1 DEF MarksBounded
    <2>3. QED
      BY <2>2, SlashSafe
  <1>4. CASE \E g \in Governors, a \in Addresses, n, most \in Amounts, start \in Starts,
                end \in Ends, w \in Cooldowns : create_stream(g, a, n, start, end, most, w)
    <2> PICK g \in Governors, a \in Addresses, n \in Amounts, most \in Amounts,
             start \in Starts, end \in Ends, w \in Cooldowns :
             create_stream(g, a, n, start, end, most, w)
      BY <1>4
    <2>1. streamCount' = streamCount + 1 /\ slashMark' = slashMark
      BY DEF create_stream, signers
    <2>2. MarksBounded'
      BY <1>1, <2>1 DEF MarksBounded
    <2>3. QED
      BY <2>2, TypeStep, CreateSafe
  <1>5. CASE UNCHANGED <<streams, slashMark>>
    <2>1. StreamsKept
      BY <1>5 DEF streams, StreamsKept
    <2>2. QED
      BY <1>2, <1>5, <2>1
  <1>6. ASSUME NEW g \in Governors, NEW s \in StreamIds, UNCHANGED signers,
               \/ revoke_stream(g, s)
               \/ \E end \in Ends : extend_stream(g, s, end)
               \/ \E n \in Amounts : top_up_stream(g, s, n)
        PROVE  StreamsListed' /\ MarksBounded' /\ SlashRevokes'
    <2>1. StreamsKept
      <3>1. PICK a : a = g
        OBVIOUS
      <3>2. QED
        BY <1>6, OthersKeep
    <2>2. QED
      BY <1>2, <1>6, <2>1 DEF signers
  <1>7. ASSUME NEW a \in Addresses, NEW s \in StreamIds, UNCHANGED signers,
               \E total, largest, n \in Nat : Spend(a, s, total, largest, n)
        PROVE  StreamsListed' /\ MarksBounded' /\ SlashRevokes'
    <2>1. PICK g : g = a
      OBVIOUS
    <2>2. StreamsKept
      BY <1>7, <2>1, OthersKeep
    <2>3. QED
      BY <1>2, <1>7, <2>2 DEF signers
  <1>8. QED
    <2>1. \A p, n : submit_internal(p, n) => UNCHANGED <<streams, slashMark>>
      BY DEF submit_internal, signers
    <2>2. \A a, i : approve(a, i) \/ cancel(a, i) => UNCHANGED <<streams, slashMark>>
      BY DEF approve, cancel, signers
    <2>3. /\ \A g, a : unslash_signer(g, a) => UNCHANGED <<streams, slashMark>>
          /\ \A o, n, g : initialize(o, n, g) => UNCHANGED <<streams, slashMark>>
      BY DEF unslash_signer, initialize
    <2>4. /\ CloseLedger \/ UNCHANGED vars => UNCHANGED <<streams, slashMark>>
          /\ \A g, h : propose_owner(g, h) \/ accept_ownership(g) \/ set_spending_cap(g, h)
                         \/ batch_transfer(g, h) => UNCHANGED <<streams, slashMark>>
      BY DEF CloseLedger, vars, propose_owner, accept_ownership, set_spending_cap,
             batch_transfer, signers
    <2>5. UNCHANGED <<signers, txs>> => UNCHANGED signers
      OBVIOUS
    <2>6. QED
      BY StepCases, <1>3, <1>4, <1>5, <1>6, <1>7, <2>1, <2>2, <2>3, <2>4, <2>5

-----------------------------------------------------------------------------
(* The theorems.                                                            *)

LEMMA InvInit == Init => IndInv
  <1> SUFFICES ASSUME Init PROVE IndInv
    OBVIOUS
  <1>1. TypeOK
    BY TypeInit
  <1>2. Attainable
    BY DEF Init, Attainable, Blank
  <1>3. ApprovalsCounted
    BY DEF Init, ApprovalsCounted
  <1>4. StreamsListed /\ MarksBounded /\ SlashRevokes
    BY NumbersAssumption DEF Init, StreamsListed, MarksBounded, SlashRevokes, StreamIds
  <1>5. QED
    BY <1>1, <1>2, <1>3, <1>4 DEF IndInv

LEMMA InvStep == IndInv /\ [Next]_vars => IndInv'
  BY TypeStep, AttainableStep, ApprovalsStep, StreamStep DEF IndInv

(* The invariant holds in every behaviour of the contract.                  *)
THEOREM Invariance == Spec => []IndInv
  BY InvInit, InvStep, PTL DEF Spec

(* Every reachable state has the types of the contract's storage.           *)
THEOREM TypeCorrect == Spec => []TypeOK
  <1>1. IndInv => TypeOK
    BY DEF IndInv
  <1>2. QED
    BY <1>1, Invariance, PTL

(* However many signers are slashed and restored, whoever initializes the   *)
(* treasury again and in whatever order with approvals: while no owner is   *)
(* listed twice, a pending transaction under an id of its own has, or the   *)
(* owners who have yet to approve can give it, as many approvals as the     *)
(* threshold asks for.                                                      *)
THEOREM SignersSuffice == Spec => []EnoughSigners
  <1> DEFINE all == {a \in Addresses : is_owner(a)}
  <1>1. ASSUME IndInv, NEW i \in TxIds \ reused, Pending(i), Distinct(owners)
        PROVE  tx[i].approvals + Cardinality(all \ hasApproved[i]) >= threshold
    <2>1. tx[i] # None /\ tx[i].approvals = Cardinality(hasApproved[i])
      BY <1>1 DEF IndInv, ApprovalsCounted, Pending
    <2>2. threshold \in Nat /\ threshold <= Size(owners)
      BY <1>1, <2>1 DEF IndInv, TypeOK, Attainable, Blank
    <2>3. Size(owners) = Cardinality(all)
      BY <1>1, SizeDistinct DEF IndInv, TypeOK, is_owner
    <2>4. IsFiniteSet(all) /\ IsFiniteSet(hasApproved[i])
      <3>1. all \subseteq Addresses /\ hasApproved[i] \subseteq Addresses
        BY <1>1 DEF IndInv, TypeOK
      <3>2. QED
        BY <3>1, ArgumentsAssumption, FS_Subset
    <2> HIDE DEF all
    <2>5. Cardinality(hasApproved[i]) + Cardinality(all \ hasApproved[i]) >= Cardinality(all)
      BY <2>4, BeyondSize
    <2>6. /\ Cardinality(all) \in Nat /\ Cardinality(hasApproved[i]) \in Nat
          /\ Cardinality(all \ hasApproved[i]) \in Nat
      BY <2>4, FS_Difference, FS_CardinalityType
    <2>7. QED
      BY <2>1, <2>2, <2>3, <2>5, <2>6
  <1>2. IndInv => EnoughSigners
    BY <1>1 DEF EnoughSigners
  <1>3. QED
    BY <1>2, Invariance, PTL

(* The streams a signer had when it was slashed stay revoked.               *)
THEOREM SlashedForGood == Spec => []SlashRevokes
  <1>1. IndInv => SlashRevokes
    BY DEF IndInv
  <1>2. QED
    BY <1>1, Invariance, PTL

-----------------------------------------------------------------------------
(* The spending cap.                                                        *)

(* What c counts for the ledgers of l's period, when a period has n ledgers. *)
SamePeriod(l, n) == {k \in Ledgers : period_start_for(k, n) = period_start_for(l, n)}
PaidIn(c, l, n) == Total([k \in SamePeriod(l, n) |-> c[k]])

(* The books of the cap cover what was counted, period by period.           *)
CapCovers ==
    /\ seq \in Ledgers
    /\ cap # None => \A l \in Ledgers :
          PaidIn(counted, l, cap.period_ledgers)
             <= spentThisPeriod[period_start_for(l, cap.period_ledgers)]

(* A period starts with a ledger that is not after it.                      *)
LEMMA PeriodStarts ==
    ASSUME NEW l \in Ledgers, NEW n \in Nat \ {0}
    PROVE  period_start_for(l, n) \in Ledgers
  <1>1. l \in Nat /\ MaxLedger \in Nat /\ l <= MaxLedger
    BY NumbersAssumption DEF Ledgers
  <1>2. PICK q \in Nat : q = l \div n
    BY <1>1
  <1>3. l = n * q + (l % n) /\ l % n \in Nat
    BY <1>1, <1>2
  <1>4. PICK x \in Nat : x = q * n
    BY <1>1, <1>2
  <1>5. n * q = x
    BY <1>4
  <1>6. x <= l
    BY <1>1, <1>3, <1>5
  <1>7. QED
    BY <1>1, <1>2, <1>4, <1>6 DEF period_start_for, Ledgers

(* The ledgers of an instance are finitely many.                            *)
LEMMA LedgersFinite == IsFiniteSet(Ledgers)
  <1>1. 0 \in Int /\ MaxLedger \in Int
    BY NumbersAssumption
  <1>2. IsFiniteSet(0..MaxLedger)
    BY <1>1, FS_Interval
  <1>3. QED
    BY <1>2 DEF Ledgers

(* The counts of a period can be added up.                                  *)
LEMMA PeriodSum ==
    ASSUME NEW c \in [Ledgers -> Nat], NEW l \in Ledgers, NEW n \in Nat \ {0}
    PROVE  \E A, f : /\ A = SamePeriod(l, n) /\ f = [k \in A |-> c[k]]
                     /\ Summable(f, A) /\ Total(f) = PaidIn(c, l, n) /\ Total(f) \in Int
  <1>1. PICK A : A = SamePeriod(l, n)
    OBVIOUS
  <1>2. PICK f : f = [k \in A |-> c[k]]
    OBVIOUS
  <1>3. A \subseteq Ledgers /\ IsFiniteSet(Ledgers)
    BY <1>1, LedgersFinite DEF SamePeriod
  <1>4. Summable(f, A)
    BY <1>2, <1>3, FS_Subset DEF Summable
  <1>5. Total(f) = PaidIn(c, l, n)
    BY <1>1, <1>2 DEF PaidIn
  <1>6. Total(f) \in Int
    BY <1>4, TotalInteger
  <1>7. QED
    BY <1>1, <1>2, <1>4, <1>5, <1>6

(* Nothing has been counted.                                                *)
LEMMA NothingPaid ==
    ASSUME NEW l \in Ledgers, NEW n \in Nat \ {0}, NEW c, c = [k \in Ledgers |-> 0]
    PROVE  PaidIn(c, l, n) = 0
  <1>1. c \in [Ledgers -> Nat]
    OBVIOUS
  <1>2. PICK A, f : /\ A = SamePeriod(l, n) /\ f = [k \in A |-> c[k]]
                    /\ Summable(f, A) /\ Total(f) = PaidIn(c, l, n)
    BY <1>1, PeriodSum
  <1>3. \A k \in A : f[k] = 0
    BY <1>2 DEF SamePeriod
  <1>4. Total(f) = 0
    BY <1>2, <1>3, TotalZero DEF Summable
  <1>5. QED
    BY <1>2, <1>4

(* A payment is counted in its own period and in no other.                  *)
Counts(c, d, m, x) ==
    /\ c \in [Ledgers -> Nat] /\ d \in [Ledgers -> Nat]
    /\ d[m] = c[m] + x /\ \A k \in Ledgers : k # m => d[k] = c[k]

LEMMA OnePaid ==
    ASSUME NEW m \in Ledgers, NEW x \in Nat, NEW c, NEW d, Counts(c, d, m, x),
           NEW l \in Ledgers, NEW n \in Nat \ {0}
    PROVE  /\ PaidIn(c, l, n) \in Int
           /\ PaidIn(d, l, n) = PaidIn(c, l, n)
                + IF period_start_for(l, n) = period_start_for(m, n) THEN x ELSE 0
  <1>1. PICK A, f : /\ A = SamePeriod(l, n) /\ f = [k \in A |-> c[k]]
                    /\ Summable(f, A) /\ Total(f) = PaidIn(c, l, n) /\ Total(f) \in Int
    BY PeriodSum DEF Counts
  <1>2. PICK B, g : /\ B = SamePeriod(l, n) /\ g = [k \in B |-> d[k]]
                    /\ Summable(g, B) /\ Total(g) = PaidIn(d, l, n)
    BY PeriodSum DEF Counts
  <1>3. A \subseteq Ledgers /\ A = B
    BY <1>1, <1>2 DEF SamePeriod
  <1>4. m \in A <=> period_start_for(l, n) = period_start_for(m, n)
    BY <1>1 DEF SamePeriod
  <1>5. CASE m \in A
    <2>1. f[m] = c[m] /\ g[m] = c[m] + x /\ c[m] \in Nat
      BY <1>1, <1>2, <1>3, <1>5 DEF Counts
    <2>2. \A k \in A : k # m => f[k] = g[k]
      BY <1>1, <1>2, <1>3 DEF Counts
    <2>3. Summable(g, A)
      BY <1>2, <1>3
    <2>4. Total(g) = Total(f) - f[m] + g[m]
      BY <1>1, <1>5, <2>2, <2>3, TotalChange
    <2>5. QED
      BY <1>1, <1>2, <1>4, <1>5, <2>1, <2>4
  <1>6. CASE m \notin A
    <2>1. f = g
      BY <1>1, <1>2, <1>3, <1>6 DEF Counts
    <2>2. QED
      BY <1>1, <1>2, <1>4, <1>6, <2>1
  <1>7. QED
    BY <1>5, <1>6

(* A payment, when there is a cap.                                          *)
Pays(x) ==
    /\ cap # None /\ cap' = cap /\ seq' = seq
    /\ check_spending_cap(x) /\ commit_spending_cap(x)

LEMMA CapPays ==
    ASSUME TypeOK, CapCovers, NEW x \in Nat, Pays(x)
    PROVE  /\ CapCovers'
           /\ PaidIn(counted', seq, cap.period_ledgers) <= cap.max_amount
  <1>1. PICK n \in Nat \ {0}, max \in Nat : n = cap.period_ledgers /\ max = cap.max_amount
    BY DEF TypeOK, SpendingCap, Pays
  <1>2. PICK c, d : c = counted /\ d = counted' /\ c \in [Ledgers -> Nat]
    BY DEF TypeOK
  <1>3. PICK old, new : /\ old = spentThisPeriod /\ new = spentThisPeriod'
                        /\ old \in [Ledgers -> Nat]
    BY DEF TypeOK
  <1>4. PICK m \in Ledgers : m = seq
    BY DEF CapCovers
  <1>5. PICK k \in Ledgers : k = period_start_for(m, n)
    BY PeriodStarts
  <1>6. d = [c EXCEPT ![m] = c[m] + x] /\ new = [old EXCEPT ![k] = old[k] + x]
    BY <1>1, <1>2, <1>3, <1>4, <1>5 DEF Pays, commit_spending_cap, PeriodKey
  <1>7. Counts(c, d, m, x)
    BY <1>2, <1>6 DEF Counts
  <1>8. new[k] = old[k] + x /\ \A l \in Ledgers : l # k => new[l] = old[l]
    BY <1>3, <1>6
  <1>9. old[k] + x <= max
    BY <1>1, <1>3, <1>4, <1>5 DEF Pays, check_spending_cap
  <1>10. ASSUME NEW l \in Ledgers
         PROVE  PaidIn(d, l, n) \in Int /\ PaidIn(d, l, n) <= new[period_start_for(l, n)]
    <2>1. PICK s \in Ledgers : s = period_start_for(l, n)
      BY PeriodStarts
    <2>2. PaidIn(c, l, n) <= old[s]
      BY <1>1, <1>2, <1>3, <2>1 DEF CapCovers, Pays
    <2>3. PaidIn(c, l, n) \in Int /\ PaidIn(d, l, n) = PaidIn(c, l, n) + IF s = k THEN x ELSE 0
      <3>1. /\ PaidIn(c, l, n) \in Int
            /\ PaidIn(d, l, n) = PaidIn(c, l, n)
                 + IF period_start_for(l, n) = period_start_for(m, n) THEN x ELSE 0
        BY <1>7, OnePaid
      <3>2. QED
        BY <1>5, <2>1, <3>1
    <2>4. QED
      BY <1>3, <1>8, <2>1, <2>2, <2>3
  <1>11. CapCovers'
    BY <1>1, <1>2, <1>3, <1>4, <1>10 DEF CapCovers, Pays
  <1>12. PaidIn(d, m, n) <= max
    <2>1. PaidIn(d, m, n) \in Int /\ PaidIn(d, m, n) <= new[k]
      BY <1>5, <1>10
    <2>2. QED
      BY <1>3, <1>5, <1>8, <1>9, <2>1
  <1>13. QED
    BY <1>1, <1>2, <1>4, <1>11, <1>12

(* What a step does to the books of the cap.                                *)
CapMoves ==
    \/ seq' \in Ledgers /\ UNCHANGED capVars
    \/ seq' = seq /\ \E g \in Governors, c \in Caps : set_spending_cap(g, c)
    \/ \E x \in Nat : Pays(x)

LEMMA CapSteps ==
    ASSUME IndInv, CapCovers, [Next]_vars
    PROVE  CapMoves
  <1>1. CASE seq' = seq /\ UNCHANGED capVars
    BY <1>1 DEF CapCovers, CapMoves
  <1>2. CASE CloseLedger
    BY <1>2, NumbersAssumption DEF CloseLedger, CapCovers, Ledgers, CapMoves
  <1>3. ASSUME NEW g \in Governors, NEW n \in Amounts, batch_transfer(g, n)
        PROVE  CapMoves
    <2>1. n \in Nat /\ cap' = cap /\ seq' = seq /\ check_spending_cap(n) /\ commit_spending_cap(n)
      BY <1>3, NumbersAssumption DEF batch_transfer, clock
    <2>2. CASE cap = None
      BY <1>1, <2>1, <2>2 DEF commit_spending_cap, capVars
    <2>3. CASE cap # None
      BY <2>1, <2>3 DEF Pays, CapMoves
    <2>4. QED
      BY <2>2, <2>3
  <1>4. ASSUME NEW a, NEW s, NEW x \in Nat, NEW y, NEW n, Spend(a, s, x, y, n)
        PROVE  CapMoves
    <2>1. cap' = cap /\ seq' = seq /\ check_spending_cap(x) /\ commit_spending_cap(x)
      BY <1>4 DEF Spend, clock
    <2>2. CASE cap = None
      BY <1>1, <2>1, <2>2 DEF commit_spending_cap, capVars
    <2>3. CASE cap # None
      BY <2>1, <2>3 DEF Pays, CapMoves
    <2>4. QED
      BY <2>2, <2>3
  <1>5. CASE \/ \E p \in Addresses, n \in Reservations \cup {0} : submit_internal(p, n)
             \/ \E n \in Initializations : initialize(n.owners, n.threshold, n.governor)
             \/ \E a \in Addresses, i \in TxIds : approve(a, i)
             \/ \E c \in Addresses \cup Governors, i \in TxIds : cancel(c, i)
             \/ UNCHANGED vars
    BY <1>1, <1>5 DEF submit_internal, initialize, approve, cancel, vars, clock
  <1>6. CASE \E g \in Governors :
               \/ \E a \in Addresses : slash_signer(g, a) \/ unslash_signer(g, a)
               \/ \E h \in Successors : propose_owner(g, h)
               \/ accept_ownership(g)
    BY <1>1, <1>6 DEF slash_signer, unslash_signer, propose_owner, accept_ownership, clock
  <1>7. CASE \E g \in Governors :
               \/ \E a \in Addresses, n, most \in Amounts, start \in Starts,
                     end \in Ends, w \in Cooldowns : create_stream(g, a, n, start, end, most, w)
               \/ \E s \in StreamIds : \/ revoke_stream(g, s)
                                       \/ \E end \in Ends : extend_stream(g, s, end)
                                       \/ \E n \in Amounts : top_up_stream(g, s, n)
    <2>1. PICK g \in Governors :
               \/ \E a \in Addresses, n, most \in Amounts, start \in Starts,
                     end \in Ends, w \in Cooldowns : create_stream(g, a, n, start, end, most, w)
               \/ \E s \in StreamIds : \/ revoke_stream(g, s)
                                       \/ \E end \in Ends : extend_stream(g, s, end)
                                       \/ \E n \in Amounts : top_up_stream(g, s, n)
      BY <1>7
    <2>2. UNCHANGED <<seq, cap, spentThisPeriod, counted>>
      BY <2>1 DEF create_stream, revoke_stream, extend_stream, top_up_stream, clock, capVars
    <2>3. QED
      BY <1>1, <2>2 DEF capVars
  <1>8. CASE \E g \in Governors, c \in Caps : set_spending_cap(g, c)
    BY <1>8 DEF set_spending_cap, clock, CapMoves
  <1>9. QED
    BY <1>2, <1>3, <1>4, <1>5, <1>6, <1>7, <1>8, StepCases

LEMMA CapStep ==
    ASSUME IndInv, CapCovers, [Next]_vars
    PROVE  CapCovers'
  <1>1. CASE seq' \in Ledgers /\ UNCHANGED capVars
    BY <1>1 DEF CapCovers, capVars
  <1>2. ASSUME seq' = seq, NEW g \in Governors, NEW c \in Caps, set_spending_cap(g, c)
        PROVE  CapCovers'
    <2>1. PICK n \in Nat \ {0} : n = c.period_ledgers
      BY NumbersAssumption
    <2>2. cap' = c /\ spentThisPeriod' = spentThisPeriod
      BY <1>2 DEF set_spending_cap
    <2>3. CASE cap # None /\ cap.period_ledgers = n
      <3>1. counted' = counted
        BY <1>2, <2>1, <2>3 DEF set_spending_cap
      <3>2. QED
        BY <1>2, <2>1, <2>2, <2>3, <3>1 DEF CapCovers
    <2>4. CASE ~(cap # None /\ cap.period_ledgers = n)
      <3>1. PICK z : z = counted' /\ z = [l \in Ledgers |-> 0]
        BY <1>2, <2>1, <2>4 DEF set_spending_cap
      <3>2. ASSUME NEW l \in Ledgers
            PROVE  PaidIn(z, l, n) <= spentThisPeriod[period_start_for(l, n)]
        <4>1. PICK s \in Ledgers : s = period_start_for(l, n)
          BY PeriodStarts
        <4>2. PaidIn(z, l, n) = 0
          BY <3>1, NothingPaid
        <4>3. spentThisPeriod[s] \in Nat
          BY DEF IndInv, TypeOK
        <4>4. QED
          BY <4>1, <4>2, <4>3
      <3>3. QED
        BY <1>2, <2>1, <2>2, <3>1, <3>2 DEF CapCovers
    <2>5. QED
      BY <2>3, <2>4
  <1>3. ASSUME NEW x \in Nat, Pays(x)
        PROVE  CapCovers'
    BY <1>3, CapPays DEF IndInv
  <1>4. QED
    BY <1>1, <1>2, <1>3, CapSteps DEF CapMoves
(* The sum of the property is what was paid in the period.                  *)
LEMMA PaidIsSum ==
    ASSUME seq \in Ledgers, NEW c, c = counted'
    PROVE  MapThenSumSet(LAMBDA l : counted'[l], PeriodLedgers(seq))
             = PaidIn(c, seq, cap.period_ledgers)
  <1> DEFINE V == PeriodLedgers(seq)
             Adds(iter) == iter = [v \in SUBSET V |-> IF v = {} THEN 0
                ELSE counted'[CHOOSE x \in v : TRUE] + iter[v \ {CHOOSE x \in v : TRUE}]]
  <1>1. MapThenSumSet(LAMBDA l : counted'[l], V) = (CHOOSE iter : Adds(iter))[V]
    BY DEF MapThenSumSet, MapThenFoldSet
  <1>2. PICK A : A = V
    OBVIOUS
  <1>3. PICK f : f = [k \in A |-> c[k]]
    OBVIOUS
  <1>4. IsFiniteSet(A)
    <2>1. A \subseteq Ledgers
      BY <1>2 DEF PeriodLedgers
    <2>2. QED
      BY <2>1, LedgersFinite, FS_Subset
  <1>5. ASSUME NEW it PROVE Adds(it) <=> IsSum(f, A, it)
    <2>1. \A v \in SUBSET A : v # {} => f[Pick(v)] = counted'[CHOOSE x \in v : TRUE]
      <3>1. \A v \in SUBSET A : v # {} => Pick(v) \in A
        BY PickOne
      <3>2. \A x \in A : f[x] = counted'[x]
        BY <1>3
      <3>3. QED
        BY <3>1, <3>2 DEF Pick
    <2> HIDE DEF V
    <2>2. Adds(it) <=> it = [v \in SUBSET A |-> IF v = {} THEN 0
                ELSE counted'[CHOOSE x \in v : TRUE] + it[v \ {CHOOSE x \in v : TRUE}]]
      BY <1>2
    <2> HIDE DEF Adds
    <2>3. QED
      BY <2>1, <2>2 DEF IsSum, Pick
  <1>6. PICK it : IsSum(f, A, it)
    BY <1>4, SumExists
  <1>7. Adds(it)
    BY <1>5, <1>6
  <1>8. PICK jt : jt = CHOOSE iter : Adds(iter)
    OBVIOUS
  <1>9. MapThenSumSet(LAMBDA l : counted'[l], V) = jt[A]
    BY <1>1, <1>2, <1>8
  <1> HIDE DEF Adds, V
  <1>10. Adds(jt)
    BY <1>7, <1>8, Zenon
  <1>11. Total(f) = jt[A]
    BY <1>3, <1>4, <1>5, <1>10, TotalIs
  <1>12. Total(f) = PaidIn(c, seq, cap.period_ledgers)
    BY <1>2, <1>3 DEF V, PeriodLedgers, PaidIn, SamePeriod
  <1>13. QED
    BY <1>9, <1>11, <1>12 DEF V

(* In every behaviour, a payment keeps what was paid in the running period   *)
(* within the cap, also when the cap's amount is changed in the middle of a  *)
(* period and batch transfers alternate with spends out of several streams   *)
(* (check_spending_cap, commit_spending_cap, set_spending_cap).             *)
THEOREM CapRespected == Spec => CapKept
  <1>1. Init => CapCovers
    BY NumbersAssumption DEF Init, CapCovers, Ledgers
  <1>2. IndInv /\ CapCovers /\ [Next]_vars => CapCovers'
    BY CapStep
  <1>3. ASSUME IndInv, CapCovers, [Next]_vars, counted' # counted, cap' = cap
        PROVE  MapThenSumSet(LAMBDA l : counted'[l], PeriodLedgers(seq)) <= cap.max_amount
    <2>1. ~UNCHANGED capVars
      BY <1>3 DEF capVars
    <2>2. ~\E g \in Governors, c \in Caps : set_spending_cap(g, c)
      <3>1. SUFFICES ASSUME NEW g \in Governors, NEW c \in Caps, set_spending_cap(g, c) PROVE FALSE
        OBVIOUS
      <3>2. c # None /\ cap = c
        BY <1>3, <3>1, NumbersAssumption, NoneAssumption DEF set_spending_cap, SpendingCap
      <3>3. QED
        BY <1>3, <3>1, <3>2 DEF set_spending_cap
    <2>3. PICK x \in Nat : Pays(x)
      BY <1>3, <2>1, <2>2, CapSteps DEF CapMoves
    <2>4. PaidIn(counted', seq, cap.period_ledgers) <= cap.max_amount
      BY <1>3, <2>3, CapPays DEF IndInv
    <2>5. PICK c : c = counted'
      OBVIOUS
    <2>6. MapThenSumSet(LAMBDA l : counted'[l], PeriodLedgers(seq))
             = PaidIn(c, seq, cap.period_ledgers)
      BY <1>3, <2>5, PaidIsSum DEF CapCovers
    <2>7. QED
      BY <2>4, <2>5, <2>6
  <1>4. IndInv /\ CapCovers /\ [Next]_vars =>
          [counted' # counted /\ cap' = cap
             => MapThenSumSet(LAMBDA l : counted'[l], PeriodLedgers(seq)) <= cap.max_amount]_vars
    BY <1>3
  <1>5. QED
    BY <1>1, <1>2, <1>4, Invariance, PTL DEF Spec, CapKept
=============================================================================
