----------------------------- MODULE MCTreasury -----------------------------
(***************************************************************************)
(* An instance of Treasury for TLC that explores two parts of the contract *)
(* apart, because no action relates them but initialize, slash_signer and  *)
(* unslash_signer, which both parts have: a transaction under changing     *)
(* owners and governors, and streams under a changing cap.                 *)
(***************************************************************************)
EXTENDS Treasury, TLC

\* The governor named by initialize.
CONSTANT FirstGovernor

Initialization(list, n) == [owners |-> list, threshold |-> n, governor |-> FirstGovernor]

\* Every address once, or one of them twice and another once.
SomeInitializations ==
    {Initialization([x \in Addresses |-> 1], n) : n \in {2, 3}}
      \cup {Initialization([x \in Addresses |-> IF x = d THEN 2 ELSE IF x = e THEN 1 ELSE 0], 2) :
                <<d, e>> \in {p \in Addresses \X Addresses : p[1] # p[2]}}

SomeReservations == {-2, 2}

\* A cap over two ledgers and a lower one per ledger.
SomeCaps == {[max_amount |-> 2, period_ledgers |-> 2],
             [max_amount |-> 1, period_ledgers |-> 1]}

NoStreams == streamCount = 0 /\ cap = None /\ seq <= 1 /\ now = seq

\* Only the first stream is topped up or extended, and at most one owner, of a
\* stream, is slashed at a time.
NoTransactions ==
    /\ \A i \in TxIds : tx[i] = None
    /\ now = 0
    /\ governor \in {None, FirstGovernor} /\ pendingOwner = None
    /\ Distinct(owners) /\ (governor # None => threshold = 2)
    /\ totals.streamed <= MaxStreams + 1
    /\ \A a, b \in slashed : a = b
    /\ \A a \in slashed : ownerStreams[a] # {}
    /\ streamCount = 2 => stream[2].end_ledger = 2 /\ stream[2].total_allocated = 1

MCSpec == Init /\ [][Next /\ (NoStreams \/ NoTransactions)']_vars

\* The addresses are interchangeable.
AddressSymmetry == Permutations(Addresses)
=============================================================================
