------------------------------ MODULE SdkCalls ------------------------------
(***************************************************************************)
(* One call of an SDK method, from its invocation to the value it returns  *)
(* or the error it throws, against a Stellar RPC server and a chain that   *)
(* lose requests and answers, refuse transactions, apply them late or      *)
(* never.  SdkGovernance, SdkVotes and SdkTreasury say which steps a       *)
(* method takes, CliCommands and AppClient what the terminal client and    *)
(* the web application do.                                                 *)
(***************************************************************************)
EXTENDS SdkErrors, CliCommands, AppClient, Sequences, SequencesExt

CONSTANTS
  MaxAttempts,      \* attempts of a retry loop (the code's default is 3)
  PollAttempts,     \* times the confirmation is asked for (10 to 30 in the code)
  MaxParts,         \* bound: calls a composed method makes
  MaxSequence       \* bound on the account's sequence number

ASSUME CallBounds == /\ MaxAttempts \in Nat \ {0} /\ PollAttempts \in Nat \ {0}
                     /\ MaxParts \in Nat /\ MaxSequence \in Nat

VARIABLES
  call,       \* the call in progress
  txs,        \* the transactions it has handed to the server, in order
  account     \* the signer's sequence number on the chain

callVars == <<call, txs, account>>

(* A method without the name of what it calls, which no step depends on. *)
Profile(m) == [m EXCEPT !.fn = "", !.parts = {[p EXCEPT !.fn = ""] : p \in m.parts}]
Profiles == {Profile(m) : m \in GovernanceMethods \cup VotesMethods \cup TreasuryMethods \cup AppMethods \cup Commands}

(***************************************************************************)
(* What the tables say of the methods that spend liquidity: none is        *)
(* retried, and nothing that calls one calls anything else, or calls it    *)
(* twice.  (The reads of a pool may be retried and combined.)              *)
(***************************************************************************)
OnlyReads(m) == m.kind # "write" /\ \A p \in m.parts : p.kind # "write"
Spending(m) == m.client = "liquidity" \/ \E p \in m.parts : p.client = "liquidity"
ASSUME SpendingMethods ==
  \A m \in Profiles : Spending(m) /\ ~OnlyReads(m) =>
    \/ m.kind = "write" /\ m.retry = "none" /\ m.parts = {}
    \/ m.kind = "several" /\ m.command /\ \E p \in m.parts : m.parts = {p} /\ p.kind = "write" /\ p.retry = "none"

NoMethod == Several({})
NoError == Plain(FALSE)
Idle == [outer |-> NoMethod, left |-> {}, todo |-> 0, m |-> NoMethod, pc |-> "idle", attempt |-> 1, polls |-> 0,
         seq |-> 0, err |-> NoError, dry |-> FALSE]

CallInit == call = Idle /\ txs = <<>> /\ account = 0

Entry(m) == CASE m.kind = "write" -> "account" [] m.kind = "read" -> "simulate" [] OTHER -> "ask"
Start(m) == IF m.checks = "no" THEN Entry(m) ELSE "check"

Goto(pc) == call' = [call EXCEPT !.pc = pc] /\ UNCHANGED <<txs, account>>
Throw(e) == call' = [call EXCEPT !.pc = "threw", !.err = e] /\ UNCHANGED <<txs, account>>

(* The method returns: to the caller, or to the composed method that called it. *)
Return == Goto(IF call.outer.kind = "several" THEN "parts" ELSE "returned")
Fail == Goto(IF call.outer.kind = "several" /\ call.outer.settled THEN "parts" ELSE "failed")

Invoke(m) ==
  /\ call.pc = "idle"
  /\ \E dry \in {m.command, FALSE} :
       call' = [Idle EXCEPT !.outer = m, !.left = m.parts, !.m = m, !.pc = IF m.kind = "several" THEN "parts" ELSE Start(m),
                            !.todo = IF m.kind = "several" THEN MaxParts ELSE 0, !.dry = dry]
  /\ txs' = <<>> /\ account' = 0

(***************************************************************************)
(* A composed method or a command calls another method, refuses for a      *)
(* reason of its own, or is done.  A command calls a method that writes    *)
(* once.                                                                   *)
(***************************************************************************)
CallPart ==
  /\ call.pc = "parts" /\ call.todo > 0
  /\ ~(call.dry /\ call.outer.dryRun)
  /\ \E p \in call.left :
       call' = [call EXCEPT !.m = p, !.pc = Start(p), !.todo = @ - 1, !.attempt = 1, !.polls = 0,
                            !.left = IF call.outer.command /\ p.kind = "write" THEN @ \ {p} ELSE @]
  /\ UNCHANGED <<txs, account>>
EndParts == call.pc = "parts" /\ (Goto("returned") \/ (call.outer.mayRefuse /\ Goto("failed")))

(***************************************************************************)
(* Arguments and configuration are checked before anything is sent; the    *)
(* check of scheduleBatch throws a plain error.                            *)
(***************************************************************************)
CheckArguments ==
  /\ call.pc = "check"
  /\ \/ Goto(Entry(call.m))
     \/ call.m.checks = "before" /\ Fail
     \/ call.m.checks = "within"
        /\ Throw(IF call.m.client = "timelock" THEN Plain(FALSE) ELSE Typed(InvalidArguments, FALSE))

LoadAccount ==
  /\ call.pc = "account"
  /\ \/ call' = [call EXCEPT !.pc = "prepare", !.seq = account + 1] /\ UNCHANGED <<txs, account>>
     \/ \E net \in BOOLEAN : Throw(Plain(net))

(***************************************************************************)
(* prepareTransaction throws what the simulation said; simulateAndSubmit   *)
(* looks at the simulation itself.                                         *)
(***************************************************************************)
Prepare ==
  /\ call.pc = "prepare"
  /\ \/ Goto(IF call.m.wallet THEN "sign" ELSE "send")
     \/ \E net \in BOOLEAN : Throw(Plain(net))
     \/ /\ call.m.simulates
        /\ \E code \in {0, 1}, net \in BOOLEAN : Throw(parseGovernorError(Answer(code, FALSE, net)))

(* A wallet signs, or the user declines. *)
Sign == call.pc = "sign" /\ (Goto("send") \/ \E net \in BOOLEAN : Throw(Plain(net)))

(***************************************************************************)
(* The server answers ERROR.  sendTransaction's answer has no `error'      *)
(* text, so the parsers find neither a code nor a word in it; the methods  *)
(* that quote the whole answer quote its hash.                             *)
(***************************************************************************)
RefusedError(m, net) ==
  CASE m.refused = "typed" -> ParseFor(m.client, m.fn, Answer(0, TRUE, FALSE))
    [] m.refused = "text" -> IF m.typed THEN parseGovernorError(Answer(0, FALSE, FALSE)) ELSE Plain(FALSE)
    [] OTHER -> Plain(net)

AfterSend(m) == IF m.polls THEN "poll" ELSE IF call.outer.kind = "several" THEN "parts" ELSE "returned"

(* Handed to the network: `pending' if it was taken in, `lost' if it was asked to try again later, *)
(* or refused a method that does not look at the answer.                                           *)
Submitted(status) == txs' = Append(txs, [seq |-> call.seq, status |-> status]) /\ UNCHANGED account

SendTransaction ==
  /\ call.pc = "send"
  /\ \/ /\ call.seq = account + 1
        /\ Submitted("pending")
        /\ \/ call' = [call EXCEPT !.pc = AfterSend(call.m), !.polls = 0]
           \/ \E net \in BOOLEAN : call' = [call EXCEPT !.pc = "threw", !.err = Plain(net)]
     \/ Submitted("lost") /\ call' = [call EXCEPT !.pc = AfterSend(call.m), !.polls = 0]
     \/ \E net \in BOOLEAN : Throw(Plain(net))
     \/ /\ call.m.refused # "ignored"
        /\ \E net \in BOOLEAN : Throw(RefusedError(call.m, net))

(***************************************************************************)
(* The confirmation is asked for again and again.  A transaction that has  *)
(* its verdict may still be unknown to the server that is asked.  (Most    *)
(* clients also retry each getTransaction: a poll that throws has then     *)
(* failed several times.)                                                  *)
(***************************************************************************)
Polled == Last(txs)

FailedError(m, net) ==
  CASE ~m.typed -> Plain(net)
    [] m.client \in {"optimistic", "conviction"} -> ParseFor(m.client, m.fn, Answer(0, FALSE, FALSE))
    [] OTHER -> Typed(FailedCode(m.client), net)
TimeoutError(m) == IF m.typed THEN Typed(TimeoutCode(m.client), FALSE) ELSE Plain(FALSE)

(* Mutant of pollForConfirmation: the loop that runs out of polls counts as a confirmation. *)
pollForConfirmation_trusting ==
  /\ call.pc = "poll"
  /\ \/ /\ Polled.status = "applied" \/ call.polls + 1 = PollAttempts
        /\ Goto("confirmed")
     \/ Polled.status = "failed" /\ \E net \in BOOLEAN : Throw(FailedError(call.m, net))
     \/ call.polls + 1 < PollAttempts
        /\ call' = [call EXCEPT !.polls = @ + 1] /\ UNCHANGED <<txs, account>>
     \/ \E net \in BOOLEAN : Throw(Plain(net))

pollForConfirmation ==
  /\ call.pc = "poll"
  /\ \/ Polled.status = "applied" /\ Goto("confirmed")
     \/ Polled.status = "failed" /\ \E net \in BOOLEAN : Throw(FailedError(call.m, net))
     \/ call.polls + 1 < PollAttempts
        /\ call' = [call EXCEPT !.polls = @ + 1] /\ UNCHANGED <<txs, account>>
     \/ call.polls + 1 = PollAttempts /\ Throw(TimeoutError(call.m))
     \/ \E net \in BOOLEAN : Throw(Plain(net))

(* What a method does with the confirmed transaction. *)
Confirmed ==
  /\ call.pc = "confirmed"
  /\ \/ Goto("value") /\ call.m.back
     \/ ~call.m.back /\ Return
     \/ call.m.value = "within"
        /\ Throw(IF call.m.typed THEN Typed(MissingReturnValue, FALSE) ELSE Plain(FALSE))
     \/ call.m.value = "after" /\ Fail

(* finalize and checkpointConviction read the proposal once it is confirmed. *)
ReadBack == call.pc = "value" /\ (Return \/ Fail)

(***************************************************************************)
(* A read: an account, one simulation, and an answer.                      *)
(***************************************************************************)
ReadError(m, kind, raw) ==
  CASE kind = "parsed" -> ParseFor(m.client, m.fn, [raw EXCEPT !.status = TRUE])
    [] kind = "lookup" -> ParseFor(m.client, m.fn, raw)
    [] kind = "quoted" -> Typed(100, raw.net)
    [] kind = "typed" -> Typed(InvalidArguments, FALSE)
    [] kind = "remote" -> Plain(raw.net)
    [] OTHER -> Plain(FALSE)

LockNotFound == 2

Simulate ==
  /\ call.pc = "simulate"
  /\ \/ Return
     \/ call.m.noValue # "default" /\ ~call.m.caught /\ Throw(ReadError(call.m, call.m.noValue, Answer(0, FALSE, FALSE)))
     \/ /\ call.m.onError # "default" /\ ~call.m.caught
        /\ \E code \in {0, 1, LockNotFound}, net \in BOOLEAN :
             IF call.m.onError = "lookup" /\ code = LockNotFound THEN Return
             ELSE Throw(ReadError(call.m, call.m.onError, Answer(code, FALSE, net)))
     \/ ~call.m.caught /\ \E net \in BOOLEAN : Throw(Plain(net))

(* An HTTP request to the indexer, the backend or the RPC server; a bad status is quoted in a typed error. *)
Request ==
  /\ call.pc = "ask"
  /\ \/ Return
     \/ ~call.m.caught /\ \E net \in BOOLEAN : Throw(Plain(net)) \/ Throw(Typed(101, net))

(* Mutant of withRetry: a method without a loop of its own is retried after a network error. *)
withRetry_always ==
  /\ call.pc = "threw"
  /\ IF (RetryOn(call.m.retry, call.err) \/ isNetworkError(call.err)) /\ call.attempt < MaxAttempts
     THEN call' = [call EXCEPT !.pc = IF call.m.checks = "within" THEN "check" ELSE Entry(call.m),
                               !.attempt = @ + 1]
          /\ UNCHANGED <<txs, account>>
     ELSE Fail

(* Mutant of withRetry: the attempt is not counted. *)
withRetry_uncounted ==
  /\ call.pc = "threw"
  /\ IF RetryOn(call.m.retry, call.err) /\ call.attempt < MaxAttempts
     THEN call' = [call EXCEPT !.pc = IF call.m.checks = "within" THEN "check" ELSE Entry(call.m)]
          /\ UNCHANGED <<txs, account>>
     ELSE Fail

(***************************************************************************)
(* The retry loop: an error its predicate lets through starts the whole    *)
(* function again, the last attempt's error is the call's.                 *)
(***************************************************************************)
withRetry ==
  /\ call.pc = "threw"
  /\ IF RetryOn(call.m.retry, call.err) /\ call.attempt < MaxAttempts
     THEN call' = [call EXCEPT !.pc = IF call.m.checks = "within" THEN "check" ELSE Entry(call.m),
                               !.attempt = @ + 1]
          /\ UNCHANGED <<txs, account>>
     ELSE Fail

(* The caller has its answer. *)
Dismiss == call.pc \in {"returned", "failed"} /\ call' = Idle /\ txs' = <<>> /\ account' = 0

(***************************************************************************)
(* The chain: a pending transaction is applied or fails in its turn, or it *)
(* is dropped when its time bound passes or its sequence number is taken;  *)
(* the account may be used from elsewhere.                                 *)
(***************************************************************************)
Apply(i) ==
  /\ txs[i].status = "pending" /\ txs[i].seq = account + 1
  /\ \E verdict \in {"applied", "failed"} : txs' = [txs EXCEPT ![i].status = verdict]
  /\ account' = account + 1 /\ UNCHANGED call
Drop(i) == txs[i].status = "pending" /\ txs' = [txs EXCEPT ![i].status = "lost"] /\ UNCHANGED <<call, account>>
UseElsewhere == call.pc # "idle" /\ account < MaxSequence /\ account' = account + 1 /\ UNCHANGED <<call, txs>>

CallStep ==
  \/ CallPart \/ EndParts \/ CheckArguments \/ LoadAccount \/ Prepare \/ Sign \/ SendTransaction
  \/ pollForConfirmation \/ Confirmed \/ ReadBack \/ Simulate \/ Request \/ withRetry

ChainStep == (\E i \in DOMAIN txs : Apply(i) \/ Drop(i)) \/ UseElsewhere

CallNext == (\E m \in Profiles : Invoke(m)) \/ CallStep \/ Dismiss \/ ChainStep
=============================================================================
