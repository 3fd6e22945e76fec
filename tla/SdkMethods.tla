----------------------------- MODULE SdkMethods -----------------------------
(***************************************************************************)
(* The vocabulary in which SdkGovernance, SdkVotes and SdkTreasury say     *)
(* what each public method of the SDK's clients does.  All of them are     *)
(* made from the same few steps (load the account, prepare or simulate,    *)
(* sign, send, poll for the confirmation, or ask an HTTP service), so a    *)
(* method is a record of the choices its code makes, and SdkCalls gives    *)
(* the steps.                                                              *)
(***************************************************************************)
EXTENDS Integers, FiniteSets, Functions

Base(kind, client, fn, retry) ==
  [kind |-> kind, client |-> client,
   fn |-> fn,                 \* the contract function, or the path that is asked for
   retry |-> retry,           \* what its retry loop retries on (SdkErrors!RetryOn); "none": no loop
   checks |-> "no",           \* refuses arguments or configuration itself: "before" or "within" the loop
   wallet |-> FALSE,          \* signed by a callback that may refuse
   simulates |-> FALSE,       \* simulates itself, instead of prepareTransaction
   refused |-> "typed",       \* what it throws when the answer is ERROR
   polls |-> TRUE,            \* waits for the transaction's verdict
   typed |-> TRUE,            \* throws the client's error class for a failed or unconfirmed transaction
   value |-> "optional",      \* needs a return value: "within" or "after" the loop
   back |-> FALSE,            \* reads the result back once the transaction is confirmed
   onError |-> "default",     \* a read's answer to a simulation error
   noValue |-> "default",     \* a read's answer to a simulation without a return value
   caught |-> FALSE,          \* every exception becomes the default answer
   mayRefuse |-> FALSE,       \* a composed method's own check
   settled |-> FALSE,         \* a composed method that keeps its parts' errors as results
   parts |-> {},              \* what a composed method calls
   command |-> FALSE,         \* a command of the terminal client
   dryRun |-> FALSE]          \* looks at --dry-run before it calls anything

Write(client, fn, retry) == Base("write", client, fn, retry)
Read(client, fn, retry, onError, noValue) ==
  [Base("read", client, fn, retry) EXCEPT !.onError = onError, !.noValue = noValue]
Ask(client, path, retry) == Base("ask", client, path, retry)
Several(parts) == [Base("several", "several", "", "none") EXCEPT !.parts = parts]
Settled(parts) == [Several(parts) EXCEPT !.settled = TRUE]

Checked(when, m) == [m EXCEPT !.checks = when]
WithSign(m) == [m EXCEPT !.wallet = TRUE]
Simulated(m) == [m EXCEPT !.simulates = TRUE]
Refused(how, m) == [m EXCEPT !.refused = how]
Unconfirmed(m) == [m EXCEPT !.polls = FALSE]
Untyped(m) == [m EXCEPT !.typed = FALSE]
Valued(when, m) == [m EXCEPT !.value = when]
ReadsBack(m) == [m EXCEPT !.back = TRUE]
Caught(m) == [m EXCEPT !.caught = TRUE]
MayRefuse(m) == [m EXCEPT !.mayRefuse = TRUE]
=============================================================================
