--------------------------- MODULE ClientsProofs ---------------------------
(***************************************************************************)
(* Proofs about Clients, for every number of attempts, polls, requests in  *)
(* flight, ledgers and events, and every set of arguments: the four safety *)
(* invariants of calls, subscriptions and components, and the one of the   *)
(* event stream.  The four uses share no state, so each has an invariant   *)
(* of its own.                                                             *)
(***************************************************************************)
EXTENDS Clients, FiniteSetTheorems, SumTheorems, TLAPS

-----------------------------------------------------------------------------
(* The stream of events from the indexer.                                    *)

(* What streamEvents' closure may hold.                                      *)
StreamState ==
  [on : BOOLEAN, stopped : BOOLEAN, ws : {"null", "connecting", "open"}, reconnectTimer : BOOLEAN,
   pollTimer : BOOLEAN, usingPolling : BOOLEAN, session : Nat, closes : Nat, socket : Sockets,
   hasFetch : BOOLEAN, filter : Filters]

(* A stream that is off is untouched, one with a socket does not count as    *)
(* polling, and the timer of a reconnection runs only without a socket: with *)
(* these OneSource is inductive.                                             *)
StreamInv ==
  /\ stream \in StreamState
  /\ ~stream.on => stream = Off
  /\ stream.ws # "null" => ~stream.usingPolling
  /\ stream.reconnectTimer => stream.ws = "null"
  /\ OneSource

(* The state before the stream is started.                                   *)
LEMMA OffTyped == Off \in StreamState
<1>1. NoFilter \in Filters /\ "works" \in Sockets
  BY DEF Filters, Sockets
<1>2. QED
  BY <1>1 DEF StreamState, Off

LEMMA StreamInitial == StreamInit => StreamInv
BY OffTyped DEF StreamInit, StreamInv, Off, OneSource

(* connect starts exactly one source for a stream that has none.             *)
LEMMA ConnectSafe ==
  ASSUME NEW s \in StreamState, s.ws = "null", ~s.pollTimer, ~s.usingPolling, ~s.reconnectTimer,
         ~s.stopped, s.on
  PROVE  /\ connect(s) \in StreamState /\ connect(s).on /\ ~connect(s).stopped
         /\ connect(s).ws # "null" => ~connect(s).usingPolling
         /\ ~connect(s).reconnectTimer
         /\ connect(s).hasFetch => (connect(s).pollTimer <=> connect(s).ws = "null")
<1>1. CASE s.socket = "works"
  <2>1. connect(s) = [s EXCEPT !.ws = "connecting"]
    BY <1>1 DEF connect
  <2>2. QED
    BY <2>1 DEF StreamState
<1>2. CASE s.socket # "works"
  <2>1. connect(s) = startPolling(s)
    BY <1>2 DEF connect
  <2>2. CASE ~s.hasFetch
    BY <2>1, <2>2 DEF startPolling
  <2>3. CASE s.hasFetch
    <3>1. connect(s) = [s EXCEPT !.usingPolling = TRUE, !.pollTimer = TRUE, !.session = @ + 1]
      BY <2>1, <2>3 DEF startPolling
    <3>2. s.session + 1 \in Nat
      BY DEF StreamState
    <3>3. connect(s) \in StreamState
      BY <3>1, <3>2 DEF StreamState
    <3>4. QED
      BY <3>1, <3>3 DEF StreamState
  <2>4. QED
    BY <2>2, <2>3
<1>3. QED
  BY <1>1, <1>2

(* Every step of a stream keeps the invariant.                               *)
LEMMA StreamStep == StreamInv /\ StreamNext => StreamInv'
<1> SUFFICES ASSUME StreamInv, StreamNext PROVE StreamInv'
  OBVIOUS
<1> USE DEF StreamInv
<1>1. ASSUME NEW socket \in Sockets, NEW hasFetch \in BOOLEAN, NEW filter \in Filters,
             streamEvents(socket, hasFetch, filter)
      PROVE  StreamInv'
  <2> DEFINE s == [Off EXCEPT !.on = TRUE, !.socket = socket, !.hasFetch = hasFetch, !.filter = filter]
  <2>1. s \in StreamState /\ s.ws = "null" /\ ~s.pollTimer /\ ~s.usingPolling /\ ~s.reconnectTimer
        /\ ~s.stopped /\ s.on
    BY OffTyped DEF StreamState, Off
  <2>2. stream' = connect(s)
    BY <1>1 DEF streamEvents
  <2>3. QED
    BY <2>1, <2>2, ConnectSafe DEF OneSource
<1>2. CASE onopen
  <2>1. stream' = [stream EXCEPT !.pollTimer = FALSE, !.ws = "open", !.usingPolling = FALSE]
    BY <1>2 DEF onopen, stopPolling, StreamState
  <2>2. stream.on /\ ~stream.stopped
    BY <1>2 DEF onopen, Off, OneSource
  <2>3. stream' \in StreamState
    BY <2>1 DEF StreamState
  <2>4. stream'.on /\ ~stream'.stopped /\ ~stream'.pollTimer /\ stream'.ws = "open" /\ ~stream'.usingPolling
        /\ ~stream'.reconnectTimer
    BY <1>2, <2>1, <2>2 DEF StreamState, onopen
  <2>5. QED
    BY <2>3, <2>4 DEF OneSource
<1>3. CASE onclose
  <2>1. stream.on /\ ~stream.stopped /\ ~stream.usingPolling
    BY <1>3 DEF onclose, Off, OneSource
  <2>2. CASE stream.hasFetch
    <3>1. stream' = [stream EXCEPT !.ws = "null", !.closes = @ + 1, !.usingPolling = TRUE, !.pollTimer = TRUE,
                                   !.session = @ + 1, !.reconnectTimer = TRUE]
      BY <1>3, <2>1, <2>2 DEF onclose, startPolling, StreamState
    <3>2. stream.closes + 1 \in Nat /\ stream.session + 1 \in Nat
      BY DEF StreamState
    <3>3. stream' \in StreamState
      BY <3>1, <3>2 DEF StreamState
    <3>4. stream'.on /\ ~stream'.stopped /\ stream'.pollTimer /\ stream'.ws = "null"
      BY <2>1, <3>1 DEF StreamState
    <3>5. QED
      BY <3>3, <3>4 DEF OneSource
  <2>3. CASE ~stream.hasFetch
    <3>1. stream' = [stream EXCEPT !.ws = "null", !.closes = @ + 1, !.reconnectTimer = TRUE]
      BY <1>3, <2>3 DEF onclose, startPolling, StreamState
    <3>2. stream.closes + 1 \in Nat
      BY DEF StreamState
    <3>3. stream' \in StreamState
      BY <3>1, <3>2 DEF StreamState
    <3>4. stream'.on /\ ~stream'.stopped /\ ~stream'.hasFetch /\ stream'.ws = "null"
      BY <2>1, <2>3, <3>1 DEF StreamState
    <3>5. QED
      BY <3>3, <3>4 DEF OneSource
  <2>4. QED
    BY <2>2, <2>3
<1>4. CASE Reconnect
  <2> DEFINE s == [stopPolling(stream) EXCEPT !.reconnectTimer = FALSE, !.usingPolling = FALSE]
  <2>1. s \in StreamState /\ s.ws = "null" /\ ~s.pollTimer /\ ~s.usingPolling /\ ~s.reconnectTimer
        /\ ~s.stopped /\ s.on
    <3>1. s = [stream EXCEPT !.pollTimer = FALSE, !.reconnectTimer = FALSE, !.usingPolling = FALSE]
      BY DEF stopPolling, StreamState
    <3>2. stream.on /\ ~stream.stopped /\ stream.ws = "null"
      BY <1>4 DEF Reconnect, Off, OneSource
    <3>3. QED
      BY <3>1, <3>2 DEF StreamState
  <2>3. QED
    BY <1>4, <2>1, ConnectSafe DEF OneSource, Reconnect
<1>5. CASE unsubscribe
  BY <1>5 DEF unsubscribe, stopPolling, StreamState, OneSource, Off
<1>6. CASE UNCHANGED stream
  BY <1>6 DEF OneSource
<1>7. QED
  BY <1>1, <1>2, <1>3, <1>4, <1>5, <1>6 DEF StreamNext, NewProposal, onmessage, Poll, PollAnswered, FetchFails

(* However its socket callbacks, its timers and the answers of its polls    *)
(* interleave, a stream that runs has one source of events (EventStream).   *)
THEOREM StreamHasOneSource == Spec => []OneSource
<1>1. Init => StreamInv
  BY StreamInitial DEF Init
<1>2. StreamInv /\ [Next]_vars => StreamInv'
  <2> SUFFICES ASSUME StreamInv, [Next]_vars PROVE StreamInv'
    OBVIOUS
  <2>1. CASE StreamNext
    BY <2>1, StreamStep
  <2>2. CASE UNCHANGED streamVars
    BY <2>2 DEF StreamInv, OneSource, streamVars
  <2>3. QED
    BY <2>1, <2>2 DEF Next, Calling, Subscribing, Streaming, Showing, vars
<1>3. StreamInv => OneSource
  BY DEF StreamInv
<1>4. QED
  BY <1>1, <1>2, <1>3, PTL DEF Spec

-----------------------------------------------------------------------------
(* Calls.                                                                    *)

Statuses == {"pending", "lost", "applied", "failed"}
Sent == [seq : Nat, status : Statuses]
Writing == {"account", "prepare", "sign", "send", "poll", "confirmed", "value"}

(* A call is a record of its fields, and what it sent is a sequence.         *)
CallShape ==
  /\ call = [outer |-> call.outer, left |-> call.left, todo |-> call.todo, m |-> call.m, pc |-> call.pc,
             attempt |-> call.attempt, polls |-> call.polls, seq |-> call.seq, err |-> call.err, dry |-> call.dry]
  /\ txs \in Seq(Sent) /\ account \in Nat /\ call.seq \in Nat

(* Where a call is says which kind of method it is in.                       *)
Placed ==
  /\ call.pc = "parts" => call.outer.kind = "several"
  /\ call.outer.kind # "several" => call.m = call.outer
  /\ call.pc \in Writing => call.m.kind = "write"
  /\ call.pc = "simulate" => call.m.kind = "read"
  /\ call.pc = "ask" => call.m.kind \notin {"write", "read"}

AppliedLast == txs # <<>> /\ txs[Len(txs)].status = "applied"

(* A call that is past its confirmation, or has returned from a method that  *)
(* waits for one, had its last transaction applied.                          *)
Confirming ==
  /\ call.pc = "poll" => txs # <<>> /\ call.m.polls
  /\ call.pc \in {"confirmed", "value"} => AppliedLast
  /\ call.pc = "returned" /\ call.outer.kind = "write" /\ call.outer.polls => AppliedLast

CallInv == CallShape /\ Placed /\ Confirming

LEMMA IdleShape ==
  /\ Idle.outer.kind = "several" /\ Idle.pc = "idle" /\ Idle.seq = 0
  /\ Idle = [outer |-> Idle.outer, left |-> Idle.left, todo |-> Idle.todo, m |-> Idle.m, pc |-> Idle.pc,
             attempt |-> Idle.attempt, polls |-> Idle.polls, seq |-> Idle.seq, err |-> Idle.err, dry |-> Idle.dry]
<1>1. NoMethod.kind = "several"
  BY DEF NoMethod, Several, Base
<1>2. QED
  BY <1>1 DEF Idle

LEMMA CallInitial == CallInit => CallInv
BY IdleShape DEF CallInit, CallInv, CallShape, Placed, Confirming, Writing

(* Going on or throwing changes neither the method nor what was sent.        *)
LEMMA GotoShape ==
  ASSUME CallShape, NEW pc, Goto(pc)
  PROVE  /\ CallShape' /\ call'.pc = pc /\ UNCHANGED <<txs, account>>
         /\ call'.outer = call.outer /\ call'.m = call.m /\ call'.left = call.left
BY DEF CallShape, Goto

LEMMA ThrowShape ==
  ASSUME CallShape, NEW e, Throw(e)
  PROVE  /\ CallShape' /\ call'.pc = "threw" /\ UNCHANGED <<txs, account>>
         /\ call'.outer = call.outer /\ call'.m = call.m /\ call'.left = call.left
BY DEF CallShape, Throw

(* A step to a place about which the invariant says nothing more.            *)
LEMMA Elsewhere ==
  ASSUME CallInv, CallShape', UNCHANGED txs, call'.outer = call.outer, call'.m = call.m,
         call'.pc \in {"threw", "failed", "check", "sign", "send", "prepare"},
         call'.pc \in Writing => call.m.kind = "write"
  PROVE  CallInv'
BY DEF CallInv, Placed, Confirming, AppliedLast, Writing

(* A method that fails, to its caller or to the method that keeps its error. *)
LEMMA FailKeeps == CallInv /\ Fail => CallInv'
<1> SUFFICES ASSUME CallInv, Fail PROVE CallInv'
  OBVIOUS
<1>1. PICK pc : Goto(pc) /\ pc \in {"failed", "parts"} /\ (pc = "parts" => call.outer.kind = "several")
  BY DEF Fail
<1>2. /\ CallShape' /\ call'.pc = pc /\ UNCHANGED <<txs, account>>
      /\ call'.outer = call.outer /\ call'.m = call.m
  BY <1>1, GotoShape DEF CallInv
<1>3. QED
  BY <1>1, <1>2 DEF CallInv, Placed, Confirming, Writing

(* A method that returns.                                                    *)
LEMMA ReturnKeeps ==
  ASSUME CallInv, Return, call.m.kind = "write" /\ call.m.polls => AppliedLast
  PROVE  CallInv'
<1>1. PICK pc : Goto(pc) /\ pc = IF call.outer.kind = "several" THEN "parts" ELSE "returned"
  BY DEF Return
<1>2. /\ CallShape' /\ call'.pc = pc /\ UNCHANGED <<txs, account>>
      /\ call'.outer = call.outer /\ call'.m = call.m
  BY <1>1, GotoShape DEF CallInv
<1>3. QED
  BY <1>1, <1>2 DEF CallInv, Placed, Confirming, Writing, AppliedLast

(* Where a method begins.                                                    *)
LEMMA EntryPlaces ==
  ASSUME NEW m
  PROVE  /\ Entry(m) \in {"account", "simulate", "ask"}
         /\ Entry(m) = "account" => m.kind = "write"
         /\ Entry(m) = "simulate" => m.kind = "read"
         /\ Entry(m) = "ask" => m.kind \notin {"write", "read"}
BY DEF Entry

LEMMA StartPlaces ==
  ASSUME NEW m
  PROVE  /\ Start(m) \in {"check", "account", "simulate", "ask"}
         /\ Start(m) = "account" => m.kind = "write"
         /\ Start(m) = "simulate" => m.kind = "read"
         /\ Start(m) = "ask" => m.kind \notin {"write", "read"}
BY EntryPlaces DEF Start

(* Every step of a call keeps the invariant.                                 *)
LEMMA CallStepKeeps == CallInv /\ CallNext => CallInv'
<1> SUFFICES ASSUME CallInv, CallNext PROVE CallInv'
  OBVIOUS
<1>s. CallShape
  BY DEF CallInv
<1>1. ASSUME NEW m \in Profiles, Invoke(m) PROVE CallInv'
  <2>1. PICK dry : call' = [Idle EXCEPT !.outer = m, !.left = m.parts, !.m = m,
                   !.pc = IF m.kind = "several" THEN "parts" ELSE Start(m),
                   !.todo = IF m.kind = "several" THEN MaxParts ELSE 0, !.dry = dry]
    BY <1>1 DEF Invoke
  <2>2. CallShape' /\ call'.outer = m /\ call'.m = m /\ call'.pc = (IF m.kind = "several" THEN "parts" ELSE Start(m))
        /\ txs' = <<>>
    <3>1. txs' = <<>> /\ account' = 0 /\ txs' \in Seq(Sent)
      BY <1>1 DEF Invoke
    <3>2. QED
      <4>1. call' = [outer |-> m, left |-> m.parts, todo |-> call'.todo, m |-> m,
                     pc |-> IF m.kind = "several" THEN "parts" ELSE Start(m), attempt |-> 1, polls |-> 0,
                     seq |-> 0, err |-> NoError, dry |-> dry]
        BY <2>1 DEF Idle
      <4>2. QED
        BY <3>1, <4>1 DEF CallShape
  <2>3. QED
    BY <2>2, StartPlaces DEF CallInv, Placed, Confirming, Writing
<1>2. CASE CallPart
  <2>1. PICK p \in call.left :
       call' = [call EXCEPT !.m = p, !.pc = Start(p), !.todo = @ - 1, !.attempt = 1, !.polls = 0,
                            !.left = IF call.outer.command /\ p.kind = "write" THEN @ \ {p} ELSE @]
    BY <1>2 DEF CallPart
  <2>2. CallShape' /\ call'.outer = call.outer /\ call'.m = p /\ call'.pc = Start(p) /\ UNCHANGED txs
    BY <1>2, <1>s, <2>1 DEF CallShape, CallPart
  <2>3. QED
    BY <1>2, <2>2, StartPlaces DEF CallInv, Placed, Confirming, Writing, CallPart
<1>3. CASE EndParts
  <2>1. PICK pc \in {"returned", "failed"} : Goto(pc)
    BY <1>3 DEF EndParts
  <2>2. QED
    BY <1>3, <2>1, GotoShape, <1>s DEF CallInv, Placed, Confirming, Writing, EndParts
<1>4. CASE CheckArguments
  <2>1. CASE Goto(Entry(call.m))
    BY <2>1, GotoShape, EntryPlaces, <1>s DEF CallInv, Placed, Confirming, Writing
  <2>2. CASE Fail
    BY <2>2, FailKeeps
  <2>3. ASSUME NEW e, Throw(e) PROVE CallInv'
    BY <2>3, ThrowShape, Elsewhere, <1>s DEF Writing
  <2>4. QED
    BY <1>4, <2>1, <2>2, <2>3 DEF CheckArguments
<1>5. ASSUME NEW e, Throw(e) PROVE CallInv'
  BY <1>5, ThrowShape, Elsewhere, <1>s DEF Writing
<1>6. CASE LoadAccount
  <2>1. CASE call' = [call EXCEPT !.pc = "prepare", !.seq = account + 1] /\ UNCHANGED <<txs, account>>
    <3>1. CallShape' /\ call'.outer = call.outer /\ call'.m = call.m /\ call'.pc = "prepare" /\ UNCHANGED txs
      <4>1. account + 1 \in Nat
        BY <1>s DEF CallShape
      <4>2. QED
        BY <2>1, <4>1, <1>s DEF CallShape
    <3>2. QED
      BY <1>6, <3>1, Elsewhere DEF LoadAccount, CallInv, Placed, Writing
  <2>2. QED
    BY <1>5, <1>6, <2>1 DEF LoadAccount
<1>7. CASE Prepare
  <2>1. ASSUME NEW pc \in {"sign", "send"}, Goto(pc) PROVE CallInv'
    BY <1>7, <2>1, GotoShape, Elsewhere, <1>s DEF Prepare, CallInv, Placed, Writing
  <2>2. QED
    BY <1>5, <1>7, <2>1 DEF Prepare
<1>8. CASE Sign
  <2>1. CASE Goto("send")
    BY <1>8, <2>1, GotoShape, Elsewhere, <1>s DEF Sign, CallInv, Placed, Writing
  <2>2. QED
    BY <1>5, <1>8, <2>1 DEF Sign
<1>9. CASE SendTransaction
  <2>1. ASSUME NEW status \in Statuses, Submitted(status)
        PROVE txs' \in Seq(Sent) /\ txs' # <<>> /\ account' = account
    BY <2>1, <1>s DEF CallShape, Submitted, Sent
  <2>2. ASSUME NEW status \in Statuses, Submitted(status), call' = [call EXCEPT !.pc = AfterSend(call.m), !.polls = 0]
        PROVE CallInv'
    <3>1. CallShape' /\ call'.outer = call.outer /\ call'.m = call.m /\ call'.pc = AfterSend(call.m)
      BY <2>1, <2>2, <1>s DEF CallShape
    <3>2. QED
      BY <1>9, <2>1, <2>2, <3>1 DEF CallInv, Placed, Confirming, Writing, AfterSend, SendTransaction
  <2>3. ASSUME NEW status \in Statuses, Submitted(status), NEW e, call' = [call EXCEPT !.pc = "threw", !.err = e]
        PROVE CallInv'
    <3>1. CallShape' /\ call'.outer = call.outer /\ call'.m = call.m /\ call'.pc = "threw"
      BY <2>1, <2>3, <1>s DEF CallShape
    <3>2. QED
      BY <3>1 DEF CallInv, Placed, Confirming, Writing
  <2>4. QED
    BY <1>5, <1>9, <2>2, <2>3 DEF SendTransaction, Statuses
<1>10. CASE pollForConfirmation
  <2>1. CASE Polled.status = "applied" /\ Goto("confirmed")
    BY <1>10, <2>1, GotoShape, <1>s
    DEF pollForConfirmation, CallInv, Placed, Confirming, Writing, AppliedLast, Polled, Last
  <2>2. CASE call' = [call EXCEPT !.polls = @ + 1] /\ UNCHANGED <<txs, account>>
    <3>1. CallShape' /\ call'.outer = call.outer /\ call'.m = call.m /\ call'.pc = call.pc
      BY <2>2, <1>s DEF CallShape
    <3>2. QED
      BY <2>2, <3>1 DEF CallInv, Placed, Confirming, AppliedLast
  <2>3. QED
    BY <1>5, <1>10, <2>1, <2>2 DEF pollForConfirmation
<1>11. CASE Confirmed
  <2>1. CASE Goto("value")
    BY <1>11, <2>1, GotoShape, <1>s DEF Confirmed, CallInv, Placed, Confirming, Writing, AppliedLast
  <2>2. CASE Return
    BY <1>11, <2>2, ReturnKeeps DEF Confirmed, CallInv, Confirming
  <2>3. QED
    BY <1>5, <1>11, <2>1, <2>2, FailKeeps DEF Confirmed
<1>12. CASE ReadBack
  BY <1>12, ReturnKeeps, FailKeeps DEF ReadBack, CallInv, Confirming
<1>13. CASE Simulate
  <2>1. CASE Return
    BY <1>13, <2>1, ReturnKeeps DEF Simulate, CallInv, Placed
  <2>2. QED
    BY <1>5, <1>13, <2>1 DEF Simulate
<1>14. CASE Request
  <2>1. CASE Return
    BY <1>14, <2>1, ReturnKeeps DEF Request, CallInv, Placed
  <2>2. QED
    BY <1>5, <1>14, <2>1 DEF Request
<1>15. CASE withRetry
  <2>1. CASE /\ call' = [call EXCEPT !.pc = IF call.m.checks = "within" THEN "check" ELSE Entry(call.m),
                               !.attempt = @ + 1]
             /\ UNCHANGED <<txs, account>>
    <3>1. CallShape' /\ call'.outer = call.outer /\ call'.m = call.m /\ UNCHANGED txs
          /\ call'.pc = (IF call.m.checks = "within" THEN "check" ELSE Entry(call.m))
      BY <2>1, <1>s DEF CallShape
    <3>2. QED
      BY <3>1, EntryPlaces DEF CallInv, Placed, Confirming, Writing
  <2>2. QED
    BY <1>15, <2>1, FailKeeps DEF withRetry
<1>16. CASE Dismiss
  <2>1. call' = Idle /\ txs' = <<>> /\ account' = 0 /\ txs' \in Seq(Sent)
    BY <1>16 DEF Dismiss
  <2>2. QED
    BY <2>1, IdleShape DEF CallInv, CallShape, Placed, Confirming, Writing
<1>17. ASSUME NEW i \in DOMAIN txs, NEW s \in Statuses, txs[i].status = "pending",
              txs' = [txs EXCEPT ![i].status = s], account' \in Nat, UNCHANGED call
       PROVE  CallInv'
  <2>1. txs' \in Seq(Sent) /\ Len(txs') = Len(txs) /\ (AppliedLast => AppliedLast')
    <3>1. txs[i] \in Sent /\ Len(txs) \in Nat /\ DOMAIN txs = 1..Len(txs)
      BY <1>17, <1>s DEF CallShape
    <3>2. [txs[i] EXCEPT !.status = s] \in Sent
      BY <3>1 DEF Sent
    <3>3. txs' = [txs EXCEPT ![i] = [txs[i] EXCEPT !.status = s]]
      BY <1>17
    <3>4. txs' \in Seq(Sent) /\ Len(txs') = Len(txs) /\ \A j \in DOMAIN txs : j # i => txs'[j] = txs[j]
      BY <1>s, <3>2, <3>3 DEF CallShape
    <3>5. QED
      BY <1>17, <3>1, <3>4, <1>s DEF AppliedLast, CallShape
  <2>2. QED
    BY <1>17, <2>1 DEF CallInv, CallShape, Placed, Confirming, Writing
<1>18. CASE ChainStep
  <2>1. CASE UseElsewhere
    BY <2>1 DEF UseElsewhere, CallInv, CallShape, Placed, Confirming, AppliedLast
  <2>2. ASSUME NEW i \in DOMAIN txs, Apply(i) \/ Drop(i) PROVE CallInv'
    BY <1>17, <2>2, <1>s DEF Apply, Drop, Statuses, CallShape
  <2>3. QED
    BY <1>18, <2>1, <2>2 DEF ChainStep
<1>19. QED
  BY <1>1, <1>2, <1>3, <1>4, <1>6, <1>7, <1>8, <1>9, <1>10, <1>11, <1>12, <1>13, <1>14, <1>15, <1>16, <1>18
  DEF CallNext, CallStep

(* Where a method has not yet handed over its transaction.                   *)
Unsent == {"check", "account", "prepare", "sign", "send", "simulate", "ask"}

(* The method in progress is the one called or a part of it.                 *)
Chosen ==
  /\ call.outer \in Profiles \cup {NoMethod}
  /\ call.m = call.outer \/ call.m \in call.outer.parts
  /\ call.left \subseteq call.outer.parts

(* A call that can spend liquidity has sent at most one transaction, none    *)
(* before the step that sends, and cannot come back to that step.            *)
Guarded ==
  /\ Len(txs) <= 1
  /\ call.m.kind # "write" => txs = <<>>
  /\ call.m.kind = "write" => call.m.retry = "none"
  /\ call.m.kind = "write" /\ call.outer.kind = "several" => call.left = {}
  /\ call.pc \in Unsent => txs = <<>>

SpendInv == Chosen /\ (Spending(call.outer) => Guarded)

LEMMA NoneSpending == ~Spending(NoMethod)
<1>1. NoMethod.parts = {} /\ NoMethod.client = "several"
  BY DEF NoMethod, Several, Base
<1>2. QED
  BY <1>1 DEF Spending

LEMMA IdleSpends == Idle.outer = NoMethod /\ Idle.m = NoMethod /\ Idle.left = {}
BY DEF Idle

LEMMA SpendInitial == CallInit => SpendInv
BY NoneSpending, IdleSpends DEF CallInit, SpendInv, Chosen

(* A step that stays within the method and sends nothing.                    *)
LEMMA SameSpends ==
  ASSUME SpendInv, call'.outer = call.outer, call'.m = call.m, call'.left = call.left, UNCHANGED txs,
         call'.pc \in Unsent => call.pc \in Unsent \/ call.m.kind # "write"
  PROVE  SpendInv'
BY DEF SpendInv, Chosen, Guarded

LEMMA GotoSpends ==
  ASSUME CallShape, SpendInv, NEW pc, Goto(pc), pc \in Unsent => call.pc \in Unsent
  PROVE  SpendInv'
BY GotoShape, SameSpends

(* Every step of a call keeps the invariant: the retry loop by what the      *)
(* tables say of the methods that spend.                                     *)
LEMMA SpendStep == CallInv /\ SpendInv /\ CallNext => SpendInv'
<1> SUFFICES ASSUME CallInv, SpendInv, CallNext PROVE SpendInv'
  OBVIOUS
<1>s. CallShape
  BY DEF CallInv
<1>1. ASSUME NEW m \in Profiles, Invoke(m) PROVE SpendInv'
  <2>1. PICK dry : call' = [Idle EXCEPT !.outer = m, !.left = m.parts, !.m = m,
                   !.pc = IF m.kind = "several" THEN "parts" ELSE Start(m),
                   !.todo = IF m.kind = "several" THEN MaxParts ELSE 0, !.dry = dry]
    BY <1>1 DEF Invoke
  <2>2. call'.outer = m /\ call'.m = m /\ call'.left = m.parts /\ txs' = <<>> /\ Len(txs') = 0
    <3>1. txs' = <<>> /\ Len(txs') = 0
      BY <1>1 DEF Invoke
    <3>2. QED
      BY <2>1, <3>1 DEF Idle
  <2>3. Spending(m) /\ m.kind = "write" => m.retry = "none"
    BY SpendingMethods DEF OnlyReads
  <2>4. QED
    BY <2>2, <2>3 DEF SpendInv, Chosen, Guarded
<1>2. CASE CallPart
  <2>1. PICK p \in call.left :
       call' = [call EXCEPT !.m = p, !.pc = Start(p), !.todo = @ - 1, !.attempt = 1, !.polls = 0,
                            !.left = IF call.outer.command /\ p.kind = "write" THEN @ \ {p} ELSE @]
    BY <1>2 DEF CallPart
  <2>2. /\ call'.outer = call.outer /\ call'.m = p /\ UNCHANGED txs
        /\ call'.left = IF call.outer.command /\ p.kind = "write" THEN call.left \ {p} ELSE call.left
    BY <1>2, <1>s, <2>1 DEF CallShape, CallPart
  <2>3. Chosen'
    BY <2>2 DEF SpendInv, Chosen
  <2>4. ASSUME Spending(call.outer) PROVE Guarded'
    <3>1. call.outer \in Profiles /\ p \in call.outer.parts /\ call.left \subseteq call.outer.parts
      BY <2>4, NoneSpending DEF SpendInv, Chosen
    <3>2. Guarded /\ call.outer.kind = "several"
      BY <1>2, <2>4 DEF SpendInv, CallInv, Placed, CallPart
    <3>3. txs = <<>>
      BY <3>2 DEF Guarded
    <3>4. CASE p.kind # "write"
      BY <2>2, <3>2, <3>3, <3>4 DEF Guarded
    <3>5. CASE p.kind = "write"
      <4>1. ~OnlyReads(call.outer)
        BY <3>1, <3>5 DEF OnlyReads
      <4>2. call.outer.command /\ call.outer.parts = {p} /\ p.retry = "none"
        BY <2>4, <3>1, <3>2, <4>1, SpendingMethods
      <4>3. QED
        BY <2>2, <3>1, <3>2, <3>3, <3>5, <4>2 DEF Guarded
    <3>6. QED
      BY <3>4, <3>5
  <2>5. QED
    BY <2>2, <2>3, <2>4 DEF SpendInv
<1>3. ASSUME NEW e, Throw(e) PROVE SpendInv'
  BY <1>3, <1>s, ThrowShape, SameSpends DEF Unsent
<1>4. CASE Return
  BY <1>4, <1>s, GotoSpends DEF Return, Unsent
<1>5. CASE Fail
  BY <1>5, <1>s, GotoSpends DEF Fail, Unsent
<1>6. CASE EndParts
  BY <1>6, <1>s, GotoSpends DEF EndParts, Unsent
<1>7. CASE CheckArguments
  <2>1. CASE Goto(Entry(call.m))
    BY <1>7, <2>1, <1>s, GotoSpends DEF CheckArguments, Unsent
  <2>2. QED
    BY <1>3, <1>5, <1>7, <2>1 DEF CheckArguments
<1>8. CASE LoadAccount
  <2>1. CASE call' = [call EXCEPT !.pc = "prepare", !.seq = account + 1] /\ UNCHANGED <<txs, account>>
    <3>1. call'.outer = call.outer /\ call'.m = call.m /\ call'.left = call.left /\ UNCHANGED txs
      BY <2>1, <1>s DEF CallShape
    <3>2. QED
      BY <1>8, <3>1, SameSpends DEF LoadAccount, Unsent
  <2>2. QED
    BY <1>3, <1>8, <2>1 DEF LoadAccount
<1>9. CASE Prepare
  <2>1. ASSUME NEW pc, Goto(pc) PROVE SpendInv'
    BY <1>9, <2>1, GotoSpends, <1>s DEF Prepare, Unsent
  <2>2. QED
    BY <1>3, <1>9, <2>1 DEF Prepare
<1>10. CASE Sign
  BY <1>3, <1>10, GotoSpends, <1>s DEF Sign, Unsent
<1>11. CASE SendTransaction
  <2>1. ASSUME NEW status, Submitted(status), NEW pc \in {"threw", "poll", "parts", "returned"},
               call'.pc = pc, call'.outer = call.outer, call'.m = call.m, call'.left = call.left
        PROVE  SpendInv'
    <3>1. call.m.kind = "write" /\ call.pc = "send"
      BY <1>11 DEF SendTransaction, CallInv, Placed, Writing
    <3>2. txs = <<>> => Len(txs') = 1
      BY <2>1 DEF Submitted
    <3>3. Chosen'
      BY <2>1 DEF SpendInv, Chosen
    <3>4. ASSUME Guarded PROVE Guarded'
      <4>1. Len(txs') = 1
        BY <3>1, <3>2, <3>4 DEF Guarded, Unsent
      <4>2. QED
        BY <2>1, <3>1, <3>4, <4>1 DEF Guarded, Unsent
    <3>5. QED
      BY <2>1, <3>3, <3>4 DEF SpendInv
  <2>2. ASSUME NEW status, Submitted(status), call' = [call EXCEPT !.pc = AfterSend(call.m), !.polls = 0]
        PROVE  SpendInv'
    <3>1. AfterSend(call.m) \in {"poll", "parts", "returned"}
      BY DEF AfterSend
    <3>2. call'.pc = AfterSend(call.m) /\ call'.outer = call.outer /\ call'.m = call.m /\ call'.left = call.left
      BY <2>2, <1>s DEF CallShape
    <3>3. QED
      BY <2>1, <2>2, <3>1, <3>2
  <2>3. ASSUME NEW status, Submitted(status), NEW e, call' = [call EXCEPT !.pc = "threw", !.err = e]
        PROVE  SpendInv'
    <3>1. call'.pc = "threw" /\ call'.outer = call.outer /\ call'.m = call.m /\ call'.left = call.left
      BY <2>3, <1>s DEF CallShape
    <3>2. QED
      BY <2>1, <2>3, <3>1
  <2>4. QED
    BY <1>3, <1>11, <2>2, <2>3 DEF SendTransaction
<1>12. CASE pollForConfirmation
  <2>1. CASE Goto("confirmed")
    BY <2>1, GotoSpends, <1>s DEF Unsent
  <2>2. CASE call' = [call EXCEPT !.polls = @ + 1] /\ UNCHANGED <<txs, account>>
    <3>1. call'.outer = call.outer /\ call'.m = call.m /\ call'.left = call.left /\ call'.pc = call.pc
      BY <2>2, <1>s DEF CallShape
    <3>2. QED
      BY <2>2, <3>1, SameSpends
  <2>3. QED
    BY <1>3, <1>12, <2>1, <2>2 DEF pollForConfirmation
<1>13. CASE Confirmed
  <2>1. CASE Goto("value")
    BY <2>1, GotoSpends, <1>s DEF Unsent
  <2>2. QED
    BY <1>3, <1>4, <1>5, <1>13, <2>1 DEF Confirmed
<1>14. CASE ReadBack \/ Simulate \/ Request
  BY <1>3, <1>4, <1>5, <1>14 DEF ReadBack, Simulate, Request
<1>15. CASE withRetry
  <2>1. CASE /\ RetryOn(call.m.retry, call.err)
             /\ call' = [call EXCEPT !.pc = IF call.m.checks = "within" THEN "check" ELSE Entry(call.m),
                               !.attempt = @ + 1]
             /\ UNCHANGED <<txs, account>>
    <3>1. call'.outer = call.outer /\ call'.m = call.m /\ call'.left = call.left /\ UNCHANGED txs
      BY <2>1, <1>s DEF CallShape
    <3>2. call.m.retry # "none"
      BY <2>1 DEF RetryOn
    <3>3. QED
      BY <3>1, <3>2 DEF SpendInv, Chosen, Guarded
  <2>2. QED
    BY <1>5, <1>15, <2>1 DEF withRetry
<1>16. CASE Dismiss
  BY <1>16, NoneSpending, IdleSpends DEF Dismiss, SpendInv, Chosen
<1>17. CASE ChainStep
  <2>1. UNCHANGED call /\ Len(txs') = Len(txs) /\ (txs = <<>> => txs' = <<>>)
    <3>1. CASE UseElsewhere
      BY <3>1 DEF UseElsewhere
    <3>2. ASSUME NEW i \in DOMAIN txs, Apply(i) \/ Drop(i)
          PROVE  UNCHANGED call /\ Len(txs') = Len(txs) /\ (txs = <<>> => txs' = <<>>)
      <4>1. txs \in Seq(Sent) /\ UNCHANGED call /\ \E s : txs' = [txs EXCEPT ![i].status = s]
        BY <1>s, <3>2 DEF Apply, Drop, CallShape
      <4>2. txs # <<>>
        BY <3>2
      <4>3. QED
        BY <4>1, <4>2
    <3>3. QED
      BY <1>17, <3>1, <3>2 DEF ChainStep
  <2>2. QED
    BY <2>1 DEF SpendInv, Chosen, Guarded
<1>19. QED
  BY <1>1, <1>2, <1>6, <1>7, <1>8, <1>9, <1>10, <1>11, <1>12, <1>13, <1>14, <1>15, <1>16, <1>17
  DEF CallNext, CallStep

(* At most one transaction is applied when at most one was sent.             *)
LEMMA GuardSpendsOnce == CallInv /\ SpendInv => SpendsOnce
<1> SUFFICES ASSUME CallInv, SpendInv, call.m.client = "liquidity"
             PROVE  Cardinality({i \in DOMAIN txs : txs[i].status = "applied"}) <= 1
  BY DEF SpendsOnce
<1> DEFINE A == {i \in DOMAIN txs : txs[i].status = "applied"}
<1>1. Len(txs) <= 1 /\ txs \in Seq(Sent)
  BY DEF SpendInv, Chosen, Spending, Guarded, CallInv, CallShape
<1>2. A \subseteq {1}
  BY <1>1
<1>3. IsFiniteSet({1}) /\ Cardinality({1}) = 1
  BY FS_Singleton
<1>4. QED
  BY <1>2, <1>3, FS_Subset

LEMMA CallsInvariant == Spec => [](CallInv /\ SpendInv)
<1>1. Init => CallInv /\ SpendInv
  BY CallInitial, SpendInitial DEF Init
<1>2. CallInv /\ SpendInv /\ [Next]_vars => (CallInv /\ SpendInv)'
  <2> SUFFICES ASSUME CallInv, SpendInv, [Next]_vars PROVE CallInv' /\ SpendInv'
    OBVIOUS
  <2>1. CASE CallNext
    BY <2>1, CallStepKeeps, SpendStep
  <2>2. CASE UNCHANGED callVars
    <3>1. CallInv'
      BY <2>2 DEF CallInv, CallShape, Placed, Confirming, AppliedLast, callVars
    <3>2. SpendInv'
      BY <2>2 DEF SpendInv, Chosen, Guarded, callVars
    <3>3. QED
      BY <3>1, <3>2
  <2>3. QED
    BY <2>1, <2>2 DEF Next, Calling, Subscribing, Streaming, Showing, vars
<1>3. QED
  BY <1>1, <1>2, PTL DEF Spec

(* Whatever was lost, delayed, refused or retried, a method that waits for  *)
(* its confirmation returns only when its last transaction is applied.      *)
THEOREM ReturnsConfirmed == Spec => []ConfirmedMeansApplied
<1>1. CallInv => ConfirmedMeansApplied
  BY DEF CallInv, Confirming, AppliedLast, ConfirmedMeansApplied, Last
<1>2. QED
  BY <1>1, CallsInvariant, PTL

(* A swap or a change of liquidity is applied at most once, from the SDK    *)
(* and from the terminal client, even when the server's answer was lost.    *)
THEOREM LiquiditySpentOnce == Spec => []SpendsOnce
BY GuardSpendsOnce, CallsInvariant, PTL

-----------------------------------------------------------------------------
(* Subscriptions and scans.                                                  *)

Fields(s) ==
  /\ s = [kind |-> s.kind, reader |-> s.reader, cursor |-> s.cursor, initialized |-> s.initialized,
          stopped |-> s.stopped, from |-> s.from, target |-> s.target, got |-> s.got, cut |-> s.cut,
          jumped |-> s.jumped]
  /\ s.cursor \in Nat /\ s.from \in Nat /\ s.target \in Nat
  /\ s.kind \in {"none", "subscription", "scan"} /\ s.reader.readable /\ s.initialized \in BOOLEAN

Requests == [at : {"rest", "latest", "events"}, start : Nat, asked : Nat]

(* A subscription is a record of its fields; its reader understands the      *)
(* events it is handed (ReadersUnderstand).                                  *)
SubShape ==
  /\ ledger \in Nat /\ ledger >= 1 /\ emitted \in [1..MaxLedger -> Nat]
  /\ Fields(sub) /\ poll \in [Polls -> Requests]

(* What became of an event, and that every event before a ledger has been    *)
(* seen to.                                                                  *)
Seen(e) == e \in sub.cut \cup sub.jumped \/ (e[2] > 1 /\ sub.reader.filtered) \/ e \in sub.got
Covered(b) == \A e \in EventsIn(sub.from, b - 1) : Seen(e)

(* Polls ask for ledgers that exist or are the next to close, and for events *)
(* once there is a cursor; a scan has one page under way, and asks for it    *)
(* from its cursor.                                                          *)
InStep ==
  /\ sub.kind = "subscription" /\ ~sub.initialized => \A p \in Polls : poll[p].at # "events"
  /\ sub.kind = "none" => \A p \in Polls : poll[p] = Resting
  /\ sub.kind = "scan" => \A p, q \in Polls : poll[p] # Resting /\ poll[q] # Resting => p = q
  /\ sub.kind = "scan" => \A p \in Polls : poll[p].at = "events" => poll[p].start = sub.cursor
  /\ sub.cursor <= ledger + 1
  /\ \A p \in Polls : poll[p].start <= ledger + 1

(* The strengthening: not the cursor alone, but the start of every poll that *)
(* is still in flight, has nothing skipped behind it. A late answer moves    *)
(* the cursor to just behind what its own poll has read.                     *)
Complete ==
  /\ sub.kind = "subscription" /\ ~sub.stopped =>
       Covered(sub.cursor) /\ \A p \in Polls : poll[p].at = "events" => Covered(poll[p].start)
  /\ sub.kind = "scan" => EventsIn(sub.from, sub.cursor - 1) \subseteq sub.got \cup sub.cut

SubscriptionInv == SubShape /\ InStep /\ Complete

(* A bounded set of numbers has a greatest one.                              *)
LEMMA MaxBounded ==
  ASSUME NEW S \in SUBSET Nat, S # {}, NEW b \in Nat, \A x \in S : x <= b
  PROVE  Max(S) \in S /\ Max(S) <= b
<1> DEFINE T == {n \in Nat : \A x \in S : x <= n}
<1>1. PICK n \in T : \A y \in T : n <= y
  <2>1. T \in SUBSET Nat /\ b \in T
    OBVIOUS
  <2>2. QED
    BY <2>1, LeastNat
<1>2. n \in S
  <2>1. SUFFICES ASSUME n \notin S PROVE FALSE
    OBVIOUS
  <2>2. \A x \in S : x <= n - 1
    BY <1>1, <2>1
  <2>3. n - 1 \in Nat
    <3>1. PICK x \in S : TRUE
      OBVIOUS
    <3>2. x \in Nat /\ x <= n - 1 /\ n \in Nat
      BY <2>2, <1>1, <3>1
    <3>3. QED
      BY <3>2
  <2>4. QED
    BY <1>1, <2>2, <2>3
<1>3. QED
  BY <1>1, <1>2 DEF Max

LEMMA UnusedFields == Fields(Unused) /\ Unused.kind = "none" /\ Unused.cursor = 0
BY DEF Fields, Unused

LEMMA SubInitial == SubInit => SubscriptionInv
<1> SUFFICES ASSUME SubInit PROVE SubscriptionInv
  OBVIOUS
<1>1. Resting \in Requests /\ Resting.start = 0 /\ Resting.at = "rest"
  BY DEF Resting, Requests
<1>2. poll \in [Polls -> Requests] /\ \A p \in Polls : poll[p] = Resting
  BY <1>1 DEF SubInit
<1>3. ledger \in Nat /\ ledger >= 1 /\ emitted \in [1..MaxLedger -> Nat] /\ sub = Unused /\ ledger = 1
  BY DEF SubInit
<1>4. SubShape
  BY <1>2, <1>3, UnusedFields DEF SubShape
<1>5. QED
  BY <1>1, <1>2, <1>3, <1>4, UnusedFields DEF SubscriptionInv, InStep, Complete

(* What sending a request and ending one do to the polls.                    *)
LEMMA SendTyped ==
  ASSUME SubShape, NEW p \in Polls, NEW what \in {"latest", "events"}, NEW start \in Nat, Send(p, what, start)
  PROVE  /\ poll' \in [Polls -> Requests]
         /\ poll'[p].at = what /\ poll'[p].start = start
         /\ \A q \in Polls : q # p => poll'[q] = poll[q]
<1>1. [at |-> what, start |-> start, asked |-> ledger] \in Requests
  BY DEF SubShape, Requests
<1>2. QED
  BY <1>1 DEF Send, SubShape

LEMMA RestTyped ==
  ASSUME SubShape, NEW p \in Polls, Rest(p)
  PROVE  /\ poll' \in [Polls -> Requests] /\ poll'[p] = Resting /\ Resting.at = "rest" /\ Resting.start = 0
         /\ \A q \in Polls : q # p => poll'[q] = poll[q]
<1>1. Resting \in Requests /\ Resting.at = "rest" /\ Resting.start = 0
  BY DEF Resting, Requests
<1>2. QED
  BY <1>1 DEF Rest, SubShape

LEMMA NotRest == ASSUME NEW r, r.at # "rest" PROVE r # Resting
BY DEF Resting

(* Every step of a subscription or a scan keeps the invariant.               *)
LEMMA SubStep == SubscriptionInv /\ SubNext => SubscriptionInv'
<1> SUFFICES ASSUME SubscriptionInv, SubNext PROVE SubscriptionInv'
  OBVIOUS
<1>s. SubShape /\ InStep /\ Complete
  BY DEF SubscriptionInv
<1>1. CASE CloseLedger
  <2>1. PICK n \in 0..MaxPerLedger : emitted' = [emitted EXCEPT ![ledger + 1] = n]
    BY <1>1 DEF CloseLedger
  <2>2. n \in Nat /\ MaxPerLedger \in Nat /\ MaxLedger \in Nat
    BY SubscriptionBounds
  <2>3. SubShape'
    BY <1>1, <1>s, <2>1, <2>2 DEF SubShape, CloseLedger, Fields
  <2>4. InStep'
    BY <1>1, <1>s DEF InStep, CloseLedger, SubShape, Fields, Requests
  <2>5. ASSUME NEW a \in Nat, NEW b \in Nat, b <= ledger + 1
        PROVE  EventsIn(a, b - 1)' = EventsIn(a, b - 1)
    BY <1>s, <2>1, <2>2, <2>5 DEF EventsIn, SubShape
  <2>6. sub.cursor \in Nat /\ sub.from \in Nat /\ sub.cursor <= ledger + 1
        /\ \A p \in Polls : poll[p].start \in Nat /\ poll[p].start <= ledger + 1
    BY <1>s DEF SubShape, Fields, InStep, Requests
  <2>7. UNCHANGED <<sub, poll>>
    BY <1>1 DEF CloseLedger
  <2>8. EventsIn(sub.from, sub.cursor - 1)' = EventsIn(sub.from, sub.cursor - 1)
        /\ \A p \in Polls : EventsIn(sub.from, poll[p].start - 1)' = EventsIn(sub.from, poll[p].start - 1)
    BY <2>5, <2>6, <2>7
  <2>9. Complete'
    BY <1>s, <2>7, <2>8 DEF Complete, Covered, Seen
  <2>10. QED
    BY <2>3, <2>4, <2>9 DEF SubscriptionInv
<1>2. CASE Unsubscribe
  <2>1. Fields(sub) /\ sub' = [sub EXCEPT !.stopped = TRUE] /\ UNCHANGED <<ledger, emitted, poll>>
    BY <1>2, <1>s DEF Unsubscribe, SubShape
  <2>2. Fields(sub') /\ sub'.stopped /\ sub'.kind = "subscription" /\ sub'.cursor = sub.cursor
    BY <1>2, <2>1 DEF Fields, Unsubscribe
  <2>3. QED
    BY <1>s, <2>1, <2>2 DEF SubscriptionInv, SubShape, InStep, Complete
<1>3. ASSUME NEW s \in Subscriptions, createTopicSubscription(s) PROVE SubscriptionInv'
  <2>1. PICK p \in Polls : Send(p, "latest", 0)
    BY <1>3 DEF createTopicSubscription
  <2>2. /\ poll' \in [Polls -> Requests] /\ poll'[p].at = "latest" /\ poll'[p].start = 0
        /\ \A q \in Polls : q # p => poll'[q] = poll[q]
    BY <1>s, <2>1, SendTyped
  <2>3. \A q \in Polls : q # p => poll'[q].at = "rest" /\ poll'[q].start = 0
    BY <1>3, <1>s, <2>2 DEF InStep, createTopicSubscription, Resting
  <2>4. Fields(sub') /\ sub'.kind = "subscription" /\ sub'.cursor = 0 /\ sub'.from = 0
    BY <1>3, ReadersUnderstand DEF createTopicSubscription, Unused, Fields
  <2>5. SubShape' /\ InStep'
    BY <1>3, <1>s, <2>2, <2>3, <2>4 DEF SubShape, InStep, createTopicSubscription
  <2>6. EventsIn(0, -1)' = {}
    BY DEF EventsIn
  <2>7. Covered(sub.cursor)'
    BY <2>4, <2>6 DEF Covered
  <2>8. Complete'
    BY <2>2, <2>3, <2>4, <2>7 DEF Complete
  <2>9. QED
    BY <2>5, <2>8 DEF SubscriptionInv
<1>4. ASSUME NEW from \in 1..2, getProposalEvents(from) PROVE SubscriptionInv'
  <2>1. PICK p \in Polls : Send(p, "latest", 0)
    BY <1>4 DEF getProposalEvents
  <2>2. /\ poll' \in [Polls -> Requests] /\ poll'[p].at = "latest" /\ poll'[p].start = 0
        /\ \A q \in Polls : q # p => poll'[q] = poll[q]
    BY <1>s, <2>1, SendTyped
  <2>3. \A q \in Polls : q # p => poll'[q] = Resting /\ poll'[q].at = "rest" /\ poll'[q].start = 0
    BY <1>4, <1>s, <2>2 DEF InStep, getProposalEvents, Resting
  <2>4. Fields(sub') /\ sub'.kind = "scan" /\ sub'.cursor = from /\ sub'.from = from
    <3>1. from \in Nat
      OBVIOUS
    <3>2. sub' = [kind |-> "scan", reader |-> [readable |-> TRUE, filtered |-> FALSE], cursor |-> from,
                  initialized |-> FALSE, stopped |-> FALSE, from |-> from, target |-> 0, got |-> {}, cut |-> {},
                  jumped |-> {}]
      BY <1>4 DEF getProposalEvents, Unused
    <3>3. QED
      BY <3>1, <3>2 DEF Fields
  <2>5. SubShape' /\ InStep'
    BY <1>4, <1>s, <2>2, <2>3, <2>4 DEF SubShape, InStep, getProposalEvents
  <2>6. EventsIn(from, from - 1)' = {}
    BY DEF EventsIn
  <2>8. Complete'
    BY <2>4, <2>6 DEF Complete
  <2>9. QED
    BY <2>5, <2>8 DEF SubscriptionInv
<1>5. ASSUME NEW p \in Polls, Interval(p) PROVE SubscriptionInv'
  <2>1. UNCHANGED <<ledger, emitted, sub>> /\ sub.kind = "subscription" /\ ~sub.stopped
    BY <1>5 DEF Interval
  <2>2. PICK what \in {"latest", "events"}, start \in {0, sub.cursor} :
          Send(p, what, start) /\ (what = "events" => start = sub.cursor /\ sub.initialized)
    BY <1>5 DEF Interval, PollStarts
  <2>3. start \in Nat /\ start <= ledger + 1
    BY <1>s DEF SubShape, Fields, InStep
  <2>4. /\ poll' \in [Polls -> Requests] /\ poll'[p].at = what /\ poll'[p].start = start
        /\ \A q \in Polls : q # p => poll'[q] = poll[q]
    BY <1>s, <2>2, <2>3, SendTyped
  <2>5. SubShape' /\ InStep'
    BY <1>s, <2>1, <2>2, <2>3, <2>4 DEF SubShape, InStep
  <2>6. ASSUME NEW q \in Polls, poll'[q].at = "events" PROVE \E b : Covered(b) /\ b = poll'[q].start
    BY <1>s, <2>1, <2>2, <2>4, <2>6 DEF Complete
  <2>7. \A b : Covered(b) => Covered(b)'
    BY <2>1 DEF Covered, Seen, EventsIn
  <2>8. Complete'
    BY <1>s, <2>1, <2>6, <2>7 DEF Complete
  <2>9. QED
    BY <2>5, <2>8 DEF SubscriptionInv
<1>6. ASSUME NEW p \in Polls, LatestLedger(p) PROVE SubscriptionInv'
  <2>1. PICK latest \in poll[p].asked..ledger :
          /\ sub' = [sub EXCEPT !.cursor = latest, !.initialized = TRUE,
                                !.from = IF sub.initialized THEN sub.from ELSE latest,
                                !.jumped = IF sub.initialized
                                           THEN sub.jumped \cup EventsIn(sub.cursor, latest - 1)
                                           ELSE sub.jumped]
          /\ Send(p, "events", latest)
    BY <1>6 DEF LatestLedger
  <2>2. latest \in Nat /\ latest <= ledger /\ sub.from \in Nat /\ sub.cursor \in Nat
    BY <1>s DEF SubShape, Requests, Fields
  <2>3. sub.kind = "subscription" /\ Fields(sub) /\ UNCHANGED <<ledger, emitted>>
    BY <1>6, <1>s DEF LatestLedger, SubShape
  <2>4. /\ poll' \in [Polls -> Requests] /\ poll'[p].at = "events" /\ poll'[p].start = latest
        /\ \A q \in Polls : q # p => poll'[q] = poll[q]
    BY <1>s, <2>1, <2>2, SendTyped
  <2>5. /\ Fields(sub') /\ sub'.kind = "subscription" /\ sub'.cursor = latest /\ sub'.initialized
        /\ sub'.stopped = sub.stopped /\ sub'.got = sub.got /\ sub'.cut = sub.cut
        /\ sub'.reader = sub.reader
        /\ sub.initialized => /\ sub'.from = sub.from
                              /\ sub'.jumped = sub.jumped \cup EventsIn(sub.cursor, latest - 1)
        /\ ~sub.initialized => sub'.from = latest
    BY <2>1, <2>2, <2>3 DEF Fields
  <2>6. SubShape' /\ InStep'
    BY <1>s, <2>2, <2>3, <2>4, <2>5 DEF SubShape, InStep
  <2>7. CASE sub.initialized
    <3>1. \A e : Seen(e) => Seen(e)'
      BY <2>5, <2>7 DEF Seen
    <3>2. ASSUME NEW b, Covered(b) PROVE Covered(b)'
      BY <2>3, <2>5, <2>7, <3>1, <3>2 DEF Covered, EventsIn
    <3>3. ASSUME ~sub.stopped PROVE Covered(latest)'
      <4>1. SUFFICES ASSUME NEW e \in EventsIn(sub.from, latest - 1) PROVE Seen(e)'
        BY <2>3, <2>5, <2>7 DEF Covered, EventsIn
      <4>2. CASE e \in EventsIn(sub.from, sub.cursor - 1)
        <5>1. Covered(sub.cursor)
          BY <1>s, <2>3, <3>3 DEF Complete
        <5>2. QED
          BY <3>1, <4>2, <5>1 DEF Covered
      <4>3. CASE e \in EventsIn(sub.cursor, latest - 1)
        BY <2>5, <2>7, <4>3 DEF Seen
      <4>4. QED
        BY <2>2, <4>2, <4>3, SubscriptionBounds DEF EventsIn
    <3>4. ASSUME ~sub.stopped, NEW q \in Polls, poll'[q].at = "events" PROVE Covered(poll[q].start)'
      <4>1. CASE q = p
        BY <2>4, <3>3, <3>4, <4>1
      <4>2. CASE q # p
        <5>1. Covered(poll[q].start) /\ poll'[q] = poll[q]
          BY <1>s, <2>3, <2>4, <3>4, <4>2 DEF Complete
        <5>2. QED
          BY <3>2, <5>1
      <4>3. QED
        BY <4>1, <4>2
    <3>5. Complete'
      BY <2>5, <3>3, <3>4 DEF Complete
    <3>6. QED
      BY <2>6, <3>5 DEF SubscriptionInv
  <2>8. CASE ~sub.initialized
    <3>1. EventsIn(latest, latest - 1)' = {}
      BY <2>2 DEF EventsIn
    <3>2. Covered(latest)'
      BY <2>5, <2>8, <3>1 DEF Covered
    <3>3. \A q \in Polls : poll'[q].at = "events" => q = p
      BY <1>s, <2>3, <2>4, <2>8 DEF InStep
    <3>4. Complete'
      BY <2>4, <2>5, <3>2, <3>3 DEF Complete
    <3>5. QED
      BY <2>6, <3>4 DEF SubscriptionInv
  <2>9. QED
    BY <2>3, <2>7, <2>8 DEF Fields
<1>7. ASSUME NEW p \in Polls, EventsArrive(p) PROVE SubscriptionInv'
  <2>1. PICK latest \in Answers(p) :
          sub' = [sub EXCEPT !.cursor = latest + 1,
                             !.got = IF sub.stopped THEN sub.got
                                     ELSE sub.got \cup {e \in fetchEvents(p, latest) : Kept(e)},
                             !.cut = sub.cut \cup (EventsIn(poll[p].start, latest) \ fetchEvents(p, latest))]
    BY <1>7 DEF EventsArrive
  <2>2. latest \in Nat /\ latest <= ledger /\ poll[p].start \in Nat /\ sub.from \in Nat
    BY <1>s DEF SubShape, Requests, Answers, Fields
  <2>3. /\ poll' \in [Polls -> Requests] /\ poll'[p] = Resting /\ Resting.at = "rest" /\ Resting.start = 0
        /\ \A q \in Polls : q # p => poll'[q] = poll[q]
    BY <1>7, <1>s, RestTyped DEF EventsArrive
  <2>4. sub.kind = "subscription" /\ Fields(sub) /\ UNCHANGED <<ledger, emitted>> /\ poll[p].at = "events"
    BY <1>7, <1>s DEF EventsArrive, SubShape
  <2>5. /\ Fields(sub') /\ sub'.kind = "subscription" /\ sub'.cursor = latest + 1 /\ sub'.from = sub.from
        /\ sub'.stopped = sub.stopped /\ sub'.reader = sub.reader /\ sub'.jumped = sub.jumped
        /\ sub'.initialized = sub.initialized
    <3>1. latest + 1 \in Nat
      BY <2>2
    <3>2. QED
      BY <2>1, <2>4, <3>1 DEF Fields
  <2>6. /\ ~sub.stopped => sub'.got = sub.got \cup {e \in fetchEvents(p, latest) : Kept(e)}
        /\ sub'.cut = sub.cut \cup (EventsIn(poll[p].start, latest) \ fetchEvents(p, latest))
    BY <2>1, <2>4 DEF Fields
  <2>s. sub.initialized
    BY <1>s, <2>4 DEF InStep
  <2>7. SubShape' /\ InStep'
    BY <1>s, <2>2, <2>3, <2>4, <2>5, <2>s DEF SubShape, InStep
  <2>8. \A e : Seen(e) /\ ~sub.stopped => Seen(e)'
    BY <2>5, <2>6 DEF Seen
  <2>9. ASSUME NEW b, Covered(b), ~sub.stopped PROVE Covered(b)'
    BY <2>4, <2>5, <2>8, <2>9 DEF Covered, EventsIn
  <2>10. ASSUME ~sub.stopped PROVE Covered(latest + 1)'
    <3>1. SUFFICES ASSUME NEW e \in EventsIn(sub.from, latest) PROVE Seen(e)'
      BY <2>2, <2>4, <2>5 DEF Covered, EventsIn
    <3>2. e \in (1..MaxLedger) \X (1..MaxPerLedger) /\ e[1] \in Nat /\ e[2] \in Nat \ {0}
      BY SubscriptionBounds DEF EventsIn
    <3>3. CASE e[1] < poll[p].start
      <4>1. Covered(poll[p].start)
        BY <1>s, <2>4, <2>10 DEF Complete
      <4>2. e \in EventsIn(sub.from, poll[p].start - 1)
        BY <2>2, <3>1, <3>2, <3>3 DEF EventsIn
      <4>3. QED
        BY <2>8, <2>10, <4>1, <4>2 DEF Covered
    <3>4. CASE e[1] >= poll[p].start
      <4>1. e \in EventsIn(poll[p].start, latest)
        BY <2>2, <3>1, <3>2, <3>4 DEF EventsIn
      <4>2. CASE e \in fetchEvents(p, latest) /\ Kept(e)
        BY <2>6, <2>10, <4>2 DEF Seen
      <4>3. CASE e \in fetchEvents(p, latest) /\ ~Kept(e)
        <5>1. sub.reader.filtered /\ e[2] # 1
          BY <2>4, <4>3 DEF Kept, Fields
        <5>2. e[2] > 1
          BY <3>2, <5>1
        <5>3. QED
          BY <2>5, <5>1, <5>2 DEF Seen
      <4>4. CASE e \notin fetchEvents(p, latest)
        BY <2>6, <4>1, <4>4 DEF Seen
      <4>5. QED
        BY <4>2, <4>3, <4>4
    <3>5. QED
      BY <2>2, <3>2, <3>3, <3>4
  <2>11. ASSUME ~sub'.stopped PROVE Covered(sub.cursor)'
    BY <2>5, <2>10, <2>11
  <2>12. ASSUME ~sub'.stopped, NEW q \in Polls, poll'[q].at = "events" PROVE Covered(poll[q].start)'
    <3>1. q # p
      BY <2>3, <2>12
    <3>2. Covered(poll[q].start) /\ poll'[q] = poll[q]
      BY <1>s, <2>3, <2>4, <2>5, <2>12, <3>1 DEF Complete
    <3>3. QED
      BY <2>5, <2>9, <2>12, <3>2
  <2>13. Complete'
    BY <2>5, <2>11, <2>12 DEF Complete
  <2>14. QED
    BY <2>7, <2>13 DEF SubscriptionInv
<1>8. ASSUME NEW p \in Polls, PollFails(p) PROVE SubscriptionInv'
  <2>1. /\ poll' \in [Polls -> Requests] /\ poll'[p] = Resting /\ Resting.at = "rest" /\ Resting.start = 0
        /\ \A q \in Polls : q # p => poll'[q] = poll[q]
    BY <1>8, <1>s, RestTyped DEF PollFails
  <2>2. poll[p] # Resting /\ UNCHANGED <<ledger, emitted>>
    BY <1>8 DEF PollFails
  <2>3. CASE sub.kind = "scan"
    <3>1. sub' = Unused
      BY <1>8, <2>3 DEF PollFails
    <3>2. \A q \in Polls : poll'[q] = Resting
      BY <1>s, <2>1, <2>2, <2>3 DEF InStep
    <3>3. QED
      BY <1>s, <2>1, <2>2, <3>1, <3>2, UnusedFields DEF SubscriptionInv, SubShape, InStep, Complete
  <2>4. CASE sub.kind # "scan"
    <3>1. sub' = sub
      BY <1>8, <2>4 DEF PollFails
    <3>2. SubShape' /\ InStep'
      BY <1>s, <2>1, <2>2, <2>4, <3>1 DEF SubShape, InStep
    <3>3. \A b : Covered(b) => Covered(b)'
      BY <2>2, <3>1 DEF Covered, Seen, EventsIn
    <3>4. \A q \in Polls : poll'[q].at = "events" => poll'[q] = poll[q]
      BY <2>1
    <3>5. Complete'
      BY <1>s, <2>4, <3>1, <3>3, <3>4 DEF Complete
    <3>6. QED
      BY <3>2, <3>5 DEF SubscriptionInv
  <2>5. QED
    BY <2>3, <2>4
<1>9. ASSUME NEW p \in Polls, ScanTarget(p) PROVE SubscriptionInv'
  <2>1. PICK latest \in poll[p].asked..ledger :
          /\ sub' = [sub EXCEPT !.target = latest, !.initialized = TRUE]
          /\ IF sub.cursor <= latest THEN Send(p, "events", sub.cursor) ELSE Rest(p)
    BY <1>9 DEF ScanTarget
  <2>2. latest \in Nat /\ sub.kind = "scan" /\ UNCHANGED <<ledger, emitted>> /\ poll[p].at = "latest" /\ Fields(sub)
    BY <1>9, <1>s DEF ScanTarget, SubShape, Requests
  <2>3. /\ poll' \in [Polls -> Requests] /\ \A q \in Polls : q # p => poll'[q] = poll[q]
        /\ poll'[p].start \in {0, sub.cursor} /\ (poll'[p].at = "events" => poll'[p].start = sub.cursor)
    <3>1. CASE Send(p, "events", sub.cursor)
      BY <1>s, <2>2, <3>1, SendTyped DEF Fields
    <3>2. CASE Rest(p)
      BY <1>s, <3>2, RestTyped
    <3>3. QED
      BY <2>1, <3>1, <3>2
  <2>4. \A q \in Polls : q # p => poll[q] = Resting
    BY <1>s, <2>2, NotRest DEF InStep
  <2>5. /\ Fields(sub') /\ sub'.kind = "scan" /\ sub'.cursor = sub.cursor /\ sub'.from = sub.from
        /\ sub'.got = sub.got /\ sub'.cut = sub.cut
    BY <2>1, <2>2 DEF Fields
  <2>6. SubShape' /\ InStep'
    BY <1>s, <2>2, <2>3, <2>4, <2>5, RestTyped DEF SubShape, InStep, Resting, Fields
  <2>7. Complete'
    BY <1>s, <2>2, <2>5 DEF Complete, EventsIn
  <2>8. QED
    BY <2>6, <2>7 DEF SubscriptionInv
<1>10. ASSUME NEW p \in Polls, ScanPage(p) PROVE SubscriptionInv'
  <2>0. PICK latest \in Answers(p) : \E next :
          /\ next = IF fetchEvents(p, latest) = {} THEN latest + 1
                    ELSE Max({e[1] : e \in fetchEvents(p, latest)}) + 1
          /\ sub' = [sub EXCEPT !.cursor = next, !.got = @ \cup fetchEvents(p, latest),
                                !.cut = @ \cup (EventsIn(poll[p].start, next - 1) \ fetchEvents(p, latest))]
          /\ IF next <= sub.target THEN Send(p, "events", next) ELSE Rest(p)
    BY <1>10 DEF ScanPage
  <2>1. PICK next :
          /\ next = IF fetchEvents(p, latest) = {} THEN latest + 1
                    ELSE Max({e[1] : e \in fetchEvents(p, latest)}) + 1
          /\ sub' = [sub EXCEPT !.cursor = next, !.got = @ \cup fetchEvents(p, latest),
                                !.cut = @ \cup (EventsIn(poll[p].start, next - 1) \ fetchEvents(p, latest))]
          /\ IF next <= sub.target THEN Send(p, "events", next) ELSE Rest(p)
    BY <2>0
  <2>2. /\ latest \in Nat /\ latest <= ledger /\ sub.kind = "scan" /\ UNCHANGED <<ledger, emitted>>
        /\ poll[p].at = "events" /\ Fields(sub) /\ poll[p].start = sub.cursor
    BY <1>10, <1>s DEF ScanPage, SubShape, Requests, Answers, InStep
  <2>3. next \in Nat /\ next <= ledger + 1
    <3>1. CASE fetchEvents(p, latest) = {}
      BY <1>s, <2>1, <2>2, <3>1 DEF SubShape
    <3>2. CASE fetchEvents(p, latest) # {}
      <4> DEFINE S == {e[1] : e \in fetchEvents(p, latest)}
      <4>1. \A e \in fetchEvents(p, latest) : e[1] \in Nat /\ e[1] <= latest
        BY <2>2 DEF fetchEvents, EventsIn
      <4>2. S \in SUBSET Nat /\ S # {} /\ \A x \in S : x <= latest
        BY <3>2, <4>1
      <4>3. Max(S) \in Nat /\ Max(S) <= latest
        BY <2>2, <4>2, MaxBounded
      <4>4. next = Max(S) + 1
        BY <2>1, <3>2
      <4> HIDE DEF S
      <4>5. QED
        BY <1>s, <2>2, <4>3, <4>4 DEF SubShape
    <3>3. QED
      BY <3>1, <3>2
  <2>4. /\ poll' \in [Polls -> Requests] /\ \A q \in Polls : q # p => poll'[q] = poll[q]
        /\ poll'[p].start \in {0, next} /\ (poll'[p].at = "events" => poll'[p].start = next)
    <3>1. CASE Send(p, "events", next)
      BY <1>s, <2>3, <3>1, SendTyped
    <3>2. CASE Rest(p)
      BY <1>s, <3>2, RestTyped
    <3>3. QED
      BY <2>1, <3>1, <3>2
  <2>5. \A q \in Polls : q # p => poll[q] = Resting
    BY <1>s, <2>2, NotRest DEF InStep
  <2>6. /\ Fields(sub') /\ sub'.kind = "scan" /\ sub'.cursor = next /\ sub'.from = sub.from
        /\ sub'.got = sub.got \cup fetchEvents(p, latest)
        /\ sub'.cut = sub.cut \cup (EventsIn(sub.cursor, next - 1) \ fetchEvents(p, latest))
    BY <2>1, <2>2, <2>3 DEF Fields
  <2>7. SubShape' /\ InStep'
    BY <1>s, <2>2, <2>3, <2>4, <2>5, <2>6 DEF SubShape, InStep, Resting
  <2>8. EventsIn(sub.from, next - 1) \subseteq EventsIn(sub.from, sub.cursor - 1) \cup EventsIn(sub.cursor, next - 1)
    BY <2>2, <2>3 DEF EventsIn, Fields
  <2>9. EventsIn(sub.from, sub.cursor - 1)' = EventsIn(sub.from, next - 1)
    BY <2>2, <2>6 DEF EventsIn
  <2>10. Complete'
    BY <1>s, <2>2, <2>6, <2>8, <2>9 DEF Complete
  <2>11. QED
    BY <2>7, <2>10 DEF SubscriptionInv
<1>11. QED
  BY <1>1, <1>2, <1>3, <1>4, <1>5, <1>6, <1>7, <1>8, <1>9, <1>10 DEF SubNext

LEMMA CoveredSkipsNothing == SubscriptionInv => NothingSkipped
<1> SUFFICES ASSUME SubscriptionInv PROVE NothingSkipped
  OBVIOUS
<1>1. Fields(sub) /\ Complete
  BY DEF SubscriptionInv, SubShape
<1>2. CASE sub.kind = "subscription"
  BY <1>1, <1>2 DEF NothingSkipped, Complete, Covered, Seen, Fields
<1>3. CASE sub.kind # "subscription"
  <2>1. Min({sub.cursor - 1, sub.target}) <= sub.cursor - 1 /\ Min({sub.cursor - 1, sub.target}) \in Int
    BY <1>1 DEF Fields, Min
  <2>2. EventsIn(sub.from, Min({sub.cursor - 1, sub.target})) \subseteq EventsIn(sub.from, sub.cursor - 1)
    BY <1>1, <2>1 DEF EventsIn, Fields
  <2>3. QED
    BY <1>1, <1>3, <2>2 DEF NothingSkipped, Complete
<1>4. QED
  BY <1>2, <1>3

(* Overlapping polls that end, fail or answer late in any order leave no    *)
(* event between the ledger a subscription began at and its cursor, or       *)
(* behind a scan's, but those a full page cut off and those jumped over by   *)
(* a poll that had started before the subscription knew where to begin.     *)
THEOREM SubscriptionSkipsNothing == Spec => []NothingSkipped
<1>1. Init => SubscriptionInv
  BY SubInitial DEF Init
<1>2. SubscriptionInv /\ [Next]_vars => SubscriptionInv'
  <2> SUFFICES ASSUME SubscriptionInv, [Next]_vars PROVE SubscriptionInv'
    OBVIOUS
  <2>1. CASE SubNext
    BY <2>1, SubStep
  <2>2. CASE UNCHANGED subVars
    BY <2>2 DEF SubscriptionInv, SubShape, InStep, Complete, Covered, Seen, EventsIn, subVars
  <2>3. QED
    BY <2>1, <2>2 DEF Next, Calling, Subscribing, Streaming, Showing, vars
<1>3. QED
  BY <1>1, <1>2, CoveredSkipsNothing, PTL DEF Spec

-----------------------------------------------------------------------------
(* Components and their hooks.                                               *)

(* The hooks that promise to show what is current, and what the table says   *)
(* of them: none polls, refetches outside its effect or swallows an error.   *)
Promising(h) == h.guarded /\ h.loads /\ ~h.debounced /\ h.writes # "sets"

Tabled(h) == Promising(h) => ~h.interval /\ h.fails = "shown" /\ h.refetches \in {"no", "effect"}

LEMMA HookTable == \A h \in Hooks : Tabled(h)
<1> USE DEF Loader, Refetched, Unguarded, Polling, Quiet, Configured, NotAtFirst, Fails, Tabled, Promising
<1>1. Tabled(useRewardEpochs) /\ Tabled(useClaimableRewards) /\ Tabled(useEpochLeaderboard)
  BY DEF useRewardEpochs, useClaimableRewards, useEpochLeaderboard
<1>2. Tabled(useCurrentRewardEpoch) /\ Tabled(useVoteEscrow) /\ Tabled(useDelegateProfile)
      /\ Tabled(useProposerReputation)
      /\ Tabled(useAnalytics)
  BY DEF useCurrentRewardEpoch, useVoteEscrow, useDelegateProfile, useProposerReputation, useAnalytics
<1>3. Tabled(useProposalBond) /\ Tabled(useBondsByProposer) /\ Tabled(useDraft) /\ Tabled(useActiveDrafts)
      /\ Tabled(useTreasuryStrategies)
      /\ Tabled(useSplitDelegation)
  BY DEF useProposalBond, useBondsByProposer, useDraft, useActiveDrafts, useTreasuryStrategies, useSplitDelegation
<1>4. Tabled(useBondEligibility) /\ Tabled(useGovernorConfig) /\ Tabled(useGuardianCouncil)
  BY DEF useBondEligibility, useGovernorConfig, useGuardianCouncil
<1>5. Tabled(useGovernanceTuning) /\ Tabled(useGovernanceTuningConfig)
  BY DEF useGovernanceTuning, useGovernanceTuningConfig
<1>6. Tabled(useGovernanceBalance)
  BY DEF useGovernanceBalance
<1>7. Tabled(useConvictionProposals) /\ Tabled(useOptimisticProposals) /\ Tabled(useOptimisticProposal)
  BY DEF useConvictionProposals, useOptimisticProposals, useOptimisticProposal
<1>8. Tabled(useSignalingPolls) /\ Tabled(useSignalingPoll) /\ Tabled(useAmendments)
  BY DEF useSignalingPolls, useSignalingPoll, useAmendments
<1>9. Tabled(refreshRules) /\ Tabled(refreshInbox) /\ Tabled(useProposalSimulation)
  BY DEF refreshRules, refreshInbox, useProposalSimulation
<1> HIDE DEF Tabled
<1>10. QED
  BY <1>1, <1>2, <1>3, <1>4, <1>5, <1>6, <1>7, <1>8, <1>9, Zenon DEF Hooks

ViewFields == {"mounted", "configured", "arg", "dep", "effect", "data", "loading", "error", "events"}
ViewShape(v) == DOMAIN v = ViewFields /\ v = [f \in ViewFields |-> v[f]] /\ v.effect \in Nat

RequestFields == {"id", "effect", "arg", "read", "version"}
RequestShape(r) ==
  /\ DOMAIN r = RequestFields /\ r = [f \in RequestFields |-> r[f]]
  /\ r.effect \in Nat /\ r.version \in Nat

ServerShape ==
  /\ server = [version |-> server.version, own |-> server.own, writing |-> server.writing, writer |-> server.writer]
  /\ server.version \in Nat /\ server.own \in Nat /\ server.own <= server.version

HookShape == ViewShape(view) /\ (\A r \in requests : RequestShape(r)) /\ ServerShape

(* A request of the current effect is for the current argument and was read  *)
(* after the user's last change; all others are of earlier effects, and are  *)
(* dropped.                                                                  *)
Fresh(r) == r.effect <= view.effect /\
            (r.effect = view.effect => r.arg = view.arg /\ (r.read => r.version >= server.own))

Settles ==
  view.configured /\ view.arg # Missing /\ ~view.loading /\ ~view.error =>
    view.data.arg = view.arg /\ view.data.version >= server.own

HookInv ==
  /\ HookShape
  /\ view.mounted => hook \in Hooks
  /\ ~view.mounted => view.effect = 0 /\ requests = {} /\ ~server.writing
  /\ view.mounted /\ Promising(hook) => view.dep = view.arg /\ Settles /\ \A r \in requests : Fresh(r)

LEMMA UnmountedShape == ViewShape(Unmounted) /\ ~Unmounted.mounted /\ Unmounted.effect = 0
BY DEF ViewShape, ViewFields, Unmounted

LEMMA HookInitial == HookInit => HookInv
<1> SUFFICES ASSUME HookInit PROVE HookInv
  OBVIOUS
<1>1. ServerShape /\ ~server.writing
  BY DEF HookInit, Untouched, ServerShape
<1>2. QED
  BY <1>1, UnmountedShape DEF HookInit, HookInv, HookShape

(* What a run of the effect does, and what asking outside it does.           *)
LEMMA EffectRuns ==
  ASSUME HookShape, NEW h, NEW v, ViewShape(v), v.effect = view.effect, RunEffect(h, v)
  PROVE  /\ ViewShape(view') /\ view'.mounted = v.mounted /\ view'.arg = v.arg /\ view'.dep = v.dep
         /\ view'.configured = v.configured /\ view'.effect = view.effect + 1
         /\ \/ v.dep = Missing /\ UNCHANGED requests
            \/ ~v.configured /\ UNCHANGED requests
            \/ /\ h.loads => view'.loading
               /\ \E r : /\ requests' = requests \cup {r} /\ RequestShape(r)
                         /\ r.effect = view'.effect /\ r.arg = v.dep /\ ~r.read
<1> DEFINE w == [v EXCEPT !.effect = @ + 1]
<1>1. v.effect + 1 \in Nat
  BY DEF ViewShape, ViewFields
<1>2. /\ ViewShape(w) /\ w.mounted = v.mounted /\ w.arg = v.arg /\ w.dep = v.dep /\ w.configured = v.configured
      /\ w.effect = view.effect + 1
  BY <1>1 DEF ViewShape, ViewFields
<1>3. /\ \/ w.dep = Missing /\ view' = WithoutArgument(h, w) /\ UNCHANGED requests
         \/ w.dep # Missing /\ w.configured /\ view' = Asking(h, w) /\ requests' = requests \cup {RequestOf(w, w.dep)}
         \/ w.dep # Missing /\ ~w.configured /\ view' = NotConfigured(h, w) /\ UNCHANGED requests
  BY DEF RunEffect
<1> HIDE DEF w
<1>4. CASE w.dep = Missing /\ view' = WithoutArgument(h, w) /\ UNCHANGED requests
  BY <1>2, <1>4 DEF WithoutArgument, ViewShape, ViewFields
<1>5. CASE w.dep # Missing /\ w.configured /\ view' = Asking(h, w) /\ requests' = requests \cup {RequestOf(w, w.dep)}
  <2>1. /\ ViewShape(view') /\ view'.mounted = w.mounted /\ view'.arg = w.arg /\ view'.dep = w.dep
        /\ view'.configured = w.configured /\ view'.effect = w.effect /\ (h.loads => view'.loading)
    BY <1>2, <1>5 DEF Asking, ViewShape, ViewFields
  <2>2. RequestShape(RequestOf(w, w.dep)) /\ RequestOf(w, w.dep).effect = w.effect /\ RequestOf(w, w.dep).arg = w.dep
        /\ ~RequestOf(w, w.dep).read
    BY <1>2 DEF RequestOf, RequestShape, RequestFields, ViewShape, ViewFields
  <2>3. QED
    BY <1>2, <1>5, <2>1, <2>2
<1>6. CASE w.dep # Missing /\ ~w.configured /\ view' = NotConfigured(h, w) /\ UNCHANGED requests
  BY <1>2, <1>6 DEF NotConfigured, ViewShape, ViewFields
<1>7. QED
  BY <1>3, <1>4, <1>5, <1>6

LEMMA AskShapes ==
  ASSUME HookShape, NEW h, NEW v, ViewShape(v), NEW arg, AskFor(h, v, arg)
  PROVE  /\ ViewShape(view') /\ view'.mounted = v.mounted
         /\ \A r \in requests' : RequestShape(r)
<1>1. CASE v.configured
  <2>1. view' = Asking(h, v) /\ requests' = requests \cup {RequestOf(v, arg)}
    BY <1>1 DEF AskFor
  <2>2. ViewShape(view') /\ view'.mounted = v.mounted
    BY <2>1 DEF Asking, ViewShape, ViewFields
  <2>3. RequestShape(RequestOf(v, arg))
    BY DEF RequestOf, RequestShape, RequestFields, ViewShape, ViewFields
  <2>4. QED
    BY <2>1, <2>2, <2>3 DEF HookShape
<1>2. CASE ~v.configured
  <2>1. view' = NotConfigured(h, v) /\ UNCHANGED requests
    BY <1>2 DEF AskFor
  <2>2. ViewShape(view') /\ view'.mounted = v.mounted
    BY <2>1 DEF NotConfigured, ViewShape, ViewFields
  <2>3. QED
    BY <2>1, <2>2 DEF HookShape
<1>3. QED
  BY <1>1, <1>2

(* A run of the effect makes every earlier request stale and shows loading.  *)
LEMMA EffectKeeps ==
  ASSUME HookShape, NEW v, ViewShape(v), v.effect = view.effect, RunEffect(hook', v), v.mounted, hook' \in Hooks,
         ServerShape', Promising(hook') => v.dep = v.arg /\ \A r \in requests : r.effect <= view.effect
  PROVE  HookInv'
<1>1. /\ ViewShape(view') /\ view'.mounted /\ view'.arg = v.arg /\ view'.dep = v.dep
      /\ view'.configured = v.configured /\ view'.effect = view.effect + 1
      /\ \/ v.dep = Missing /\ UNCHANGED requests
         \/ ~v.configured /\ UNCHANGED requests
         \/ /\ hook'.loads => view'.loading
            /\ \E r : /\ requests' = requests \cup {r} /\ RequestShape(r)
                      /\ r.effect = view'.effect /\ r.arg = v.dep /\ ~r.read
  BY EffectRuns
<1>2. HookShape'
  BY <1>1 DEF HookShape
<1>3. ASSUME Promising(hook') PROVE Settles'
  BY <1>1, <1>3 DEF Settles, Promising
<1>4. ASSUME Promising(hook'), NEW r \in requests' PROVE Fresh(r)'
  <2>1. CASE r \in requests
    <3>1. r.effect \in Nat /\ r.effect <= view.effect /\ view.effect \in Nat
      BY <1>4, <2>1 DEF HookShape, RequestShape, RequestFields, ViewShape, ViewFields
    <3>2. QED
      BY <1>1, <3>1 DEF Fresh
  <2>2. CASE r \notin requests
    BY <1>1, <1>4, <2>2 DEF Fresh, ViewShape, ViewFields
  <2>3. QED
    BY <2>1, <2>2
<1>5. QED
  BY <1>1, <1>2, <1>3, <1>4 DEF HookInv

(* Every step of a component keeps the invariant.                            *)
LEMMA HookStep == HookInv /\ HookNext => HookInv'
<1> SUFFICES ASSUME HookInv, HookNext PROVE HookInv'
  OBVIOUS
<1>s. HookShape /\ ViewShape(view) /\ ServerShape
  BY DEF HookInv, HookShape
<1>e. Promising(hook) /\ view.mounted => \A r \in requests : r.effect <= view.effect
  BY DEF HookInv, Fresh
<1>1. CASE Mount
  <2>1. PICK h \in Hooks : \E configured, arg :
          hook' = h /\ RunEffect(h, [Unmounted EXCEPT !.mounted = TRUE, !.configured = configured, !.arg = arg,
                                                      !.dep = arg, !.loading = h.first])
    BY <1>1 DEF Mount
  <2>6. PICK configured, arg :
          hook' = h /\ RunEffect(h, [Unmounted EXCEPT !.mounted = TRUE, !.configured = configured, !.arg = arg,
                                         !.dep = arg, !.loading = h.first])
    BY <2>1
  <2> DEFINE v == [Unmounted EXCEPT !.mounted = TRUE, !.configured = configured, !.arg = arg,
                                         !.dep = arg, !.loading = h.first]
  <2>2. ViewShape(v) /\ v.effect = 0 /\ v.mounted /\ v.dep = v.arg
    BY DEF Unmounted, ViewShape, ViewFields
  <2>3. requests = {} /\ view.effect = 0 /\ ServerShape'
    BY <1>1, <1>s DEF Mount, HookInv, ServerShape
  <2>4. RunEffect(hook', v) /\ hook' \in Hooks
    BY <2>6
  <2> HIDE DEF v
  <2>5. QED
    BY <1>s, <2>2, <2>3, <2>4, EffectKeeps
<1>2. CASE ChangeArgument
  <2>1. PICK arg, n :
    /\ Happens(n) /\ hook.without # "fixed"
    /\ IF hook.debounced
       THEN /\ view' = [n EXCEPT !.arg = arg, !.data = IF arg = Missing THEN Nothing ELSE @,
                                 !.loading = @ /\ arg # Missing, !.error = @ /\ arg # Missing]
            /\ UNCHANGED requests
       ELSE RunEffect(hook, [n EXCEPT !.arg = arg, !.dep = arg])
    /\ UNCHANGED <<hook, server>>
    BY <1>2 DEF ChangeArgument
  <2>2. ViewShape(n) /\ n.mounted /\ n.effect = view.effect /\ hook' \in Hooks /\ view.mounted
    BY <1>s, <2>1 DEF Happens, ViewShape, ViewFields, HookInv
  <2>3. CASE hook.debounced
    <3>1. ViewShape(view') /\ view'.mounted /\ UNCHANGED <<requests, hook, server>>
      BY <2>1, <2>2, <2>3 DEF ViewShape, ViewFields
    <3>2. QED
      BY <1>s, <2>2, <2>3, <3>1 DEF HookInv, HookShape, ServerShape, Promising
  <2>4. CASE ~hook.debounced
    <3> DEFINE v == [n EXCEPT !.arg = arg, !.dep = arg]
    <3>1. ViewShape(v) /\ v.mounted /\ v.effect = view.effect /\ v.dep = v.arg
      BY <2>2 DEF ViewShape, ViewFields
    <3>2. RunEffect(hook', v) /\ ServerShape'
      BY <1>s, <2>1, <2>4 DEF ServerShape
    <3> HIDE DEF v
    <3>3. QED
      BY <1>s, <1>e, <2>1, <2>2, <3>1, <3>2, EffectKeeps
  <2>5. QED
    BY <2>3, <2>4
<1>3. CASE useDebounce
  <2> DEFINE v == [view EXCEPT !.dep = view.arg]
  <2>1. ViewShape(v) /\ v.mounted /\ v.effect = view.effect /\ v.dep = v.arg /\ hook' \in Hooks /\ view.mounted
    BY <1>3, <1>s DEF ViewShape, ViewFields, useDebounce, HookInv
  <2>2. RunEffect(hook', v) /\ ServerShape' /\ hook' = hook
    BY <1>3, <1>s DEF ServerShape, useDebounce
  <2> HIDE DEF v
  <2>3. QED
    BY <1>s, <1>e, <2>1, <2>2, EffectKeeps
<1>4. ASSUME NEW n, Happens(n)
      PROVE  ViewShape(n) /\ n.mounted /\ n.effect = view.effect /\ n.dep = view.dep /\ n.arg = view.arg
             /\ hook \in Hooks /\ view.mounted
  BY <1>4, <1>s DEF Happens, ViewShape, ViewFields, HookInv
<1>5. ASSUME NEW v, ViewShape(v), v.mounted, NEW arg, AskFor(hook, v, arg), hook' = hook, hook \in Hooks,
             ~Promising(hook), ServerShape'
      PROVE  HookInv'
  BY <1>5, <1>s, AskShapes DEF HookInv, HookShape
<1>6. CASE PollDue
  <2>1. PICK n : Happens(n) /\ hook.interval /\ AskFor(hook, n, n.dep) /\ UNCHANGED <<hook, server>>
    BY <1>6 DEF PollDue
  <2>2. ~Promising(hook)
    BY <1>4, <2>1, HookTable DEF Tabled
  <2>3. ServerShape'
    BY <1>s, <2>1 DEF ServerShape
  <2>4. QED
    BY <1>4, <1>5, <2>1, <2>2, <2>3
<1>7. CASE Refetch
  <2>1. PICK n : /\ Happens(n) /\ UNCHANGED <<hook, server>>
                 /\ \/ hook.refetches = "effect" /\ RunEffect(hook, n)
                    \/ hook.refetches = "request" /\ n.dep # Missing /\ AskFor(hook, n, n.dep)
    BY <1>7 DEF Refetch
  <2>2. ServerShape'
    BY <1>s, <2>1 DEF ServerShape
  <2>3. CASE RunEffect(hook, n)
    <3>1. Promising(hook') => n.dep = n.arg
      BY <1>4, <2>1 DEF HookInv
    <3>2. QED
      BY <1>4, <1>s, <1>e, <2>1, <2>2, <2>3, <3>1, EffectKeeps
  <2>4. CASE hook.refetches = "request" /\ AskFor(hook, n, n.dep)
    <3>1. ~Promising(hook)
      BY <1>4, <2>1, <2>4, HookTable DEF Tabled
    <3>2. QED
      BY <1>4, <1>5, <2>1, <2>2, <2>4, <3>1
  <2>5. QED
    BY <2>1, <2>3, <2>4
<1>8. CASE WriteApplies
  <2>1. server.version + 1 \in Nat
    BY <1>s DEF ServerShape
  <2>2. ServerShape' /\ server'.own = server.own
    <3>1. server' = [version |-> server.version + 1, own |-> server.own, writing |-> TRUE, writer |-> view.arg]
      BY <1>8, <1>s DEF WriteApplies, ServerShape
    <3>2. QED
      BY <1>s, <2>1, <3>1 DEF ServerShape
  <2>3. /\ ViewShape(view') /\ view'.mounted /\ view.mounted /\ view'.arg = view.arg /\ view'.dep = view.dep
        /\ view'.effect = view.effect /\ view'.loading = view.loading /\ view'.error = view.error
        /\ view'.data = view.data /\ view'.configured = view.configured
    BY <1>8, <1>s DEF WriteApplies, ViewShape, ViewFields
  <2>4. UNCHANGED <<hook, requests>>
    BY <1>8 DEF WriteApplies
  <2>5. HookShape'
    BY <1>s, <2>2, <2>3, <2>4 DEF HookShape
  <2>6. QED
    BY <2>2, <2>3, <2>4, <2>5 DEF HookInv, Settles, Fresh
<1>9. CASE WriteReturns
  <2>1. ServerShape' /\ hook' = hook /\ view.mounted /\ hook \in Hooks
    <3>1. server' = [version |-> server.version, own |-> server.version, writing |-> FALSE, writer |-> Missing]
      BY <1>9, <1>s DEF WriteReturns, ServerShape
    <3>2. ServerShape'
      BY <1>s, <3>1 DEF ServerShape
    <3>3. QED
      BY <1>9, <3>2 DEF WriteReturns, HookInv
  <2>2. CASE /\ hook.writes = "sets" /\ UNCHANGED requests
             /\ view' = [view EXCEPT !.data = [arg |-> server.writer, version |-> server.version]]
    <3>1. ViewShape(view') /\ view'.mounted
      BY <1>s, <2>1, <2>2 DEF ViewShape, ViewFields
    <3>2. QED
      BY <1>s, <2>1, <2>2, <3>1 DEF HookInv, HookShape, Promising
  <2>3. CASE RunEffect(hook, view)
    <3>1. Promising(hook') => view.dep = view.arg
      BY <2>1 DEF HookInv
    <3>2. QED
      BY <1>s, <1>e, <2>1, <2>3, <3>1, EffectKeeps
  <2>4. CASE hook.refetches = "request" /\ AskFor(hook, view, server.writer)
    <3>1. ~Promising(hook)
      BY <2>1, <2>4, HookTable DEF Tabled
    <3>2. QED
      BY <1>5, <1>s, <2>1, <2>4, <3>1
  <2>5. QED
    BY <1>9, <2>2, <2>3, <2>4 DEF WriteReturns
<1>10. CASE WriteThrows
  <2>1. ServerShape' /\ server'.own = server.own /\ UNCHANGED <<hook, view, requests>> /\ ~server'.writing
    BY <1>10, <1>s DEF WriteThrows, ServerShape
  <2>2. QED
    BY <1>s, <2>1 DEF HookInv, HookShape, Settles, Fresh
<1>11. ASSUME NEW r \in requests, ServerReads(r) PROVE HookInv'
  <2> DEFINE q == [r EXCEPT !.read = TRUE, !.version = server.version]
  <2>1. RequestShape(r) /\ view.mounted /\ server.version >= server.own
    BY <1>s, <1>11 DEF HookInv, HookShape, ServerShape
  <2>2. RequestShape(q) /\ q.effect = r.effect /\ q.arg = r.arg /\ q.version = server.version
    BY <1>s, <2>1 DEF RequestShape, RequestFields, ServerShape
  <2>3. requests' = (requests \ {r}) \cup {q} /\ UNCHANGED <<hook, view, server>>
    BY <1>11 DEF ServerReads
  <2> HIDE DEF q
  <2>4. HookShape'
    BY <1>s, <2>2, <2>3 DEF HookShape, ServerShape
  <2>5. ASSUME Promising(hook), NEW t \in requests' PROVE Fresh(t)'
    <3>1. Fresh(r)
      BY <2>1, <2>5 DEF HookInv
    <3>2. CASE t = q
      BY <2>1, <2>2, <2>3, <3>1, <3>2 DEF Fresh
    <3>3. CASE t \in requests
      BY <2>1, <2>3, <2>5, <3>3 DEF HookInv, Fresh
    <3>4. QED
      BY <2>3, <3>2, <3>3
  <2>6. QED
    BY <2>1, <2>3, <2>4, <2>5 DEF HookInv, Settles
<1>12. ASSUME NEW r \in requests, requests' = requests \ {r}, UNCHANGED <<hook, server>>,
              ViewShape(view'), view'.mounted, view.mounted, view'.effect = view.effect, view'.arg = view.arg,
              view'.dep = view.dep, Promising(hook) => Settles'
       PROVE  HookInv'
  BY <1>12, <1>s DEF HookInv, HookShape, ServerShape, Fresh
<1>13. ASSUME NEW r \in requests, Answered(r) PROVE HookInv'
  <2>1. requests' = requests \ {r} /\ UNCHANGED <<hook, server>> /\ view.mounted /\ r.read
    BY <1>13 DEF Answered, HookInv
  <2>2. CASE Dropped(r)
    <3>1. view' = view
      BY <1>13, <2>2 DEF Answered
    <3>2. QED
      BY <1>12, <1>s, <2>1, <3>1 DEF HookInv, Settles
  <2>3. CASE ~Dropped(r)
    <3>1. view' = [view EXCEPT !.data = [arg |-> r.arg, version |-> r.version], !.loading = FALSE]
      BY <1>13, <2>3 DEF Answered
    <3>2. /\ ViewShape(view') /\ view'.mounted /\ view'.effect = view.effect /\ view'.arg = view.arg
          /\ view'.dep = view.dep /\ view'.data.arg = r.arg /\ view'.data.version = r.version
      BY <1>s, <2>1, <3>1 DEF ViewShape, ViewFields
    <3>3. Promising(hook) => r.arg = view.arg /\ r.version >= server.own
      BY <2>1, <2>3 DEF HookInv, Fresh, Dropped, Promising
    <3>4. QED
      BY <1>12, <2>1, <3>2, <3>3 DEF Settles
  <2>4. QED
    BY <2>2, <2>3
<1>14. ASSUME NEW r \in requests, RequestFails(r) PROVE HookInv'
  <2>1. requests' = requests \ {r} /\ UNCHANGED <<hook, server>> /\ view.mounted /\ hook \in Hooks
    BY <1>14 DEF RequestFails, HookInv
  <2>2. CASE Dropped(r)
    <3>1. view' = view
      BY <1>14, <2>2 DEF RequestFails
    <3>2. QED
      BY <1>12, <1>s, <2>1, <3>1 DEF HookInv, Settles
  <2>3. CASE ~Dropped(r)
    <3>1. view' = [view EXCEPT !.error = hook.fails # "silent", !.loading = FALSE,
                               !.data = IF hook.fails = "clears" THEN Nothing ELSE @]
      BY <1>14, <2>3 DEF RequestFails
    <3>2. /\ ViewShape(view') /\ view'.mounted /\ view'.effect = view.effect /\ view'.arg = view.arg
          /\ view'.dep = view.dep /\ view'.error = (hook.fails # "silent")
      BY <1>s, <2>1, <3>1 DEF ViewShape, ViewFields
    <3>3. Promising(hook) => view'.error
      BY <2>1, <3>2, HookTable DEF Tabled
    <3>4. QED
      BY <1>12, <2>1, <3>2, <3>3 DEF Settles
  <2>4. QED
    BY <2>2, <2>3
<1>15. CASE Unmount
  <2>1. view' = Unmounted /\ requests' = {} /\ server' = Untouched
    BY <1>15 DEF Unmount
  <2>2. ServerShape' /\ ~server'.writing
    BY <2>1 DEF Untouched, ServerShape
  <2>3. QED
    BY <2>1, <2>2, UnmountedShape DEF HookInv, HookShape
<1>16. QED
  BY <1>1, <1>2, <1>3, <1>6, <1>7, <1>8, <1>9, <1>10, <1>11, <1>13, <1>14, <1>15 DEF HookNext, HookAnswer

LEMMA SettledShowsCurrent == HookInv => ShowsCurrent
BY DEF HookInv, ShowsCurrent, Settles, Promising

(* What a guarded hook shows once it has loaded is of its argument now and  *)
(* knows the user's own change, whatever is answered late.                  *)
THEOREM ComponentShowsCurrent == Spec => []ShowsCurrent
<1>1. Init => HookInv
  BY HookInitial DEF Init
<1>2. HookInv /\ [Next]_vars => HookInv'
  <2> SUFFICES ASSUME HookInv, [Next]_vars PROVE HookInv'
    OBVIOUS
  <2>1. CASE HookNext
    BY <2>1, HookStep
  <2>2. CASE UNCHANGED hookVars
    BY <2>2 DEF HookInv, HookShape, ServerShape, Settles, Fresh, hookVars
  <2>3. QED
    BY <2>1, <2>2 DEF Next, Calling, Subscribing, Streaming, Showing, vars
<1>3. QED
  BY <1>1, <1>2, SettledShowsCurrent, PTL DEF Spec
=============================================================================
