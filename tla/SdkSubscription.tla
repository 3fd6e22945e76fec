-------------------------- MODULE SdkSubscription --------------------------
(***************************************************************************)
(* How the SDK follows a contract's events (sdk/src/events.ts): a          *)
(* subscription that polls the RPC server from a cursor on a timer, whose  *)
(* polls may overlap, fail or answer late, and a scan of past ledgers page *)
(* by page.  The server is external; it is taken to match the topic that   *)
(* is asked for and to answer with the oldest events first.                *)
(***************************************************************************)
EXTENDS SdkEvents, FiniteSetsExt, Sequences

CONSTANTS
  MaxLedger,      \* bound: ledgers that close
  MaxPerLedger,   \* bound: events with the topic in one ledger
  PageLimit,      \* events in one answer (100 in the code)
  Polls           \* polls that can be in flight at once

ASSUME SubscriptionBounds == {MaxLedger, PageLimit, MaxPerLedger} \subseteq Nat \ {0} /\ IsFiniteSet(Polls)

VARIABLES
  ledger,     \* the last closed ledger
  emitted,    \* events with the topic, by ledger
  sub,        \* the subscription or the scan; from, got, cut and jumped are history
  poll        \* its requests in flight

subVars == <<ledger, emitted, sub, poll>>

Resting == [at |-> "rest", start |-> 0, asked |-> 0]
Unused == [kind |-> "none", reader |-> [readable |-> TRUE, filtered |-> FALSE], cursor |-> 0, initialized |-> FALSE,
           stopped |-> FALSE, from |-> 0, target |-> 0, got |-> {}, cut |-> {}, jumped |-> {}]

SubInit ==
  /\ ledger = 1 /\ emitted = [l \in 1..MaxLedger |-> 0]
  /\ sub = Unused /\ poll = [p \in Polls |-> Resting]

EventsIn(a, b) == {e \in (1..MaxLedger) \X (1..MaxPerLedger) : e[1] \in a..b /\ e[2] <= emitted[e[1]]}
Earlier(e, f) == e[1] < f[1] \/ (e[1] = f[1] /\ e[2] < f[2])

(* A subscription to votes keeps those of its proposal that it can read; here, the first of a ledger. *)
Kept(e) == sub.reader.filtered => sub.reader.readable /\ e[2] = 1

CloseLedger ==
  /\ ledger < MaxLedger /\ ledger' = ledger + 1
  /\ \E n \in 0..MaxPerLedger : emitted' = [emitted EXCEPT ![ledger + 1] = n]
  /\ UNCHANGED <<sub, poll>>

Send(p, what, start) == poll' = [poll EXCEPT ![p] = [at |-> what, start |-> start, asked |-> ledger]]
Rest(p) == poll' = [poll EXCEPT ![p] = Resting]

(***************************************************************************)
(* The timer fires, whether or not an earlier poll has its answer.         *)
(***************************************************************************)
PollStarts(p) ==
  IF sub.initialized THEN Send(p, "events", sub.cursor) ELSE Send(p, "latest", 0)

createTopicSubscription(s) ==
  /\ sub.kind = "none"
  /\ sub' = [Unused EXCEPT !.kind = "subscription", !.reader = s]
  /\ \E p \in Polls : Send(p, "latest", 0)
  /\ UNCHANGED <<ledger, emitted>>

Interval(p) ==
  /\ sub.kind = "subscription" /\ ~sub.stopped /\ poll[p] = Resting
  /\ PollStarts(p)
  /\ UNCHANGED <<ledger, emitted, sub>>

(***************************************************************************)
(* What the server said between the request and its answer's arrival. A    *)
(* poll that started before the first one had its answer gets here too and *)
(* moves the cursor of the subscription that is under way.                 *)
(***************************************************************************)
LatestLedger(p) ==
  /\ poll[p].at = "latest" /\ sub.kind = "subscription"
  /\ \E latest \in poll[p].asked..ledger :
       /\ sub' = [sub EXCEPT !.cursor = latest, !.initialized = TRUE,
                             !.from = IF sub.initialized THEN @ ELSE latest,
                             !.jumped = IF sub.initialized
                                        THEN @ \cup EventsIn(sub.cursor, latest - 1) ELSE @]
       /\ Send(p, "events", latest)
  /\ UNCHANGED <<ledger, emitted>>

(***************************************************************************)
(* The first PageLimit events from a ledger on, and the ledger the answer  *)
(* was given at.  A server that is not there yet answers with an error.    *)
(***************************************************************************)
fetchEvents(p, latest) ==
  {e \in EventsIn(poll[p].start, latest) :
     Cardinality({f \in EventsIn(poll[p].start, latest) : Earlier(f, e)}) < PageLimit}
Answers(p) == {latest \in poll[p].asked..ledger : latest >= poll[p].start}

(* Mutant of EventsArrive: the cursor is moved past a ledger that is read after the answer. *)
EventsArrive_tip(p) ==
  /\ poll[p].at = "events" /\ sub.kind = "subscription"
  /\ \E latest \in Answers(p) : \E page \in {fetchEvents(p, latest)} :
       sub' = [sub EXCEPT !.cursor = ledger + 1,
                          !.got = IF sub.stopped THEN @ ELSE @ \cup {e \in page : Kept(e)},
                          !.cut = @ \cup (EventsIn(poll[p].start, latest) \ page)]
  /\ Rest(p)
  /\ UNCHANGED <<ledger, emitted>>

EventsArrive(p) ==
  /\ poll[p].at = "events" /\ sub.kind = "subscription"
  /\ \E latest \in Answers(p) : \E page \in {fetchEvents(p, latest)} :
       sub' = [sub EXCEPT !.cursor = latest + 1,
                          !.got = IF sub.stopped THEN @ ELSE @ \cup {e \in page : Kept(e)},
                          !.cut = @ \cup (EventsIn(poll[p].start, latest) \ page)]
  /\ Rest(p)
  /\ UNCHANGED <<ledger, emitted>>

(* A poll that fails is swallowed and leaves the cursor; a scan that fails throws. *)
PollFails(p) ==
  /\ poll[p] # Resting /\ Rest(p)
  /\ sub' = IF sub.kind = "scan" THEN Unused ELSE sub
  /\ UNCHANGED <<ledger, emitted>>

Unsubscribe ==
  /\ sub.kind = "subscription" /\ ~sub.stopped
  /\ sub' = [sub EXCEPT !.stopped = TRUE]
  /\ UNCHANGED <<ledger, emitted, poll>>

(***************************************************************************)
(* The scan reads the last ledger once and asks for page after page: after *)
(* an empty one it goes on behind the ledger of the answer, after any      *)
(* other behind the last ledger of the page.                               *)
(***************************************************************************)
ScanTarget(p) ==
  /\ poll[p].at = "latest" /\ sub.kind = "scan"
  /\ \E latest \in poll[p].asked..ledger :
       /\ sub' = [sub EXCEPT !.target = latest, !.initialized = TRUE]
       /\ IF sub.cursor <= latest THEN Send(p, "events", sub.cursor) ELSE Rest(p)
  /\ UNCHANGED <<ledger, emitted>>

getProposalEvents(from) ==
  /\ sub.kind = "none"
  /\ sub' = [Unused EXCEPT !.kind = "scan", !.from = from, !.cursor = from]
  /\ \E p \in Polls : Send(p, "latest", 0)
  /\ UNCHANGED <<ledger, emitted>>

ScanPage(p) ==
  /\ poll[p].at = "events" /\ sub.kind = "scan"
  /\ \E latest \in Answers(p) : \E page \in {fetchEvents(p, latest)} :
     \E next \in {IF page = {} THEN latest + 1 ELSE Max({e[1] : e \in page}) + 1} :
       /\ sub' = [sub EXCEPT !.cursor = next, !.got = @ \cup page,
                             !.cut = @ \cup (EventsIn(poll[p].start, next - 1) \ page)]
       /\ IF next <= sub.target THEN Send(p, "events", next) ELSE Rest(p)
  /\ UNCHANGED <<ledger, emitted>>

SubNext ==
  \/ CloseLedger \/ Unsubscribe
  \/ \E s \in Subscriptions : createTopicSubscription(s)
  \/ \E from \in 1..2 : getProposalEvents(from)
  \/ \E p \in Polls :
       \/ Interval(p) \/ LatestLedger(p) \/ EventsArrive(p) \/ PollFails(p)
       \/ ScanTarget(p) \/ ScanPage(p)

(***************************************************************************)
(* Nothing else is skipped: whatever the order in which overlapping polls  *)
(* end or fail, every event between the ledger a subscription began at,    *)
(* that of the first answer, and its cursor has been handed to the         *)
(* callback in a form the event's reader understands, and a scan that is   *)
(* done has every event it was asked for. Two losses are the code's: the   *)
(* events a full page left out, which neither of them asks for again, and  *)
(* those that a poll which started before the first answer jumped over by  *)
(* setting the cursor anew.                                                *)
(***************************************************************************)
NothingSkipped ==
  /\ sub.kind = "subscription" /\ sub.initialized /\ ~sub.stopped =>
       \A e \in EventsIn(sub.from, sub.cursor - 1) :
         \/ e \in sub.cut \cup sub.jumped
         \/ e[2] > 1 /\ sub.reader.filtered
         \/ e \in sub.got /\ sub.reader.readable
  /\ sub.kind = "scan" /\ sub.initialized =>
       EventsIn(sub.from, Min({sub.cursor - 1, sub.target})) \subseteq sub.got \cup sub.cut
=============================================================================
