---------------------------- MODULE EventStream ----------------------------
(***************************************************************************)
(* streamEvents (sdk/src/streamEvents.ts): one stream of indexer events    *)
(* over a WebSocket that is opened again after it closes, with a poll of   *)
(* GET /proposals in its place while there is no socket.  Socket callbacks,*)
(* the two timers, answers of polls that are in flight and the caller's    *)
(* unsubscribe come in any order.  The socket and the server are external. *)
(***************************************************************************)
EXTENDS Integers, FiniteSets

CONSTANTS
  MaxCloses,      \* bound: times the socket closes
  Fetches         \* requests that can be in flight at once

ASSUME StreamBounds == MaxCloses \in Nat /\ IsFiniteSet(Fetches)

VARIABLES
  stream,     \* the variables of the closure streamEvents returns from
  lastSeenId, \* by startPolling's own closure; 0 is null
  fetching,   \* polls waiting for their answer
  newest,     \* the last proposal the indexer has
  handed      \* the events the handler was called with

streamVars == <<stream, lastSeenId, fetching, newest, handed>>

(* Proposals whose ids, compared as the strings they are, are out of order: "10" comes before "9". *)
FirstId == 8
LastId == 10
NotAfter(a, b) == IF (a < 10) = (b < 10) THEN a <= b ELSE b < 10

Sessions == 0..MaxCloses + 1
NoFilter == [types |-> {}, proposalId |-> 0, state |-> ""]
Filters == {NoFilter, [NoFilter EXCEPT !.types = {"vote_cast"}], [NoFilter EXCEPT !.proposalId = 9],
            [NoFilter EXCEPT !.state = "Pending"]}

(* A socket cannot be had at all, the constructor throws for this address, or it works. *)
Sockets == {"undefined", "throws", "works"}

Off == [on |-> FALSE, stopped |-> FALSE, ws |-> "null", reconnectTimer |-> FALSE, pollTimer |-> FALSE,
        usingPolling |-> FALSE, session |-> 0, closes |-> 0, socket |-> "works", hasFetch |-> TRUE,
        filter |-> NoFilter]
NoFetch == [session |-> 0, asked |-> 0]

StreamInit ==
  /\ stream = Off /\ lastSeenId = [s \in Sessions |-> 0] /\ fetching = [f \in Fetches |-> NoFetch]
  /\ newest = FirstId /\ handed = {}

EVENT_STATE_HINT == [proposal_created |-> "Pending", vote_cast |-> "Active"]
matchesFilter(e) ==
  /\ stream.filter.types # {} => e.type \in stream.filter.types
  /\ stream.filter.proposalId # 0 => e.id = stream.filter.proposalId
  /\ stream.filter.state # "" => EVENT_STATE_HINT[e.type] = stream.filter.state
Handle(events) == handed' = handed \cup {e \in events : matchesFilter(e)}

stopPolling(s) == [s EXCEPT !.pollTimer = FALSE]
startPolling(s) ==
  IF ~s.hasFetch \/ s.usingPolling THEN s
  ELSE [s EXCEPT !.usingPolling = TRUE, !.pollTimer = TRUE, !.session = @ + 1]
(* A new polling session polls at once. *)
FirstPoll(s) ==
  IF s.session = stream.session THEN UNCHANGED fetching
  ELSE \E f \in Fetches : fetching[f] = NoFetch
         /\ fetching' = [fetching EXCEPT ![f] = [session |-> s.session, asked |-> newest]]

connect(s) ==
  CASE s.stopped -> s
    [] s.socket = "works" -> [s EXCEPT !.ws = "connecting"]
    [] OTHER -> startPolling(s)

streamEvents(socket, hasFetch, filter) ==
  /\ ~stream.on
  /\ \E s \in {connect([Off EXCEPT !.on = TRUE, !.socket = socket, !.hasFetch = hasFetch, !.filter = filter])} :
       stream' = s /\ FirstPoll(s)
  /\ UNCHANGED <<lastSeenId, newest, handed>>

onopen ==
  /\ stream.ws = "connecting"
  /\ stream' = [stopPolling(stream) EXCEPT !.ws = "open", !.usingPolling = FALSE]
  /\ UNCHANGED <<lastSeenId, fetching, newest, handed>>

onmessage(e) ==
  /\ stream.ws = "open" /\ Handle({e})
  /\ UNCHANGED <<stream, lastSeenId, fetching, newest>>

onclose ==
  /\ stream.ws # "null" /\ stream.closes < MaxCloses
  /\ \E s \in {startPolling([stream EXCEPT !.ws = "null", !.closes = @ + 1])} :
       stream' = [s EXCEPT !.reconnectTimer = TRUE] /\ FirstPoll(s)
  /\ UNCHANGED <<lastSeenId, newest, handed>>

(* Mutant of Reconnect: the stream still counts as polling while the new socket connects. *)
Reconnect_polling ==
  /\ stream.reconnectTimer
  /\ stream' = connect([stopPolling(stream) EXCEPT !.reconnectTimer = FALSE])
  /\ UNCHANGED <<lastSeenId, fetching, newest, handed>>

Reconnect ==
  /\ stream.reconnectTimer
  /\ stream' = connect([stopPolling(stream) EXCEPT !.reconnectTimer = FALSE, !.usingPolling = FALSE])
  /\ UNCHANGED <<lastSeenId, fetching, newest, handed>>

(***************************************************************************)
(* The interval fires, whatever is in flight.  An answer is read with the  *)
(* lastSeenId of its session, and read even when the stream has been       *)
(* stopped since.                                                          *)
(***************************************************************************)
Poll(f) ==
  /\ stream.pollTimer /\ fetching[f] = NoFetch
  /\ fetching' = [fetching EXCEPT ![f] = [session |-> stream.session, asked |-> newest]]
  /\ UNCHANGED <<stream, lastSeenId, newest, handed>>

PollAnswered(f) ==
  /\ fetching[f] # NoFetch
  /\ \E n \in fetching[f].asked..newest : LET seen == lastSeenId[fetching[f].session] IN
       /\ Handle({[type |-> "proposal_created", id |-> i] :
                    i \in {j \in FirstId..n : seen # 0 => ~NotAfter(j, seen)}})
       /\ lastSeenId' = [lastSeenId EXCEPT ![fetching[f].session] = n]
  /\ fetching' = [fetching EXCEPT ![f] = NoFetch]
  /\ UNCHANGED <<stream, newest>>

FetchFails(f) ==
  /\ fetching[f] # NoFetch /\ fetching' = [fetching EXCEPT ![f] = NoFetch]
  /\ UNCHANGED <<stream, lastSeenId, newest, handed>>

unsubscribe ==
  /\ stream.on /\ ~stream.stopped
  /\ stream' = [stopPolling(stream) EXCEPT !.stopped = TRUE, !.reconnectTimer = FALSE, !.ws = "null"]
  /\ UNCHANGED <<lastSeenId, fetching, newest, handed>>

NewProposal == newest < LastId /\ newest' = newest + 1 /\ UNCHANGED <<stream, lastSeenId, fetching, handed>>

StreamNext ==
  \/ \E socket \in Sockets, hasFetch \in BOOLEAN, filter \in Filters : streamEvents(socket, hasFetch, filter)
  \/ onopen \/ onclose \/ Reconnect \/ unsubscribe \/ NewProposal
  \/ \E type \in {"proposal_created", "vote_cast"} : onmessage([type |-> type, id |-> newest])
  \/ \E f \in Fetches : Poll(f) \/ PollAnswered(f) \/ FetchFails(f)

(***************************************************************************)
(* One source of events: a stream that has not been stopped is polling     *)
(* exactly while it has no socket, so that however its socket callbacks    *)
(* and timers interleave it is neither left without a source nor fed by    *)
(* both; a stopped one keeps neither, nor a timer that would bring one     *)
(* back.  ("Falls back to polling GET /proposals if WebSocket is           *)
(* unavailable", streamEvents.ts:85.)                                      *)
(***************************************************************************)
OneSource ==
  /\ stream.on /\ stream.hasFetch => (stream.pollTimer <=> ~stream.stopped /\ stream.ws = "null")
  /\ stream.stopped => stream.ws = "null" /\ ~stream.pollTimer /\ ~stream.reconnectTimer
=============================================================================
