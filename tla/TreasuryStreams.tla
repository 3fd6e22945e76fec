--------------------------- MODULE TreasuryStreams ---------------------------
(***************************************************************************)
(* The treasury-streams executor of the backend                            *)
(* (jobs/treasury-streams-executor.ts, jobs/treasury-streams-plan.ts): a   *)
(* tick pages through the contract's active streams, reads what is due and *)
(* calls execute_stream; a failure is recorded and the stream rests until  *)
(* an operator clears it.                                                  *)
(***************************************************************************)
EXTENDS Integers, Sequences, SequencesExt, FiniteSetsExt

CONSTANTS
  StreamIds,       \* 1..n
  PAGE_SIZE,
  MaxStreamFailures, MaxAccruals

VARIABLES
  stream,         \* the contract's streams: [due, paused, cancelled]
  openFailures,   \* treasury_stream_failures not cleared
  streamTick,     \* the tick in progress
  inFlight,       \* streams with a submitted execute_stream
  streamFaults, accruals

streamVars == <<stream, openFailures, streamTick, inFlight, streamFaults, accruals>>

IdleTick == [pc |-> "idle", failed |-> {}, offset |-> 0, found |-> << >>, todo |-> << >>]
StreamInit ==
  /\ stream = [s \in StreamIds |-> [due |-> FALSE, paused |-> FALSE, cancelled |-> FALSE]]
  /\ openFailures = {} /\ streamTick = IdleTick /\ inFlight = {} /\ streamFaults = 0 /\ accruals = 0

---------------------------------------------------------------------------
\* The contract.

Accrue(s) ==
  /\ ~stream[s].due /\ accruals < MaxAccruals
  /\ stream' = [stream EXCEPT ![s].due = TRUE] /\ accruals' = accruals + 1
  /\ UNCHANGED <<openFailures, streamTick, inFlight, streamFaults>>
PauseOrResume(s) ==
  /\ accruals < MaxAccruals
  /\ stream' = [stream EXCEPT ![s].paused = ~@] /\ accruals' = accruals + 1
  /\ UNCHANGED <<openFailures, streamTick, inFlight, streamFaults>>
CancelStream(s) ==
  /\ ~stream[s].cancelled
  /\ stream' = [stream EXCEPT ![s].cancelled = TRUE]
  /\ UNCHANGED <<openFailures, streamTick, inFlight, streamFaults, accruals>>
\* The submitted transaction is applied; the executor does not look.
Applied(s) ==
  /\ s \in inFlight
  /\ inFlight' = inFlight \ {s}
  /\ stream' = IF stream[s].paused \/ stream[s].cancelled THEN stream ELSE [stream EXCEPT ![s].due = FALSE]
  /\ UNCHANGED <<openFailures, streamTick, streamFaults, accruals>>

---------------------------------------------------------------------------
\* A tick.

get_active_streams(offset, limit) ==
  LET active == SetToSortSeq({s \in StreamIds : ~stream[s].cancelled}, <)
  IN  SubSeq(active, offset + 1, Min({offset + limit, Len(active)}))
loadOpenFailureIds ==
  /\ streamTick.pc = "idle"
  /\ streamTick' = [IdleTick EXCEPT !.pc = "page", !.failed = openFailures]
  /\ UNCHANGED <<stream, openFailures, inFlight, streamFaults, accruals>>
\* Mutant of fetchActiveStreams: a full page ends the list.
fetchActiveStreams_first ==
  /\ streamTick.pc = "page"
  /\ LET page == get_active_streams(streamTick.offset, PAGE_SIZE)
     IN  streamTick' = [streamTick EXCEPT !.found = @ \o page, !.pc = "plan"]
  /\ UNCHANGED <<stream, openFailures, inFlight, streamFaults, accruals>>
fetchActiveStreams ==
  /\ streamTick.pc = "page"
  /\ LET page == get_active_streams(streamTick.offset, PAGE_SIZE)
     IN  streamTick' = [streamTick EXCEPT !.found = @ \o page, !.offset = @ + PAGE_SIZE,
                                          !.pc = IF Len(page) < PAGE_SIZE THEN "plan" ELSE "page"]
  /\ UNCHANGED <<stream, openFailures, inFlight, streamFaults, accruals>>
\* get_claimable_amount of every stream, then the plan.
selectExecutableStreams(found, failed) ==
  SelectSeq(found, LAMBDA s : ~stream[s].paused /\ ~stream[s].cancelled /\ stream[s].due /\ s \notin failed)
PlanStreams ==
  /\ streamTick.pc = "plan"
  /\ streamTick' = [streamTick EXCEPT !.pc = "execute", !.todo = selectExecutableStreams(streamTick.found, streamTick.failed)]
  /\ UNCHANGED <<stream, openFailures, inFlight, streamFaults, accruals>>
\* The submission is simulated first: what the contract refuses, and any other
\* error, is recorded as a failure.
executeOnChain ==
  /\ streamTick.pc = "execute" /\ streamTick.todo # << >>
  /\ LET s == Head(streamTick.todo)
     IN  \/ /\ ~stream[s].paused /\ ~stream[s].cancelled /\ stream[s].due
            /\ inFlight' = inFlight \cup {s} /\ UNCHANGED <<openFailures, streamFaults>>
         \/ /\ stream[s].paused \/ stream[s].cancelled \/ ~stream[s].due \/ streamFaults < MaxStreamFailures
            /\ openFailures' = openFailures \cup {s} /\ streamFaults' = streamFaults + 1 /\ UNCHANGED inFlight
  /\ streamTick' = [streamTick EXCEPT !.todo = Tail(@)]
  /\ UNCHANGED <<stream, accruals>>
EndTick ==
  /\ streamTick.pc = "execute" /\ streamTick.todo = << >>
  /\ streamTick' = IdleTick
  /\ UNCHANGED <<stream, openFailures, inFlight, streamFaults, accruals>>
\* A read that fails ends the tick.
FailTick ==
  /\ streamTick.pc \in {"page", "plan"} /\ streamFaults < MaxStreamFailures
  /\ streamTick' = IdleTick /\ streamFaults' = streamFaults + 1
  /\ UNCHANGED <<stream, openFailures, inFlight, accruals>>
\* An operator clears a failure.
ClearFailure(s) ==
  /\ s \in openFailures
  /\ openFailures' = openFailures \ {s}
  /\ UNCHANGED <<stream, streamTick, inFlight, streamFaults, accruals>>

StreamNext ==
  \/ \E s \in StreamIds : Accrue(s) \/ PauseOrResume(s) \/ CancelStream(s) \/ Applied(s) \/ ClearFailure(s)
  \/ loadOpenFailureIds \/ fetchActiveStreams \/ PlanStreams \/ executeOnChain \/ EndTick \/ FailTick
\* What the executor's interval and awaits drive on.
StreamJob == loadOpenFailureIds \/ fetchActiveStreams \/ PlanStreams \/ executeOnChain \/ EndTick

---------------------------------------------------------------------------
\* Every interval that falls due on a live stream is paid in the end, or the
\* stream rests on a failure an operator has to clear (executeDueStreams).
DueIsPaid ==
  \A s \in StreamIds : stream[s].due ~> ~stream[s].due \/ stream[s].paused \/ stream[s].cancelled \/ s \in openFailures
=============================================================================
