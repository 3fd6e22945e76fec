---------------------------- MODULE Notifications ----------------------------
(***************************************************************************)
(* The notification engine of the backend (notifications/engine, rules,    *)
(* jobs/notification-processor, jobs/delivery-retry, routes/notifications).*)
(* The processor reads the indexer's event_log behind a cursor; it, the    *)
(* retry job and the requests deliver through one routine, whose send and  *)
(* whose bookkeeping are two steps.                                        *)
(***************************************************************************)
EXTENDS Integers, Sequences, SequencesExt, FiniteSetsExt

CONSTANTS
  LoggedEvents,     \* events the indexer may log: records [type, about, amount]
  NewRules,         \* rules a user may post: records [trigger, on, limit, channels, enabled, cooldown]; the
                    \* channels are a sequence of names, the cooldown a time
  RuleIds,
  EVENT_BATCH_SIZE, RETRY_BATCH_SIZE, MAX_RETRIES,
  ProposalEnd,      \* the end ledger of the open proposal
  MaxLogged, MaxDeliveries, MaxNotifTime, MaxNotifStops, MaxNotifRequests

ASSUME NotifAssumption ==
  /\ \A rule \in NewRules : rule.channels \in Seq(STRING) /\ rule.cooldown \in Nat
  /\ EVENT_BATCH_SIZE \in Nat

VARIABLES
  eventLog,      \* event_log: the event with id i is eventLog[i]
  rules,         \* notification_rules by id
  deliveries,    \* notification_deliveries; a row deleted with its rule has status "deleted"
  inbox,         \* in_app_notifications: how many are unread
  notifCursor,   \* notification_event_cursor
  notifTime,     \* the clock, and the ledger
  processor,     \* the tick of the processor in progress
  attempt,       \* by worker, the delivery it is attempting
  dueRows,       \* the rows the retry job still has to try
  notifHistory   \* what the properties need to know: failed evaluations, stops, requests

notifVars == <<eventLog, rules, deliveries, inbox, notifCursor, notifTime, processor, attempt, dueRows, notifHistory>>

---------------------------------------------------------------------------
\* Which rules an event fires.

TRIGGER_TYPES ==
  {"proposal_created", "proposal_state_changed", "proposal_vote_threshold", "proposal_ending_soon", "vote_cast",
   "guardian_veto", "treasury_stream_spend", "config_updated", "contract_paused", "contract_upgraded",
   "delegation_received", "delegation_lost", "quorum_reached"}
EVENT_TYPE_TO_TRIGGER ==
  [ProposalCreated |-> "proposal_created", VoteCast |-> "vote_cast", VoteCastWithReason |-> "vote_cast",
   ConfigUpdated |-> "config_updated", GovernorUpgraded |-> "contract_upgraded",
   DelegationRegistered |-> "delegation_received", DelegationRevoked |-> "delegation_lost",
   stream_spend |-> "treasury_stream_spend", stream_batch |-> "treasury_stream_spend"]
STATE_CHANGE_EVENTS == [ProposalQueued |-> "Queued", ProposalExecuted |-> "Executed", ProposalCancelled |-> "Cancelled"]
resolveTriggerTypes(e) ==
  IF e.type \in DOMAIN STATE_CHANGE_EVENTS THEN {"proposal_state_changed"}
  ELSE IF e.type \in TRIGGER_TYPES THEN {e.type}
  ELSE {EVENT_TYPE_TO_TRIGGER[t] : t \in {e.type} \cap DOMAIN EVENT_TYPE_TO_TRIGGER}

\* A filter that is not set ("any") matches every event.
ruleMatchesEvent(rule, e) ==
  LET about == IF rule.trigger = "proposal_state_changed" THEN STATE_CHANGE_EVENTS[e.type] ELSE e.about
  IN  /\ rule.on \in {"any", about}
      /\ rule.trigger = "treasury_stream_spend" => e.amount >= rule.limit
      /\ rule.trigger = "proposal_ending_soon" => e.amount <= rule.limit
      /\ rule.trigger = "proposal_vote_threshold" => e.amount >= rule.limit
Fires(rule, e) == rule.enabled /\ rule.trigger \in resolveTriggerTypes(e) /\ ruleMatchesEvent(rule, e)
\* The rows as they are at the SELECT, which asks for no order: channels and
\* cooldown are judged by this copy.
matchRules(e) ==
  {[id |-> r, channels |-> rules[r].channels, cooldown |-> rules[r].cooldown, last |-> rules[r].last] :
     r \in {q \in DOMAIN rules : Fires(rules[q], e)}}
Never == -1
isInCooldown(rule) == rule.last # Never /\ notifTime - rule.last < rule.cooldown

---------------------------------------------------------------------------
Workers == {"processor", "retry", "request"}
NoRule == [id |-> 0, channels |-> << >>, cooldown |-> 0, last |-> Never]
NoAttempt == [row |-> 0, done |-> "none"]
\* The batch is next..last; `rule' is the copy whose channels are being delivered.
IdleProcessor == [pc |-> "idle", next |-> 0, last |-> 0, event |-> 0, matched |-> {}, rule |-> NoRule, channels |-> << >>]

NotifInit ==
  /\ eventLog = << >> /\ rules = << >> /\ deliveries = << >>
  /\ inbox = 0
  /\ notifCursor = 0 /\ notifTime = 0
  /\ processor = IdleProcessor
  /\ attempt = [w \in Workers |-> NoAttempt]
  /\ dueRows = << >>
  /\ notifHistory = [failed |-> {}, stops |-> 0, requests |-> 0]

IndexerLogs(e) ==
  /\ Len(eventLog) < MaxLogged
  /\ eventLog' = Append(eventLog, e)
  /\ UNCHANGED <<rules, deliveries, inbox, notifCursor, notifTime, processor, attempt, dueRows, notifHistory>>
NotifClock ==
  /\ notifTime < MaxNotifTime
  /\ notifTime' = notifTime + 1
  /\ UNCHANGED <<eventLog, rules, deliveries, inbox, notifCursor, processor, attempt, dueRows, notifHistory>>

---------------------------------------------------------------------------
\* One delivery.

Exists(row) == row \in DOMAIN deliveries /\ deliveries[row].status # "deleted"
recordDelivery(w, rule, event, channel) ==
  /\ deliveries' = Append(deliveries, [rule |-> rule, event |-> event, channel |-> channel, status |-> "pending",
                                       attempts |-> 0, due |-> Never])
  /\ attempt' = [attempt EXCEPT ![w] = [row |-> Len(deliveries'), done |-> "none"]]

\* The channel is called: it answers, or it fails or times out.
deliverInApp == inbox' = inbox + 1
Send(w) ==
  /\ attempt[w].row # 0 /\ attempt[w].done = "none"
  /\ \/ /\ attempt' = [attempt EXCEPT ![w].done = "ok"]
        /\ IF Exists(attempt[w].row) /\ deliveries[attempt[w].row].channel = "in_app" THEN deliverInApp
                                                                                       ELSE UNCHANGED inbox
     \/ attempt' = [attempt EXCEPT ![w].done = "error"] /\ UNCHANGED inbox
  /\ UNCHANGED <<eventLog, rules, deliveries, notifCursor, notifTime, processor, dueRows, notifHistory>>

enqueueRetry(row) ==
  LET n == row.attempts + 1
  IN  IF n >= MAX_RETRIES THEN [row EXCEPT !.attempts = n, !.status = "failed", !.due = Never]
      ELSE [row EXCEPT !.attempts = n, !.status = "retrying", !.due = notifTime + 2^row.attempts]
\* The row's UPDATE: no row, no change.
attemptDelivery(w) ==
  /\ attempt[w].done # "none"
  /\ LET row == attempt[w].row
     IN  deliveries' = IF ~Exists(row) THEN deliveries
                       ELSE [deliveries EXCEPT ![row] =
                               IF attempt[w].done = "ok"
                               THEN [@ EXCEPT !.status = "delivered", !.attempts = deliveries[row].attempts + 1]
                               ELSE enqueueRetry(@)]
  /\ attempt' = [attempt EXCEPT ![w] = NoAttempt]
  /\ UNCHANGED <<eventLog, rules, inbox, notifCursor, notifTime, processor, dueRows, notifHistory>>

---------------------------------------------------------------------------
\* The processor: tick, processNewEvents, evaluateEvent, checkProposalTimers.

Processing(pc) == processor.pc = pc /\ attempt["processor"] = NoAttempt
procRest == <<eventLog, inbox, notifTime, dueRows>>

\* The last event of the batch.
BatchEnd == IF notifCursor + EVENT_BATCH_SIZE <= Len(eventLog) THEN notifCursor + EVENT_BATCH_SIZE ELSE Len(eventLog)

\* Mutant of processNewEvents: the cursor moves before the batch is evaluated.
processNewEvents_eager ==
  /\ processor.pc = "idle"
  /\ LET last == BatchEnd
     IN  /\ processor' = [IdleProcessor EXCEPT !.pc = "event", !.next = notifCursor + 1, !.last = last]
         /\ notifCursor' = last
  /\ UNCHANGED <<procRest, rules, deliveries, attempt, notifHistory>>
processNewEvents ==
  /\ processor.pc = "idle"
  /\ LET last == BatchEnd
     IN  processor' = [IdleProcessor EXCEPT !.pc = "event", !.next = notifCursor + 1, !.last = last]
  /\ UNCHANGED <<procRest, rules, deliveries, notifCursor, attempt, notifHistory>>
setCursor ==
  /\ Processing("event") /\ processor.next > processor.last
  /\ notifCursor' = processor.last
  /\ processor' = [IdleProcessor EXCEPT !.pc = "timers"]
  /\ UNCHANGED <<procRest, rules, deliveries, attempt, notifHistory>>
EvaluateNext ==
  /\ Processing("event") /\ processor.next <= processor.last
  /\ processor' = [processor EXCEPT !.pc = "rule", !.event = processor.next, !.next = @ + 1,
                                    !.matched = matchRules(eventLog[processor.next])]
  /\ UNCHANGED <<procRest, rules, deliveries, notifCursor, attempt, notifHistory>>
\* proposal_ending_soon is evaluated against the ledger, with event id 0.
EndingSoon == [type |-> "proposal_ending_soon", about |-> "p", amount |-> ProposalEnd - notifTime]
checkProposalTimers ==
  /\ Processing("timers")
  /\ processor' =
       IF notifTime = 0 \/ notifTime >= ProposalEnd \/ \A r \in DOMAIN rules : ~Fires(rules[r], EndingSoon) THEN IdleProcessor
       ELSE [processor EXCEPT !.pc = "rule", !.event = 0, !.matched = matchRules(EndingSoon)]
  /\ UNCHANGED <<procRest, rules, deliveries, notifCursor, attempt, notifHistory>>

\* The end of an event's rules: the next event, or the end of the tick.
Proceed(p) == IF p.event = 0 THEN IdleProcessor ELSE [p EXCEPT !.pc = "event", !.matched = {}, !.rule = NoRule, !.channels = << >>]
evaluateEvent ==
  /\ Processing("rule")
  /\ \/ processor.matched = {} /\ processor' = Proceed(processor)
     \/ \E m \in processor.matched :
          processor' = IF isInCooldown(m) THEN [processor EXCEPT !.matched = @ \ {m}]
                       ELSE [processor EXCEPT !.pc = "channel", !.matched = @ \ {m}, !.rule = m, !.channels = m.channels]
  /\ UNCHANGED <<procRest, rules, deliveries, notifCursor, attempt, notifHistory>>
\* A rule deleted meanwhile makes the INSERT fail: the event's other rules are
\* given up with it.
deliverNotification ==
  /\ Processing("channel") /\ processor.channels # << >>
  /\ IF processor.rule.id \in DOMAIN rules
     THEN /\ Len(deliveries) < MaxDeliveries
          /\ recordDelivery("processor", processor.rule.id, processor.event, Head(processor.channels))
          /\ processor' = [processor EXCEPT !.channels = Tail(@)]
          /\ UNCHANGED notifHistory
     ELSE /\ notifHistory' = [notifHistory EXCEPT !.failed = @ \cup {processor.event}]
          /\ processor' = Proceed(processor)
          /\ UNCHANGED <<deliveries, attempt>>
  /\ UNCHANGED <<procRest, rules, notifCursor>>
RuleTriggered ==
  /\ Processing("channel") /\ processor.channels = << >>
  /\ rules' = [r \in DOMAIN rules |-> IF r = processor.rule.id THEN [rules[r] EXCEPT !.last = notifTime] ELSE rules[r]]
  /\ processor' = [processor EXCEPT !.pc = "rule", !.rule = NoRule]
  /\ UNCHANGED <<procRest, deliveries, notifCursor, attempt, notifHistory>>

---------------------------------------------------------------------------
\* The retry job.

Due == {i \in DOMAIN deliveries : Exists(i) /\ deliveries[i].status = "retrying" /\ deliveries[i].due <= notifTime}
RetryTick ==
  /\ dueRows = << >> /\ attempt["retry"] = NoAttempt /\ Due # {}
  /\ LET due == SetToSortSeq(Due, LAMBDA a, b : deliveries[a].due < deliveries[b].due \/
                                                 (deliveries[a].due = deliveries[b].due /\ a < b))
         batch == SubSeq(due, 1, Min({RETRY_BATCH_SIZE, Len(due)}))
     IN  dueRows' = [i \in DOMAIN batch |->
                       [row |-> batch[i], kept |-> Contains(rules[deliveries[batch[i]].rule].channels, deliveries[batch[i]].channel)]]
  /\ UNCHANGED <<eventLog, rules, deliveries, inbox, notifCursor, notifTime, processor, attempt, notifHistory>>
\* A channel that the rule had dropped by the SELECT fails the row.
processDueRetries ==
  /\ dueRows # << >> /\ attempt["retry"] = NoAttempt
  /\ LET due == Head(dueRows)
     IN  IF due.kept
         THEN attempt' = [attempt EXCEPT !["retry"] = [row |-> due.row, done |-> "none"]] /\ UNCHANGED deliveries
         ELSE /\ deliveries' = IF Exists(due.row) THEN [deliveries EXCEPT ![due.row].status = "failed", ![due.row].due = Never]
                                                  ELSE deliveries
              /\ UNCHANGED attempt
  /\ dueRows' = Tail(dueRows)
  /\ UNCHANGED <<eventLog, rules, inbox, notifCursor, notifTime, processor, notifHistory>>

---------------------------------------------------------------------------
\* The requests.

notifRequestRest == <<eventLog, notifCursor, notifTime, processor, dueRows>>
Request ==
  /\ notifHistory.requests < MaxNotifRequests
  /\ notifHistory' = [notifHistory EXCEPT !.requests = @ + 1]
\* A row, and how long the log was when it was written.
Row(rule, last) ==
  [trigger |-> rule.trigger, on |-> rule.on, limit |-> rule.limit, channels |-> rule.channels, enabled |-> rule.enabled,
   cooldown |-> rule.cooldown, last |-> last, since |-> Len(eventLog)]
postRule(r, rule) ==
  /\ r \notin DOMAIN rules /\ \A i \in DOMAIN deliveries : Exists(i) => deliveries[i].rule # r
  /\ \A q \in RuleIds : q < r => q \in DOMAIN rules
  /\ rules' = [q \in DOMAIN rules \cup {r} |-> IF q = r THEN Row(rule, Never) ELSE rules[q]]
  /\ Request
  /\ UNCHANGED <<notifRequestRest, deliveries, inbox, attempt>>
putRule(r, rule) ==
  /\ r \in DOMAIN rules
  /\ rules' = [rules EXCEPT ![r] = Row(rule, @.last)]
  /\ rules[r].channels # rule.channels
  /\ Request
  /\ UNCHANGED <<notifRequestRest, deliveries, inbox, attempt>>
\* Its deliveries go with it.
deleteRule(r) ==
  /\ r \in DOMAIN rules
  /\ rules' = [q \in DOMAIN rules \ {r} |-> rules[q]]
  /\ deliveries' = [i \in DOMAIN deliveries |-> IF deliveries[i].rule = r THEN [deliveries[i] EXCEPT !.status = "deleted"] ELSE deliveries[i]]
  /\ Request
  /\ UNCHANGED <<notifRequestRest, inbox, attempt>>
testRule(r) ==
  /\ r \in DOMAIN rules /\ attempt["request"] = NoAttempt /\ Len(deliveries) < MaxDeliveries
  /\ \E c \in {rules[r].channels[i] : i \in DOMAIN rules[r].channels} : recordDelivery("request", r, 0, c)
  /\ Request
  /\ UNCHANGED <<notifRequestRest, rules, inbox>>
\* Only a failed or retrying delivery whose channel the rule still has.
retryDelivery(row) ==
  /\ Exists(row) /\ attempt["request"] = NoAttempt
  /\ deliveries[row].status \in {"failed", "retrying"} /\ deliveries[row].attempts <= MAX_RETRIES
  /\ Contains(rules[deliveries[row].rule].channels, deliveries[row].channel)
  /\ attempt' = [attempt EXCEPT !["request"] = [row |-> row, done |-> "none"]]
  /\ Request
  /\ UNCHANGED <<notifRequestRest, rules, deliveries, inbox>>
markInboxRead ==
  /\ inbox > 0
  /\ inbox' = inbox - 1
  /\ UNCHANGED <<notifRequestRest, notifHistory, rules, deliveries, attempt>>
markAllInboxRead ==
  /\ inbox > 0
  /\ inbox' = 0
  /\ UNCHANGED <<notifRequestRest, notifHistory, rules, deliveries, attempt>>

\* The process stops and starts again: its ticks and requests are gone.
NotifRestart ==
  /\ notifHistory.stops < MaxNotifStops
  /\ notifHistory' = [notifHistory EXCEPT !.stops = @ + 1]
  /\ processor' = IdleProcessor /\ dueRows' = << >>
  /\ attempt' = [w \in Workers |-> NoAttempt]
  /\ UNCHANGED <<eventLog, rules, deliveries, inbox, notifCursor, notifTime>>

NotifNext ==
  \/ \E e \in LoggedEvents : IndexerLogs(e)
  \/ NotifClock \/ processNewEvents \/ setCursor \/ EvaluateNext \/ checkProposalTimers \/ evaluateEvent
  \/ deliverNotification \/ RuleTriggered \/ RetryTick \/ processDueRetries
  \/ \E w \in Workers : Send(w) \/ attemptDelivery(w)
  \/ \E r \in RuleIds : deleteRule(r) \/ testRule(r) \/ \E rule \in NewRules : postRule(r, rule) \/ putRule(r, rule)
  \/ \E row \in DOMAIN deliveries : retryDelivery(row)
  \/ markInboxRead \/ markAllInboxRead \/ NotifRestart

---------------------------------------------------------------------------
\* No event is lost, whatever the crashes: a rule as old as the event that the
\* event fires has a delivery of it on every channel once the cursor is past it,
\* unless the rule was cooling down or the evaluation failed
\* (processNewEvents, evaluateEvent, setCursor).
NotifiedAtLeastOnce ==
  \A i \in 1..notifCursor : \A r \in DOMAIN rules :
    rules[r].since < i /\ Fires(rules[r], eventLog[i]) /\ i \notin notifHistory.failed =>
      \/ rules[r].cooldown > 0 /\ rules[r].last # Never
      \/ \A c \in DOMAIN rules[r].channels : \E d \in DOMAIN deliveries :
           Exists(d) /\ deliveries[d].rule = r /\ deliveries[d].event = i /\ deliveries[d].channel = rules[r].channels[c]
=============================================================================
