------------------------------ MODULE Signaling ------------------------------
(***************************************************************************)
(* Gasless signaling polls of the backend (routes/signaling.ts,            *)
(* signaling/tally.ts, signaling/signature.ts, jobs/signal-anchor.ts).     *)
(* Votes are checked and then inserted, tallies read every voter's power   *)
(* from the chain and write it back, and a job finalizes the polls that    *)
(* are over and anchors the hash of their result.                          *)
(***************************************************************************)
EXTENDS Integers, Sequences, FiniteSetsExt

CONSTANTS
  SignalVoters,
  PollChoices,         \* 0..n-1
  SnapshotPower,       \* by voter, the voting power at the snapshot ledger
  MAX_ANCHOR_ATTEMPTS,
  MaxPollReads         \* result requests and failed power reads

VARIABLES
  poll,       \* signaling_polls: the poll, with ended for end_time <= NOW()
  signals,    \* signaling_votes by voter: [choice, power], power Unread while NULL
  ballots,    \* by voter, a vote that passed its checks and is not inserted
  tallying,   \* by "job" and "request", the tally being computed
  anchors,    \* the signal-anchor contract: hashes submitted
  resultCache,\* the cached answer of GET results, or NoResult
  pollReads

pollVars == <<poll, signals, ballots, tallying, anchors, resultCache, pollReads>>

Unread == -1
NoResult == << >>
NoTally == [pc |-> "none", votes |-> << >>, powers |-> << >>]
PollInit ==
  /\ poll = [exists |-> FALSE, ended |-> FALSE, finalized |-> FALSE, hash |-> NoResult, tx |-> FALSE, attempts |-> 0, waiting |-> FALSE]
  /\ signals = << >> /\ ballots = << >>
  /\ tallying = [w \in {"job", "request"} |-> NoTally]
  /\ anchors = << >> /\ resultCache = NoResult /\ pollReads = 0

\* POST /signaling/polls: enough power, and a snapshot that is not in the future.
postPoll(power, threshold, snapshot, ledger) ==
  /\ ~poll.exists
  /\ power >= threshold /\ snapshot <= ledger
  /\ poll' = [poll EXCEPT !.exists = TRUE]
  /\ UNCHANGED <<signals, ballots, tallying, anchors, resultCache, pollReads>>
PollEnds ==
  /\ poll.exists /\ ~poll.ended
  /\ poll' = [poll EXCEPT !.ended = TRUE]
  /\ UNCHANGED <<signals, ballots, tallying, anchors, resultCache, pollReads>>

\* POST vote: the window, the choice and the signature are checked ...
checkVote(v, choice, signer) ==
  /\ poll.exists /\ ~poll.ended /\ v \notin DOMAIN ballots
  /\ choice \in PollChoices /\ signer = v
  /\ ballots' = [x \in DOMAIN ballots \cup {v} |-> IF x = v THEN choice ELSE ballots[x]]
  /\ UNCHANGED <<poll, signals, tallying, anchors, resultCache, pollReads>>
\* ... and then the row is inserted, once per voter.
castVote(v) ==
  /\ v \in DOMAIN ballots
  /\ ballots' = [x \in DOMAIN ballots \ {v} |-> ballots[x]]
  /\ IF v \in DOMAIN signals THEN UNCHANGED <<signals, resultCache>>
     ELSE /\ signals' = [x \in DOMAIN signals \cup {v} |->
                           IF x = v THEN [choice |-> ballots[v], power |-> Unread] ELSE signals[x]]
          /\ resultCache' = NoResult
  /\ UNCHANGED <<poll, tallying, anchors, pollReads>>

---------------------------------------------------------------------------
\* computeWeightedTally: the rows, then the powers, then the write-back.

Totals(votes, powers) ==
  [c \in PollChoices |-> MapThenSumSet(LAMBDA v : powers[v], {v \in DOMAIN powers : votes[v] = c})]
StartTally(w) == tallying' = [tallying EXCEPT ![w] = [pc |-> "powers", votes |-> [v \in DOMAIN signals |-> signals[v].choice],
                                                     powers |-> << >>]]
\* A power that cannot be read leaves its voter out of the tally.
getVotingPowerAtLedger(w) ==
  /\ tallying[w].pc = "powers"
  /\ \E read \in {DOMAIN tallying[w].votes} \cup
                 (IF pollReads < MaxPollReads THEN {DOMAIN tallying[w].votes \ {v} : v \in DOMAIN tallying[w].votes} ELSE {}) :
       /\ tallying' = [tallying EXCEPT ![w].pc = "write", ![w].powers = [v \in read |-> SnapshotPower[v]]]
       /\ pollReads' = IF read = DOMAIN tallying[w].votes THEN pollReads ELSE pollReads + 1
  /\ UNCHANGED <<poll, signals, ballots, anchors, resultCache>>
WriteBack(w) == signals' = [v \in DOMAIN signals |-> IF v \in DOMAIN tallying[w].powers
                                                    THEN [signals[v] EXCEPT !.power = tallying[w].powers[v]] ELSE signals[v]]
computeResultHash(w) == Totals(tallying[w].votes, tallying[w].powers)

\* GET results: the cache, the stored powers of a finalized poll, or a tally.
StoredTotals ==
  Totals([v \in DOMAIN signals |-> signals[v].choice],
         [v \in {x \in DOMAIN signals : signals[x].power # Unread} |-> signals[v].power])
getResults ==
  /\ poll.exists /\ resultCache = NoResult /\ tallying["request"] = NoTally /\ pollReads < MaxPollReads
  /\ pollReads' = pollReads + 1
  /\ IF poll.finalized THEN resultCache' = StoredTotals /\ UNCHANGED tallying
                       ELSE StartTally("request") /\ UNCHANGED resultCache
  /\ UNCHANGED <<poll, signals, ballots, anchors>>
finishResults ==
  /\ tallying["request"].pc = "write"
  /\ WriteBack("request") /\ resultCache' = computeResultHash("request")
  /\ tallying' = [tallying EXCEPT !["request"] = NoTally]
  /\ UNCHANGED <<poll, ballots, anchors, pollReads>>
resultsExpire ==
  /\ resultCache # NoResult /\ resultCache' = NoResult
  /\ UNCHANGED <<poll, signals, ballots, tallying, anchors, pollReads>>

---------------------------------------------------------------------------
\* The job: finalizeEndedPolls.

finalizeEndedPolls ==
  /\ poll.ended /\ ~poll.finalized /\ ~poll.waiting /\ tallying["job"] = NoTally
  /\ StartTally("job")
  /\ UNCHANGED <<poll, signals, ballots, anchors, resultCache, pollReads>>
jobWritesBack ==
  /\ tallying["job"].pc = "write"
  /\ WriteBack("job")
  /\ tallying' = [tallying EXCEPT !["job"].pc = "anchor"]
  /\ UNCHANGED <<poll, ballots, anchors, resultCache, pollReads>>
\* Mutant of anchorOnChain: a failed attempt is not counted.
anchorOnChain_uncounted ==
  /\ tallying["job"].pc = "anchor"
  /\ \/ /\ anchors' = Append(anchors, computeResultHash("job"))
        /\ tallying' = [tallying EXCEPT !["job"].pc = "anchored"] /\ UNCHANGED <<poll, resultCache>>
     \/ /\ poll' = [poll EXCEPT !.hash = computeResultHash("job"), !.waiting = TRUE]
        /\ tallying' = [tallying EXCEPT !["job"] = NoTally] /\ resultCache' = NoResult /\ UNCHANGED anchors
  /\ UNCHANGED <<signals, ballots, pollReads>>
\* The hash is sent, or the attempt fails: it is retried after a while, and the
\* poll is finalized without it when the attempts are used up.
anchorOnChain ==
  /\ tallying["job"].pc = "anchor"
  /\ \/ /\ anchors' = Append(anchors, computeResultHash("job"))
        /\ tallying' = [tallying EXCEPT !["job"].pc = "anchored"]
        /\ UNCHANGED <<poll, resultCache>>
     \/ /\ IF poll.attempts + 1 >= MAX_ANCHOR_ATTEMPTS
           THEN tallying' = [tallying EXCEPT !["job"].pc = "unanchored"] /\ UNCHANGED <<poll, resultCache>>
           ELSE /\ poll' = [poll EXCEPT !.hash = computeResultHash("job"), !.attempts = @ + 1, !.waiting = TRUE]
                /\ tallying' = [tallying EXCEPT !["job"] = NoTally]
                /\ resultCache' = NoResult
        /\ UNCHANGED anchors
  /\ UNCHANGED <<signals, ballots, pollReads>>
Finalize ==
  /\ tallying["job"].pc \in {"anchored", "unanchored"}
  /\ poll' = [poll EXCEPT !.finalized = TRUE, !.hash = computeResultHash("job"), !.tx = tallying["job"].pc = "anchored"]
  /\ tallying' = [tallying EXCEPT !["job"] = NoTally]
  /\ resultCache' = NoResult
  /\ UNCHANGED <<signals, ballots, anchors, pollReads>>
backoffPasses ==
  /\ poll.waiting /\ poll' = [poll EXCEPT !.waiting = FALSE]
  /\ UNCHANGED <<signals, ballots, tallying, anchors, resultCache, pollReads>>

PollNext ==
  \/ \E power, threshold, snapshot, ledger \in 0..1 : postPoll(power, threshold, snapshot, ledger)
  \/ PollEnds
  \/ \E v, signer \in SignalVoters, c \in PollChoices : checkVote(v, c, signer)
  \/ \E v \in SignalVoters : castVote(v)
  \/ \E w \in {"job", "request"} : getVotingPowerAtLedger(w)
  \/ getResults \/ finishResults \/ resultsExpire
  \/ finalizeEndedPolls \/ jobWritesBack \/ anchorOnChain \/ Finalize \/ backoffPasses
\* What the job's interval and awaits drive on, and the back-off's end.
PollJob ==
  finalizeEndedPolls \/ getVotingPowerAtLedger("job") \/ jobWritesBack \/ anchorOnChain \/ Finalize \/ backoffPasses

---------------------------------------------------------------------------
\* A poll that is over is finalized in the end, however often the chain refuses
\* the anchor (finalizeEndedPolls, MAX_ANCHOR_ATTEMPTS).
PollSettles == poll.ended ~> poll.finalized

\* The results served for a finalized poll are the ones whose hash it carries:
\* the published result can't be silently edited afterward (jobs/signal-anchor.ts).
PublishedResultStands == poll.finalized => StoredTotals = poll.hash
=============================================================================
