SPECIFICATION Spec
CONSTANTS
  Args = {a1, a2}
  Missing = Missing
  MaxEvents = 2
  Uses = {"call", "subscription", "stream", "hook"}
  MaxAttempts = 3
  PollAttempts = 2
  MaxParts = 2
  MaxSequence = 1
  MaxLedger = 4
  MaxPerLedger = 2
  PageLimit = 2
  Polls = {1, 2}
  MaxCloses = 2
  Fetches = {1, 2}
INVARIANTS ConfirmedMeansApplied SpendsOnce NothingSkipped OneSource ShowsCurrent
PROPERTIES CallReturns LoadingEnds
CHECK_DEADLOCK FALSE
