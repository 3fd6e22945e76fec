CONSTANTS
  Scenarios <- MCPublished
  Slots = {1, 2}
  PageLimit = 4
  SNAPSHOT_INTERVAL_LEDGERS = 2
SPECIFICATION Spec
PROPERTY ProposalsUpToDate
