CONSTANTS
  Scenarios <- MCScenarios
  Slots = {1, 2}
  PageLimit = 4
  SNAPSHOT_INTERVAL_LEDGERS = 2
SPECIFICATION Spec
INVARIANTS LogComplete ReplayConverges StreamProjectionCurrent FreshBetweenEvents
PROPERTIES EventuallyIndexed EventuallyFresh
