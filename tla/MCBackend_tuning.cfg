SPECIFICATION Spec
CONSTANTS
  Services = {"tuning"}
  RewardAdmins = {"relayer", "governor", "other"}
  RewardVoters = {1, 2}
  RewardWeight <- MCRewardWeight
  EPOCH_BUDGET = 6
  InitialPool = 8
  EpochLength = 2
  LastRewardLedger = 4
  MaxPublishProposals = 2
  MaxRewardStops = 1
  LoggedEvents <- MCLoggedEvents
  NewRules <- MCNewRules
  RuleIds = {1, 2}
  EVENT_BATCH_SIZE = 2
  RETRY_BATCH_SIZE = 1
  MAX_RETRIES = 2
  ProposalEnd = 2
  MaxLogged = 1
  MaxDeliveries = 2
  MaxNotifTime = 1
  MaxNotifStops = 1
  MaxNotifRequests = 2
  RelayRequests = {"q1", "q2"}
  RelayBodies <- MCRelayBodies
  RELAYER_DAILY_PERMIT_LIMIT = 2
  MaxRelays = 4
  SignalVoters = {1, 2}
  PollChoices = {0, 1}
  SnapshotPower <- MCSnapshotPower
  MAX_ANCHOR_ATTEMPTS = 2
  MaxPollReads = 1
  Replicas = {"r1", "r2"}
  TuneConfigs <- MCTuneConfigs
  VoteSteps = {1, 3}
  StartQuorum = 400
  StartThreshold = 100
  MaxSnapshots = 3
  MaxRecommendations = 2
  MaxTuneChanges = 1
  StreamIds = {1, 2, 3}
  PAGE_SIZE = 2
  MaxStreamFailures = 1
  MaxAccruals = 2
INVARIANT OneAutoProposalInFlight
CHECK_DEADLOCK FALSE
