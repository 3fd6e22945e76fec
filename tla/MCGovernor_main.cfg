CONSTANTS
    a1 = a1
    a2 = a2
    Accounts = {a1}
    Admin = a1
    GovernorAddr = gov
    TimelockAdmin = deployer
    Power <- OnePower
    Supply = 2
    Batched = {1}
    Subs = {1, 2}
    InitialSettings <- Ruled
    Settings <- NoChange
    Strategies = {}
    Prices = {0}
    TokenUnit = 1
    Multipliers = {10000}
    SecondsPerLedger = 5
    Delays = {10}
    Windows = {5}
    LedgerTimes = {5, 10}
    MaxProposals = 2
    MaxTime = 80
    MaxLedger = 7
    LastProposal = 3
    None = None
SPECIFICATION FairSpec
INVARIANTS TimelockAgrees ScoredOnce VetoUntilReady
PROPERTIES ImplementsProposalLifecycle EventuallyDecided
CHECK_DEADLOCK FALSE
