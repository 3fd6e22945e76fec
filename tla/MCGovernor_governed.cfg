CONSTANTS
    a1 = a1
    a2 = a2
    Accounts = {a1, a2}
    Admin = a1
    GovernorAddr = gov
    TimelockAdmin = deployer
    Power <- TwoPower
    Supply = 5
    Batched = {}
    Subs = {1}
    InitialSettings <- SealedNow
    Settings <- Reform
    Strategies = {5000}
    Prices = {1}
    TokenUnit = 1
    Multipliers = {10000}
    SecondsPerLedger = 5
    Delays = {5}
    Windows = {5}
    LedgerTimes = {5}
    MaxProposals = 1
    MaxTime = 40
    MaxLedger = 3
    LastProposal = 0
    None = None
SPECIFICATION GovernedSpec
INVARIANTS TalliesMatchReceipts BallotsBinding DecidedByVote
PROPERTY NoCommitAfterReveal
CHECK_DEADLOCK FALSE
