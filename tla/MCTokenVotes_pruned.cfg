CONSTANTS
    a1 = a1
    a2 = a2
    a3 = a3
    Accounts = {a1, a2, a3}
    Holdings <- ThreeHoldings
    Amounts = {1}
    Splits <- UnevenSplits
    RawAccounts = {}
    RawVotes = {5}
    Signers = {}
    Limits = {0, 2}
    DefaultRetention = 1
    Retentions = {0}
    MaxChainWalk = 3
    InvalidateStep = 1
    MaxNonce = 2
    MaxLedger = 4
    MaxCalls = 4
    None = None
SPECIFICATION Spec
PROPERTY PruningKeepsTotals
CHECK_DEADLOCK FALSE
