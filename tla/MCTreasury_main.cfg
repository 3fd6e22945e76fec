CONSTANTS
    Addresses = {a, b, c}
    Governors = {g, h}
    Successors = {h}
    FirstGovernor = g
    Initializations <- SomeInitializations
    Amounts = {1}
    Reservations <- SomeReservations
    MaxAmount = 2
    DayLength = 1
    PendingExpiry = 0
    LedgerTimes = {0, 1}
    Caps <- SomeCaps
    Starts = {0}
    Ends = {1, 2}
    Cooldowns = {1}
    MaxTx = 1
    MaxStreams = 2
    MaxLedger = 2
    None = None
SYMMETRY AddressSymmetry
SPECIFICATION MCSpec
INVARIANTS
    EnoughSigners
    SlashRevokes
PROPERTIES
    CapKept
CHECK_DEADLOCK FALSE
