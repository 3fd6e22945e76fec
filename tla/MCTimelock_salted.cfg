CONSTANTS
    OpIds = {o1, o2}
    BatchIds = {b1}
    Subs = {1, 2}
    Callers = {governor, admin, other}
    Governor = governor
    Admin = admin
    Delays = {1}
    Windows = {1}
    LedgerTimes = {1}
    RecoveryLedgers = 1
    MaxTime = 2
    MaxLedger = 2
    MaxRuns = 2
    MaxRetries = 1
    None = None
SYMMETRY OpSymmetry
SPECIFICATION SaltedSpec
INVARIANTS
    SingleOpExactlyOnce
    EffectsRespectDependencies
    DependenciesAcyclic
    RecoveryBookkeeping
PROPERTIES
    ImplementsLifecycle
