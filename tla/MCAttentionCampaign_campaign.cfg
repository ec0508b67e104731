SPECIFICATION Spec
CONSTANTS
    States = 5
    Replicates = 1
    Workers = 2
    MarketRuns = 2
    Rounds = 2
    MaxFaults = 2
INVARIANTS
    ManifestIsBacked
    FailureAccountsClose
    FinishedIsComplete
