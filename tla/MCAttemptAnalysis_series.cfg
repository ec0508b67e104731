\* A sequential driver and a pool of two threads, over two slots of two
\* attempts; one ledger append may fail.
CONSTANTS
    first = first
    second = second
    Drivers <- Two
    NumJobs = 2
    MaxAttempts = 2
    Workers <- Mixed
    MaxFaults = 1
SPECIFICATION JointSpec
INVARIANTS
    SoleOwner
    NothingInDoubt
    LaunchedAhead
    FinishedIsAnalysable
    AnalysisIsSound
