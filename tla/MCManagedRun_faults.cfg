\* Two rounds of two agents, two result files; three faults reach every retry of fail.
CONSTANTS
    Rounds = 2
    Agents = 2
    Files = 2
    MaxFaults = 3
    FaultKinds = {"clean", "late"}
SPECIFICATION GateSpec
INVARIANTS
    AcceptedIsSealed
    FailedIsSealed
    AcceptedIsAccounted
    FailedPartitionsPlan
    CountsAreLogged
    ReuseIsSound
PROPERTIES
    ImplementsLifecycle
    Concludes
