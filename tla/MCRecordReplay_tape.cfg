SPECIFICATION EvidenceSpec
CONSTANTS
    Agents = 2
    Rounds = 2
    Prompts = {p1, p2}
    Texts = {t1}
    Retries = 1
    MaxFaults = 1
    Caching = {TRUE, FALSE}
    Variants <- MCVariants
    Differences <- MCDifferences
INVARIANTS
    AttemptsExplainAnswers
    LoadsWhatIsWhole
    ServesTheTape
    DecisionsAreOnTape
    EvidenceCloses
SYMMETRY Symmetry
