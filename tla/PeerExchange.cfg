\* Descriptions of up to three blocks, one more than the larger buffer holds.
SPECIFICATION FairSpec
CONSTANTS
    MaxBlocks = 3
    MaxCandidates = 2
    Mortal = {"offerer", "answerer"}
INVARIANTS
    TypeOK
    MutualWaitExplained
    CandidatesSettled
    ExchangeIsMutual
PROPERTIES
    ExchangeCompletes
CHECK_DEADLOCK FALSE
