\* A single block and a single candidate are enough.
SPECIFICATION Spec
CONSTANTS
    MaxBlocks = 1
    MaxCandidates = 1
    Mortal = {}
INVARIANT
    OfferIsSent
CHECK_DEADLOCK FALSE
