SPECIFICATION FairSpec
CONSTANTS
    FifoDepth = 2
    ChipDepth = 2
    MaxOwed = 3
INVARIANTS TypeOK NoContention
PROPERTIES DuplexSpec AnswerComes
