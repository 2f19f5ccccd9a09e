SPECIFICATION FairSpec
CONSTANTS
    Cap = 2
    MaxBytes = 2
INVARIANTS TypeOK NeverSpliced CleanIsComplete
PROPERTY Closes
