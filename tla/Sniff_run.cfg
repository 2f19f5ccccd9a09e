SPECIFICATION FairSpec
CONSTANTS
    NumTransfers = 1
    CutShort = TRUE
    Faults = {"transfer", "alloc", "submit", "write"}
    None = None
    MaxWire = 1
    MaxInterrupts = 1
INVARIANTS TypeOK NoUseAfterFree AnswersMatchUndisturbed
PROPERTIES CallReturns CloseReturns ExceptionEndsThread
\* A program whose communication thread has died may wait for ever.
CHECK_DEADLOCK FALSE
