SPECIFICATION BistSpec
CONSTANTS
    Cols = 6
    Rows = 2
    Starts = {0, 4, 11}
    tRESET = 2
    tCL = 3
    tRP = 4
    tRFC = 4
    tRCD = 2
    tREFI = 22
    tWR = 2
    CtrSize = 64
    Faulty = {{}, {11}}
INVARIANTS BistTypeOK RightWord NoStrayStrobe LegalCommand RefreshBounded
PROPERTIES Verdict TestEnds
