CONSTANTS
    a = a
    b = b
    c = c
    p = p
    q = q
    Reads <- MCReads
    Preds <- MCPreds
    ScanOrder <- MCScanOrder
    Programs <- MCPrograms
    Cap = 2
    MaxEntries = 2
SPECIFICATION Spec
INVARIANTS HitsAreExact MemoIsInvisible CertainIsCertain
CHECK_DEADLOCK FALSE
