SPECIFICATION FairSpec
CONSTANTS
    t1 = t1
    t2 = t2
    a = a
    Thread = {t1}
    TxnId = {a}
    NoEntry = NoEntry
    None = None
    kMaxEpoch = 1
    StartFirst = TRUE
    MaxPid = 3
    MaxCalls = 3
    MaxStarts = 1
CHECK_DEADLOCK FALSE
PROPERTIES PreparedEnds
