SPECIFICATION FairSpec
CONSTANTS
    t1 = t1
    t2 = t2
    a = a
    Thread = {t1, t2}
    TxnId = {a}
    NoEntry = NoEntry
    None = None
    kMaxEpoch = 1
    StartFirst = TRUE
    MaxPid = 4
    MaxCalls = 4
    MaxStarts = 1
CHECK_DEADLOCK FALSE
INVARIANTS TypeOK PidsResolve OneEpochPerTransaction NoneUncounted
PROPERTIES TimedOutAborted
