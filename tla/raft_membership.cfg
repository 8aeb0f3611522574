SPECIFICATION Spec
CONSTANTS
    n1 = n1
    n2 = n2
    n3 = n3
    Node = {n1, n2, n3}
    kNoLeader = kNoLeader
    InitialMembers = {n1, n2}
    UserCommand = {}
    ConfigChange <- ReplaceMember
    enable_pre_vote = FALSE
    rpc_queue_capacity = 1
    max_entries = 4
    kMaxHeartbeatFailures = 1
    kTransferMaxRounds = 1
    MaxTerm = 3
    MaxLog = 4
    MaxTimeouts = 2
    MaxTicks = 2
    MaxMsgs = 0
    MaxRestarts = 1
    MaxShutdowns = 0
    MaxFaults = 0
    MaxDuplicates = 0
    MaxTransfers = 0
CHECK_DEADLOCK FALSE
INVARIANTS ConfigAgreement
