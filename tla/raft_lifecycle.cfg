SPECIFICATION Spec
CONSTANTS
    n1 = n1
    n2 = n2
    n3 = n3
    Node = {n1, n2, n3}
    kNoLeader = kNoLeader
    InitialMembers = {n1, n2, n3}
    UserCommand = {}
    ConfigChange = {}
    enable_pre_vote = FALSE
    rpc_queue_capacity = 1
    max_entries = 1
    kMaxHeartbeatFailures = 1
    kTransferMaxRounds = 1
    MaxTerm = 2
    MaxLog = 3
    MaxTimeouts = 2
    MaxTicks = 0
    MaxMsgs = 0
    MaxRestarts = 0
    MaxShutdowns = 1
    MaxFaults = 1
    MaxDuplicates = 0
    MaxTransfers = 1
SYMMETRY Symmetry
CHECK_DEADLOCK FALSE
INVARIANTS TrackingMatchesRole
