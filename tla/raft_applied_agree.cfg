SPECIFICATION Spec
CONSTANTS
    n1 = n1
    n2 = n2
    n3 = n3
    Node = {n1, n2, n3}
    kNoLeader = kNoLeader
    InitialMembers = {n1, n2, n3}
    UserCommand = {}
    ConfigChange = {}
    enable_pre_vote = FALSE
    rpc_queue_capacity = 1
    max_entries = 1
    kMaxHeartbeatFailures = 1
    kTransferMaxRounds = 1
    MaxTerm = 4
    MaxLog = 2
    MaxTimeouts = 3
    MaxTicks = 1
    MaxMsgs = 0
    MaxRestarts = 0
    MaxShutdowns = 0
    MaxFaults = 0
    MaxDuplicates = 0
    MaxTransfers = 0
SYMMETRY Symmetry
CHECK_DEADLOCK FALSE
INVARIANTS StateMachineSafety
