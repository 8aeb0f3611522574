SPECIFICATION RejoinSpec
CONSTANTS
    t1 = t1
    t2 = t2
    g1 = g1
    g2 = g2
    Thread = {t1}
    Group = {g1}
    Member = {1, 2}
    Topic = {1}
    partition_count <- OneTopic
    NoGroup = NoGroup
    None = None
    kMaxActiveGroups = 1
    kMaxMembersPerGroup = 2
    MaxGeneration = 2
    MaxCommits = 0
    MaxConfigs = 0
CHECK_DEADLOCK FALSE
INVARIANTS RejoinedFirst
