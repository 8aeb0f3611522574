SPECIFICATION Spec
CONSTANTS
    t1 = t1
    t2 = t2
    g1 = g1
    g2 = g2
    Thread = {t1, t2}
    Group = {g1}
    Member = {1, 2}
    Topic = {1}
    partition_count <- OneTopic
    NoGroup = NoGroup
    None = None
    kMaxActiveGroups = 1
    kMaxMembersPerGroup = 1
    MaxGeneration = 1
    MaxCommits = 2
    MaxConfigs = 1
CHECK_DEADLOCK FALSE
INVARIANTS DeletedOffsetsGone
SYMMETRY Symmetry
