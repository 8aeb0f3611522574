SPECIFICATION FairSpec
CONSTANTS
    t1 = t1
    t2 = t2
    g1 = g1
    g2 = g2
    Thread = {t1}
    Group = {g1}
    Member = {1, 2, 3}
    Topic = {1, 2, 3}
    partition_count <- ThreeTopics
    NoGroup = NoGroup
    None = None
    kMaxActiveGroups = 1
    kMaxMembersPerGroup = 3
    MaxGeneration = 3
    MaxCommits = 0
    MaxConfigs = 0
CHECK_DEADLOCK FALSE
INVARIANTS TypeOK OneLeader StableIsSynced GenerationIsMembership
PROPERTIES GenerationIsNew AssignmentIsFair SilentMemberRemoved
