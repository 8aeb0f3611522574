SPECIFICATION FairSpec
CONSTANTS
    t1 = t1
    t2 = t2
    a = a
    b = b
    c = c
    o1 = o1
    o2 = o2
    Thread = {t1, t2}
    Name = {a, b}
    Owner = {o1, o2}
    Nobody = Nobody
    lock_ttl = 1
    max_locks = 1
    MaxTime = 3
    MaxCalls = 4
    MaxShutdowns = 1
CHECK_DEADLOCK FALSE
INVARIANTS TypeOK TableBounded
PROPERTIES ImplementsLockService FencedForGood SilentOwnerLoses
