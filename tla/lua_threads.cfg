CONSTANTS
    Threads = {t1, t2, t3}
    Objects = {o1, o2}
    Nobody = Nobody
    None = None
    MAX_LUA_THREADS = 2
    MinBuckets = 2
    MaxCalls = 1
SPECIFICATION FairSpec
INVARIANTS
    PoolIsIdle
    OneScriptEach
PROPERTIES
    Resumed
CHECK_DEADLOCK FALSE
