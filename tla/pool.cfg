CONSTANTS
    t1 = t1
    t2 = t2
    m1 = m1
    m2 = m2
    m3 = m3
    m4 = m4
    Threads = {t1, t2}
    Messages = {m1, m2, m3, m4}
    CacheLineSize = 2
    SizeOfPool = 3
    MessageSize = 1
    MessageCount = 2
    Null = null
    Data = data
    Free = free
SPECIFICATION Spec
INVARIANTS
    PoolInv
PROPERTIES
    FailsWhenEmpty
    ImplementsPool
SYMMETRY Symmetry
