\* Limits sharing one id with windows 1 and 2, next to a simple limit, with
\* delete_limit: a value set cached before the second window was registered.
CONSTANTS
    t1 = t1  t2 = t2  l1 = l1  l2 = l2  l3 = l3  u1 = u1  u2 = u2
    ns1 = ns1  kSimple = kSimple  kQual = kQual  kShared = kShared
    None = None
    Threads = {t1, t2}
    Users = {u1, u2}
    Deltas = {1}
    MaxTime = 1
    CacheCapacity = 1
    Limits <- SharedLimits
    Qualified <- SharedQualified
    KeyOf <- SharedKeyOf
    WindowOf <- SharedWindowOf
    MaxOf <- SharedMaxOf
    NsOf <- SharedNsOf
    AdminOps = {"delete_limit"}
    LoadCounters = {FALSE, TRUE}
SPECIFICATION Spec
SYMMETRY Symmetry
PROPERTY DecisionAllOrNothing
