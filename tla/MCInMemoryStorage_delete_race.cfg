\* delete_limit racing decisions: a decision that fetched a simple limit
\* before it was deleted finds no entry in `counters`.
CONSTANTS
    t1 = t1  t2 = t2  l1 = l1  l2 = l2  l3 = l3  u1 = u1  u2 = u2
    ns1 = ns1  kSimple = kSimple  kQual = kQual  kShared = kShared
    None = None
    Threads = {t1, t2}
    Users = {u1, u2}
    Deltas = {1}
    MaxTime = 1
    CacheCapacity = 1
    Limits <- MCLimits
    Qualified <- MCQualified
    KeyOf <- MCKeyOf
    WindowOf <- MCWindowOf
    MaxOf <- MCMaxOf
    NsOf <- MCNsOf
    AdminOps = {"delete_limit"}
    LoadCounters = {FALSE, TRUE}
SPECIFICATION Spec
SYMMETRY Symmetry
INVARIANT NoPanic
