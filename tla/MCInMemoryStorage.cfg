\* Two request threads racing on a simple and a qualified limit under
\* add_limit, a one-entry cache that evicts, and time passing.
CONSTANTS
    t1 = t1  t2 = t2  l1 = l1  l2 = l2  l3 = l3  u1 = u1  u2 = u2
    ns1 = ns1  kSimple = kSimple  kQual = kQual  kShared = kShared
    None = None
    Threads = {t1, t2}
    Users = {u1, u2}
    Limits <- MCLimits
    Qualified <- MCQualified
    KeyOf <- MCKeyOf
    WindowOf <- MCWindowOf
    MaxOf <- MCMaxOf
    NsOf <- MCNsOf
    Deltas = {1}
    MaxTime = 1
    CacheCapacity = 1
    AdminOps = {"update_counters"}
    LoadCounters = {FALSE}
SPECIFICATION Spec
SYMMETRY Symmetry
VIEW MCView
INVARIANT TypeOK
INVARIANT OverAdmissionBounded
