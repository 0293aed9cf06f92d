\* Two request threads deciding while the admin deletes limits, deletes the
\* namespace, clears the store, raises a limit's max with update_limit and
\* runs the unchecked two-call update_counters path; one user value.
\* The clock stays at 0: window expiry is covered by the core run.
CONSTANTS
    t1 = t1  t2 = t2  l1 = l1  l2 = l2  l3 = l3  u1 = u1  u2 = u2
    ns1 = ns1  kSimple = kSimple  kQual = kQual  kShared = kShared
    None = None
    Threads = {t1, t2}
    Users = {u1}
    Limits <- UpdLimits
    Qualified <- UpdQualified
    KeyOf <- UpdKeyOf
    WindowOf <- UpdWindowOf
    MaxOf <- UpdMaxOf
    NsOf <- UpdNsOf
    Deltas = {1}
    MaxTime = 0
    CacheCapacity = 1
    AdminOps = {"delete_limit", "delete_limits", "clear", "update_limit"}
    LoadCounters = {FALSE, TRUE}
SPECIFICATION Spec
SYMMETRY Symmetry
VIEW MCView
INVARIANT OverAdmissionBounded
