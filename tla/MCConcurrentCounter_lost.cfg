\* Same bounds as MCConcurrentCounter.cfg: a fetch_add that lands between
\* another thread's winning CAS and its store.
CONSTANTS
    t1 = t1
    t2 = t2
    t3 = t3
    Threads = {t1, t2, t3}
    Duration = 1
    Deltas = {1}
    Max = 1
    MaxTime = 2
    MaxCalls = 2
SPECIFICATION Spec
SYMMETRY ThreadSymmetry
INVARIANT NoLostIncrement
