\* Two threads, each making up to two next_at calls with delta 1 or 2 over
\* three instants, without symmetry so that the liveness check is sound:
\* enough for a CAS race at a window boundary, a fetch_add between a CAS and
\* its store, and return_to racing a new epoch or the other thread's CAS.
CONSTANTS
    t1 = t1
    t2 = t2
    t3 = t3
    Threads = {t1, t2}
    Duration = 1
    Deltas = {1, 2}
    Max = 1
    MaxTime = 2
    MaxCalls = 2
SPECIFICATION FairSpec
INVARIANT TypeOK
INVARIANT NoOverCount
 
