\* Two tasks deciding with check_and_update on a simple and a qualified
\* limit (one user value) against add_limit, update_limit (a second
\* qualified limit, equal to the first, of max 0), delete_limit,
\* delete_limits, clear and get_counters, with failing Redis calls.
CONSTANTS
    k1 = k1  k2 = k2  l1 = l1  l2 = l2  l3 = l3  kSimple = kSimple  kQual = kQual  u1 = u1  u2 = u2  ns1 = ns1
    None = None
    Tasks = {k1, k2}
    Users = {u1}
    Limits <- UpdLimits
    Qualified <- UpdQualified
    WindowOf <- UpdWindowOf
    MaxOf <- UpdMaxOf
    KeyOf <- UpdKeyOf
    NsOf <- UpdNsOf
    Deltas = {1}
    MaxTime = 1
    CanFail = TRUE
SPECIFICATION Spec
SYMMETRY Symmetry
INVARIANT TypeOK
INVARIANT OverAdmissionBounded
