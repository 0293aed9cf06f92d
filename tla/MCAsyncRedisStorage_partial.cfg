\* A Redis call failing between two counter updates of one decision.
CONSTANTS
    k1 = k1  k2 = k2  l1 = l1  l2 = l2  l3 = l3  kSimple = kSimple  kQual = kQual  u1 = u1  u2 = u2  ns1 = ns1
    None = None
    Tasks = {k1, k2}
    Users = {u1}
    Limits <- MCLimits
    Qualified <- MCQualified
    WindowOf <- MCWindowOf
    MaxOf <- MCMaxOf
    KeyOf <- MCKeyOf
    NsOf <- MCNsOf
    Deltas = {1}
    MaxTime = 1
    CanFail = TRUE
SPECIFICATION Spec
SYMMETRY Symmetry
PROPERTY ErrorAbortsWithoutCommit
