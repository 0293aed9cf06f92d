------------------------- MODULE MCAsyncRedisStorage -------------------------
(* Instantiation of AsyncRedisStorage for TLC.                             *)
EXTENDS AsyncRedisStorage, TLC

CONSTANTS k1, k2, l1, l2, l3, u1, u2, ns1, kSimple, kQual

\* A simple and a qualified limit in one namespace, window 1, max 1.
MCLimits == {l1, l2}
MCQualified == {l2}
MCWindowOf == [l \in MCLimits |-> 1]
MCMaxOf == [l \in MCLimits |-> 1]
MCKeyOf == (l1 :> kSimple) @@ (l2 :> kQual)
MCNsOf == [l \in MCLimits |-> ns1]

\* The simple and qualified limits, and l3: equal to l2 (same namespace,
\* window and variable) but with max 0, the argument of update_limit that
\* shuts the limit.
UpdLimits == {l1, l2, l3}
UpdQualified == {l2, l3}
UpdWindowOf == [l \in UpdLimits |-> 1]
UpdMaxOf == (l1 :> 1) @@ (l2 :> 1) @@ (l3 :> 0)
UpdKeyOf == (l1 :> kSimple) @@ (l2 :> kQual) @@ (l3 :> kQual)
UpdNsOf == [l \in UpdLimits |-> ns1]

\* Tasks and user values are interchangeable.
Symmetry == Permutations({k1, k2}) \cup Permutations({u1, u2})
==============================================================================
