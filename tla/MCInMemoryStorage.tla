------------------------- MODULE MCInMemoryStorage --------------------------
(* Instantiation of InMemoryStorage for TLC.                               *)
EXTENDS InMemoryStorage, TLC

CONSTANTS t1, t2, l1, l2, l3, u1, u2, ns1, kSimple, kQual, kShared

\* Two anonymous limits in one namespace: a simple one and one qualified by
\* a user variable; each has its own CounterValueSetKey.
MCLimits == {l1, l2}
MCQualified == {l2}
MCKeyOf == (l1 :> kSimple) @@ (l2 :> kQual)
MCWindowOf == [l \in MCLimits |-> 1]
MCMaxOf == [l \in MCLimits |-> 1]
MCNsOf == [l \in MCLimits |-> ns1]

\* Two qualified limits sharing Identity(id) with windows 1 and 2, and a
\* simple limit: the index of windows per key and the cached value sets of
\* that key are then shared between limits of different windows.
SharedLimits == {l1, l2, l3}
SharedQualified == {l2, l3}
SharedKeyOf == (l1 :> kSimple) @@ (l2 :> kShared) @@ (l3 :> kShared)
SharedWindowOf == (l1 :> 2) @@ (l2 :> 1) @@ (l3 :> 2)
SharedMaxOf == [l \in SharedLimits |-> 1]
SharedNsOf == [l \in SharedLimits |-> ns1]

\* The simple and qualified limits, and l3: equal to l1 (same anonymous
\* key) but with max 2, the argument of update_limit.
UpdLimits == {l1, l2, l3}
UpdQualified == {l2}
UpdKeyOf == (l1 :> kSimple) @@ (l2 :> kQual) @@ (l3 :> kSimple)
UpdWindowOf == [l \in UpdLimits |-> 1]
UpdMaxOf == (l1 :> 1) @@ (l2 :> 1) @@ (l3 :> 2)
UpdNsOf == [l \in UpdLimits |-> ns1]

\* The state without its history: what a check_and_update decision fetched
\* and applied, and each thread's last answer, are read by no action, only
\* by DecisionAllOrNothing and NoPanic; runs that check neither identify
\* states that differ in these alone.  On the two-call path `fetched` is
\* read by update_counters and stays.
NoHistory(s) == IF s.pc = "probe" THEN s ELSE [s EXCEPT !.fetched = {}, !.applied = {}]
MCView == <<limits, counters, qualified, limitWindows, readers, clock,
            [t \in DOMAIN thr |-> NoHistory(thr[t])], admin>>

\* Request threads and user values are interchangeable.
Symmetry == Permutations({t1, t2}) \cup Permutations({u1, u2})
==============================================================================
