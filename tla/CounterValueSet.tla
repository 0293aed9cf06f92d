--------------------------- MODULE CounterValueSet ---------------------------
(***************************************************************************)
(* The counter primitives of limitador's storage layer, as operators:      *)
(*   - AtomicExpiringValue: a (value, expiry) pair; its source file is not *)
(*     part of this tree, so it is modelled from spec.md section 4.A;      *)
(*   - CounterValueSet (storage/mod.rs): a vector of CounterValue, one per *)
(*     window length, kept sorted by seconds;                              *)
(*   - the limit_windows index update of InMemoryStorage::add_counter      *)
(*     (storage/in_memory.rs), a Vec<Duration> that is pushed, deduped and *)
(*     sorted.                                                             *)
(* Time is a natural number of seconds; expiry 0 is the UNIX epoch that a  *)
(* default AtomicExpiringValue starts with.                                *)
(***************************************************************************)
EXTENDS Naturals, Sequences, SequencesExt, TLC

\* AtomicExpiringValue::default(): value 0, already expired.
FreshValue == [value |-> 0, expiry |-> 0]

\* value_at(now): the count, or 0 once the window has elapsed.
ValueAt(ev, now) == IF now < ev.expiry THEN ev.value ELSE 0

\* ttl(now): time left in the window, saturating at zero.
TtlAt(ev, now) == IF now < ev.expiry THEN ev.expiry - now ELSE 0

\* update(delta, window, now): an expired value starts a new window at now,
\* a live one accumulates.
UpdateValue(ev, delta, window, now) ==
    IF now >= ev.expiry
    THEN [value |-> delta, expiry |-> now + window]
    ELSE [ev EXCEPT !.value = @ + delta]

(***************************************************************************)
(* CounterValueSet.  Every lookup (value, expiring_value_of, update,      *)
(* add_window) walks the vector and stops at the first slot whose seconds *)
(* are not Less than the window: Equal is a hit, Greater a miss.  Slot    *)
(* returns that index, or 0 for a miss.                                   *)
(***************************************************************************)
Slot(cvs, w) ==
    LET i == SelectInSeq(cvs, LAMBDA cv : cv.seconds >= w)
    IN  IF i # 0 /\ cvs[i].seconds = w THEN i ELSE 0

\* CounterValueSet::new(windows): one fresh slot per window, in the order given.
NewCounterValueSet(windows) ==
    [i \in 1..Len(windows) |-> [seconds |-> windows[i], value |-> FreshValue]]

\* add_window: a hit leaves the set alone; a miss pushes a fresh slot and
\* sorts by seconds.
AddWindow(cvs, w) ==
    IF Slot(cvs, w) # 0 THEN cvs
    ELSE SortSeq(Append(cvs, [seconds |-> w, value |-> FreshValue]),
                 LAMBDA a, b : a.seconds < b.seconds)

\* value(window): the live count of the matching slot, 0 when none.
CvsValue(cvs, w, now) ==
    IF Slot(cvs, w) = 0 THEN 0 ELSE ValueAt(cvs[Slot(cvs, w)].value, now)

\* update(window, delta, when) on a set that has the slot (the Err(()) case
\* is an expect() panic in every caller and is guarded there).
CvsUpdate(cvs, w, delta, now) ==
    [cvs EXCEPT ![Slot(cvs, w)].value = UpdateValue(@, delta, w, now)]

(***************************************************************************)
(* add_counter for a qualified limit: windows.push(w); windows.dedup();    *)
(* windows.sort().  Vec::dedup only drops CONSECUTIVE repeats.            *)
(***************************************************************************)
DedupConsecutive(s) ==
    FoldLeft(LAMBDA acc, x : IF acc # <<>> /\ Last(acc) = x THEN acc ELSE Append(acc, x),
             <<>>, s)

RecordWindow(windows, w) ==
    SortSeq(DedupConsecutive(Append(windows, w)), LAMBDA a, b : a < b)

\* The windows of a counter value set, in slot order.
Seconds(cvs) == [i \in 1..Len(cvs) |-> cvs[i].seconds]

\* Sorted ascending with no repeated window (spec.md 3 and 8.7).
StrictlyAscending(s) == IsSorted(s, <)
==============================================================================
