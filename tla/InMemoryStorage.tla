--------------------------- MODULE InMemoryStorage ---------------------------
(***************************************************************************)
(* limitador's synchronous engine over the in-memory counter store:        *)
(*   - the registry: Storage.limits (storage/mod.rs), namespace -> limits; *)
(*   - the counter store: InMemoryStorage (storage/in_memory.rs) with the  *)
(*     simple-counter map `counters` behind an RwLock, the bounded moka   *)
(*     cache `qualified_counters` and the `limit_windows` index;          *)
(*   - the facade RateLimiter (lib.rs) whose check_rate_limited_and_update *)
(*     fetches the applicable counters, then runs check_and_update.       *)
(* Request threads run decisions concurrently; one admin actor adds and    *)
(* deletes limits and clears the store; the cache evicts on its own.       *)
(* A decision is split at the points where another thread can interleave:  *)
(* the registry read, the read-lock acquisition, each counter of the dry   *)
(* run and each counter of the commit.                                     *)
(***************************************************************************)
EXTENDS Naturals, FiniteSets, Sequences, Functions, TLC, CounterValueSet

CONSTANTS
    Threads,        \* request threads calling check_rate_limited_and_update
    Limits,         \* limits the admin may register (model values)
    Qualified,      \* the limits with a non-empty variable list
    Users,          \* values of the one qualifying variable
    NsOf,           \* Limit::namespace
    KeyOf,          \* CounterValueSetKey of each limit: Identity(id) or Anonymous(..)
    WindowOf,       \* Limit::seconds
    MaxOf,          \* Limit::max_value
    Deltas,         \* deltas a request may carry
    MaxTime,        \* bound on the clock
    CacheCapacity,  \* moka max_capacity of qualified_counters
    AdminOps,       \* operations a run enables besides add_limit and decisions
    LoadCounters,   \* the load_counters flags callers pass to check_and_update
    None            \* the user of a simple counter; "no such entry"

ASSUME Qualified \subseteq Limits /\ None \notin Users
ASSUME \A l \in Limits : WindowOf[l] \in Nat \ {0} /\ MaxOf[l] \in Nat
ASSUME CacheCapacity \in Nat \ {0} /\ LoadCounters \subseteq BOOLEAN
ASSUME AdminOps \subseteq {"delete_limit", "delete_limits", "clear", "update_limit",
                            "update_counters"}

Namespaces == {NsOf[l] : l \in Limits}
Keys == {KeyOf[l] : l \in Limits}
QKeys == Keys \X Users

\* Counter::new(limit, values): the limit and, for a qualified one, the
\* value of its variable.
Counter == [limit : Limits, user : Users \cup {None}]
IsQualified(c) == c.limit \in Qualified
\* counters_that_apply: Counter::new for each limit that applies to a value.
CountersOf(ls, u) == {[limit |-> l, user |-> IF l \in Qualified THEN u ELSE None] : l \in ls}
\* QualifiedCounterValueSetKey::from(&Counter)
QKeyOf(c) == <<KeyOf[c.limit], c.user>>
\* Limits are equal when their keys are (spec.md 3: the id if set, else the
\* namespace, window, conditions and variables): the registered limits of S
\* that a HashSet lookup of l finds.
EqualIn(l, S) == {m \in S : KeyOf[m] = KeyOf[l]}

VARIABLES
    limits,         \* Storage.limits, flattened: the registered limits
    counters,       \* InMemoryStorage.counters: key -> counter value set
    qualified,      \* InMemoryStorage.qualified_counters: qkey -> value set
    limitWindows,   \* InMemoryStorage.limit_windows: key -> Vec<Duration>
    readers,        \* threads holding the read lock of `counters`
    clock,          \* SystemTime::now(), in seconds
    thr,            \* each request thread's decision in progress
    admin,          \* the admin actor: "idle", a phase of clear, or the limit it deletes
    outcome         \* result of each thread's last decision (history)

storeVars == <<limits, counters, qualified, limitWindows>>
vars == <<storeVars, readers, clock, thr, admin, outcome>>

Outcomes == {"none", "ok", "limited", "panic"}
\* One element of toUpdate: a simple counter's slot in `counters`, or the
\* Arc<CounterValueSet> taken from the cache (`live` is FALSE once the cache
\* has dropped that Arc, so that updates to it are invisible; `slotted`
\* says whether that set has a slot for the counter's window).
Pending == [counter : Counter, qkey : QKeys \cup {None}, live : BOOLEAN,
            slotted : BOOLEAN]

(* A thread's decision: where it is, the counters not yet dry-run, its     *)
(* delta and load_counters flag, the `now` snapshotted by check_and_update,*)
(* first_limited.is_some(), the values to update (both vectors, in push    *)
(* order), and as history the counters fetched and those incremented; on  *)
(* the two-call path, while is_rate_limited runs, also the namespace and  *)
(* (if a qualified counter used it) the value of the request, and the     *)
(* limits registered in that namespace then.                              *)
ThreadState ==
    [pc : {"idle", "fetched", "simple", "qualified", "commit", "probe", "report"},
     batch : SUBSET Counter, delta : Deltas \cup {0}, load : BOOLEAN,
     now : 0..MaxTime, limited : BOOLEAN, toUpdate : Seq(Pending),
     fetched : SUBSET Counter, applied : SUBSET Counter,
     ns : Namespaces \cup {None}, user : Users \cup {None}, seen : SUBSET Limits]

Idle == [pc |-> "idle", batch |-> {}, delta |-> 0, load |-> FALSE, now |-> 0,
         limited |-> FALSE, toUpdate |-> <<>>, fetched |-> {}, applied |-> {},
         ns |-> None, user |-> None, seen |-> {}]

TypeOK ==
    /\ limits \subseteq Limits
    /\ DOMAIN counters \subseteq Keys
    /\ DOMAIN qualified \subseteq QKeys
    /\ DOMAIN limitWindows \subseteq Keys
    /\ readers \subseteq Threads
    /\ clock \in 0..MaxTime
    /\ thr \in [Threads -> ThreadState]
    /\ admin \in {"idle", "clear", "clear_cache"} \cup Limits
    /\ outcome \in [Threads -> Outcomes]

Init ==
    /\ limits = {}
    /\ counters = <<>>
    /\ qualified = <<>>
    /\ limitWindows = <<>>
    /\ readers = {}
    /\ clock = 0
    /\ thr = [t \in Threads |-> Idle]
    /\ admin = "idle"
    /\ outcome = [t \in Threads |-> "none"]

-----------------------------------------------------------------------------
(* Helpers on the partial maps.                                            *)

Without(f, S) == Restrict(f, DOMAIN f \ S)

MaxDelta == CHOOSE d \in Deltas : \A e \in Deltas : e <= d
KeyLimits(k) == {l \in Limits : KeyOf[l] = k}

\* Dropping cache entries: an Arc held by an in-flight decision outlives
\* the entry, but nobody reads it again, so its updates are lost.
Orphan(gone) ==
    [t \in Threads |->
        [thr[t] EXCEPT !.toUpdate =
            [i \in 1..Len(@) |->
                IF @[i].qkey \in gone THEN [@[i] EXCEPT !.live = FALSE] ELSE @[i]]]]

\* InMemoryStorage::delete_counters_of_limit for a set of limits: remove
\* the simple entries, invalidate_entries_if on the qualified ones.
DeleteCountersOf(ls) ==
    LET simpleKeys == {KeyOf[l] : l \in ls \ Qualified}
        qualKeys   == {KeyOf[l] : l \in ls \cap Qualified}
        gone       == {qk \in DOMAIN qualified : qk[1] \in qualKeys}
    IN  /\ simpleKeys # {} => readers = {}     \* counters.write()
        /\ counters' = Without(counters, simpleKeys)
        /\ qualified' = Without(qualified, gone)
        /\ thr' = Orphan(gone)

-----------------------------------------------------------------------------
(* The request threads: RateLimiter::check_rate_limited_and_update.        *)

\* Mutant: the counter of a qualified limit is built even when the request
\* lacks the limit's variable (spec.md 4.C, 8.8).
FetchCountersUnqualified(t) ==
    /\ thr[t].pc = "idle"
    /\ \E ns \in Namespaces, applies \in SUBSET limits, d \in Deltas, lc \in LoadCounters :
        /\ \A l \in applies : NsOf[l] = ns
        /\ LET cs == {[limit |-> l, user |-> None] : l \in applies}
           IN  thr' = [thr EXCEPT ![t] = [Idle EXCEPT !.pc = "fetched",
                          !.batch = cs, !.fetched = cs, !.delta = d, !.load = lc]]
    /\ outcome' = [outcome EXCEPT ![t] = "none"]
    /\ UNCHANGED <<storeVars, readers, clock, admin>>

\* check_rate_limited_and_update starts with counters_that_apply: read the
\* registry under its read lock, keep the limits whose conditions hold (any
\* subset of the namespace's limits: conditions are opaque here) and bind
\* the variable of the qualified ones.  The facade reads only the answer and
\* passes no load_counters (lib.rs:222), that is false; Storage's other
\* callers may pass true, so runs choose the flags from LoadCounters.
FetchCounters(t) ==
    /\ thr[t].pc = "idle"
    /\ \E ns \in Namespaces, applies \in SUBSET limits, u \in Users,
          d \in Deltas, lc \in LoadCounters :
        /\ \A l \in applies : NsOf[l] = ns
        /\ LET cs == {[limit |-> l, user |-> IF l \in Qualified THEN u ELSE None]
                      : l \in applies}
           IN  thr' = [thr EXCEPT ![t] = [Idle EXCEPT !.pc = "fetched",
                          !.batch = cs, !.fetched = cs, !.delta = d, !.load = lc]]
    /\ outcome' = [outcome EXCEPT ![t] = "none"]
    /\ UNCHANGED <<storeVars, readers, clock, admin>>

\* check_and_update: self.counters.read(), then now = SystemTime::now().
BeginCheck(t) ==
    /\ thr[t].pc = "fetched"
    /\ readers' = readers \cup {t}
    /\ thr' = [thr EXCEPT ![t].pc = "simple", ![t].now = clock]
    /\ UNCHANGED <<storeVars, clock, admin, outcome>>

\* Leaving check_and_update: the read guard is dropped, also when unwinding.
Return(t, o) ==
    /\ readers' = readers \ {t}
    /\ thr' = [thr EXCEPT ![t] = Idle]
    /\ outcome' = [outcome EXCEPT ![t] = o]

\* Mutant: the check forgets the delta (value <= max).
ProcessCounterNoDelta(t, c, value, pending) ==
    LET within == value <= MaxOf[c.limit]
    IN  IF ~within /\ ~thr[t].load
        THEN Return(t, "limited")
        ELSE /\ thr' = [thr EXCEPT ![t].limited = @ \/ ~within,
                                   ![t].toUpdate = Append(@, pending),
                                   ![t].batch = @ \ {c}]
             /\ UNCHANGED <<readers, outcome>>

\* process_counter: within limits iff value + delta <= max; with
\* load_counters the first excess is remembered, otherwise it returns.
ProcessCounter(t, c, value, pending) ==
    LET within == value + thr[t].delta <= MaxOf[c.limit]
    IN  IF ~within /\ ~thr[t].load
        THEN Return(t, "limited")
        ELSE /\ thr' = [thr EXCEPT ![t].limited = @ \/ ~within,
                                   ![t].toUpdate = Append(@, pending),
                                   ![t].batch = @ \ {c}]
             /\ UNCHANGED <<readers, outcome>>

\* Dry run of one simple counter: limits.get(key).unwrap(), values.value(w),
\* then expiring_value_of(w).expect(..) -- either miss panics.
DryRunSimple(t) ==
    /\ thr[t].pc = "simple"
    /\ \E c \in thr[t].batch :
        /\ ~IsQualified(c)
        /\ LET key == KeyOf[c.limit]
               w   == WindowOf[c.limit]
           IN  IF key \notin DOMAIN counters \/ Slot(counters[key], w) = 0
               THEN Return(t, "panic")
               ELSE ProcessCounter(t, c, CvsValue(counters[key], w, clock),
                        [counter |-> c, qkey |-> None, live |-> TRUE, slotted |-> TRUE])
    /\ UNCHANGED <<storeVars, clock, admin>>

\* The simple counters are all processed before the qualified ones.
EndSimple(t) ==
    /\ thr[t].pc = "simple"
    /\ \A c \in thr[t].batch : IsQualified(c)
    /\ thr' = [thr EXCEPT ![t].pc = "qualified"]
    /\ UNCHANGED <<storeVars, readers, clock, admin, outcome>>

\* Dry run of one qualified counter: qualified_counters.get_with(key, loader)
\* where the loader builds CounterValueSet::new(limit_windows[key]) (its
\* unwrap on a missing index entry panics), then value.value(w).
DryRunQualified(t) ==
    /\ thr[t].pc = "qualified"
    /\ \E c \in thr[t].batch :
        LET qk  == QKeyOf(c)
            w   == WindowOf[c.limit]
            hit == qk \in DOMAIN qualified
        IN  IF ~hit /\ qk[1] \notin DOMAIN limitWindows
            THEN /\ Return(t, "panic")
                 /\ UNCHANGED qualified
            ELSE LET cvs == IF hit THEN qualified[qk]
                            ELSE NewCounterValueSet(limitWindows[qk[1]])
                 IN  /\ qualified' = IF hit THEN qualified ELSE qualified @@ (qk :> cvs)
                     /\ ProcessCounter(t, c, CvsValue(cvs, w, clock),
                            [counter |-> c, qkey |-> qk, live |-> TRUE,
                             slotted |-> Slot(cvs, w) # 0])
    /\ UNCHANGED <<limits, counters, limitWindows, clock, admin>>

\* Mutant: the first_limited check after the loops is missing.
EndDryRunAlwaysCommit(t) ==
    /\ thr[t].pc = "qualified"
    /\ thr[t].batch = {}
    /\ thr' = [thr EXCEPT ![t].pc = "commit"]
    /\ UNCHANGED <<readers, outcome, storeVars, clock, admin>>

\* After the dry run: `if let Some(limited) = first_limited { return }`.
EndDryRun(t) ==
    /\ thr[t].pc = "qualified"
    /\ thr[t].batch = {}
    /\ IF thr[t].limited
       THEN Return(t, "limited")
       ELSE /\ thr' = [thr EXCEPT ![t].pc = "commit"]
            /\ UNCHANGED <<readers, outcome>>
    /\ UNCHANGED <<storeVars, clock, admin>>

\* Commit of the next pending counter, with the snapshotted `now`: v.update
\* on a simple slot, or CounterValueSet::update(..).expect(..) on the Arc,
\* which panics when the set has no slot for the window.
Commit(t) ==
    /\ thr[t].pc = "commit"
    /\ thr[t].toUpdate # <<>>
    /\ LET p   == Head(thr[t].toUpdate)
           c   == p.counter
           w   == WindowOf[c.limit]
           key == KeyOf[c.limit]
           upd(cvs) == CvsUpdate(cvs, w, thr[t].delta, thr[t].now)
       IN  IF ~p.slotted
           THEN /\ Return(t, "panic")
                /\ UNCHANGED <<counters, qualified>>
           ELSE /\ counters' = IF IsQualified(c) THEN counters
                               ELSE [counters EXCEPT ![key] = upd(@)]
                /\ qualified' = IF IsQualified(c) /\ p.live
                                THEN [qualified EXCEPT ![p.qkey] = upd(@)]
                                ELSE qualified
                /\ thr' = [thr EXCEPT ![t].toUpdate = Tail(@),
                                      ![t].applied = @ \cup {c}]
                /\ UNCHANGED <<readers, outcome>>
    /\ UNCHANGED <<limits, limitWindows, clock, admin>>

\* All updates done: Ok(Authorization::Ok).
FinishCommit(t) ==
    /\ thr[t].pc = "commit"
    /\ thr[t].toUpdate = <<>>
    /\ Return(t, "ok")
    /\ UNCHANGED <<storeVars, clock, admin>>

-----------------------------------------------------------------------------
(* The two-call path of RateLimiter, as a client uses it: is_rate_limited,  *)
(* and when that answers false, update_counters for the same namespace,   *)
(* values and delta.  Each call runs counters_that_apply itself.          *)

\* InMemoryStorage::is_within_limits(counter, delta): the cached qualified
\* set (a miss reads 0, nothing is inserted) or, under counters.read(), the
\* simple entry; then max >= value + delta.
IsWithinLimits(c, delta) ==
    LET w     == WindowOf[c.limit]
        value == IF IsQualified(c)
                 THEN IF QKeyOf(c) \in DOMAIN qualified
                      THEN CvsValue(qualified[QKeyOf(c)], w, clock) ELSE 0
                 ELSE IF KeyOf[c.limit] \in DOMAIN counters
                      THEN CvsValue(counters[KeyOf[c.limit]], w, clock) ELSE 0
    IN  MaxOf[c.limit] >= value + delta

\* is_rate_limited: counters_that_apply.
IsRateLimitedFetch(t) ==
    /\ "update_counters" \in AdminOps
    /\ thr[t].pc = "idle"
    /\ \E ns \in Namespaces, applies \in SUBSET limits, u \in Users, d \in Deltas :
        /\ \A l \in applies : NsOf[l] = ns
        /\ LET cs == CountersOf(applies, u)
           IN  thr' = [thr EXCEPT ![t] = [Idle EXCEPT !.pc = "probe",
                          !.batch = cs, !.fetched = cs, !.delta = d, !.ns = ns,
                          !.user = IF applies \cap Qualified = {} THEN None ELSE u,
                          !.seen = {l \in limits : NsOf[l] = ns}]]
    /\ outcome' = [outcome EXCEPT ![t] = "none"]
    /\ UNCHANGED <<storeVars, readers, clock, admin>>

\* is_rate_limited: one is_within_limits call per counter; the first that
\* is not within limits answers true (the client stops: Limited).
ProbeCounter(t) ==
    /\ thr[t].pc = "probe"
    /\ \E c \in thr[t].batch :
        IF IsWithinLimits(c, thr[t].delta)
        THEN /\ thr' = [thr EXCEPT ![t].batch = @ \ {c}]
             /\ UNCHANGED <<readers, outcome>>
        ELSE Return(t, "limited")
    /\ UNCHANGED <<storeVars, clock, admin>>

\* is_rate_limited answered false; update_counters runs counters_that_apply
\* again over the limits registered now.  The same values select the same
\* limits: those equal to a limit probed (conditions are part of a limit's
\* key unless it has an id), none equal to one that was registered and did
\* not apply, and any of those registered since, which nobody checked.
\* The request's value: known once a qualified counter used it, otherwise
\* not yet observed by anything, so any.
Values(t) == IF thr[t].user = None THEN Users ELSE {thr[t].user}

UpdateCountersFetch(t) ==
    /\ thr[t].pc = "probe"
    /\ thr[t].batch = {}
    /\ LET now   == {l \in limits : NsOf[l] = thr[t].ns}
           again == {l \in now : \E c \in thr[t].fetched : KeyOf[c.limit] = KeyOf[l]}
           fresh == {l \in now : EqualIn(l, thr[t].seen) = {}}
       IN  \E added \in SUBSET fresh, u \in Values(t) :
              LET cs == CountersOf(again \cup added, u)
              IN  thr' = [thr EXCEPT ![t] = [Idle EXCEPT !.pc = "report", !.batch = cs,
                                                     !.delta = thr[t].delta]]
    /\ UNCHANGED <<storeVars, readers, clock, admin, outcome>>

\* InMemoryStorage::update_counter for one counter, with its own `now`:
\* qualified, get_with (the loader unwraps the limit_windows entry) then
\* update(..).expect(..); simple, counters.write(), a vacant entry panics,
\* then update(..).expect(..).  try_for_each stops at the first panic,
\* leaving earlier counters incremented.
UpdateCounter(t) ==
    /\ thr[t].pc = "report"
    /\ \E c \in thr[t].batch :
        LET w   == WindowOf[c.limit]
            key == KeyOf[c.limit]
            qk  == QKeyOf(c)
            d   == thr[t].delta
            Done == /\ thr' = [thr EXCEPT ![t].batch = @ \ {c}]
                    /\ UNCHANGED <<readers, outcome>>
        IN  IF IsQualified(c)
            THEN IF qk \notin DOMAIN qualified /\ key \notin DOMAIN limitWindows
                 THEN Return(t, "panic") /\ UNCHANGED qualified
                 ELSE LET cvs == IF qk \in DOMAIN qualified THEN qualified[qk]
                                 ELSE NewCounterValueSet(limitWindows[key])
                          cached == qualified @@ (qk :> cvs)
                      IN  IF Slot(cvs, w) = 0
                          THEN Return(t, "panic") /\ qualified' = cached
                          ELSE /\ qualified' = [cached EXCEPT ![qk] = CvsUpdate(@, w, d, clock)]
                               /\ Done
                 /\ UNCHANGED counters
            ELSE /\ readers = {}
                 /\ IF key \notin DOMAIN counters \/ Slot(counters[key], w) = 0
                    THEN Return(t, "panic") /\ UNCHANGED counters
                    ELSE /\ counters' = [counters EXCEPT ![key] = CvsUpdate(@, w, d, clock)]
                         /\ Done
                 /\ UNCHANGED qualified
    /\ UNCHANGED <<limits, limitWindows, clock, admin>>

\* Every counter updated: Ok(()).
UpdateCountersDone(t) ==
    /\ thr[t].pc = "report"
    /\ thr[t].batch = {}
    /\ Return(t, "ok")
    /\ UNCHANGED <<storeVars, clock, admin>>

-----------------------------------------------------------------------------
(* The admin actor: Storage::add_limit, delete_limit, delete_limits, clear *)

\* InMemoryStorage::add_counter: for a simple limit, under the counters
\* write lock, entry(key).or_default().add_window(w); for a qualified one,
\* under the limit_windows write lock, push + dedup + sort.
AddCounter(l) ==
    IF l \in Qualified
    THEN /\ limitWindows' =
               IF KeyOf[l] \in DOMAIN limitWindows
               THEN [limitWindows EXCEPT ![KeyOf[l]] = RecordWindow(@, WindowOf[l])]
               ELSE limitWindows @@ (KeyOf[l] :> <<WindowOf[l]>>)
         /\ UNCHANGED counters
    ELSE /\ readers = {}
         /\ counters' =
               IF KeyOf[l] \in DOMAIN counters
               THEN [counters EXCEPT ![KeyOf[l]] = AddWindow(@, WindowOf[l])]
               ELSE counters @@ (KeyOf[l] :> AddWindow(<<>>, WindowOf[l]))
         /\ UNCHANGED limitWindows

\* Storage::add_limit: under the registry write lock, add_counter, then
\* insert into the namespace's set, which keeps an equal limit already there.
AddLimit(l) ==
    /\ admin = "idle"
    /\ AddCounter(l)
    /\ limits' = IF EqualIn(l, limits) = {} THEN limits \cup {l} ELSE limits
    /\ UNCHANGED <<qualified, readers, thr, clock, admin, outcome>>

\* update_limit: under the registry write lock, replace the equal limit
\* when its max differs (names are not modelled); counters are untouched.
UpdateLimit(l) ==
    /\ "update_limit" \in AdminOps
    /\ admin = "idle"
    /\ \E m \in EqualIn(l, limits) : MaxOf[m] # MaxOf[l]
    /\ limits' = (limits \ EqualIn(l, limits)) \cup {l}
    /\ UNCHANGED <<counters, qualified, limitWindows, readers, thr, clock, admin, outcome>>

\* delete_limit, first half: find the equal registered Arc (or wrap the
\* argument) under the read lock, then counters.delete_counters({arc})
\* with the registry lock released.
DeleteLimitCounters(l) ==
    /\ "delete_limit" \in AdminOps
    /\ admin = "idle"
    /\ DeleteCountersOf(IF EqualIn(l, limits) = {} THEN {l} ELSE EqualIn(l, limits))
    /\ admin' = l
    /\ UNCHANGED <<limits, limitWindows, readers, clock, outcome>>

\* delete_limit, second half: the registry write lock, remove the limit
\* (an emptied namespace goes with it).
DeleteLimitRegistry ==
    /\ admin \in Limits
    /\ limits' = limits \ EqualIn(admin, limits)
    /\ admin' = "idle"
    /\ UNCHANGED <<counters, qualified, limitWindows, readers, thr, clock, outcome>>

\* delete_limits(ns): the write guard of `limits.write().remove(ns)` lives
\* through the if-let, so the counters go while the registry is locked.
DeleteLimits(ns) ==
    /\ "delete_limits" \in AdminOps
    /\ admin = "idle"
    /\ LET data == {l \in limits : NsOf[l] = ns}
       IN  /\ data # {}
           /\ limits' = limits \ data
           /\ DeleteCountersOf(data)
    /\ UNCHANGED <<limitWindows, readers, clock, admin, outcome>>

\* clear, first statement: limits.write().clear().
ClearLimits ==
    /\ "clear" \in AdminOps
    /\ admin = "idle"
    /\ limits' = {}
    /\ admin' = "clear"
    /\ UNCHANGED <<counters, qualified, limitWindows, readers, thr, clock, outcome>>

\* clear, second: InMemoryStorage::clear, first counters.write().clear();
\* limit_windows is left alone.
ClearSimple ==
    /\ admin = "clear"
    /\ readers = {}
    /\ counters' = <<>>
    /\ admin' = "clear_cache"
    /\ UNCHANGED <<limits, qualified, limitWindows, readers, thr, clock, outcome>>

\* then, with the write lock released, qualified_counters.invalidate_all().
ClearCache ==
    /\ admin = "clear_cache"
    /\ qualified' = <<>>
    /\ thr' = Orphan(QKeys)
    /\ admin' = "idle"
    /\ UNCHANGED <<limits, counters, limitWindows, readers, clock, outcome>>

-----------------------------------------------------------------------------
(* The environment: cache eviction and time.                              *)

\* moka evicts entries once the cache holds more than its capacity.
Evict(qk) ==
    /\ qk \in DOMAIN qualified
    /\ Cardinality(DOMAIN qualified) > CacheCapacity
    /\ qualified' = Without(qualified, {qk})
    /\ thr' = Orphan({qk})
    /\ UNCHANGED <<limits, counters, limitWindows, readers, clock, admin, outcome>>

Tick ==
    /\ clock < MaxTime
    /\ clock' = clock + 1
    /\ UNCHANGED <<storeVars, readers, thr, admin, outcome>>

Next ==
    \/ \E t \in Threads :
        \/ FetchCounters(t) \/ BeginCheck(t) \/ DryRunSimple(t) \/ EndSimple(t)
        \/ DryRunQualified(t) \/ EndDryRun(t) \/ Commit(t) \/ FinishCommit(t)
        \/ IsRateLimitedFetch(t) \/ ProbeCounter(t)
        \/ UpdateCountersFetch(t) \/ UpdateCounter(t) \/ UpdateCountersDone(t)
    \/ \E l \in Limits : AddLimit(l) \/ UpdateLimit(l) \/ DeleteLimitCounters(l)
    \/ DeleteLimitRegistry
    \/ \E ns \in Namespaces : DeleteLimits(ns)
    \/ ClearLimits \/ ClearSimple \/ ClearCache
    \/ \E qk \in QKeys : Evict(qk)
    \/ Tick

Spec == Init /\ [][Next]_vars

-----------------------------------------------------------------------------
(* Properties.                                                             *)


(* Over-admission is bounded (spec.md 8.1), per counter: check_and_update *)
(* checks and commits in two phases under a shared lock, so decisions     *)
(* racing between their dry run and their commit can push a counter past  *)
(* the max of its limit by one delta per other concurrent decision.  This *)
(* holds also for the two-call path, whose update_counters increments,    *)
(* unchecked, the counters of limits added after is_rate_limited read the *)
(* registry: those start from zero.  Equal limits share a counter, which  *)
(* update_limit keeps, so the max is the largest of the limits of its key.*)
KeyMax(k) == CHOOSE m \in {MaxOf[l] : l \in KeyLimits(k)} : \A l \in KeyLimits(k) : MaxOf[l] <= m
Slack == (Cardinality(Threads) - 1) * MaxDelta
WithinBound(cvs, k) ==
    \A i \in 1..Len(cvs) : ValueAt(cvs[i].value, clock) <= KeyMax(k) + Slack
OverAdmissionBounded ==
    /\ \A k \in DOMAIN counters : WithinBound(counters[k], k)
    /\ \A q \in DOMAIN qualified : WithinBound(qualified[q], q[1])

(* A decision is all-or-nothing (spec.md 4.E, 7): when a thread returns   *)
(* from check_and_update, an Ok answer means its dry run found no counter *)
(* over its limit and it has incremented all of its counters; any other   *)
(* answer (Limited, or unwinding from a panic) means it incremented none. *)
DecisionAllOrNothing ==
    [][\A t \in Threads :
         thr[t].pc \notin {"idle", "report"} /\ thr'[t].pc = "idle" =>
             IF outcome'[t] = "ok"
             THEN thr[t].applied = thr[t].fetched /\ ~thr[t].limited
             ELSE thr[t].applied = {}]_vars

(* A decision never panics (spec.md 7 treats the missing-slot panic as a   *)
(* programming error, "the limit was not registered"): every counter it   *)
(* checks belongs to a limit that was registered when it was fetched.     *)
NoPanic ==
    \A t \in Threads : outcome[t] # "panic"

(* Every value set keeps one slot per window, sorted (spec.md 3, 8.7):     *)
(* the limit_windows index that qualified value sets are built from, and  *)
(* the simple and cached value sets themselves.                           *)
WindowsSortedUnique ==
    /\ \A k \in DOMAIN limitWindows : StrictlyAscending(limitWindows[k])
    /\ \A k \in DOMAIN counters : StrictlyAscending(Seconds(counters[k]))
    /\ \A q \in DOMAIN qualified : StrictlyAscending(Seconds(qualified[q]))

\* InMemoryStorage::get_counters(limits): for each simple limit, one counter
\* per slot of its entry (to_counters walks every window of the set); for
\* each cached qualified set and each limit whose key it has, the slot of
\* that limit's window.  Counters whose TTL is zero are skipped.  A counter
\* is <<limit, user, window>>.
GetCounters(ls) ==
    LET Live(cvs, i) == TtlAt(cvs[i].value, clock) > 0
        simple == {l \in ls \ Qualified : KeyOf[l] \in DOMAIN counters}
        qual   == {lq \in (ls \cap Qualified) \X DOMAIN qualified :
                       /\ lq[2][1] = KeyOf[lq[1]]
                       /\ Slot(qualified[lq[2]], WindowOf[lq[1]]) # 0}
    IN  UNION {{<<l, None, counters[KeyOf[l]][i].seconds>> :
                   i \in {i \in 1..Len(counters[KeyOf[l]]) : Live(counters[KeyOf[l]], i)}}
               : l \in simple}
        \cup
        {<<lq[1], lq[2][2], WindowOf[lq[1]]>> :
            lq \in {lq \in qual :
                      Live(qualified[lq[2]], Slot(qualified[lq[2]], WindowOf[lq[1]]))}}

(* Deleting a limit deletes its counters (spec.md 3: "removal cascades to *)
(* delete all counters whose key references them"; 8.3: after            *)
(* delete_limit(L), get_counters({L}) is empty): once the admin is done,  *)
(* get_counters reports nothing for a limit that is no longer registered. *)
DeletedLimitHasNoCounters ==
    admin = "idle" =>
        \A l \in Limits : EqualIn(l, limits) = {} => GetCounters({l}) = {}
==============================================================================
