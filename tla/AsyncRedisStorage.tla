-------------------------- MODULE AsyncRedisStorage --------------------------
(***************************************************************************)
(* The asynchronous engine over Redis: the AsyncStorage registry           *)
(* (storage/mod.rs) in front of AsyncRedisStorage                          *)
(* (storage/redis/redis_async.rs).  Each Redis command is atomic on the    *)
(* server; each `.await` is a point where other tasks run, and where the   *)
(* connection may fail, which the `?` turns into an early Err return.      *)
(*                                                                         *)
(* A counter's Redis key is the counter itself (key_for_counter is         *)
(* deterministic, spec.md 6); a key holds a count that expires like an     *)
(* AtomicExpiringValue.  Each limit has a Redis set of its counter keys.   *)
(* The registry's HashSet compares limits by KeyOf (Limit's Eq and Hash),  *)
(* which leaves out max and name; the Redis key includes the max, so two  *)
(* equal limits of different max count in different keys.                *)
(***************************************************************************)
EXTENDS Naturals, FiniteSets, CounterValueSet

CONSTANTS
    Tasks,          \* concurrent request tasks
    Limits,         \* limits the admin may register
    Qualified,      \* the limits with a variable
    Users,          \* values of the one qualifying variable
    NsOf,           \* Limit::namespace
    WindowOf,       \* Limit::seconds
    MaxOf,          \* Limit::max_value
    KeyOf,          \* what Limit's Eq and Hash compare
    Deltas,         \* deltas a request may carry
    MaxTime,        \* bound on the clock
    CanFail,        \* whether a Redis call may fail
    None            \* the user of a simple counter

ASSUME Qualified \subseteq Limits /\ None \notin Users /\ CanFail \in BOOLEAN

Namespaces == {NsOf[l] : l \in Limits}

\* The limits of S equal to l under Limit's Eq.
EqualIn(l, S) == {m \in S : KeyOf[m] = KeyOf[l]}

\* Counter::new(limit, values) restricted to the limit's variables; also
\* the counter's Redis key.
Counter == {[limit |-> l, user |-> u] : l \in Qualified, u \in Users}
           \cup {[limit |-> l, user |-> None] : l \in Limits \ Qualified}


VARIABLES
    limits,     \* AsyncStorage.limits, flattened
    store,      \* Redis: counter key -> (value, expiry); expired = absent
    members,    \* Redis: key_for_counters_of_limit(l) -> set of counter keys
    clock,      \* seconds
    task,       \* each request task's check_and_update in progress
    admin,      \* the admin task: idle, or the phase of its operation
    outcome     \* result of each task's last decision (history)

vars == <<limits, store, members, clock, task, admin, outcome>>

TaskState ==
    [pc : {"idle", "read", "update"}, batch : SUBSET Counter,
     delta : Deltas \cup {0}, fetched : SUBSET Counter, applied : SUBSET Counter]

Idle == [pc |-> "idle", batch |-> {}, delta |-> 0, fetched |-> {}, applied |-> {}]

\* The admin's operation: delete_limit / delete_limits inside
\* delete_counters (`pending` the limits whose SMEMBERS is still to come,
\* `keys` the snapshot still to DEL, `unregister` the limits to drop from
\* the registry afterwards), clear between the registry and FLUSHDB, or
\* get_counters (`pending` and `keys` as for a delete, `got` the key whose
\* GET returned a value).  The counters get_counters collects (remaining
\* and expires_in) are not kept: no property reads them.
AdminState ==
    [op : {"idle", "delete", "clear", "get"}, pending : SUBSET Limits,
     keys : SUBSET Counter, unregister : SUBSET Limits,
     got : Counter \cup {None}]

AdminIdle == [op |-> "idle", pending |-> {}, keys |-> {}, unregister |-> {},
              got |-> None]

TypeOK ==
    /\ limits \subseteq Limits
    /\ store \in [Counter -> [value : Nat, expiry : Nat]]
    /\ members \in [Limits -> SUBSET Counter]
    /\ clock \in 0..MaxTime
    /\ task \in [Tasks -> TaskState]
    /\ admin \in AdminState
    /\ outcome \in [Tasks -> {"none", "ok", "limited", "error"}]

Init ==
    /\ limits = {}
    /\ store = [c \in Counter |-> FreshValue]
    /\ members = [l \in Limits |-> {}]
    /\ clock = 0
    /\ task = [t \in Tasks |-> Idle]
    /\ admin = AdminIdle
    /\ outcome = [t \in Tasks |-> "none"]

\* A task leaves check_and_update with answer o.
Return(t, o) ==
    /\ task' = [task EXCEPT ![t] = Idle]
    /\ outcome' = [outcome EXCEPT ![t] = o]

\* SCRIPT_UPDATE_COUNTER, atomic on the server: INCRBY key delta, EXPIRE
\* key seconds when that created the key, SADD the limit's set.
UpdateScript(c, delta) ==
    /\ store' = [store EXCEPT ![c] = UpdateValue(@, delta, WindowOf[c.limit], clock)]
    /\ members' = [members EXCEPT ![c.limit] = @ \cup {c}]

-----------------------------------------------------------------------------
(* Request tasks: AsyncStorage::check_and_update -> AsyncRedisStorage.     *)

\* Mutant: simple limits' counters carry the request's user too.
FetchCountersKeyed(t) ==
    /\ task[t].pc = "idle"
    /\ \E ns \in Namespaces, applies \in SUBSET limits, u \in Users, d \in Deltas :
        /\ \A l \in applies : NsOf[l] = ns
        /\ LET cs == {[limit |-> l, user |-> u] : l \in applies}
           IN  task' = [task EXCEPT ![t] = [Idle EXCEPT !.pc = "read",
                           !.batch = cs, !.fetched = cs, !.delta = d]]
    /\ outcome' = [outcome EXCEPT ![t] = "none"]
    /\ UNCHANGED <<limits, store, members, clock, admin>>

\* The caller reads the registry (get_limits under its read lock) and
\* builds the counters of the limits whose conditions hold.
Fetch(t) ==
    /\ task[t].pc = "idle"
    /\ \E ns \in Namespaces, applies \in SUBSET limits, u \in Users, d \in Deltas :
        /\ \A l \in applies : NsOf[l] = ns
        /\ LET cs == {[limit |-> l, user |-> IF l \in Qualified THEN u ELSE None]
                      : l \in applies}
           IN  task' = [task EXCEPT ![t] = [Idle EXCEPT !.pc = "read",
                           !.batch = cs, !.fetched = cs, !.delta = d]]
    /\ outcome' = [outcome EXCEPT ![t] = "none"]
    /\ UNCHANGED <<limits, store, members, clock, admin>>

\* A decision: check_and_update with the counters.
FetchCounters(t) == Fetch(t)

\* Mutant: the check leaves the delta out (value > max).
ReadValuesNoDelta(t) ==
    /\ task[t].pc = "read"
    /\ \/ /\ CanFail
          /\ Return(t, "error")
       \/ IF \E c \in task[t].batch : MaxOf[c.limit] < ValueAt(store[c], clock)
          THEN Return(t, "limited")
          ELSE /\ task' = [task EXCEPT ![t].pc = "update"]
               /\ UNCHANGED outcome
    /\ UNCHANGED <<limits, store, members, clock, admin>>

\* MGET of every key (or the VALUES_AND_TTLS script with load_counters; both
\* read all keys at once), then Limited at the first counter with
\* max - (value + delta) < 0; otherwise on to the updates.  The read fails
\* with the connection.
ReadValues(t) ==
    /\ task[t].pc = "read"
    /\ \/ /\ CanFail
          /\ Return(t, "error")
       \/ IF \E c \in task[t].batch :
                 MaxOf[c.limit] < ValueAt(store[c], clock) + task[t].delta
          THEN Return(t, "limited")
          ELSE /\ task' = [task EXCEPT ![t].pc = "update"]
               /\ UNCHANGED outcome
    /\ UNCHANGED <<limits, store, members, clock, admin>>

\* Mutant: each counter is checked again just before its own update.
UpdateCounterRechecked(t) ==
    /\ task[t].pc = "update"
    /\ \E c \in task[t].batch :
        \/ /\ CanFail
           /\ Return(t, "error")
           /\ UNCHANGED <<store, members>>
        \/ IF MaxOf[c.limit] < ValueAt(store[c], clock) + task[t].delta
           THEN Return(t, "limited") /\ UNCHANGED <<store, members>>
           ELSE /\ UpdateScript(c, task[t].delta)
                /\ task' = [task EXCEPT ![t].batch = @ \ {c}, ![t].applied = @ \cup {c}]
                /\ UNCHANGED outcome
    /\ UNCHANGED <<limits, clock, admin>>

\* One SCRIPT_UPDATE_COUNTER call per counter, awaited in turn; a failed
\* call returns the error with the earlier counters already incremented.
UpdateCounter(t) ==
    /\ task[t].pc = "update"
    /\ \E c \in task[t].batch :
        \/ /\ CanFail
           /\ Return(t, "error")
           /\ UNCHANGED <<store, members>>
        \/ /\ UpdateScript(c, task[t].delta)
           /\ task' = [task EXCEPT ![t].batch = @ \ {c}, ![t].applied = @ \cup {c}]
           /\ UNCHANGED outcome
    /\ UNCHANGED <<limits, clock, admin>>

\* Every update done: Ok(Authorization::Ok).
FinishUpdate(t) ==
    /\ task[t].pc = "update"
    /\ task[t].batch = {}
    /\ Return(t, "ok")
    /\ UNCHANGED <<limits, store, members, clock, admin>>

-----------------------------------------------------------------------------
(* The admin task: AsyncStorage::add_limit, delete_limit, delete_limits,  *)
(* clear, over AsyncRedisStorage::delete_counters and clear.              *)

\* add_limit: HashSet::insert under the write lock, which keeps an equal
\* limit already there (no counter storage to prepare).
AddLimit(l) ==
    /\ admin.op = "idle"
    /\ limits' = IF EqualIn(l, limits) = {} THEN limits \cup {l} ELSE limits
    /\ UNCHANGED <<store, members, clock, task, admin, outcome>>

\* update_limit: under the write lock, an equal limit of another max (or
\* name) is replaced by l; counters are left as they are.
UpdateLimit(l) ==
    /\ admin.op = "idle"
    /\ \E m \in EqualIn(l, limits) : MaxOf[m] # MaxOf[l]
    /\ limits' = (limits \ EqualIn(l, limits)) \cup {l}
    /\ UNCHANGED <<store, members, clock, task, admin, outcome>>

\* delete_limit: the registered limit equal to l (or l itself) is read under
\* the read lock and its counters deleted; once the DELs are done,
\* remove(l) takes out whichever limit equal to l is registered then.
DeleteLimit(l) ==
    /\ admin.op = "idle"
    /\ LET arc == IF EqualIn(l, limits) = {} THEN {l} ELSE EqualIn(l, limits)
       IN  admin' = [AdminIdle EXCEPT !.op = "delete", !.pending = arc,
                                      !.unregister = EqualIn(l, Limits)]
    /\ UNCHANGED <<limits, store, members, clock, task, outcome>>

\* delete_limits(ns): the registry entry is taken out under a write lock
\* released at once, then delete_counters of those limits.
DeleteLimits(ns) ==
    /\ admin.op = "idle"
    /\ LET data == {l \in limits : NsOf[l] = ns}
       IN  /\ data # {}
           /\ limits' = limits \ data
           /\ admin' = [AdminIdle EXCEPT !.op = "delete", !.pending = data]
    /\ UNCHANGED <<store, members, clock, task, outcome>>

\* delete_counters_associated_with_limit of the next limit (HashSet order):
\* SMEMBERS of its set, which may fail and end the operation with Err.
SMembers ==
    /\ admin.op = "delete"
    /\ admin.keys = {}
    /\ \E l \in admin.pending :
        \/ /\ CanFail
           /\ admin' = AdminIdle
        \/ admin' = [admin EXCEPT !.pending = @ \ {l}, !.keys = members[l]]
    /\ UNCHANGED <<limits, store, members, clock, task, outcome>>

\* delete_counters_associated_with_limit: DEL of one key from the snapshot;
\* a failure ends the operation with Err, the registry left as it is.
DelKey ==
    /\ admin.op = "delete"
    /\ \E k \in admin.keys :
        \/ /\ CanFail
           /\ admin' = AdminIdle
           /\ UNCHANGED store
        \/ /\ store' = [store EXCEPT ![k] = FreshValue]
           /\ admin' = [admin EXCEPT !.keys = @ \ {k}]
    /\ UNCHANGED <<limits, members, clock, task, outcome>>

\* All DELs done; delete_limit then removes the limit under the write lock.
EndDelete ==
    /\ admin.op = "delete"
    /\ admin.keys = {} /\ admin.pending = {}
    /\ limits' = limits \ admin.unregister
    /\ admin' = AdminIdle
    /\ UNCHANGED <<store, members, clock, task, outcome>>

\* clear: limits.write().clear(), then FLUSHDB.
ClearLimits ==
    /\ admin.op = "idle"
    /\ limits' = {}
    /\ admin' = [AdminIdle EXCEPT !.op = "clear"]
    /\ UNCHANGED <<store, members, clock, task, outcome>>

FlushDb ==
    /\ admin.op = "clear"
    /\ store' = [c \in Counter |-> FreshValue]
    /\ members' = [l \in Limits |-> {}]
    /\ admin' = AdminIdle
    /\ UNCHANGED <<limits, clock, task, outcome>>

\* get_counters(ns): the limits of the namespace read under the read lock
\* (get_limits), then AsyncRedisStorage::get_counters of them.
GetCounters(ns) ==
    /\ admin.op = "idle"
    /\ admin' = [AdminIdle EXCEPT !.op = "get",
                                   !.pending = {l \in limits : NsOf[l] = ns}]
    /\ UNCHANGED <<limits, store, members, clock, task, outcome>>

\* SMEMBERS of the next limit's set of counter keys; a failure is Err.
GetMembers ==
    /\ admin.op = "get"
    /\ admin.keys = {} /\ admin.got = None
    /\ \E l \in admin.pending :
        \/ /\ CanFail
           /\ admin' = AdminIdle
        \/ admin' = [admin EXCEPT !.pending = @ \ {l}, !.keys = members[l]]
    /\ UNCHANGED <<limits, store, members, clock, task, outcome>>

\* GET of one key: an expired or deleted key (None) is skipped; a value
\* goes on to set_remaining(max - value) and the TTL.  A failure is Err.
GetValue ==
    /\ admin.op = "get"
    /\ admin.got = None
    /\ \E k \in admin.keys :
        \/ /\ CanFail
           /\ admin' = AdminIdle
        \/ /\ ValueAt(store[k], clock) = 0
           /\ admin' = [admin EXCEPT !.keys = @ \ {k}]
        \/ /\ ValueAt(store[k], clock) > 0
           /\ admin' = [admin EXCEPT !.keys = @ \ {k}, !.got = k]
    /\ UNCHANGED <<limits, store, members, clock, task, outcome>>

\* TTL of that key, a round trip after its GET, then set_expires_in and
\* res.insert.  A key gone since its GET answers -2, which the u64
\* conversion either rejects (Err) or wraps to 2^64 - 2 seconds, as the
\* redis crate in use does; a failure is Err.
GetTtl ==
    /\ admin.op = "get"
    /\ admin.got # None
    /\ \/ /\ CanFail
          /\ admin' = AdminIdle
       \/ /\ ValueAt(store[admin.got], clock) > 0
          /\ admin' = [admin EXCEPT !.got = None]
       \/ /\ ValueAt(store[admin.got], clock) = 0
          /\ admin' \in {AdminIdle, [admin EXCEPT !.got = None]}
    /\ UNCHANGED <<limits, store, members, clock, task, outcome>>

\* Every key read: Ok(res).
GetDone ==
    /\ admin.op = "get"
    /\ admin.pending = {} /\ admin.keys = {} /\ admin.got = None
    /\ admin' = AdminIdle
    /\ UNCHANGED <<limits, store, members, clock, task, outcome>>

Tick ==
    /\ clock < MaxTime
    /\ clock' = clock + 1
    /\ UNCHANGED <<limits, store, members, task, admin, outcome>>

Next ==
    \/ \E t \in Tasks :
        \/ FetchCounters(t) \/ ReadValues(t) \/ UpdateCounter(t) \/ FinishUpdate(t)
    \/ \E l \in Limits : AddLimit(l) \/ UpdateLimit(l) \/ DeleteLimit(l)
    \/ \E ns \in Namespaces : DeleteLimits(ns) \/ GetCounters(ns)
    \/ GetMembers \/ GetValue \/ GetTtl \/ GetDone
    \/ SMembers \/ DelKey \/ EndDelete \/ ClearLimits \/ FlushDb
    \/ Tick

Spec == Init /\ [][Next]_vars

-----------------------------------------------------------------------------
(* Properties.                                                             *)

MaxDelta == CHOOSE d \in Deltas : \A e \in Deltas : e <= d

(* Over-admission is bounded (spec.md 8.1; the file's header: "does not    *)
(* guarantee exact limits"): tasks that read before others update can     *)
(* each add one delta past the max of the counter's own limit, and no     *)
(* more.  update_limit, swapping a limit for one of another max (another  *)
(* key), does not change this: decisions in flight go on counting on the  *)
(* key they read, which they checked.                                     *)
OverAdmissionBounded ==
    \A c \in Counter :
        ValueAt(store[c], clock) <= MaxOf[c.limit] + (Cardinality(Tasks) - 1) * MaxDelta

(* A store error aborts the decision without commit (spec.md 7: "the      *)
(* decision is aborted without commit"): a task answering Err has         *)
(* incremented nothing.                                                    *)
ErrorAbortsWithoutCommit ==
    [][\A t \in Tasks :
         task[t].pc # "idle" /\ task'[t].pc = "idle" /\ outcome'[t] = "error" =>
             task[t].applied = {}]_vars
==============================================================================
