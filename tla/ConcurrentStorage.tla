-------------------------- MODULE ConcurrentStorage --------------------------
(***************************************************************************)
(* ConcurrentStorage (storage/concurrent.rs): a namespace map behind an    *)
(* RwLock.  Only get_namespaces, add_limit and add_namespace have bodies;  *)
(* the other Storage methods are todo!() and panic, and are left out.     *)
(* add_namespace checks under the read lock and inserts under the write   *)
(* lock, so another thread can run between the two sections; each locked *)
(* section is one step.  ConcurrentNamespace::add_limit is a no-op.       *)
(***************************************************************************)
EXTENDS Naturals

CONSTANTS
    Threads,    \* threads calling the storage
    Names       \* namespace names

VARIABLES
    data,       \* ConcurrentStorage.data: the names present
    pc,         \* each thread: "idle", or the name add_namespace is writing
    wins        \* history: add_namespace calls that answered Ok(true), per name

vars == <<data, pc, wins>>

\* ConcurrentStorage::default(): an empty map.
Init ==
    /\ data = {}
    /\ pc = [t \in Threads |-> "idle"]
    /\ wins = [n \in Names |-> 0]

\* add_namespace, read section: fast_exists = data.read().contains_key(name);
\* Ok(false) if present, else on to the write section.
AddNamespaceCheck(t, n) ==
    /\ pc[t] = "idle"
    /\ pc' = [pc EXCEPT ![t] = IF n \in data THEN "idle" ELSE n]
    /\ UNCHANGED <<data, wins>>

\* Mutant: the write section inserts without checking again.
AddNamespaceInsertBlind(t) ==
    /\ pc[t] \in Names
    /\ data' = data \cup {pc[t]}
    /\ wins' = [wins EXCEPT ![pc[t]] = @ + 1]
    /\ pc' = [pc EXCEPT ![t] = "idle"]

\* add_namespace, write section: insert and Ok(true) unless the name
\* appeared meanwhile, then Ok(false).
AddNamespaceInsert(t) ==
    /\ pc[t] \in Names
    /\ IF pc[t] \notin data
       THEN /\ data' = data \cup {pc[t]}
            /\ wins' = [wins EXCEPT ![pc[t]] = @ + 1]
       ELSE UNCHANGED <<data, wins>>
    /\ pc' = [pc EXCEPT ![t] = "idle"]

\* add_limit: under the write lock, entry(ns): an occupied entry gets the
\* (no-op) add_limit, a vacant one a new namespace.
AddLimit(t, n) ==
    /\ pc[t] = "idle"
    /\ data' = data \cup {n}
    /\ UNCHANGED <<pc, wins>>

Next ==
    \E t \in Threads :
        \/ \E n \in Names : AddNamespaceCheck(t, n) \/ AddLimit(t, n)
        \/ AddNamespaceInsert(t)

Spec == Init /\ [][Next]_vars

\* The abstract registry, with the map's key set as its names.
Registry == INSTANCE NamespaceRegistry WITH names <- data

(* ConcurrentStorage implements the atomic registry: seen from outside,   *)
(* add_namespace takes effect at its write-locked insert, answers         *)
(* Ok(true) exactly when that insert added the name, and the read-locked  *)
(* fast path and a losing second check are invisible (stutters).  The     *)
(* re-check under the write lock is what makes two calls that both missed *)
(* under the read lock answer Ok(true) at most once between them.         *)
RefinesRegistry == Registry!Spec
==============================================================================
