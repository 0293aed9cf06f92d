-------------------------- MODULE ConcurrentCounter --------------------------
(***************************************************************************)
(* ConcurrentCounter (storage/concurrent/counter.rs): a windowed counter   *)
(* made of two independent atomics, `value` and `expires_at`, shared by    *)
(* threads without a lock.  Every atomic operation of next_at and         *)
(* return_to is one step, so threads interleave between any two of them.  *)
(*                                                                         *)
(* No caller of the counter is in this tree; a thread here uses it the way *)
(* its two methods fit together: next_at(now, delta) yields (count, epoch),*)
(* and a count over Max is handed back with return_to(epoch, delta).       *)
(* The u64 count never comes near 2^64 within the bounds, so wrap-around  *)
(* on fetch_add is not modelled; a subtraction below zero is kept visible *)
(* as a negative value.                                                    *)
(***************************************************************************)
EXTENDS Integers

CONSTANTS
    Threads,    \* threads sharing the counter
    Duration,   \* ConcurrentCounter::duration
    Deltas,     \* deltas a call may carry
    Max,        \* the caller's limit: a count above it is returned
    MaxTime,    \* bound on the clock
    MaxCalls    \* bound on next_at calls per thread

ASSUME Duration \in Nat \ {0} /\ Deltas \subseteq Nat \ {0} /\ Max \in Nat

VARIABLES
    value,      \* the `value` atomic
    expiresAt,  \* the `expires_at` atomic
    clock,      \* the `at` callers pass: seconds
    pc,         \* where each thread is
    loc,        \* each thread's locals: at, delta, expiry, current, result
    calls,      \* next_at calls made by each thread
    credit,     \* history: deltas counted into the current epoch, net of returns
    epochOf     \* history: the expires_at in force when a thread's delta landed

vars == <<value, expiresAt, clock, pc, loc, calls, credit, epochOf>>

PCs == {"idle", "cas", "store", "add", "rload", "rcheck", "rcas", "refused"}

Locals == [at : 0..MaxTime, delta : Deltas, expiry : 0..(MaxTime + Duration),
           current : Int, result : Int]

TypeOK ==
    /\ value \in Nat       \* the u64 never rolls below zero
    /\ expiresAt \in 0..(MaxTime + Duration)
    /\ clock \in 0..MaxTime
    /\ pc \in [Threads -> PCs]
    /\ loc \in [Threads -> Locals]
    /\ calls \in [Threads -> 0..MaxCalls]

\* A fresh counter: value 0, expires_at 0 (the epoch has already ended).
Init ==
    /\ value = 0
    /\ expiresAt = 0
    /\ clock = 0
    /\ pc = [t \in Threads |-> "idle"]
    /\ loc = [t \in Threads |-> [at |-> 0, delta |-> CHOOSE d \in Deltas : TRUE,
                                 expiry |-> 0, current |-> 0, result |-> 0]]
    /\ calls = [t \in Threads |-> 0]
    /\ credit = 0
    /\ epochOf = [t \in Threads |-> 0]

-----------------------------------------------------------------------------
(* next_at(at, delta)                                                      *)

\* expires_at.load(Acquire); `at >= expiry` picks the CAS or the fetch_add.
NextLoad(t) ==
    /\ pc[t] = "idle"
    /\ calls[t] < MaxCalls
    /\ \E d \in Deltas :
        loc' = [loc EXCEPT ![t] = [@ EXCEPT !.at = clock, !.delta = d,
                                            !.expiry = expiresAt]]
    /\ pc' = [pc EXCEPT ![t] = IF clock >= expiresAt THEN "cas" ELSE "add"]
    /\ calls' = [calls EXCEPT ![t] = @ + 1]
    /\ UNCHANGED <<value, expiresAt, clock, credit, epochOf>>

\* compare_exchange(expiry, at + duration): Ok(expiry) keeps the value it
\* replaced (the old expiry) for the return; Err(updated) falls through to
\* the fetch_add with the updated expiry.
NextCas(t) ==
    /\ pc[t] = "cas"
    /\ IF expiresAt = loc[t].expiry
       THEN /\ expiresAt' = loc[t].at + Duration
            /\ credit' = 0
            /\ pc' = [pc EXCEPT ![t] = "store"]
            /\ UNCHANGED loc
       ELSE /\ loc' = [loc EXCEPT ![t].expiry = expiresAt]
            /\ pc' = [pc EXCEPT ![t] = "add"]
            /\ UNCHANGED <<expiresAt, credit>>
    /\ UNCHANGED <<value, clock, calls, epochOf>>

\* The caller's use of the answer (count, expiry): over Max it hands the
\* delta back with return_to(expiry, delta), starting with value.load.
Answer(t, count) ==
    /\ loc' = [loc EXCEPT ![t].result = count]
    /\ pc' = [pc EXCEPT ![t] = IF count > Max THEN "rload" ELSE "idle"]

\* Mutant: the new window keeps the old count (fetch_add instead of store).
NextStoreAccumulate(t) ==
    /\ pc[t] = "store"
    /\ value' = value + loc[t].delta
    /\ credit' = credit + loc[t].delta
    /\ epochOf' = [epochOf EXCEPT ![t] = expiresAt]
    /\ Answer(t, value + loc[t].delta)
    /\ UNCHANGED <<expiresAt, clock, calls>>

\* value.store(delta), return (delta, expiry).
NextStore(t) ==
    /\ pc[t] = "store"
    /\ value' = loc[t].delta
    /\ credit' = credit + loc[t].delta
    /\ epochOf' = [epochOf EXCEPT ![t] = expiresAt]
    /\ Answer(t, loc[t].delta)
    /\ UNCHANGED <<expiresAt, clock, calls>>

\* value.fetch_add(delta) + delta, return it with the expiry read.
NextAdd(t) ==
    /\ pc[t] = "add"
    /\ value' = value + loc[t].delta
    /\ credit' = credit + loc[t].delta
    /\ epochOf' = [epochOf EXCEPT ![t] = expiresAt]
    /\ Answer(t, value + loc[t].delta)
    /\ UNCHANGED <<expiresAt, clock, calls>>

-----------------------------------------------------------------------------
(* return_to(at, delta), with at the expiry next_at returned               *)

\* let mut current = value.load(SeqCst)
ReturnLoad(t) ==
    /\ pc[t] = "rload"
    /\ loc' = [loc EXCEPT ![t].current = value]
    /\ pc' = [pc EXCEPT ![t] = "rcheck"]
    /\ UNCHANGED <<value, expiresAt, clock, calls, credit, epochOf>>

\* Mutant: no `current > delta` check before subtracting.
ReturnCheckUnguarded(t) ==
    /\ pc[t] = "rcheck"
    /\ pc' = [pc EXCEPT ![t] = IF loc[t].expiry = expiresAt THEN "rcas" ELSE "refused"]
    /\ UNCHANGED <<value, expiresAt, clock, loc, calls, credit, epochOf>>

\* while at == expires_at.load(): if current > delta try the CAS, else
\* return false; leaving the loop returns false.
ReturnCheck(t) ==
    /\ pc[t] = "rcheck"
    /\ pc' = [pc EXCEPT ![t] =
                IF loc[t].expiry = expiresAt /\ loc[t].current > loc[t].delta
                THEN "rcas" ELSE "refused"]
    /\ UNCHANGED <<value, expiresAt, clock, loc, calls, credit, epochOf>>

ReturnCas(t) ==
    /\ pc[t] = "rcas"
    /\ IF value = loc[t].current
       THEN /\ value' = loc[t].current - loc[t].delta
            /\ credit' = IF expiresAt = epochOf[t] THEN credit - loc[t].delta
                         ELSE credit
            /\ pc' = [pc EXCEPT ![t] = "idle"]
            /\ UNCHANGED loc
       ELSE /\ loc' = [loc EXCEPT ![t].current = value]
            /\ pc' = [pc EXCEPT ![t] = "rcheck"]
            /\ UNCHANGED <<value, credit>>
    /\ UNCHANGED <<expiresAt, clock, calls, epochOf>>

\* return_to answered false; the caller moves on.
ReturnRefused(t) ==
    /\ pc[t] = "refused"
    /\ pc' = [pc EXCEPT ![t] = "idle"]
    /\ UNCHANGED <<value, expiresAt, clock, loc, calls, credit, epochOf>>

Tick ==
    /\ clock < MaxTime
    /\ clock' = clock + 1
    /\ UNCHANGED <<value, expiresAt, pc, loc, calls, credit, epochOf>>

\* Every thread has used up its calls and is idle.
Done ==
    /\ \A t \in Threads : pc[t] = "idle" /\ calls[t] = MaxCalls
    /\ UNCHANGED vars

Next ==
    \/ \E t \in Threads :
        \/ NextLoad(t) \/ NextCas(t) \/ NextStore(t) \/ NextAdd(t)
        \/ ReturnLoad(t) \/ ReturnCheck(t) \/ ReturnCas(t) \/ ReturnRefused(t)
    \/ Tick
    \/ Done

Spec == Init /\ [][Next]_vars

\* A thread inside next_at or return_to is running: the scheduler keeps
\* giving it steps (weak fairness).  Starting a call and the clock are the
\* environment's and are not forced.
InCallStep(t) ==
    \/ NextCas(t) \/ NextStore(t) \/ NextAdd(t)
    \/ ReturnLoad(t) \/ ReturnCheck(t) \/ ReturnCas(t) \/ ReturnRefused(t)

FairSpec == Spec /\ \A t \in Threads : WF_vars(InCallStep(t))

-----------------------------------------------------------------------------
(* Properties.  `credit` is what an atomic (value, expiry) pair would hold *)
(* (spec.md 3 and 4.A: the pair is updated as one logical step): the      *)
(* deltas counted since the epoch began, less those handed back in it.     *)

\* Between a winning CAS and its store, `value` still holds the old epoch.
Settled == \A t \in Threads : pc[t] # "store"

(* The count never exceeds what was counted into the epoch: next_at never  *)
(* carries increments of an ended epoch into the new one, so the counter   *)
(* never limits a caller on stale counts.                                  *)
NoOverCount == Settled => value <= credit

(* No increment is lost: once settled, the count is every delta counted    *)
(* into the epoch, less those handed back in it.                           *)
NoLostIncrement == Settled => value >= credit

==============================================================================

