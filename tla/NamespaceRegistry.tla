-------------------------- MODULE NamespaceRegistry --------------------------
(***************************************************************************)
(* What ConcurrentStorage promises about namespaces, as if every call were *)
(* one atomic step: add_namespace inserts a name and answers Ok(true) only *)
(* when the name was absent; add_limit inserts its namespace silently.     *)
(* `wins` counts the Ok(true) answers per name.                            *)
(***************************************************************************)
EXTENDS Naturals

CONSTANTS Names

VARIABLES names, wins

Init ==
    /\ names = {}
    /\ wins = [n \in Names |-> 0]

\* add_namespace(n) that finds n absent: insert, answer Ok(true).  When n
\* is present the call answers Ok(false) and changes nothing (a stutter).
AddNamespace(n) ==
    /\ n \notin names
    /\ names' = names \cup {n}
    /\ wins' = [wins EXCEPT ![n] = @ + 1]

AddLimit(n) ==
    /\ names' = names \cup {n}
    /\ UNCHANGED wins

Next == \E n \in Names : AddNamespace(n) \/ AddLimit(n)

Spec == Init /\ [][Next]_<<names, wins>>
==============================================================================
