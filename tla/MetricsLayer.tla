---------------------------- MODULE MetricsLayer ----------------------------
(***************************************************************************)
(* The tracing layer of limitador-server/src/metrics.rs.  `gather` names   *)
(* an aggregate span and the record spans whose time it totals; the layer  *)
(* keeps, in each span's extensions, a SpanState (group -> Timings) and,   *)
(* for a record span, its own Timings, and calls the aggregate's consumer  *)
(* when the aggregate span closes.                                         *)
(*                                                                         *)
(* Spans are model values; a span's name is drawn from Names when it is    *)
(* created.  Instant is a bounded clock.  A span is entered and exited any *)
(* number of times, and entries may overlap (a span is entered on several  *)
(* threads at once, or re-entered); it closes once, when no entry is open  *)
(* and after its children: a child keeps its parent alive in the registry. *)
(***************************************************************************)
EXTENDS Naturals, FiniteSets, TLC

CONSTANTS
    Spans,      \* span ids
    Names,      \* span names
    Groups,     \* MetricsLayer.groups: aggregate name -> record names
    MaxTime,    \* bound on the clock
    MaxEntries, \* bound on the open entries of one span
    None

ASSUME DOMAIN Groups \subseteq Names /\ \A g \in DOMAIN Groups : Groups[g] \subseteq Names

VARIABLES
    status,     \* "new" (not yet created), "open" or "closed"
    parent,     \* span.parent()
    name,       \* span.name()
    entered,    \* open entries: on_enter calls not yet matched by on_exit
    spanState,  \* the SpanState extension: group -> Timings, or None
    timings,    \* the Timings extension, or None
    clock,      \* Instant::now()
    consumed    \* what each span's close passed to a consumer, or None

vars == <<status, parent, name, entered, spanState, timings, clock, consumed>>

Timings == [idle : Nat, busy : Nat, last : Nat]

\* Timings::new().
TimingsNew == [idle |-> 0, busy |-> 0, last |-> clock]

\* impl Add for Timings: times add up, the earlier instant is kept.
TimingsAdd(a, b) ==
    [busy |-> a.busy + b.busy, idle |-> a.idle + b.idle,
     last |-> IF a.last < b.last THEN a.last ELSE b.last]

\* SpanState::increment: entry(group).and_modify(+= t).or_insert(t).
Increment(st, group, t) ==
    IF group \in DOMAIN st
    THEN [st EXCEPT ![group] = TimingsAdd(@, t)]
    ELSE st @@ (group :> t)

\* MetricsLayer::gather: a second gather of the same aggregate is ignored.
Gather(groups, aggregate, records) ==
    IF aggregate \in DOMAIN groups THEN groups ELSE groups @@ (aggregate :> records)

\* The groups a span of name n records into, given its SpanState.
RecordGroups(st, n) == {g \in DOMAIN st : n \in Groups[g]}

TypeOK ==
    /\ status \in [Spans -> {"new", "open", "closed"}]
    /\ parent \in [Spans -> Spans \cup {None}]
    /\ name \in [Spans -> Names \cup {None}]
    /\ entered \in [Spans -> 0..MaxEntries]
    /\ \A s \in Spans : spanState[s] = None \/ DOMAIN spanState[s] \subseteq DOMAIN Groups
    /\ timings \in [Spans -> Timings \cup {None}]
    /\ clock \in 0..MaxTime
    /\ consumed \in [Spans -> Timings \cup {None}]

Init ==
    /\ status = [s \in Spans |-> "new"]
    /\ parent = [s \in Spans |-> None]
    /\ name = [s \in Spans |-> None]
    /\ entered = [s \in Spans |-> 0]
    /\ spanState = [s \in Spans |-> None]
    /\ timings = [s \in Spans |-> None]
    /\ clock = 0
    /\ consumed = [s \in Spans |-> None]

\* on_new_span: copy the parent's SpanState; an aggregate adds itself to it
\* (or starts one); then a span named as a record of a group in that state
\* gets Timings.  (The early return on Timings already set never fires for a
\* span just created.)
OnNewSpan(s, n, p) ==
    /\ status[s] = "new"
    /\ p \in {None} \cup {q \in Spans : status[q] = "open"}
    /\ LET inherited == IF p # None THEN spanState[p] ELSE None
           st == IF n \notin DOMAIN Groups THEN inherited
                 ELSE IF inherited = None THEN (n :> TimingsNew)
                 ELSE IF n \in DOMAIN inherited THEN inherited
                 ELSE inherited @@ (n :> TimingsNew)
       IN  /\ spanState' = [spanState EXCEPT ![s] = st]
           /\ timings' = [timings EXCEPT ![s] =
                 IF st # None /\ RecordGroups(st, n) # {} THEN TimingsNew ELSE None]
    /\ status' = [status EXCEPT ![s] = "open"]
    /\ parent' = [parent EXCEPT ![s] = p]
    /\ name' = [name EXCEPT ![s] = n]
    /\ UNCHANGED <<entered, clock, consumed>>

\* on_enter: the time since `last` was idle.
OnEnter(s) ==
    /\ status[s] = "open" /\ entered[s] < MaxEntries
    /\ entered' = [entered EXCEPT ![s] = @ + 1]
    /\ timings' = [timings EXCEPT ![s] =
          IF @ = None THEN None ELSE [@ EXCEPT !.idle = @ + clock - timings[s].last,
                                               !.last = clock]]
    /\ UNCHANGED <<status, parent, name, spanState, clock, consumed>>

\* on_exit: the time since `last` was busy.
OnExit(s) ==
    /\ status[s] = "open" /\ entered[s] > 0
    /\ entered' = [entered EXCEPT ![s] = @ - 1]
    /\ timings' = [timings EXCEPT ![s] =
          IF @ = None THEN None ELSE [@ EXCEPT !.busy = @ + clock - timings[s].last,
                                               !.last = clock]]
    /\ UNCHANGED <<status, parent, name, spanState, clock, consumed>>

\* on_close of a span no longer entered and with no open child.  With
\* Timings and a SpanState, the span's time (idle up to now) is added to
\* every group of its state that records it, and an aggregate then calls
\* its consumer with its own group's entry.
OnClose(s) ==
    /\ status[s] = "open" /\ entered[s] = 0
    /\ \A c \in Spans : parent[c] = s => status[c] # "open"
    /\ status' = [status EXCEPT ![s] = "closed"]
    /\ IF timings[s] # None /\ spanState[s] # None
       THEN LET t == [timings[s] EXCEPT !.idle = @ + clock - timings[s].last]
                st == [g \in DOMAIN spanState[s] |->
                         IF g \in RecordGroups(spanState[s], name[s])
                         THEN Increment(spanState[s], g, t)[g] ELSE spanState[s][g]]
            IN  /\ spanState' = [spanState EXCEPT ![s] = st]
                /\ consumed' = [consumed EXCEPT ![s] =
                      IF name[s] \in DOMAIN Groups THEN st[name[s]] ELSE None]
       ELSE UNCHANGED <<spanState, consumed>>
    /\ UNCHANGED <<parent, name, entered, timings, clock>>

Tick ==
    /\ clock < MaxTime
    /\ clock' = clock + 1
    /\ UNCHANGED <<status, parent, name, entered, spanState, timings, consumed>>

Next ==
    \/ \E s \in Spans, n \in Names, p \in Spans \cup {None} : OnNewSpan(s, n, p)
    \/ \E s \in Spans : OnEnter(s) \/ OnExit(s) \/ OnClose(s)
    \/ Tick

Spec == Init /\ [][Next]_vars

-----------------------------------------------------------------------------
(* Properties.                                                             *)

RECURSIVE Beneath(_, _)
\* Span c is a descendant of span a.
Beneath(c, a) == parent[c] # None /\ (parent[c] = a \/ Beneath(parent[c], a))

\* The busy time of the spans of a's group recorded beneath a (or a itself).
RecordedBusy(a) ==
    LET rs == {c \in Spans : /\ c = a \/ (Beneath(c, a) /\ status[c] = "closed")
                             /\ name[c] \in Groups[name[a]]
                             /\ timings[c] # None}
        RECURSIVE SumBusy(_)
        SumBusy(S) == IF S = {} THEN 0
                      ELSE LET x == CHOOSE x \in S : TRUE
                           IN  timings[x].busy + SumBusy(S \ {x})
    IN  SumBusy(rs)

(* What gather(aggregate, consumer, records) is for (the usage note under  *)
(* the layer, and on_close's "if aggregate -> consume()"): when an         *)
(* aggregate span closes after record spans beneath it were busy, its      *)
(* consumer is called with their busy time.                                *)
ConsumerReceivesRecordedTime ==
    [][\A a \in Spans :
         /\ status[a] = "open" /\ status'[a] = "closed"
         /\ name[a] \in DOMAIN Groups /\ RecordedBusy(a) > 0
         => consumed'[a] # None /\ consumed'[a].busy = RecordedBusy(a)]_vars
==============================================================================
