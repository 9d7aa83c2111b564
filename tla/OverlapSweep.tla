----------------------------- MODULE OverlapSweep -----------------------------
(***************************************************************************)
(* The sweep with which the server (validateFragmentSet of                 *)
(* domain/fragment-timing.ts) and the editor (validateSegmentMutation of    *)
(* lib/segment-constraints.ts) each look for three spans that are active at *)
(* once.  Spans are a function to records with a start and an end.          *)
(***************************************************************************)
EXTENDS Integers, FiniteSets

\* What Array.sort makes of a finite set: its members in a strict total order, which is
\* given as a set of pairs.
InOrder(S, order) ==
    LET place == [x \in S |-> 1 + Cardinality({y \in S : <<y, x>> \in order})]
    IN  [n \in 1..Cardinality(S) |-> CHOOSE x \in S : place[x] = n]

Boundaries(spans) == [span : DOMAIN spans, delta : {-1, 1}]

TimeOf(spans, boundary) ==
    IF boundary.delta = 1 THEN spans[boundary.span].start ELSE spans[boundary.span].end

MutStartsFirst(spans, left, right) ==
    LET time(b) == TimeOf(spans, b)
    IN  \/ time(left) < time(right)
        \/ time(left) = time(right) /\ left.delta > right.delta
        \/ time(left) = time(right) /\ left.delta = right.delta /\ left.span < right.span

\* At one time, ends come before starts: spans that touch do not overlap.  What compares
\* equal stays in the order of the list.
Before(spans, left, right) ==
    LET time(b) == TimeOf(spans, b)
    IN  \/ time(left) < time(right)
        \/ time(left) = time(right) /\ left.delta < right.delta
        \/ time(left) = time(right) /\ left.delta = right.delta /\ left.span < right.span

SortedBoundaries(spans) ==
    InOrder(Boundaries(spans),
            {pair \in Boundaries(spans) \X Boundaries(spans) : Before(spans, pair[1], pair[2])})

\* The spans active after each of the sorted boundaries.
Active(spans) ==
    LET events == SortedBoundaries(spans)
        active[n \in 0..Cardinality(Boundaries(spans))] ==
            IF n = 0 THEN 0 ELSE active[n - 1] + events[n].delta
    IN  active

SweepFindsThree(spans) ==
    LET active == Active(spans)
    IN  \E n \in DOMAIN active : active[n] > 2
=============================================================================
