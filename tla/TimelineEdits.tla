---------------------------- MODULE TimelineEdits ----------------------------
(***************************************************************************)
(* The segments of one open video as the editor edits them: createSegment   *)
(* and nudgeBoundary behind validateSegmentMutation, removal and undo, and   *)
(* assignSegmentRows, which must lay every list out in two rows.             *)
(***************************************************************************)
EXTENDS OverlapSweep, Sequences, SequencesExt

CONSTANTS TimelineLength,  \* of the source, in ticks
          SegmentIds,      \* in creation order, which breaks ties of the layout
          Nothing

ASSUME EditsAssumption ==
    /\ TimelineLength \in Nat
    /\ SegmentIds \subseteq Int /\ Nothing \notin SegmentIds

VARIABLES timeline,        \* project.segments
          removed,         \* what the undo of a deletion would bring back
          restoredOver     \* a restore came after other edits: it validates nothing

timelineVars == <<timeline, removed, restoredOver>>

Instants == 0..(TimelineLength - 1)
Covers(segment, time) == segment.start <= time /\ time < segment.end
Depth(list, time) == Cardinality({n \in DOMAIN list : Covers(list[n], time)})
AtMostTwoDeep(list) == \A time \in Instants : Depth(list, time) <= 2

\* The other segments and the candidate, which comes last.
Considered(list, candidate, ignored) ==
    LET others == {n \in DOMAIN list : list[n].id # ignored}
    IN  [n \in others \cup {Len(list) + 1} |-> IF n \in others THEN list[n] ELSE candidate]

Accepted(list, candidate, ignored) ==
    /\ candidate.start < candidate.end
    /\ 0 <= candidate.start /\ candidate.end <= TimelineLength
    /\ ~ SweepFindsThree(Considered(list, candidate, ignored))

\* sortSegmentsByStart: by start, then end, then id.
MutByStart(left, right) == left.id < right.id

ByStart(left, right) ==
    \/ left.start < right.start
    \/ left.start = right.start /\ left.end < right.end
    \/ left.start = right.start /\ left.end = right.end /\ left.id < right.id

SortedByStart(list) ==
    InOrder(DOMAIN list, {pair \in (DOMAIN list) \X (DOMAIN list) : ByStart(list[pair[1]], list[pair[2]])})

\* A segment goes to the first row that is free by then.
Placed(layout, segment) ==
    LET free == {row \in {1, 2} : layout.ends[row] <= segment.start}
        row == IF 1 \in free THEN 1 ELSE 2
    IN  IF ~ layout.ok \/ free = {} THEN [layout EXCEPT !.ok = FALSE]
        ELSE [ok |-> TRUE,
              ends |-> [layout.ends EXCEPT ![row] = segment.end],
              rows |-> Append(layout.rows, [row |-> row, segment |-> segment])]

\* The layout of assignSegmentRows after each of the sorted segments.
Layouts(list) ==
    LET order == SortedByStart(list)
        layout[n \in 0..Len(list)] ==
            IF n = 0 THEN [ok |-> TRUE, ends |-> <<-1, -1>>, rows |-> <<>>]
            ELSE Placed(layout[n - 1], list[order[n]])
    IN  layout

AssignSegmentRows(list) == Layouts(list)[Len(list)]

----------------------------------------------------------------------------
TimelineInit == timeline = <<>> /\ removed = Nothing /\ restoredOver = FALSE

Used == {timeline[n].id : n \in DOMAIN timeline} \cup
        (IF removed = Nothing THEN {} ELSE {removed.segment.id})

\* An edit after a deletion is what a restore may no longer fit with.
Edited == removed' = IF removed = Nothing THEN Nothing ELSE [removed EXCEPT !.edited = TRUE]

CreateSegment(id, start, end) ==
    /\ id \notin Used
    /\ LET segment == [id |-> id, start |-> start, end |-> end]
       IN  /\ Accepted(timeline, segment, Nothing)
           /\ timeline' = Append(timeline, segment)
    /\ Edited /\ UNCHANGED restoredOver

\* The outer limits clamp; the other boundary and the overlaps refuse.
Nudged(segment, edge, delta) ==
    IF edge = "start"
    THEN [segment EXCEPT !.start = IF @ + delta < 0 THEN 0 ELSE @ + delta]
    ELSE [segment EXCEPT !.end = IF @ + delta > TimelineLength THEN TimelineLength ELSE @ + delta]

MoveBoundary(n, edge, delta) ==
    LET segment == Nudged(timeline[n], edge, delta)
    IN  /\ segment # timeline[n]
        /\ Accepted(timeline, segment, segment.id)
        /\ timeline' = [timeline EXCEPT ![n] = segment]
        /\ Edited /\ UNCHANGED restoredOver

RemoveSegment(n) ==
    /\ removed' = [segment |-> timeline[n], index |-> n, edited |-> FALSE]
    /\ timeline' = RemoveAt(timeline, n)
    /\ UNCHANGED restoredOver

\* restoreSegment splices the segment in where it was, or at the end.
RestoreSegment ==
    /\ removed # Nothing
    /\ timeline' = InsertAt(timeline,
                            IF removed.index > Len(timeline) THEN Len(timeline) + 1
                            ELSE removed.index, removed.segment)
    /\ restoredOver' = (restoredOver \/ removed.edited)
    /\ removed' = Nothing

DismissDeleted == removed # Nothing /\ removed' = Nothing /\ UNCHANGED <<timeline, restoredOver>>

TimelineNext ==
    \/ \E id \in SegmentIds, start, end \in -1..(TimelineLength + 1) : CreateSegment(id, start, end)
    \/ \E n \in DOMAIN timeline, edge \in {"start", "end"}, delta \in {-2, -1, 1, 2} :
            MoveBoundary(n, edge, delta)
    \/ \E n \in DOMAIN timeline : RemoveSegment(n)
    \/ RestoreSegment \/ DismissDeleted

TimelineSpec == TimelineInit /\ [][TimelineNext]_timelineVars

----------------------------------------------------------------------------
\* Whatever is created, moved and deleted, the editor can draw it: the greedy layout
\* finds two rows of segments that do not overlap.  It fails exactly when three
\* segments play at once, which only an undo that comes after other edits brings about.
EditsFitTwoRows ==
    LET layout == AssignSegmentRows(timeline)
    IN  /\ ~ restoredOver => layout.ok
        /\ layout.ok <=> AtMostTwoDeep(timeline)
        /\ layout.ok =>
             /\ Len(layout.rows) = Len(timeline)
             /\ \A n, k \in DOMAIN layout.rows, time \in Instants :
                   n # k /\ layout.rows[n].row = layout.rows[k].row =>
                       ~ (Covers(layout.rows[n].segment, time) /\ Covers(layout.rows[k].segment, time))
=============================================================================
