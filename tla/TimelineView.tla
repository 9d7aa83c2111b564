---------------------------- MODULE TimelineView ----------------------------
(***************************************************************************)
(* PrecisionTimeline.svelte: the part of the video that is visible, which    *)
(* the wheel, the buttons and a selection move (lib/timeline-viewport.ts     *)
(* over lib/timeline-geometry.ts), and the thumbnails painted behind it,     *)
(* whose images arrive when the view may have changed                         *)
(* (lib/thumbnail-renderer.ts).  The boundaries of the segments and the       *)
(* length of the video change under the view.  Times are ticks; in the run     *)
(* zooms are powers of two and lengths multiples of them, so that the           *)
(* divisions that place the view are exact.                                      *)
(***************************************************************************)
EXTENDS Integers, FiniteSets

CONSTANTS Lengths,        \* displayDuration; 0 while nothing is known of the video
          MaxZoom,
          Offsets,        \* that a document may have been saved with
          Widths,         \* of the timeline in pixels; 0 before it is laid out
          Selectable,     \* the ids of segments
          Places,         \* where a segment may lie: [start, end]
          Sheets,         \* manifests of thumbnails
          Blank,          \* no manifest, nothing painted
          Unselected,
          MaxLoads        \* bound on the image loads under way

ASSUME TimelineAssumption ==
    /\ Lengths \subseteq Nat /\ Offsets \subseteq Nat /\ Widths \subseteq Nat /\ MaxZoom \in Nat \ {0}
    /\ \A place \in Places : place.start \in Nat /\ place.end \in Nat /\ place.start < place.end

VARIABLES lens,       \* timelineZoom and timelineOffsetSeconds, as they were last set
          duration,   \* displayDuration
          width,      \* viewportWidth
          places,     \* the segments' boundaries
          chosen,     \* selectedSegmentId
          ensured,    \* lastEnsuredSegmentId
          drifted,    \* since that segment was shown, the view was moved, or the segment's
                      \* boundaries or the video's length changed
          bundle,     \* thumbnailManifest, Blank while it is not ready
          activeKey,  \* of the ThumbnailImageCache
          loads,      \* [bundle, scale, width, fresh]: fresh is version = thumbnailPaintVersion
          canvas,     \* what is painted: Blank or [bundle, scale, width]
          viewTimer,  \* viewportPersistenceTimer
          saved       \* the document's editor.timelineZoom and timelineOffsetSeconds

viewVars == <<lens, duration, width, places, chosen, ensured, drifted, bundle, activeKey, loads,
              canvas, viewTimer, saved>>

----------------------------------------------------------------------------
(* TimeScale and the moves of the viewport. *)

Zooms == {zoom \in 1..MaxZoom : \E n \in 0..4 : zoom = 2^n}

Within(value, low, high) == IF value < low THEN low ELSE IF value > high THEN high ELSE value

\* The constructor of TimeScale keeps the view inside the video.
TimeScale(length, zoom, offset) ==
    [length |-> length, zoom |-> zoom, offset |-> Within(offset, 0, length - length \div zoom)]

\* The scale the timeline is drawn with, derived from what was set and what is known.
Scale == TimeScale(duration, lens.zoom, lens.offset)

VisibleTicks(scale) == scale.length \div scale.zoom
TicksPerPixel(scale) == IF width = 0 THEN 0 ELSE VisibleTicks(scale) \div width

PixelToTime(scale, pixel) ==
    IF width = 0 THEN 0
    ELSE Within(scale.offset + Within(pixel, 0, width) * TicksPerPixel(scale), 0, scale.length)

ZoomAt(scale, zoom, anchor) ==
    LET pixel == Within(anchor, 0, width)
        zoomed == [scale EXCEPT !.zoom = zoom]
    IN  TimeScale(scale.length, zoom, PixelToTime(scale, pixel) - pixel * TicksPerPixel(zoomed))

PanByPixels(scale, pixels) ==
    TimeScale(scale.length, scale.zoom, scale.offset + pixels * TicksPerPixel(scale))

Visible(scale, start, end) ==
    start >= scale.offset /\ end <= scale.offset + VisibleTicks(scale)

\* Of a range, the part that lies in the video.
EnsureRangeVisible(scale, from, to) ==
    LET start == Within(from, 0, scale.length)
        end == Within(to, 0, scale.length)
    IN  IF Visible(scale, start, end) THEN scale
        ELSE IF end - start > VisibleTicks(scale)
        THEN TimeScale(scale.length, Within(scale.length \div (end - start), 1, scale.zoom), start)
        ELSE TimeScale(scale.length, scale.zoom,
                       IF start < scale.offset THEN start ELSE end - VisibleTicks(scale))

TimeToPixel(scale, time) ==
    IF TicksPerPixel(scale) = 0 THEN 0 ELSE (time - scale.offset) \div TicksPerPixel(scale)

----------------------------------------------------------------------------
\* The document opens with the view that was saved, for a video of whatever length.
TimelineViewInit ==
    /\ duration \in Lengths /\ places \in [Selectable -> Places]
    /\ lens \in [zoom : Zooms, offset : Offsets]
    /\ saved = lens /\ viewTimer = FALSE
    /\ width = 0 /\ chosen = Unselected /\ ensured = Unselected /\ drifted = FALSE
    /\ bundle = Blank /\ activeKey = Blank /\ loads = {} /\ canvas = Blank

Stale == {[load EXCEPT !.fresh = FALSE] : load \in loads}

\* The paint effect: whatever was painted goes, and the visible pages are asked for.
Repaint(scale, pixels, pages) ==
    LET wanted == [bundle |-> pages, scale |-> scale, width |-> pixels, fresh |-> TRUE]
    IN  IF pixels = 0
        THEN loads' = Stale /\ UNCHANGED <<canvas, activeKey>>
        ELSE /\ canvas' = Blank /\ activeKey' = pages
             /\ loads' = IF pages = Blank THEN Stale ELSE Stale \cup {wanted}
             /\ Cardinality(loads') <= MaxLoads

ViewOf(scale) == [zoom |-> scale.zoom, offset |-> scale.offset]

\* applyViewport and updateTimelineViewport; a view equal to what was set is not an input.
ApplyViewport(next) ==
    IF ViewOf(next) = lens THEN UNCHANGED <<lens, viewTimer, canvas, activeKey, loads>>
    ELSE lens' = ViewOf(next) /\ viewTimer' = TRUE /\ Repaint(next, width, bundle)

\* The user's wheel and buttons.
MoveView ==
    /\ \/ /\ width # 0
          /\ \/ \E zoom \in Zooms, pixel \in 0..width : ApplyViewport(ZoomAt(Scale, zoom, pixel))
             \/ Scale.zoom > 1 /\ \E pixels \in {-1, 1} : ApplyViewport(PanByPixels(Scale, pixels))
       \/ \E playhead \in {0, duration \div 2, duration} :
            \E zoom \in {Within(Scale.zoom * 2, 1, MaxZoom), Within(Scale.zoom \div 2, 1, MaxZoom)} :
                LET shown == EnsureRangeVisible(Scale, playhead, playhead)
                IN  ApplyViewport(ZoomAt(shown, zoom, TimeToPixel(shown, playhead)))
       \/ ApplyViewport(TimeScale(duration, 1, 0))
    /\ drifted' = (drifted \/ lens' # lens)
    /\ UNCHANGED <<duration, width, places, chosen, ensured, bundle, saved>>

\* The effect on the selection: once for a segment, and not before there is a width.
Select(segment) ==
    /\ chosen' = segment /\ segment # chosen
    /\ \/ /\ segment = Unselected
          /\ ensured' = Unselected /\ drifted' = FALSE
          /\ UNCHANGED <<lens, viewTimer, canvas, activeKey, loads>>
       \/ /\ segment # Unselected /\ (width = 0 \/ segment = ensured)
          /\ UNCHANGED <<ensured, drifted, lens, viewTimer, canvas, activeKey, loads>>
       \/ /\ segment # Unselected /\ width # 0 /\ segment # ensured
          /\ ensured' = segment /\ drifted' = FALSE
          /\ ApplyViewport(EnsureRangeVisible(Scale, places[segment].start, places[segment].end))
    /\ UNCHANGED <<duration, width, places, bundle, saved>>

\* A segment that was selected before the layout is shown with the first width.
Resize(pixels) ==
    /\ pixels # width /\ width' = pixels
    /\ IF pixels = 0 \/ chosen \in {Unselected, ensured}
       THEN /\ UNCHANGED <<lens, viewTimer, ensured, drifted>>
            /\ Repaint(Scale, pixels, bundle)
       ELSE LET next == EnsureRangeVisible(Scale, places[chosen].start, places[chosen].end)
            IN  /\ lens' = ViewOf(next) /\ ensured' = chosen /\ drifted' = FALSE
                /\ viewTimer' = (viewTimer \/ lens' # lens)
                /\ Repaint(next, pixels, bundle)
    /\ UNCHANGED <<duration, places, chosen, bundle, saved>>

\* A boundary is nudged, dragged or merged from a snapshot: the segment keeps its id, and
\* the effect on the selection returns early.
EditSegment(segment, place) ==
    /\ place # places[segment]
    /\ places' = [places EXCEPT ![segment] = place]
    /\ drifted' = (drifted \/ segment = ensured)
    /\ UNCHANGED <<lens, duration, width, chosen, ensured, bundle, activeKey, loads, canvas,
                   viewTimer, saved>>

\* The video's metadata are loaded, or its inspection arrives before them: the view that
\* was set stays, what it shows does not.
DurationChanges ==
    /\ duration' \in Lengths \ {0, duration}
    /\ drifted' = TRUE
    /\ Repaint(TimeScale(duration', lens.zoom, lens.offset), width, bundle)
    /\ UNCHANGED <<lens, width, places, chosen, ensured, bundle, viewTimer, saved>>

\* The manifest arrives, is replaced, or is given up.
BundleChanges ==
    /\ bundle' \in (Sheets \cup {Blank}) \ {bundle}
    /\ Repaint(Scale, width, bundle')
    /\ UNCHANGED <<lens, duration, width, places, chosen, ensured, drifted, viewTimer, saved>>

MutDiscarded(load) == load.bundle # activeKey

\* Images of another manifest, or of a view that is past, are not painted.
Discarded(load) == load.bundle # activeKey \/ ~ load.fresh

ImagesArrive(load) ==
    /\ load \in loads
    /\ loads' = loads \ {load}
    /\ canvas' = IF Discarded(load) THEN canvas
                 ELSE [bundle |-> load.bundle, scale |-> load.scale, width |-> load.width]
    /\ UNCHANGED <<lens, duration, width, places, chosen, ensured, drifted, bundle, activeKey,
                   viewTimer, saved>>

\* onThumbnailLoadError drops the manifest, and the timeline is painted blank.
ImagesFail(load) ==
    /\ load \in loads
    /\ IF Discarded(load)
       THEN loads' = loads \ {load} /\ UNCHANGED <<bundle, canvas, activeKey>>
       ELSE /\ bundle' = Blank
            /\ loads' = {[other EXCEPT !.fresh = FALSE] : other \in loads \ {load}}
            /\ canvas' = Blank /\ activeKey' = Blank
    /\ UNCHANGED <<lens, duration, width, places, chosen, ensured, drifted, viewTimer, saved>>

\* The timer, and every save and every departure before it.
MaterializeTimelineViewport ==
    /\ viewTimer' = FALSE /\ saved' = lens
    /\ UNCHANGED <<lens, duration, width, places, chosen, ensured, drifted, bundle, activeKey,
                   loads, canvas>>

TimelineViewNext ==
    \/ MoveView
    \/ \E segment \in Selectable \cup {Unselected} : Select(segment)
    \/ \E pixels \in Widths : Resize(pixels)
    \/ \E segment \in Selectable, place \in Places : EditSegment(segment, place)
    \/ DurationChanges
    \/ BundleChanges
    \/ \E load \in loads : ImagesArrive(load) \/ ImagesFail(load)
    \/ MaterializeTimelineViewport

TimelineViewSpec == TimelineViewInit /\ [][TimelineViewNext]_viewVars

----------------------------------------------------------------------------
\* The pictures lie under the times they show: what is painted is of the manifest, the
\* view and the length there are now, whatever images were on their way when those changed.
PaintedIsCurrent ==
    width # 0 /\ canvas # Blank => canvas = [bundle |-> bundle, scale |-> Scale, width |-> width]

\* A segment that was brought into view is in view, as far as it lies in the video, until
\* the user moves the view, the segment's boundaries change or the video's length does:
\* the effect looks at the segment's id alone and does not follow the last two.
SelectionIsShown ==
    chosen # Unselected /\ ensured = chosen /\ ~ drifted =>
        Visible(Scale, Within(places[chosen].start, 0, duration), Within(places[chosen].end, 0, duration))

\* The document has the view that was last set once no timer is pending.
ViewIsKept == ~ viewTimer => saved = lens

\* What the timeline shows is true of the video, of the selection and of the document.
TimelineIsTrue == PaintedIsCurrent /\ SelectionIsShown /\ ViewIsKept
=============================================================================
