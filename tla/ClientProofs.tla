---------------------------- MODULE ClientProofs ----------------------------
(***************************************************************************)
(* Proofs about the browser's components: the search box, the fragments     *)
(* panel, the timeline, the editor's playback and the editor session, each   *)
(* under its own specification.                                               *)
(***************************************************************************)
EXTENDS EditorSession, FragmentWrites, SearchBox, EditorPlayback, TimelineView, TLAPS

----------------------------------------------------------------------------
(* The search box.                                                           *)

\* Only the search of the query in the box is current, and none while it is debounced.
SearchInv ==
    /\ debounce \in BOOLEAN
    /\ query \in Queries \cup {Empty}
    /\ searches \in SUBSET [query : Queries \cup {Empty}, current : BOOLEAN]
    /\ \A s \in searches : s.current => ~ debounce /\ s.query = query /\ query # Empty
    /\ debounce => searchState = "loading" /\ query # Empty
    /\ ResultsAreOfTheQuery

LEMMA SearchStep == SearchInv /\ [SearchNext]_searchVars => SearchInv'
  <1> SUFFICES ASSUME SearchInv, [SearchNext]_searchVars
               PROVE  SearchInv'
    OBVIOUS
  <1>1. ASSUME NEW typed \in Queries \cup {Empty}, ScheduleSearch(typed)
        PROVE  SearchInv'
    <2> DEFINE requests == [query : Queries \cup {Empty}, current : BOOLEAN]
    <2>1. searches \in SUBSET requests
      BY DEF SearchInv
    <2>2. \A s \in requests : [s EXCEPT !.current = FALSE] \in requests
                            /\ [s EXCEPT !.current = FALSE].current = FALSE
      OBVIOUS
    <2>3. searches' \in SUBSET requests /\ \A s \in searches' : s.current = FALSE
      BY <1>1, <2>1, <2>2 DEF ScheduleSearch, Superseded
    <2>4. query' = typed
      BY <1>1 DEF ScheduleSearch
    <2>5. typed = Empty => searchState' = "idle" /\ debounce' = FALSE
      BY <1>1 DEF ScheduleSearch
    <2>6. typed # Empty => searchState' = "loading" /\ debounce' = TRUE
      BY <1>1 DEF ScheduleSearch
    <2> HIDE DEF requests
    <2>7. searches' \in SUBSET [query : Queries \cup {Empty}, current : BOOLEAN]
      BY <2>3 DEF requests
    <2> QED
      BY <2>3, <2>4, <2>5, <2>6, <2>7 DEF SearchInv, ResultsAreOfTheQuery
  <1>2. CASE Search
    <2> DEFINE new == [query |-> query, current |-> TRUE]
    <2>1. new \in [query : Queries \cup {Empty}, current : BOOLEAN]
          /\ new.query = query /\ new.current
      BY DEF SearchInv
    <2>2. searches' = searches \cup {new} /\ debounce /\ debounce' = FALSE
          /\ query' = query /\ searchState' = searchState /\ response' = response
      BY <1>2 DEF Search
    <2>3. \A s \in searches : ~ s.current
      BY <2>2 DEF SearchInv
    <2> HIDE DEF new
    <2> QED
      BY <2>1, <2>2, <2>3 DEF SearchInv, ResultsAreOfTheQuery
  <1>3. ASSUME NEW s \in searches, Answered(s)
        PROVE  SearchInv'
    BY <1>3 DEF Answered, SearchInv, ResultsAreOfTheQuery
  <1>4. CASE UNCHANGED searchVars
    BY <1>4 DEF searchVars, SearchInv, ResultsAreOfTheQuery
  <1> QED
    BY <1>1, <1>2, <1>3, <1>4 DEF SearchNext

\* Results shown as ready are of the query in the box and a search that is announced is
\* under way, whatever order the answers come in (app/search-model.svelte.ts), for any
\* queries and any number of searches at once.
THEOREM SearchShowsItsQuery == SearchSpec => []ResultsAreOfTheQuery
  <1>1. SearchInit => SearchInv
    BY DEF SearchInit, SearchInv, ResultsAreOfTheQuery
  <1>2. SearchInv /\ [SearchNext]_searchVars => SearchInv'
    BY SearchStep
  <1>3. SearchInv => ResultsAreOfTheQuery
    BY DEF SearchInv
  <1> QED
    BY <1>1, <1>2, <1>3, PTL DEF SearchSpec

----------------------------------------------------------------------------
(* The timeline.                                                             *)

\* A view that was set or saved, and a view of a video.
Lenses == [zoom : 1..MaxZoom, offset : Nat]
Scales == [length : Nat, zoom : 1..MaxZoom, offset : Nat]
Pages == Sheets \cup {Blank}

LEMMA WithinBounds ==
    ASSUME NEW value \in Int, NEW low \in Int, NEW high \in Int, low <= high
    PROVE  /\ Within(value, low, high) \in low..high
           /\ value \in low..high => Within(value, low, high) = value
  BY DEF Within

LEMMA Division ==
    ASSUME NEW a \in Nat, NEW b \in Nat \ {0}
    PROVE  a \div b \in Nat /\ b * (a \div b) <= a /\ a < b * (a \div b) + b
  OBVIOUS

LEMMA Multiples ==
    ASSUME NEW a \in Nat, NEW b \in Nat \ {0}, NEW k \in Nat, b * k <= a
    PROVE  k <= a \div b
  <1> DEFINE q == a \div b
  <1>1. q \in Nat /\ a < b * q + b
    BY Division
  <1> HIDE DEF q
  <1>2. SUFFICES ASSUME q < k PROVE FALSE
    BY <1>1 DEF q
  <1>3. q + 1 <= k
    BY <1>1, <1>2
  <1>4. b * (q + 1) <= b * k
    BY <1>1, <1>3
  <1>5. b * (q + 1) = b * q + b
    BY <1>1
  <1> QED
    BY <1>1, <1>4, <1>5

LEMMA VisibleBounds ==
    ASSUME NEW length \in Nat, NEW zoom \in 1..MaxZoom
    PROVE  length \div zoom \in 0..length
  <1>1. zoom \in Nat \ {0}
    BY TimelineAssumption
  <1> DEFINE q == length \div zoom
  <1>2. q \in Nat /\ zoom * q <= length
    BY <1>1, Division
  <1> HIDE DEF q
  <1>3. q <= zoom * q
    BY <1>1, <1>2
  <1>4. q <= length
    BY <1>1, <1>2, <1>3
  <1> QED
    BY <1>1, <1>2, <1>4 DEF q

LEMMA ScaleBounds ==
    ASSUME NEW length \in Nat, NEW zoom \in 1..MaxZoom, NEW offset \in Int
    PROVE  /\ TimeScale(length, zoom, offset) \in Scales
           /\ TimeScale(length, zoom, offset).length = length
           /\ TimeScale(length, zoom, offset).zoom = zoom
           /\ TimeScale(length, zoom, offset).offset \in 0..(length - length \div zoom)
           /\ TimeScale(length, zoom, offset).offset = Within(offset, 0, length - length \div zoom)
  <1> DEFINE high == length - length \div zoom
  <1>1. high \in Nat
    BY VisibleBounds
  <1> HIDE DEF high
  <1>2. Within(offset, 0, high) \in 0..high
    BY <1>1 DEF Within
  <1> USE DEF high
  <1> QED
    BY <1>1, <1>2 DEF TimeScale, Scales

\* A view is inside the video, and one that is has its offset unchanged when it is set.
Inside(scale) == scale \in Scales /\ scale.offset + VisibleTicks(scale) <= scale.length
SetAgain(scale) == TimeScale(scale.length, scale.zoom, scale.offset) = scale

LEMMA ScaleInside ==
    ASSUME NEW length \in Nat, NEW zoom \in 1..MaxZoom, NEW offset \in Int
    PROVE  Inside(TimeScale(length, zoom, offset)) /\ TimeScale(length, zoom, offset).length = length
  <1>1. length \div zoom \in 0..length
    BY VisibleBounds
  <1> DEFINE scale == TimeScale(length, zoom, offset)
  <1>2. /\ scale \in Scales /\ scale.length = length /\ scale.zoom = zoom
        /\ scale.offset \in 0..(length - length \div zoom)
    BY ScaleBounds
  <1> HIDE DEF scale
  <1>3. Inside(scale) /\ scale.length = length
    BY <1>1, <1>2 DEF Inside, VisibleTicks
  <1> QED
    BY <1>3 DEF scale

LEMMA InsideIsSet == ASSUME NEW scale, Inside(scale) PROVE SetAgain(scale)
  <1>1. /\ scale.length \in Nat /\ scale.zoom \in 1..MaxZoom /\ scale.offset \in Nat
        /\ scale = [length |-> scale.length, zoom |-> scale.zoom, offset |-> scale.offset]
    BY DEF Inside, Scales
  <1> DEFINE q == scale.length \div scale.zoom
  <1>2. q \in 0..scale.length /\ scale.offset + q <= scale.length
    BY <1>1, VisibleBounds DEF Inside, VisibleTicks
  <1> HIDE DEF q
  <1>3. Within(scale.offset, 0, scale.length - q) = scale.offset
    BY <1>1, <1>2 DEF Within
  <1> QED
    BY <1>1, <1>3 DEF SetAgain, TimeScale, q

\* EnsureRangeVisible of timeline-viewport.ts: what lies in the video of the range is in
\* the view, and that in the video.
Shows(scale, from, to) ==
    Visible(scale, Within(from, 0, scale.length), Within(to, 0, scale.length))

LEMMA RangeIsVisible ==
    ASSUME NEW scale, Inside(scale), NEW from \in Nat, NEW to \in Nat, from <= to
    PROVE  /\ Inside(EnsureRangeVisible(scale, from, to))
           /\ EnsureRangeVisible(scale, from, to).length = scale.length
           /\ Shows(EnsureRangeVisible(scale, from, to), from, to)
  <1> DEFINE length == scale.length
             start == Within(from, 0, length)
             end == Within(to, 0, length)
             vis == length \div scale.zoom
             ensured_ == EnsureRangeVisible(scale, from, to)
  <1>1. /\ scale.zoom \in 1..MaxZoom /\ scale.offset \in Nat /\ length \in Nat
        /\ vis \in 0..length /\ VisibleTicks(scale) = vis
    BY VisibleBounds DEF Inside, Scales, VisibleTicks
  <1>2. start \in 0..length /\ end \in 0..length /\ start <= end
    BY <1>1 DEF Within
  <1>3. ASSUME NEW next, Inside(next), next.length = length, Visible(next, start, end), ensured_ = next
        PROVE  Inside(ensured_) /\ ensured_.length = length /\ Shows(ensured_, from, to)
    BY <1>3 DEF Shows
  <1>4. ensured_ = IF Visible(scale, start, end) THEN scale
                   ELSE IF end - start > vis
                   THEN TimeScale(length, Within(length \div (end - start), 1, scale.zoom), start)
                   ELSE TimeScale(length, scale.zoom,
                                  IF start < scale.offset THEN start ELSE end - vis)
    BY <1>1 DEF EnsureRangeVisible
  <1> SUFFICES Inside(ensured_) /\ ensured_.length = length /\ Shows(ensured_, from, to)
    OBVIOUS
  <1> HIDE DEF start, end, ensured_, length, vis
  <1>5. CASE Visible(scale, start, end)
    BY <1>3, <1>4, <1>5 DEF length
  <1>6. CASE ~ Visible(scale, start, end) /\ end - start > vis
    <2> DEFINE q == length \div (end - start)
               zoomed == Within(q, 1, scale.zoom)
               least == length \div zoomed
               next == TimeScale(length, zoomed, start)
    <2>1. end - start \in Nat \ {0} /\ end - start <= length
      BY <1>1, <1>2, <1>6
    <2>2. q \in Nat /\ (end - start) * q <= length
      BY <1>1, <2>1, Division
    <2>3. 1 <= q
      BY <1>1, <2>1, Multiples
    <2>4. ensured_ = next
      BY <1>4, <1>6
    <2> HIDE DEF q
    <2>5. zoomed \in 1..scale.zoom /\ zoomed <= q
      BY <1>1, <2>2, <2>3 DEF Within
    <2>6. zoomed \in 1..MaxZoom
      BY <1>1, <2>5, TimelineAssumption
    <2> HIDE DEF zoomed
    <2>7. zoomed * (end - start) <= length
      <3>1. zoomed * (end - start) <= q * (end - start)
        BY <2>1, <2>2, <2>5, <1>1
      <3> QED
        BY <3>1, <2>1, <2>2, <2>6, <1>1
    <2>8. end - start <= least
      BY <2>1, <2>6, <2>7, <1>1, Multiples
    <2>9. least \in 0..length
      BY <1>1, <2>6, VisibleBounds
    <2>10. /\ next.length = length /\ next.zoom = zoomed
           /\ next.offset = Within(start, 0, length - least)
      <3>1. start \in Int /\ length \in Nat
        BY <1>1, <1>2
      <3> QED
        BY <2>6, <3>1, ScaleBounds, Zenon
    <2>11. Inside(next)
      BY <1>1, <1>2, <2>6, ScaleInside
    <2>12. VisibleTicks(next) = least
      BY <2>10 DEF VisibleTicks
    <2> HIDE DEF least, next
    <2>13. next.offset <= start /\ end <= next.offset + least
      BY <1>1, <1>2, <2>1, <2>8, <2>9, <2>10 DEF Within
    <2>14. Visible(next, start, end)
      BY <2>12, <2>13 DEF Visible
    <2> QED
      BY <1>3, <2>4, <2>10, <2>11, <2>14
  <1>7. CASE ~ Visible(scale, start, end) /\ ~ (end - start > vis)
    <2> DEFINE offset == IF start < scale.offset THEN start ELSE end - vis
               next == TimeScale(length, scale.zoom, offset)
    <2>1. offset \in Int /\ ensured_ = next
      BY <1>1, <1>2, <1>4, <1>7
    <2>2. /\ next.length = length /\ next.zoom = scale.zoom
          /\ next.offset = Within(offset, 0, length - vis)
      <3>1. scale.zoom \in 1..MaxZoom /\ length \in Nat /\ offset \in Int
        BY <1>1, <2>1
      <3>2. length \div scale.zoom = vis
        BY DEF vis
      <3> HIDE DEF offset
      <3>3. /\ next.length = length /\ next.zoom = scale.zoom
            /\ next.offset = Within(offset, 0, length - length \div scale.zoom)
        BY <3>1, ScaleBounds, Zenon
      <3> QED
        BY <3>2, <3>3
    <2>3. Inside(next)
      BY <1>1, <2>1, ScaleInside
    <2>4. VisibleTicks(next) = vis
      BY <2>2 DEF VisibleTicks, vis, length
    <2> HIDE DEF next
    <2>5. ~ (start >= scale.offset /\ end <= scale.offset + vis)
      BY <1>1, <1>7 DEF Visible
    <2>6. next.offset <= start /\ end <= next.offset + vis
      BY <1>1, <1>2, <1>7, <2>2, <2>5 DEF Within
    <2>7. Visible(next, start, end)
      BY <2>4, <2>6 DEF Visible
    <2> QED
      BY <1>3, <2>1, <2>2, <2>3, <2>7
  <1> QED
    BY <1>5, <1>6, <1>7

LEMMA PixelBounds ==
    ASSUME width \in Nat, NEW scale \in Scales
    PROVE  TicksPerPixel(scale) \in Nat
  <1>1. scale.length \div scale.zoom \in Nat
    BY VisibleBounds DEF Scales
  <1>2. width # 0 => (scale.length \div scale.zoom) \div width \in Nat
    BY <1>1, Division
  <1> QED
    BY <1>2 DEF TicksPerPixel, VisibleTicks

LEMMA ZoomInside ==
    ASSUME width \in Nat, NEW scale, Inside(scale), NEW zoom \in 1..MaxZoom, NEW anchor \in Int
    PROVE  /\ Inside(ZoomAt(scale, zoom, anchor))
           /\ ZoomAt(scale, zoom, anchor).length = scale.length
  <1> DEFINE pixel == Within(anchor, 0, width)
             zoomed == [scale EXCEPT !.zoom = zoom]
             time == scale.offset + Within(pixel, 0, width) * TicksPerPixel(scale)
  <1>1. scale \in Scales /\ scale.length \in Nat /\ scale.offset \in Nat /\ zoomed \in Scales
    BY DEF Inside, Scales
  <1>2. TicksPerPixel(zoomed) \in Nat /\ TicksPerPixel(scale) \in Nat
    BY <1>1, PixelBounds
  <1>3. pixel \in Nat /\ Within(pixel, 0, width) \in Nat
    BY DEF Within
  <1>4. time \in Int
    BY <1>1, <1>2, <1>3
  <1>5. PixelToTime(scale, pixel) = IF width = 0 THEN 0 ELSE Within(time, 0, scale.length)
    BY DEF PixelToTime
  <1> HIDE DEF time, pixel, zoomed
  <1>6. PixelToTime(scale, pixel) \in Int
    BY <1>1, <1>4, <1>5 DEF Within
  <1>7. PixelToTime(scale, pixel) - pixel * TicksPerPixel(zoomed) \in Int
    BY <1>2, <1>3, <1>6
  <1>8. ZoomAt(scale, zoom, anchor)
          = TimeScale(scale.length, zoom, PixelToTime(scale, pixel) - pixel * TicksPerPixel(zoomed))
    BY DEF ZoomAt, pixel, zoomed
  <1> QED
    BY <1>1, <1>7, <1>8, ScaleInside

LEMMA PanInside ==
    ASSUME width \in Nat, NEW scale, Inside(scale), NEW pixels \in Int
    PROVE  Inside(PanByPixels(scale, pixels)) /\ PanByPixels(scale, pixels).length = scale.length
  <1>1. scale \in Scales /\ scale.length \in Nat /\ scale.zoom \in 1..MaxZoom /\ scale.offset \in Nat
    BY DEF Inside, Scales
  <1>2. TicksPerPixel(scale) \in Nat
    BY <1>1, PixelBounds
  <1>3. scale.offset + pixels * TicksPerPixel(scale) \in Int
    BY <1>1, <1>2
  <1> QED
    BY <1>1, <1>3, ScaleInside DEF PanByPixels

\* A load that is still fresh is of the manifest, the view and the width there are now.
LoadsAreCurrent ==
    \A load \in loads : load.fresh =>
        load.bundle = bundle /\ load.scale = Scale /\ load.width = width

\* The segment that was brought into view is in it, selected or not.
EnsuredIsShown ==
    ensured # Unselected /\ ~ drifted => Shows(Scale, places[ensured].start, places[ensured].end)

Loads == [bundle : Pages, scale : Scales, width : Nat, fresh : BOOLEAN]

ViewTypeOK ==
    /\ lens \in Lenses /\ saved \in Lenses
    /\ duration \in Lengths /\ width \in Widths \cup {0}
    /\ places \in [Selectable -> Places]
    /\ bundle \in Pages /\ activeKey \in Pages
    /\ chosen \in Selectable \cup {Unselected} /\ ensured \in Selectable \cup {Unselected}
    /\ drifted \in BOOLEAN /\ viewTimer \in BOOLEAN
    /\ loads \in SUBSET Loads

ViewInv == ViewTypeOK /\ LoadsAreCurrent /\ EnsuredIsShown /\ PaintedIsCurrent /\ ViewIsKept

LEMMA Numbers ==
    ASSUME ViewTypeOK
    PROVE  /\ width \in Nat /\ duration \in Nat
           /\ lens.zoom \in 1..MaxZoom /\ lens.offset \in Nat
           /\ \A id \in Selectable : /\ places[id].start \in Nat /\ places[id].end \in Nat
                                     /\ places[id].start <= places[id].end
  BY TimelineAssumption DEF ViewTypeOK, Lenses

LEMMA ScaleIsInside ==
    ASSUME ViewTypeOK
    PROVE  Inside(Scale) /\ Scale.length = duration /\ Scale.zoom = lens.zoom
  BY Numbers, ScaleInside, ScaleBounds DEF Scale

LEMMA Staled ==
    ASSUME loads \in SUBSET Loads
    PROVE  Stale \in SUBSET Loads /\ \A load \in Stale : ~ load.fresh
  <1>1. \A load \in Loads : /\ [load EXCEPT !.fresh = FALSE] \in Loads
                            /\ ~ [load EXCEPT !.fresh = FALSE].fresh
    BY DEF Loads
  <1> QED
    BY <1>1 DEF Stale

\* What the paint effect leaves: the loads of anything else are stale.
Redrawn(scale, pixels, pages) ==
    /\ loads' \in SUBSET Loads /\ activeKey' \in Pages
    /\ \A load \in loads' : load.fresh =>
         load.bundle = pages /\ load.scale = scale /\ load.width = pixels
    /\ pixels # 0 => canvas' = Blank

LEMMA Repainted ==
    ASSUME ViewTypeOK, NEW scale \in Scales, NEW pixels \in Nat, NEW pages \in Pages,
           Repaint(scale, pixels, pages)
    PROVE  Redrawn(scale, pixels, pages)
  <1> DEFINE wanted == [bundle |-> pages, scale |-> scale, width |-> pixels, fresh |-> TRUE]
  <1>1. /\ wanted \in Loads
        /\ wanted.bundle = pages /\ wanted.scale = scale /\ wanted.width = pixels
    BY DEF Loads
  <1>2. loads' = Stale \/ loads' = Stale \cup {wanted}
    BY DEF Repaint
  <1>3. /\ pixels # 0 => canvas' = Blank
        /\ activeKey' \in {pages, activeKey}
    BY DEF Repaint
  <1>4. loads \in SUBSET Loads /\ activeKey \in Pages
    BY DEF ViewTypeOK
  <1> HIDE DEF wanted
  <1> QED
    BY <1>1, <1>2, <1>3, <1>4, Staled DEF Redrawn

\* A view that is set is the one there is from then on.
LEMMA SetView ==
    ASSUME NEW next, Inside(next), duration' = next.length, lens' = ViewOf(next)
    PROVE  lens' \in Lenses /\ Scale' = next
  <1>1. next.zoom \in 1..MaxZoom /\ next.offset \in Nat
    BY DEF Inside, Scales
  <1>2. lens'.zoom = next.zoom /\ lens'.offset = next.offset /\ lens' \in Lenses
    BY <1>1 DEF ViewOf, Lenses
  <1>3. Scale' = TimeScale(duration', lens'.zoom, lens'.offset)
    BY DEF Scale, TimeScale, Within
  <1> QED
    BY <1>2, <1>3, InsideIsSet DEF SetAgain

\* applyViewport: the loads of another view are stale and what it painted is gone.
Applies(next) ==
    /\ lens' \in Lenses /\ Scale' = next /\ viewTimer' \in BOOLEAN
    /\ loads' \in SUBSET Loads /\ activeKey' \in Pages
    /\ LoadsAreCurrent' /\ PaintedIsCurrent'
    /\ viewTimer' \/ (lens' = lens /\ viewTimer' = viewTimer)

LEMMA Applied ==
    ASSUME ViewInv, NEW next, Inside(next), next.length = duration, ApplyViewport(next),
           width' = width, bundle' = bundle, duration' = duration
    PROVE  Applies(next)
  <1>1. ViewTypeOK /\ width \in Nat /\ bundle \in Pages /\ next \in Scales /\ viewTimer \in BOOLEAN
    BY Numbers DEF ViewInv, ViewTypeOK, Inside
  <1>2. lens' = ViewOf(next)
    BY DEF ApplyViewport
  <1>3. lens' \in Lenses /\ Scale' = next
    BY <1>2, SetView
  <1>4. CASE ViewOf(next) = lens
    <2>1. UNCHANGED <<lens, viewTimer, canvas, activeKey, loads>>
      BY <1>4 DEF ApplyViewport
    <2>2. Scale' = Scale
      BY <2>1 DEF Scale
    <2> QED
      BY <1>1, <1>3, <2>1, <2>2 DEF Applies, ViewInv, ViewTypeOK, LoadsAreCurrent, PaintedIsCurrent
  <1>5. CASE ViewOf(next) # lens
    <2>1. viewTimer' = TRUE /\ Repaint(next, width, bundle)
      BY <1>5 DEF ApplyViewport
    <2>2. Redrawn(next, width, bundle)
      BY <1>1, <2>1, Repainted
    <2> QED
      BY <1>3, <2>1, <2>2 DEF Applies, Redrawn, LoadsAreCurrent, PaintedIsCurrent
  <1> QED
    BY <1>4, <1>5

LEMMA MoveViewKeeps == ASSUME ViewInv, MoveView PROVE ViewInv'
  <1>1. /\ ViewTypeOK /\ width \in Nat /\ duration \in Nat /\ lens.zoom \in 1..MaxZoom
        /\ Inside(Scale) /\ Scale.length = duration /\ Scale.zoom = lens.zoom
        /\ MaxZoom \in Nat \ {0}
    BY Numbers, ScaleIsInside, TimelineAssumption DEF ViewInv
  <1>2. PICK next : Inside(next) /\ next.length = duration /\ ApplyViewport(next)
    <2>1. ASSUME \E zoom \in Zooms, pixel \in 0..width : ApplyViewport(ZoomAt(Scale, zoom, pixel))
          PROVE  \E next : Inside(next) /\ next.length = duration /\ ApplyViewport(next)
      <3>1. PICK zoom \in Zooms, pixel \in 0..width : ApplyViewport(ZoomAt(Scale, zoom, pixel))
        BY <2>1
      <3>2. zoom \in 1..MaxZoom /\ pixel \in Int
        BY <1>1 DEF Zooms
      <3>3. Inside(ZoomAt(Scale, zoom, pixel)) /\ ZoomAt(Scale, zoom, pixel).length = duration
        BY <1>1, <3>2, ZoomInside
      <3> QED
        BY <3>1, <3>3
    <2>2. ASSUME NEW pixels \in {-1, 1}, ApplyViewport(PanByPixels(Scale, pixels))
          PROVE  \E next : Inside(next) /\ next.length = duration /\ ApplyViewport(next)
      <3>1. Inside(PanByPixels(Scale, pixels)) /\ PanByPixels(Scale, pixels).length = duration
        <4>1. pixels \in Int
          OBVIOUS
        <4> QED
          BY <1>1, <4>1, PanInside
      <3> QED
        BY <2>2, <3>1
    <2>3. ASSUME NEW playhead \in {0, duration \div 2, duration},
                 NEW zoom \in {Within(Scale.zoom * 2, 1, MaxZoom), Within(Scale.zoom \div 2, 1, MaxZoom)},
                 LET shown_ == EnsureRangeVisible(Scale, playhead, playhead)
                 IN  ApplyViewport(ZoomAt(shown_, zoom, TimeToPixel(shown_, playhead)))
          PROVE  \E next : Inside(next) /\ next.length = duration /\ ApplyViewport(next)
      <3> DEFINE seen_ == EnsureRangeVisible(Scale, playhead, playhead)
      <3>1. playhead \in Nat
        <4>1. duration \div 2 \in Nat
          BY <1>1, Division
        <4> QED
          BY <1>1, <4>1
      <3>2. Inside(seen_) /\ seen_.length = duration
        <4>1. playhead <= playhead
          BY <3>1
        <4> QED
          BY <1>1, <3>1, <4>1, RangeIsVisible
      <3>3. zoom \in 1..MaxZoom
        <4>1. Scale.zoom * 2 \in Int /\ Scale.zoom \div 2 \in Int
          BY <1>1
        <4> QED
          BY <1>1, <4>1 DEF Within
      <3>4. seen_ \in Scales /\ seen_.offset \in Nat
        BY <3>2 DEF Inside, Scales
      <3>5. ApplyViewport(ZoomAt(seen_, zoom, TimeToPixel(seen_, playhead)))
        BY <2>3
      <3> HIDE DEF seen_
      <3>6. TimeToPixel(seen_, playhead) \in Int
        <4>1. TicksPerPixel(seen_) \in Nat
          BY <1>1, <3>4, PixelBounds
        <4>2. playhead - seen_.offset \in Int
          BY <3>1, <3>4
        <4>3. TicksPerPixel(seen_) # 0 => (playhead - seen_.offset) \div TicksPerPixel(seen_) \in Int
          BY <4>1, <4>2
        <4> QED
          BY <4>3 DEF TimeToPixel
      <3>7. /\ Inside(ZoomAt(seen_, zoom, TimeToPixel(seen_, playhead)))
            /\ ZoomAt(seen_, zoom, TimeToPixel(seen_, playhead)).length = duration
        BY <1>1, <3>2, <3>3, <3>6, ZoomInside
      <3> QED
        BY <3>5, <3>7
    <2>4. ASSUME ApplyViewport(TimeScale(duration, 1, 0))
          PROVE  \E next : Inside(next) /\ next.length = duration /\ ApplyViewport(next)
      <3>1. Inside(TimeScale(duration, 1, 0)) /\ TimeScale(duration, 1, 0).length = duration
        BY <1>1, ScaleInside
      <3> QED
        BY <2>4, <3>1
    <2> QED
      BY <2>1, <2>2, <2>3, <2>4 DEF MoveView
  <1>3. /\ drifted' = (drifted \/ lens' # lens)
        /\ UNCHANGED <<duration, width, places, chosen, ensured, bundle, saved>>
    BY DEF MoveView
  <1>4. Applies(next)
    BY <1>2, <1>3, Applied
  <1>5. ViewTypeOK'
    BY <1>1, <1>3, <1>4 DEF Applies, ViewTypeOK
  <1>6. EnsuredIsShown'
    <2>1. CASE lens' = lens
      <3>1. Scale' = Scale
        BY <1>3, <2>1 DEF Scale
      <3> QED
        BY <1>3, <2>1, <3>1 DEF ViewInv, EnsuredIsShown, Shows, Visible
    <2>2. CASE lens' # lens
      BY <1>3, <2>2 DEF EnsuredIsShown
    <2> QED
      BY <2>1, <2>2
  <1>7. ViewIsKept'
    BY <1>3, <1>4 DEF Applies, ViewInv, ViewIsKept
  <1> QED
    BY <1>4, <1>5, <1>6, <1>7 DEF Applies, ViewInv

\* A view that was made for a segment shows it.
LEMMA EnsuredView ==
    ASSUME ViewTypeOK, NEW segment \in Selectable, segment # Unselected, places' = places,
           Scale' = EnsureRangeVisible(Scale, places[segment].start, places[segment].end),
           ensured' = segment
    PROVE  EnsuredIsShown'
  <1> DEFINE next == EnsureRangeVisible(Scale, places[segment].start, places[segment].end)
  <1>1. Shows(next, places[segment].start, places[segment].end)
    BY Numbers, ScaleIsInside, RangeIsVisible
  <1> HIDE DEF next
  <1>2. Shows(Scale', places'[segment].start, places'[segment].end)
    BY <1>1 DEF next
  <1> QED
    BY <1>2 DEF EnsuredIsShown, Shows, Visible

LEMMA SelectionKeeps ==
    ASSUME ViewInv, NEW segment \in Selectable \cup {Unselected}, Select(segment) PROVE ViewInv'
  <1>1. ViewTypeOK /\ Inside(Scale) /\ Scale.length = duration
    BY ScaleIsInside DEF ViewInv
  <1>2. chosen' = segment /\ UNCHANGED <<duration, width, places, bundle, saved>>
    BY DEF Select
  <1>3. CASE UNCHANGED <<lens, viewTimer, canvas, activeKey, loads>>
             /\ ((ensured' = Unselected /\ drifted' = FALSE) \/ UNCHANGED <<ensured, drifted>>)
    <2>1. Scale' = Scale
      BY <1>2, <1>3 DEF Scale
    <2>2. ViewTypeOK'
      BY <1>1, <1>2, <1>3 DEF ViewTypeOK
    <2>3. EnsuredIsShown'
      BY <1>2, <1>3, <2>1 DEF ViewInv, EnsuredIsShown, Shows, Visible
    <2> QED
      BY <1>2, <1>3, <2>1, <2>2, <2>3 DEF ViewInv, LoadsAreCurrent, PaintedIsCurrent, ViewIsKept
  <1>4. CASE /\ segment # Unselected /\ ensured' = segment /\ drifted' = FALSE
             /\ ApplyViewport(EnsureRangeVisible(Scale, places[segment].start, places[segment].end))
    <2> DEFINE next == EnsureRangeVisible(Scale, places[segment].start, places[segment].end)
    <2>1. segment \in Selectable
      BY <1>4
    <2>2. Inside(next) /\ next.length = duration
      BY <1>1, <2>1, Numbers, RangeIsVisible
    <2>3. ApplyViewport(next)
      BY <1>4
    <2> HIDE DEF next
    <2>4. Applies(next)
      BY <1>2, <2>2, <2>3, Applied
    <2>5. EnsuredIsShown'
      BY <1>1, <1>2, <1>4, <2>1, <2>4, EnsuredView DEF Applies, next
    <2>6. ViewTypeOK'
      BY <1>1, <1>2, <1>4, <2>4 DEF Applies, ViewTypeOK
    <2>7. ViewIsKept'
      BY <1>2, <2>4 DEF Applies, ViewInv, ViewIsKept
    <2> QED
      BY <2>4, <2>5, <2>6, <2>7 DEF Applies, ViewInv
  <1> QED
    BY <1>3, <1>4 DEF Select

LEMMA ResizeKeeps == ASSUME ViewInv, NEW pixels \in Widths, Resize(pixels) PROVE ViewInv'
  <1>1. ViewTypeOK /\ Inside(Scale) /\ Scale.length = duration /\ Scale \in Scales /\ bundle \in Pages
    BY ScaleIsInside DEF ViewInv, Inside, ViewTypeOK
  <1>2. /\ width' = pixels /\ UNCHANGED <<duration, places, chosen, bundle, saved>>
        /\ pixels \in Nat
    BY TimelineAssumption DEF Resize
  <1>3. CASE pixels = 0 \/ chosen \in {Unselected, ensured}
    <2>1. UNCHANGED <<lens, viewTimer, ensured, drifted>> /\ Repaint(Scale, pixels, bundle)
      BY <1>3 DEF Resize
    <2>2. Redrawn(Scale, pixels, bundle)
      BY <1>1, <1>2, <2>1, Repainted
    <2>3. Scale' = Scale
      BY <1>2, <2>1 DEF Scale
    <2>4. ViewTypeOK'
      BY <1>1, <1>2, <2>1, <2>2 DEF Redrawn, ViewTypeOK
    <2>5. LoadsAreCurrent' /\ PaintedIsCurrent'
      BY <1>2, <2>2, <2>3 DEF Redrawn, LoadsAreCurrent, PaintedIsCurrent
    <2>6. EnsuredIsShown'
      BY <1>2, <2>1, <2>3 DEF ViewInv, EnsuredIsShown, Shows, Visible
    <2>7. ViewIsKept'
      BY <1>2, <2>1 DEF ViewInv, ViewIsKept
    <2> QED
      BY <2>4, <2>5, <2>6, <2>7 DEF ViewInv
  <1>4. CASE ~ (pixels = 0 \/ chosen \in {Unselected, ensured})
    <2> DEFINE next == EnsureRangeVisible(Scale, places[chosen].start, places[chosen].end)
    <2>1. /\ lens' = ViewOf(next) /\ ensured' = chosen /\ drifted' = FALSE
          /\ viewTimer' = (viewTimer \/ lens' # lens)
          /\ Repaint(next, pixels, bundle)
      BY <1>4 DEF Resize
    <2>2. chosen \in Selectable /\ chosen # Unselected
      BY <1>1, <1>4 DEF ViewTypeOK
    <2>3. Inside(next) /\ next.length = duration
      BY <1>1, <2>2, Numbers, RangeIsVisible
    <2> HIDE DEF next
    <2>4. lens' \in Lenses /\ Scale' = next /\ next \in Scales
      BY <1>2, <2>1, <2>3, SetView DEF Inside
    <2>5. Redrawn(next, pixels, bundle)
      BY <1>1, <1>2, <2>1, <2>4, Repainted
    <2>6. viewTimer' \in BOOLEAN /\ (viewTimer' \/ (lens' = lens /\ viewTimer' = viewTimer))
      BY <1>1, <2>1 DEF ViewTypeOK
    <2>7. ViewTypeOK'
      BY <1>1, <1>2, <2>1, <2>2, <2>4, <2>5, <2>6 DEF Redrawn, ViewTypeOK
    <2>8. LoadsAreCurrent' /\ PaintedIsCurrent'
      BY <1>2, <2>4, <2>5 DEF Redrawn, LoadsAreCurrent, PaintedIsCurrent
    <2>9. EnsuredIsShown'
      BY <1>1, <1>2, <2>1, <2>2, <2>4, EnsuredView DEF next
    <2>10. ViewIsKept'
      BY <1>2, <2>6 DEF ViewInv, ViewIsKept
    <2> QED
      BY <2>7, <2>8, <2>9, <2>10 DEF ViewInv
  <1> QED
    BY <1>3, <1>4

LEMMA EditSegmentKeeps ==
    ASSUME ViewInv, NEW segment \in Selectable, NEW place \in Places, EditSegment(segment, place)
    PROVE  ViewInv'
  <1>1. /\ places' = [places EXCEPT ![segment] = place]
        /\ drifted' = (drifted \/ segment = ensured)
        /\ UNCHANGED <<lens, duration, width, chosen, ensured, bundle, activeKey, loads, canvas,
                       viewTimer, saved>>
    BY DEF EditSegment
  <1>2. Scale' = Scale
    BY <1>1 DEF Scale
  <1>3. ViewTypeOK'
    BY <1>1 DEF ViewInv, ViewTypeOK
  <1>4. EnsuredIsShown'
    <2>1. CASE segment = ensured
      BY <1>1, <2>1 DEF EnsuredIsShown
    <2>2. CASE segment # ensured
      <3>1. places'[ensured] = places[ensured] \/ ensured = Unselected
        BY <1>1, <2>2 DEF ViewInv, ViewTypeOK
      <3> QED
        BY <1>1, <1>2, <2>2, <3>1 DEF ViewInv, EnsuredIsShown, Shows, Visible
    <2> QED
      BY <2>1, <2>2
  <1> QED
    BY <1>1, <1>2, <1>3, <1>4 DEF ViewInv, LoadsAreCurrent, PaintedIsCurrent, ViewIsKept

LEMMA DurationKeeps == ASSUME ViewInv, DurationChanges PROVE ViewInv'
  <1>1. ViewTypeOK /\ width \in Nat /\ bundle \in Pages
    BY Numbers DEF ViewInv, ViewTypeOK
  <1>2. /\ duration' \in Lengths /\ drifted' = TRUE
        /\ Repaint(TimeScale(duration', lens.zoom, lens.offset), width, bundle)
        /\ UNCHANGED <<lens, width, places, chosen, ensured, bundle, viewTimer, saved>>
    BY DEF DurationChanges
  <1> DEFINE next == TimeScale(duration', lens.zoom, lens.offset)
  <1>3. next \in Scales
    BY <1>1, <1>2, Numbers, ScaleBounds, TimelineAssumption
  <1>4. Scale' = next
    BY <1>2 DEF Scale, TimeScale, Within
  <1>5. Repaint(next, width, bundle)
    BY <1>2
  <1> HIDE DEF next
  <1>6. Redrawn(next, width, bundle)
    BY <1>1, <1>3, <1>5, Repainted
  <1>7. ViewTypeOK'
    BY <1>1, <1>2, <1>6 DEF Redrawn, ViewTypeOK
  <1>8. LoadsAreCurrent' /\ PaintedIsCurrent'
    BY <1>2, <1>4, <1>6 DEF Redrawn, LoadsAreCurrent, PaintedIsCurrent
  <1> QED
    BY <1>2, <1>7, <1>8 DEF ViewInv, EnsuredIsShown, ViewIsKept

LEMMA BundleKeeps == ASSUME ViewInv, BundleChanges PROVE ViewInv'
  <1>1. ViewTypeOK /\ width \in Nat /\ Scale \in Scales
    BY Numbers, ScaleIsInside DEF ViewInv, Inside
  <1>2. /\ bundle' \in Pages /\ Repaint(Scale, width, bundle')
        /\ UNCHANGED <<lens, duration, width, places, chosen, ensured, drifted, viewTimer, saved>>
    BY DEF BundleChanges, Pages
  <1>3. Redrawn(Scale, width, bundle')
    BY <1>1, <1>2, Repainted
  <1>4. Scale' = Scale
    BY <1>2 DEF Scale
  <1>5. ViewTypeOK'
    BY <1>1, <1>2, <1>3 DEF Redrawn, ViewTypeOK
  <1>6. LoadsAreCurrent' /\ PaintedIsCurrent'
    BY <1>2, <1>3, <1>4 DEF Redrawn, LoadsAreCurrent, PaintedIsCurrent
  <1>7. EnsuredIsShown'
    BY <1>2, <1>4 DEF ViewInv, EnsuredIsShown, Shows, Visible
  <1> QED
    BY <1>2, <1>5, <1>6, <1>7 DEF ViewInv, ViewIsKept

LEMMA ImagesArriveKeeps ==
    ASSUME ViewInv, NEW load \in loads, ImagesArrive(load) PROVE ViewInv'
  <1>1. /\ loads' = loads \ {load}
        /\ UNCHANGED <<lens, duration, width, places, chosen, ensured, drifted, bundle, activeKey,
                       viewTimer, saved>>
    BY DEF ImagesArrive
  <1>2. Scale' = Scale
    BY <1>1 DEF Scale
  <1>3. \/ canvas' = canvas
        \/ canvas' = [bundle |-> bundle, scale |-> Scale, width |-> width]
    BY DEF ImagesArrive, Discarded, ViewInv, LoadsAreCurrent
  <1>4. ViewTypeOK'
    BY <1>1 DEF ViewInv, ViewTypeOK
  <1>5. LoadsAreCurrent' /\ PaintedIsCurrent'
    BY <1>1, <1>2, <1>3 DEF ViewInv, LoadsAreCurrent, PaintedIsCurrent
  <1>6. EnsuredIsShown'
    BY <1>1, <1>2 DEF ViewInv, EnsuredIsShown, Shows, Visible
  <1> QED
    BY <1>1, <1>4, <1>5, <1>6 DEF ViewInv, ViewIsKept

LEMMA ImagesFailKeeps ==
    ASSUME ViewInv, NEW load \in loads, ImagesFail(load) PROVE ViewInv'
  <1>1. UNCHANGED <<lens, duration, width, places, chosen, ensured, drifted, viewTimer, saved>>
    BY DEF ImagesFail
  <1>2. Scale' = Scale
    BY <1>1 DEF Scale
  <1>3. EnsuredIsShown' /\ ViewIsKept'
    BY <1>1, <1>2 DEF ViewInv, EnsuredIsShown, Shows, Visible, ViewIsKept
  <1>4. CASE loads' = loads \ {load} /\ UNCHANGED <<bundle, canvas, activeKey>>
    <2>1. ViewTypeOK'
      BY <1>1, <1>4 DEF ViewInv, ViewTypeOK
    <2> QED
      BY <1>1, <1>2, <1>3, <1>4, <2>1 DEF ViewInv, LoadsAreCurrent, PaintedIsCurrent
  <1>5. CASE /\ bundle' = Blank /\ canvas' = Blank /\ activeKey' = Blank
             /\ loads' = {[other EXCEPT !.fresh = FALSE] : other \in loads \ {load}}
    <2>1. \A other \in Loads : /\ [other EXCEPT !.fresh = FALSE] \in Loads
                               /\ ~ [other EXCEPT !.fresh = FALSE].fresh
      BY DEF Loads
    <2>2. loads \in SUBSET Loads
      BY DEF ViewInv, ViewTypeOK
    <2>3. loads' \in SUBSET Loads /\ \A other \in loads' : ~ other.fresh
      BY <1>5, <2>1, <2>2
    <2>4. ViewTypeOK'
      BY <1>1, <1>5, <2>3 DEF ViewInv, ViewTypeOK, Pages
    <2> QED
      BY <1>3, <1>5, <2>3, <2>4 DEF ViewInv, LoadsAreCurrent, PaintedIsCurrent
  <1> QED
    BY <1>4, <1>5 DEF ImagesFail

LEMMA RestKeeps ==
    ASSUME ViewInv, MaterializeTimelineViewport \/ UNCHANGED viewVars PROVE ViewInv'
  <1>1. /\ UNCHANGED <<lens, duration, width, places, chosen, ensured, drifted, bundle, activeKey,
                       loads, canvas>>
        /\ (saved' = lens /\ viewTimer' = FALSE) \/ UNCHANGED <<saved, viewTimer>>
    BY DEF MaterializeTimelineViewport, viewVars
  <1>2. Scale' = Scale
    BY <1>1 DEF Scale
  <1>3. ViewTypeOK' /\ ViewIsKept'
    BY <1>1 DEF ViewInv, ViewTypeOK, ViewIsKept
  <1>4. EnsuredIsShown'
    BY <1>1, <1>2 DEF ViewInv, EnsuredIsShown, Shows, Visible
  <1> QED
    BY <1>1, <1>2, <1>3, <1>4 DEF ViewInv, LoadsAreCurrent, PaintedIsCurrent

LEMMA ViewStep == ViewInv /\ [TimelineViewNext]_viewVars => ViewInv'
  BY MoveViewKeeps, SelectionKeeps, ResizeKeeps, EditSegmentKeeps, DurationKeeps, BundleKeeps,
     ImagesArriveKeeps, ImagesFailKeeps, RestKeeps
  DEF TimelineViewNext

LEMMA ViewInitial == TimelineViewInit => ViewInv
  <1> SUFFICES ASSUME TimelineViewInit
               PROVE  ViewInv
    OBVIOUS
  <1>1. saved = lens /\ viewTimer = FALSE /\ width = 0 /\ chosen = Unselected
        /\ ensured = Unselected /\ drifted = FALSE /\ bundle = Blank /\ activeKey = Blank
        /\ loads = {} /\ canvas = Blank
    BY DEF TimelineViewInit
  <1>2. lens \in Lenses
    BY TimelineAssumption DEF TimelineViewInit, Lenses, Zooms
  <1>3. ViewTypeOK
    BY <1>1, <1>2 DEF TimelineViewInit, ViewTypeOK, Pages
  <1> QED
    BY <1>1, <1>3 DEF ViewInv, LoadsAreCurrent, EnsuredIsShown, PaintedIsCurrent, ViewIsKept

\* The timeline's loads, view and selection stay together (PrecisionTimeline.svelte,
\* lib/timeline-viewport.ts, lib/thumbnail-renderer.ts), while the segments' boundaries,
\* the video's length, the width and the manifest change.
THEOREM ViewInvariant == TimelineViewSpec => []ViewInv
  <1>1. TimelineViewInit => ViewInv
    BY ViewInitial
  <1>2. ViewInv /\ [TimelineViewNext]_viewVars => ViewInv'
    BY ViewStep
  <1> QED
    BY <1>1, <1>2, PTL DEF TimelineViewSpec

\* What is painted is of the manifest and the view there are now, a segment brought into
\* view is in view until the view, its boundaries or the video's length change, and the
\* document has the view that was set: for videos of any length, segments anywhere, any
\* zoom and width, and any number of loads under way.
THEOREM TimelineStaysTrue == TimelineViewSpec => []TimelineIsTrue
  <1>1. ViewInv => TimelineIsTrue
    <2> SUFFICES ASSUME ViewInv PROVE TimelineIsTrue
      OBVIOUS
    <2>1. Scale.length = duration
      BY ScaleIsInside DEF ViewInv
    <2>2. SelectionIsShown
      BY <2>1 DEF ViewInv, EnsuredIsShown, Shows, SelectionIsShown
    <2> QED
      BY <2>2 DEF ViewInv, TimelineIsTrue
  <1> QED
    BY <1>1, ViewInvariant, PTL

----------------------------------------------------------------------------
(* The fragments panel.                                                      *)

Content == [Fields -> Nat]
Rows == [rev : Nat, fields : Content]

NotAfter(older, newer) == \A field \in Fields : older[field] <= newer[field]

PanelTypeOK ==
    /\ stored \in Rows \cup {Gone} /\ openSegment \in Rows \cup {Gone} /\ listed \in Rows \cup {Gone}
    /\ fragmentDraft \in Content \cup {Gone} /\ writes \in Seq(Content)
    /\ writing \in {"idle", "stored", "failed"}
    /\ request \in [stage : {"none", "sent", "loaded"}, read : Rows \cup {Gone}]
    /\ removing \in BOOLEAN /\ stale \in BOOLEAN /\ panelError \in BOOLEAN
    /\ edits \in Content /\ counts \in [refreshes : Nat, losses : Nat]

\* The draft is the content of the last write, and each write has the edits of the one before.
WritesAreOfTheDraft ==
    /\ fragmentDraft # Gone <=> writes # <<>>
    /\ writes # <<>> => fragmentDraft = writes[Len(writes)]
    /\ \A i \in 1..(Len(writes) - 1) : NotAfter(writes[i], writes[i + 1])
    /\ writing # "idle" => writes # <<>>
    /\ writing = "stored" => stored # Gone /\ stored.fields = Head(writes)

\* No place holds an edit that was not made.
NothingIsAhead ==
    /\ stored # Gone => NotAfter(stored.fields, edits)
    /\ listed # Gone => NotAfter(listed.fields, edits)
    /\ request.read # Gone => NotAfter(request.read.fields, edits)
    /\ \A i \in 1..Len(writes) : NotAfter(writes[i], edits)

\* A snapshot of the row is of an earlier revision, or it is the row.
Earlier(row) ==
    row # Gone /\ stored # Gone => row.rev < stored.rev \/ row = stored

SnapshotsAreEarlier ==
    /\ Earlier(listed) /\ Earlier(request.read)
    /\ stored # Gone => listed # Gone /\ (request.stage = "loaded" => request.read # Gone)

\* What the server would take has the edits the server has.
NextWriteKeeps ==
    ~ stale /\ writes # <<>> /\ Accepts => NotAfter(stored.fields, Head(writes))

\* While no request was lost and no snapshot came between, the client knows the row.
RowIsKnown ==
    ~ stale /\ counts.losses = 0 =>
        IF stored = Gone
        THEN listed = Gone /\ openSegment = Gone /\ (request.stage = "loaded" => request.read = Gone)
        ELSE /\ writing # "failed"
             /\ writing # "stored" =>
                  /\ IsOpen => openSegment = stored
                  /\ ~ IsOpen => listed = stored
                  /\ request.stage = "loaded" => request.read = stored
                  /\ listed # stored => request.stage # "none"

\* And what it has not written yet it will write.
EditsAreKept ==
    ~ stale /\ counts.losses = 0 /\ stored # Gone =>
        edits = IF writes = <<>> THEN stored.fields ELSE fragmentDraft

PanelInv ==
    /\ PanelTypeOK /\ WritesAreOfTheDraft /\ NothingIsAhead /\ SnapshotsAreEarlier
    /\ NextWriteKeeps /\ RowIsKnown /\ EditsAreKept

LEMMA LastEditIsLast ==
    ASSUME edits \in Content
    PROVE  LastEdit \in Nat /\ \A field \in Fields : edits[field] <= LastEdit
  <1> DEFINE made == {edits[field] : field \in Fields}
             greatest(n) == n \in made /\ \A m \in made : n >= m
  <1>1. made \in SUBSET Nat /\ \A field \in Fields : edits[field] \in made
    BY DEF Content
  <1>2. \E n \in made : \A m \in made : n >= m
    <2>1. edits["title"] \in Nat /\ edits["tags"] \in Nat
      BY DEF Content, Fields
    <2>2. made = {edits["title"], edits["tags"]}
      BY DEF Fields
    <2>3. CASE edits["title"] >= edits["tags"]
      BY <2>1, <2>2, <2>3
    <2>4. CASE edits["tags"] >= edits["title"]
      BY <2>1, <2>2, <2>4
    <2> QED
      BY <2>1, <2>3, <2>4
  <1>3. LastEdit \in made /\ \A m \in made : LastEdit >= m
    BY <1>2 DEF LastEdit, Max
  <1> HIDE DEF made
  <1> QED
    BY <1>1, <1>3

\* An edit is later than all before it.
LEMMA EditIsLast ==
    ASSUME edits \in Content, NEW content \in Content, NotAfter(content, edits),
           NEW field \in Fields
    PROVE  LET edited == [content EXCEPT ![field] = LastEdit + 1]
               made == [edits EXCEPT ![field] = LastEdit + 1]
           IN  /\ edited \in Content /\ made \in Content
               /\ NotAfter(content, edited) /\ NotAfter(edited, made) /\ NotAfter(edits, made)
  <1> DEFINE n == LastEdit + 1
  <1>1. n \in Nat /\ \A f \in Fields : edits[f] <= n
    BY LastEditIsLast DEF Content
  <1> HIDE DEF n
  <1>2. \A f \in Fields : content[f] <= n
    BY <1>1 DEF NotAfter, Content
  <1>3. [content EXCEPT ![field] = n] \in Content /\ [edits EXCEPT ![field] = n] \in Content
    BY <1>1 DEF Content
  <1>4. \A f \in Fields : /\ [content EXCEPT ![field] = n][f] = IF f = field THEN n ELSE content[f]
                          /\ [edits EXCEPT ![field] = n][f] = IF f = field THEN n ELSE edits[f]
    BY DEF Content
  <1>5. /\ NotAfter(content, [content EXCEPT ![field] = n])
        /\ NotAfter([content EXCEPT ![field] = n], [edits EXCEPT ![field] = n])
        /\ NotAfter(edits, [edits EXCEPT ![field] = n])
    BY <1>1, <1>2, <1>4 DEF NotAfter, Content
  <1> QED
    BY <1>3, <1>5 DEF n

LEMMA GoneIsNothingElse == Gone \notin Rows /\ Gone \notin Content
  BY GoneAssumption DEF Rows, Content

LEMMA NewRow ==
    ASSUME NEW rev \in Nat, NEW fields \in Content
    PROVE  LET row == [rev |-> rev, fields |-> fields]
           IN  row \in Rows /\ row # Gone /\ row.rev = rev /\ row.fields = fields
  BY GoneIsNothingElse DEF Rows

LEMMA Appended ==
    ASSUME NEW items, NEW list \in Seq(items), NEW item \in items
    PROVE  LET longer == Append(list, item)
           IN  /\ longer \in Seq(items) /\ longer # <<>> /\ Len(longer) = Len(list) + 1
               /\ longer[Len(longer)] = item /\ \A i \in 1..Len(list) : longer[i] = list[i]
  OBVIOUS

LEMMA MutateKeeps ==
    ASSUME PanelInv, NEW field \in Fields, Mutate(field)
    PROVE  PanelInv'
  <1> DEFINE base == Base
             draft_ == [base EXCEPT ![field] = LastEdit + 1]
             made == [edits EXCEPT ![field] = LastEdit + 1]
  <1>1. /\ listed # Gone /\ edits' = made /\ fragmentDraft' = draft_
        /\ writes' = Append(writes, fragmentDraft')
        /\ stale' = (stale \/ (fragmentDraft = Gone /\ ListIsBehind))
        /\ panelError' = FALSE
        /\ UNCHANGED <<stored, openSegment, listed, writing, request, removing, counts>>
    BY DEF Mutate
  <1>2. /\ PanelTypeOK /\ WritesAreOfTheDraft /\ NothingIsAhead /\ SnapshotsAreEarlier
        /\ NextWriteKeeps /\ RowIsKnown /\ EditsAreKept
    BY DEF PanelInv
  <1>3. /\ listed \in Rows /\ edits \in Content /\ writes \in Seq(Content)
        /\ fragmentDraft \in Content \cup {Gone} /\ stale \in BOOLEAN
        /\ stored \in Rows \cup {Gone} /\ request.read \in Rows \cup {Gone}
    BY <1>1, <1>2 DEF PanelTypeOK
  <1>4. /\ base \in Content /\ NotAfter(base, edits)
        /\ fragmentDraft # Gone => base = fragmentDraft
        /\ fragmentDraft = Gone => base = listed.fields
    <2>1. fragmentDraft # Gone => NotAfter(fragmentDraft, edits)
      BY <1>2, <1>3 DEF WritesAreOfTheDraft, NothingIsAhead
    <2> QED
      BY <1>1, <1>2, <1>3, <2>1 DEF Base, NothingIsAhead, Rows
  <1> HIDE DEF base
  <1>5. /\ draft_ \in Content /\ made \in Content
        /\ NotAfter(base, draft_) /\ NotAfter(draft_, made) /\ NotAfter(edits, made)
    BY <1>3, <1>4, EditIsLast
  <1>6. base = edits => draft_ = made
    OBVIOUS
  <1> HIDE DEF draft_, made
  <1>7. /\ draft_ # Gone /\ writes' \in Seq(Content) /\ writes' # <<>>
        /\ Len(writes') = Len(writes) + 1 /\ writes'[Len(writes')] = draft_
        /\ \A i \in 1..Len(writes) : writes'[i] = writes[i]
    <2>1. draft_ # Gone
      BY <1>5, GoneAssumption DEF Content
    <2>2. writes' = Append(writes, draft_)
      BY <1>1
    <2> QED
      BY <1>3, <1>5, <2>1, <2>2, Appended
  <1>8. /\ stored' = stored /\ openSegment' = openSegment /\ listed' = listed
        /\ writing' = writing /\ request' = request /\ counts' = counts
        /\ fragmentDraft' = draft_ /\ edits' = made
    BY <1>1
  <1>9. PanelTypeOK'
    BY <1>1, <1>2, <1>5, <1>7 DEF PanelTypeOK, ListIsBehind, IsOpen
  <1>10. WritesAreOfTheDraft'
    <2>1. \A i \in 1..(Len(writes') - 1) : NotAfter(writes'[i], writes'[i + 1])
      <3>1. SUFFICES ASSUME NEW i \in 1..Len(writes)
                     PROVE  NotAfter(writes'[i], writes'[i + 1])
        BY <1>3, <1>7
      <3>2. CASE i < Len(writes)
        BY <1>2, <1>3, <1>7, <3>1, <3>2 DEF WritesAreOfTheDraft
      <3>3. CASE i = Len(writes)
        <4>1. writes # <<>>
          BY <1>3, <3>1
        <4>2. writes[i] = base
          BY <1>2, <1>4, <3>3, <4>1 DEF WritesAreOfTheDraft
        <4> QED
          BY <1>3, <1>5, <1>7, <3>3, <4>2
      <3> QED
        BY <1>3, <3>2, <3>3
    <2>2. writing = "stored" => stored # Gone /\ stored.fields = Head(writes')
      <3>1. SUFFICES ASSUME writing = "stored" PROVE stored # Gone /\ stored.fields = Head(writes')
        OBVIOUS
      <3>2. writes # <<>> /\ stored # Gone /\ stored.fields = Head(writes)
        BY <1>2, <3>1 DEF WritesAreOfTheDraft
      <3>3. 1 \in 1..Len(writes) /\ Head(writes) = writes[1] /\ Head(writes') = writes'[1]
        BY <1>3, <1>7, <3>2
      <3> QED
        BY <1>7, <3>2, <3>3
    <2> QED
      BY <1>2, <1>7, <1>8, <2>1, <2>2 DEF WritesAreOfTheDraft
  <1>11. NothingIsAhead'
    <2>1. \A older \in Content : NotAfter(older, edits) => NotAfter(older, made)
      BY <1>3, <1>5 DEF NotAfter, Content
    <2>2. \A row \in Rows : row.fields \in Content
      BY DEF Rows
    <2>3. \A i \in 1..Len(writes') : NotAfter(writes'[i], made)
      <3>1. SUFFICES ASSUME NEW i \in 1..Len(writes')
                     PROVE  NotAfter(writes'[i], made)
        OBVIOUS
      <3>2. CASE i = Len(writes')
        BY <1>5, <1>7, <3>2
      <3>3. CASE i \in 1..Len(writes)
        BY <1>2, <1>3, <1>7, <2>1, <3>3 DEF NothingIsAhead
      <3> QED
        BY <1>3, <1>7, <3>1, <3>2, <3>3
    <2> QED
      BY <1>2, <1>3, <1>5, <1>8, <2>1, <2>2, <2>3 DEF NothingIsAhead
  <1>12. SnapshotsAreEarlier'
    BY <1>2, <1>8 DEF SnapshotsAreEarlier, Earlier
  <1>13. NextWriteKeeps'
    <2>1. SUFFICES ASSUME ~ stale', Accepts'
                   PROVE  NotAfter(stored.fields, Head(writes'))
      BY <1>8 DEF NextWriteKeeps
    <2>2. Accepts /\ ~ stale
      BY <1>1, <1>3, <1>8, <2>1 DEF Accepts, ExpectedRevision, IsOpen
    <2>3. CASE writes # <<>>
      <3>1. NotAfter(stored.fields, Head(writes))
        BY <1>2, <2>2, <2>3 DEF NextWriteKeeps
      <3>2. Head(writes') = Head(writes)
        BY <1>3, <1>7, <2>3
      <3> QED
        BY <3>1, <3>2
    <2>4. CASE writes = <<>>
      <3>1. fragmentDraft = Gone /\ ~ ListIsBehind
        BY <1>1, <1>2, <2>1, <2>4 DEF WritesAreOfTheDraft
      <3>2. listed.rev >= stored.rev /\ stored \in Rows /\ stored # Gone
        BY <1>1, <1>2, <1>3, <2>2, <3>1
        DEF ListIsBehind, Accepts, ExpectedRevision, IsOpen, PanelTypeOK, Rows
      <3>3. listed = stored
        BY <1>1, <1>2, <1>3, <3>2 DEF SnapshotsAreEarlier, Earlier, Rows
      <3>4. base = stored.fields /\ Head(writes') = draft_
        BY <1>3, <1>4, <1>7, <2>4, <3>1, <3>3
      <3> QED
        BY <1>5, <3>4
    <2> QED
      BY <2>3, <2>4
  <1>14. RowIsKnown'
    <2>1. stale' = FALSE => stale = FALSE
      BY <1>1, <1>3
    <2> QED
      BY <1>2, <1>3, <1>8, <1>9, <2>1 DEF RowIsKnown, IsOpen, PanelTypeOK
  <1>15. EditsAreKept'
    <2>1. SUFFICES ASSUME ~ stale', counts.losses = 0, stored # Gone
                   PROVE  made = draft_
      BY <1>7, <1>8 DEF EditsAreKept
    <2>2. ~ stale
      BY <1>1, <2>1
    <2>3. CASE writes # <<>>
      <3>1. edits = fragmentDraft /\ fragmentDraft # Gone
        BY <1>2, <2>1, <2>2, <2>3 DEF EditsAreKept, WritesAreOfTheDraft
      <3> QED
        BY <1>4, <1>6, <3>1
    <2>4. CASE writes = <<>>
      <3>1. fragmentDraft = Gone /\ ~ ListIsBehind /\ writing = "idle"
        BY <1>1, <1>2, <2>1, <2>4 DEF WritesAreOfTheDraft, PanelTypeOK
      <3>2. edits = stored.fields
        BY <1>2, <2>1, <2>2, <2>4 DEF EditsAreKept
      <3>3. /\ IsOpen => openSegment = stored
            /\ ~ IsOpen => listed = stored
        BY <1>2, <2>1, <2>2, <3>1 DEF RowIsKnown
      <3>4. listed = stored
        BY <1>1, <1>2, <1>3, <2>1, <3>1, <3>3
        DEF ListIsBehind, SnapshotsAreEarlier, Earlier, Rows
      <3> QED
        BY <1>4, <1>6, <3>1, <3>2, <3>4
    <2> QED
      BY <2>3, <2>4
  <1> QED
    BY <1>9, <1>10, <1>11, <1>12, <1>13, <1>14, <1>15 DEF PanelInv

LEMMA UpdateKeeps ==
    ASSUME PanelInv, UpdateFragment
    PROVE  PanelInv'
  <1>1. /\ writes # <<>> /\ writing = "idle"
        /\ openSegment' = openSegment /\ listed' = listed /\ fragmentDraft' = fragmentDraft
        /\ writes' = writes /\ request' = request /\ removing' = removing /\ edits' = edits
        /\ stale' = stale /\ panelError' = panelError
    BY DEF UpdateFragment
  <1>2. /\ PanelTypeOK /\ WritesAreOfTheDraft /\ NothingIsAhead /\ SnapshotsAreEarlier
        /\ NextWriteKeeps /\ RowIsKnown /\ EditsAreKept
    BY DEF PanelInv
  <1>3. /\ writes \in Seq(Content) /\ Head(writes) \in Content /\ edits \in Content
        /\ counts \in [refreshes : Nat, losses : Nat]
        /\ stored \in Rows \cup {Gone} /\ listed \in Rows \cup {Gone}
        /\ request.read \in Rows \cup {Gone}
    BY <1>1, <1>2 DEF PanelTypeOK
  <1>4. Lost => counts' \in [refreshes : Nat, losses : Nat] /\ counts'.losses # 0
    BY <1>3 DEF Lost
  <1>5. NotAfter(Head(writes), edits)
    <2>1. 1 \in 1..Len(writes) /\ Head(writes) = writes[1]
      BY <1>1, <1>3
    <2> QED
      BY <1>2, <2>1 DEF NothingIsAhead
  <1>6. CASE /\ Accepts
             /\ (writing' = "stored" \/ (writing' = "failed" /\ Lost))
             /\ stored' = [rev |-> stored.rev + 1, fields |-> Head(writes)]
             /\ writing' = "stored" => counts' = counts
    <2>1. stored \in Rows /\ stored # Gone
      BY <1>3, <1>6 DEF Accepts
    <2> DEFINE row == [rev |-> stored.rev + 1, fields |-> Head(writes)]
    <2>2. row \in Rows /\ row.rev = stored.rev + 1 /\ row.fields = Head(writes) /\ row # Gone
      <3>1. stored.rev + 1 \in Nat
        BY <2>1 DEF Rows
      <3> QED
        BY <1>3, <3>1, NewRow
    <2>3. stored' = row
      BY <1>6
    <2> HIDE DEF row
    <2>4. counts' \in [refreshes : Nat, losses : Nat] /\ (writing' = "failed" => counts'.losses # 0)
      BY <1>3, <1>4, <1>6
    <2>5. PanelTypeOK'
      BY <1>1, <1>2, <1>6, <2>2, <2>3, <2>4 DEF PanelTypeOK
    <2>6. WritesAreOfTheDraft'
      BY <1>1, <1>2, <2>2, <2>3 DEF WritesAreOfTheDraft
    <2>7. NothingIsAhead'
      BY <1>1, <1>2, <1>5, <2>2, <2>3 DEF NothingIsAhead
    <2>8. SnapshotsAreEarlier'
      <3>1. ASSUME NEW old \in Rows \cup {Gone}, Earlier(old)
            PROVE  Earlier(old)'
        BY <2>1, <2>2, <2>3, <3>1 DEF Earlier, Rows
      <3>2. Earlier(listed) /\ Earlier(request.read)
        BY <1>2 DEF SnapshotsAreEarlier
      <3>3. Earlier(listed)' /\ Earlier(request.read)'
        <4>1. PICK l : l = listed
          OBVIOUS
        <4>2. PICK r : r = request.read
          OBVIOUS
        <4>3. Earlier(l)' /\ Earlier(r)'
          BY <1>3, <3>1, <3>2, <4>1, <4>2
        <4> QED
          BY <1>1, <4>1, <4>2, <4>3 DEF Earlier
      <3> QED
        BY <1>1, <1>2, <2>1, <3>3 DEF SnapshotsAreEarlier
    <2>9. NextWriteKeeps'
      <3>1. NotAfter(Head(writes), Head(writes))
        BY <1>3 DEF NotAfter, Content
      <3> QED
        BY <1>1, <2>2, <2>3, <3>1 DEF NextWriteKeeps
    <2>10. RowIsKnown'
      BY <1>1, <1>6, <2>1, <2>2, <2>3, <2>4 DEF RowIsKnown
    <2>11. EditsAreKept'
      BY <1>1, <1>2, <1>6, <2>1, <2>2, <2>3, <2>4 DEF EditsAreKept
    <2> QED
      BY <2>5, <2>6, <2>7, <2>8, <2>9, <2>10, <2>11 DEF PanelInv
  <1>7. CASE /\ writing' = "failed" /\ stored' = stored
             /\ ((~ Accepts /\ counts' = counts) \/ Lost)
    <2>1. counts' \in [refreshes : Nat, losses : Nat]
      BY <1>3, <1>4, <1>7
    <2>2. PanelTypeOK'
      BY <1>1, <1>2, <1>7, <2>1 DEF PanelTypeOK
    <2>3. WritesAreOfTheDraft' /\ NothingIsAhead' /\ SnapshotsAreEarlier'
      BY <1>1, <1>2, <1>7 DEF WritesAreOfTheDraft, NothingIsAhead, SnapshotsAreEarlier, Earlier
    <2>4. NextWriteKeeps'
      BY <1>1, <1>2, <1>7 DEF NextWriteKeeps, Accepts, ExpectedRevision, IsOpen
    <2>5. ~ stale /\ counts'.losses = 0 => stored = Gone /\ counts' = counts
      <3>1. SUFFICES ASSUME ~ stale, counts'.losses = 0, stored # Gone
                     PROVE  FALSE
        BY <1>4, <1>7
      <3>2. ~ Accepts /\ counts' = counts
        BY <1>4, <1>7, <3>1
      <3>3. /\ IsOpen => openSegment = stored
            /\ ~ IsOpen => listed = stored
        BY <1>1, <1>2, <3>1, <3>2 DEF RowIsKnown
      <3> QED
        BY <3>1, <3>2, <3>3 DEF Accepts, ExpectedRevision
    <2>6. RowIsKnown' /\ EditsAreKept'
      BY <1>1, <1>2, <1>7, <2>5 DEF RowIsKnown, EditsAreKept
    <2> QED
      BY <2>2, <2>3, <2>4, <2>6 DEF PanelInv
  <1> QED
    BY <1>6, <1>7 DEF UpdateFragment

LEMMA Shortened ==
    ASSUME NEW items, NEW list \in Seq(items), list # <<>>
    PROVE  LET rest == Tail(list)
           IN  /\ rest \in Seq(items) /\ Len(rest) = Len(list) - 1 /\ Len(list) \in Nat \ {0}
               /\ \A i \in 1..(Len(list) - 1) : rest[i] = list[i + 1]
               /\ rest = <<>> <=> Len(list) = 1
               /\ rest # <<>> => Head(rest) = list[2]
               /\ Head(list) = list[1]
  <1> DEFINE rest == Tail(list)
  <1>1. Len(list) \in Nat \ {0} /\ Head(list) = list[1]
    OBVIOUS
  <1>2. rest \in Seq(items) /\ Len(rest) = Len(list) - 1
    BY <1>1
  <1>3. \A i \in 1..(Len(list) - 1) : rest[i] = list[i + 1]
    BY <1>1
  <1> HIDE DEF rest
  <1>4. rest = <<>> <=> Len(list) = 1
    <2>1. rest = <<>> => Len(rest) = 0
      OBVIOUS
    <2>2. rest # <<>> => Len(rest) \in Nat \ {0}
      BY <1>2
    <2> QED
      BY <1>1, <1>2, <2>1, <2>2
  <1>5. rest # <<>> => Head(rest) = list[2]
    <2>1. SUFFICES ASSUME rest # <<>> PROVE Head(rest) = list[2]
      OBVIOUS
    <2>2. 1 \in 1..(Len(list) - 1)
      BY <1>1, <1>2, <1>4, <2>1
    <2>3. Head(rest) = rest[1]
      BY <1>2, <2>1
    <2> QED
      BY <1>3, <2>2, <2>3
  <1> QED
    BY <1>1, <1>2, <1>3, <1>4, <1>5 DEF rest

\* A write that is over leaves the chain, and its draft with the last of them.
LEMMA ChainShortens ==
    ASSUME PanelInv, writes # <<>>, writes' = Tail(writes), writing' = "idle", edits' = edits,
           fragmentDraft' = IF Len(writes) = 1 THEN Gone ELSE fragmentDraft
    PROVE  /\ WritesAreOfTheDraft' /\ writes' \in Seq(Content)
           /\ fragmentDraft' \in Content \cup {Gone}
           /\ \A i \in 1..Len(writes') : NotAfter(writes'[i], edits)
           /\ writes' # <<>> => NotAfter(Head(writes), Head(writes')) /\ fragmentDraft' = fragmentDraft
           /\ writes' = <<>> => fragmentDraft = Head(writes)
  <1>1. PanelTypeOK /\ WritesAreOfTheDraft /\ NothingIsAhead
    BY DEF PanelInv
  <1>2. writes \in Seq(Content) /\ fragmentDraft \in Content \cup {Gone}
    BY <1>1 DEF PanelTypeOK
  <1>3. /\ writes' \in Seq(Content) /\ Len(writes') = Len(writes) - 1 /\ Len(writes) \in Nat \ {0}
        /\ \A i \in 1..(Len(writes) - 1) : writes'[i] = writes[i + 1]
        /\ writes' = <<>> <=> Len(writes) = 1
        /\ writes' # <<>> => Head(writes') = writes[2]
        /\ Head(writes) = writes[1]
    BY <1>2, Shortened
  <1>4. \A i \in 1..Len(writes') : NotAfter(writes'[i], edits)
    <2>1. SUFFICES ASSUME NEW i \in 1..Len(writes')
                   PROVE  NotAfter(writes'[i], edits)
      OBVIOUS
    <2>2. i + 1 \in 1..Len(writes) /\ writes'[i] = writes[i + 1]
      BY <1>3
    <2> QED
      BY <1>1, <2>2 DEF NothingIsAhead
  <1>5. \A i \in 1..(Len(writes') - 1) : NotAfter(writes'[i], writes'[i + 1])
    <2>1. SUFFICES ASSUME NEW i \in 1..(Len(writes') - 1)
                   PROVE  NotAfter(writes'[i], writes'[i + 1])
      OBVIOUS
    <2>2. /\ i + 1 \in 1..(Len(writes) - 1)
          /\ writes'[i] = writes[i + 1] /\ writes'[i + 1] = writes[(i + 1) + 1]
      BY <1>3
    <2> QED
      BY <1>1, <2>2 DEF WritesAreOfTheDraft
  <1>6. writes' # <<>> => NotAfter(Head(writes), Head(writes'))
    BY <1>1, <1>3 DEF WritesAreOfTheDraft
  <1>7. fragmentDraft' # Gone <=> writes' # <<>>
    BY <1>1, <1>3 DEF WritesAreOfTheDraft
  <1>8. writes' # <<>> => fragmentDraft' = writes'[Len(writes')]
    <2>1. SUFFICES ASSUME writes' # <<>>
                   PROVE  fragmentDraft' = writes'[Len(writes')]
      OBVIOUS
    <2>2. Len(writes) # 1 /\ Len(writes') \in 1..(Len(writes) - 1)
      BY <1>3, <2>1
    <2>3. writes'[Len(writes')] = writes[Len(writes)]
      BY <1>3, <2>2
    <2> QED
      BY <1>1, <2>2, <2>3 DEF WritesAreOfTheDraft
  <1>9. writes' = <<>> => fragmentDraft = Head(writes)
    BY <1>1, <1>3 DEF WritesAreOfTheDraft
  <1> QED
    BY <1>2, <1>3, <1>4, <1>5, <1>6, <1>7, <1>8, <1>9 DEF WritesAreOfTheDraft

LEMMA SucceedsKeeps ==
    ASSUME PanelInv, WriteSucceeds
    PROVE  PanelInv'
  <1>1. /\ writing = "stored" /\ writing' = "idle"
        /\ openSegment' = IF IsOpen THEN stored ELSE Gone
        /\ listed' = IF listed = Gone THEN Gone ELSE stored
        /\ stale' = (stale \/ request.stage = "loaded")
        /\ writes' = Tail(writes)
        /\ fragmentDraft' = IF Len(writes) = 1 THEN Gone ELSE fragmentDraft
        /\ stored' = stored /\ request' = request /\ removing' = removing /\ edits' = edits
        /\ panelError' = panelError /\ counts' = counts
    BY DEF WriteSucceeds, DropDraft
  <1>2. /\ PanelTypeOK /\ WritesAreOfTheDraft /\ NothingIsAhead /\ SnapshotsAreEarlier
        /\ NextWriteKeeps /\ RowIsKnown /\ EditsAreKept
    BY DEF PanelInv
  <1>3. writes # <<>> /\ stored # Gone /\ stored.fields = Head(writes) /\ listed # Gone
    BY <1>1, <1>2 DEF WritesAreOfTheDraft, SnapshotsAreEarlier
  <1>4. /\ WritesAreOfTheDraft' /\ writes' \in Seq(Content)
        /\ fragmentDraft' \in Content \cup {Gone}
        /\ \A i \in 1..Len(writes') : NotAfter(writes'[i], edits)
        /\ writes' # <<>> => NotAfter(Head(writes), Head(writes')) /\ fragmentDraft' = fragmentDraft
        /\ writes' = <<>> => fragmentDraft = Head(writes)
    BY <1>1, <1>3, ChainShortens
  <1>5. listed' = stored /\ (~ IsOpen => openSegment' = Gone) /\ (IsOpen => openSegment' = stored)
    BY <1>1, <1>3
  <1>6. PanelTypeOK'
    BY <1>1, <1>2, <1>4, <1>5 DEF PanelTypeOK
  <1>7. NothingIsAhead'
    BY <1>1, <1>2, <1>4, <1>5 DEF NothingIsAhead
  <1>8. SnapshotsAreEarlier'
    BY <1>1, <1>2, <1>3, <1>5 DEF SnapshotsAreEarlier, Earlier
  <1>9. NextWriteKeeps'
    BY <1>1, <1>3, <1>4 DEF NextWriteKeeps
  <1>10. RowIsKnown'
    BY <1>1, <1>3, <1>5 DEF RowIsKnown, IsOpen
  <1>11. EditsAreKept'
    <2>1. SUFFICES ASSUME ~ stale', counts.losses = 0
                   PROVE  edits = IF writes' = <<>> THEN stored.fields ELSE fragmentDraft'
      BY <1>1 DEF EditsAreKept
    <2>2. edits = fragmentDraft
      BY <1>1, <1>2, <1>3, <2>1 DEF EditsAreKept
    <2> QED
      BY <1>3, <1>4, <2>2
  <1> QED
    BY <1>4, <1>6, <1>7, <1>8, <1>9, <1>10, <1>11 DEF PanelInv

LEMMA FailsKeeps ==
    ASSUME PanelInv, WriteFails
    PROVE  PanelInv'
  <1>1. /\ writing = "failed" /\ writing' = "idle" /\ writes' = Tail(writes)
        /\ panelError' = TRUE
        /\ fragmentDraft' = IF Len(writes) = 1 THEN Gone ELSE fragmentDraft
        /\ request' = request \/ request' = [stage |-> "sent", read |-> Gone]
        /\ stored' = stored /\ openSegment' = openSegment /\ listed' = listed
        /\ removing' = removing /\ edits' = edits /\ stale' = stale /\ counts' = counts
    BY DEF WriteFails, StartRefresh
  <1>2. /\ PanelTypeOK /\ WritesAreOfTheDraft /\ NothingIsAhead /\ SnapshotsAreEarlier
        /\ NextWriteKeeps /\ RowIsKnown /\ EditsAreKept
    BY DEF PanelInv
  <1>3. writes # <<>>
    BY <1>1, <1>2 DEF WritesAreOfTheDraft
  <1>4. /\ WritesAreOfTheDraft' /\ writes' \in Seq(Content)
        /\ fragmentDraft' \in Content \cup {Gone}
        /\ \A i \in 1..Len(writes') : NotAfter(writes'[i], edits)
        /\ writes' # <<>> => NotAfter(Head(writes), Head(writes')) /\ fragmentDraft' = fragmentDraft
    BY <1>1, <1>3, ChainShortens
  <1>5. request' = request \/ (request'.stage = "sent" /\ request'.read = Gone
                               /\ request' \in [stage : {"none", "sent", "loaded"}, read : Rows \cup {Gone}])
    BY <1>1
  <1>6. PanelTypeOK'
    BY <1>1, <1>2, <1>4, <1>5 DEF PanelTypeOK
  <1>7. NothingIsAhead'
    BY <1>1, <1>2, <1>4, <1>5 DEF NothingIsAhead
  <1>8. SnapshotsAreEarlier'
    BY <1>1, <1>2, <1>5 DEF SnapshotsAreEarlier, Earlier
  <1>9. NextWriteKeeps'
    <2>1. SUFFICES ASSUME ~ stale, writes' # <<>>, Accepts
                   PROVE  NotAfter(stored.fields, Head(writes'))
      BY <1>1 DEF NextWriteKeeps, Accepts, ExpectedRevision, IsOpen
    <2>2. NotAfter(stored.fields, Head(writes)) /\ NotAfter(Head(writes), Head(writes'))
      BY <1>2, <1>3, <1>4, <2>1 DEF NextWriteKeeps
    <2>3. stored.fields \in Content /\ Head(writes) \in Content /\ Head(writes') \in Content
      <3>1. stored \in Rows
        BY <1>2, <2>1 DEF PanelTypeOK, Accepts
      <3> QED
        BY <1>2, <1>3, <1>4, <2>1, <3>1 DEF PanelTypeOK, Rows
    <2> QED
      BY <2>2, <2>3 DEF NotAfter, Content
  <1>10. RowIsKnown' /\ EditsAreKept'
    <2>1. ~ stale /\ counts.losses = 0 => stored = Gone
      BY <1>1, <1>2 DEF RowIsKnown
    <2> QED
      BY <1>1, <1>2, <1>5, <2>1 DEF RowIsKnown, EditsAreKept
  <1> QED
    BY <1>4, <1>6, <1>7, <1>8, <1>9, <1>10 DEF PanelInv

LEMMA RefreshKeeps ==
    ASSUME PanelInv, Refresh \/ LoadFragments
    PROVE  PanelInv'
  <1>1. /\ stored' = stored /\ openSegment' = openSegment /\ listed' = listed
        /\ fragmentDraft' = fragmentDraft /\ writes' = writes /\ writing' = writing
        /\ removing' = removing /\ edits' = edits /\ stale' = stale /\ panelError' = panelError
    BY DEF Refresh, LoadFragments
  <1>2. /\ PanelTypeOK /\ WritesAreOfTheDraft /\ NothingIsAhead /\ SnapshotsAreEarlier
        /\ NextWriteKeeps /\ RowIsKnown /\ EditsAreKept
    BY DEF PanelInv
  <1>3. counts \in [refreshes : Nat, losses : Nat]
    BY <1>2 DEF PanelTypeOK
  <1>4. /\ counts' \in [refreshes : Nat, losses : Nat]
        /\ counts'.losses = counts.losses \/ counts'.losses # 0
    BY <1>3 DEF Refresh, LoadFragments, Lost
  <1>5. \/ request'.stage = "sent" /\ request'.read = Gone
        \/ request'.stage = "loaded" /\ request'.read = stored
        \/ request'.stage = "none" /\ request'.read = Gone /\ counts'.losses # 0
    BY <1>3 DEF Refresh, LoadFragments, StartRefresh, NoRequest, Lost
  <1>6. request' \in [stage : {"none", "sent", "loaded"}, read : Rows \cup {Gone}]
    BY <1>2 DEF Refresh, LoadFragments, StartRefresh, NoRequest, PanelTypeOK
  <1>7. PanelTypeOK'
    BY <1>1, <1>2, <1>4, <1>6 DEF PanelTypeOK
  <1>8. WritesAreOfTheDraft' /\ NothingIsAhead' /\ SnapshotsAreEarlier'
    BY <1>1, <1>2, <1>5 DEF WritesAreOfTheDraft, NothingIsAhead, SnapshotsAreEarlier, Earlier
  <1>9. NextWriteKeeps'
    BY <1>1, <1>2 DEF NextWriteKeeps, Accepts, ExpectedRevision, IsOpen
  <1>10. RowIsKnown' /\ EditsAreKept'
    BY <1>1, <1>2, <1>4, <1>5 DEF RowIsKnown, EditsAreKept, IsOpen
  <1> QED
    BY <1>7, <1>8, <1>9, <1>10 DEF PanelInv

LEMMA ArrivalKeeps ==
    ASSUME PanelInv, RefreshArrives
    PROVE  PanelInv'
  <1>1. /\ stored' = stored /\ openSegment' = openSegment
        /\ fragmentDraft' = fragmentDraft /\ writes' = writes /\ writing' = writing
        /\ removing' = removing /\ edits' = edits /\ panelError' = panelError /\ counts' = counts
        /\ request.stage = "loaded" /\ request' = NoRequest /\ listed' = request.read
        /\ stale' = (stale \/ (fragmentDraft # Gone /\ writing # "stored" /\ listed # request.read))
    BY DEF RefreshArrives
  <1>2. /\ PanelTypeOK /\ WritesAreOfTheDraft /\ NothingIsAhead /\ SnapshotsAreEarlier
        /\ NextWriteKeeps /\ RowIsKnown /\ EditsAreKept
    BY DEF PanelInv
  <1>3. /\ request'.stage = "none" /\ request'.read = Gone
        /\ request' \in [stage : {"none", "sent", "loaded"}, read : Rows \cup {Gone}]
    BY <1>1 DEF NoRequest
  <1>4. PanelTypeOK'
    BY <1>1, <1>2, <1>3 DEF PanelTypeOK
  <1>5. WritesAreOfTheDraft' /\ NothingIsAhead' /\ SnapshotsAreEarlier'
    BY <1>1, <1>2, <1>3 DEF WritesAreOfTheDraft, NothingIsAhead, SnapshotsAreEarlier, Earlier
  <1>6. NextWriteKeeps'
    <2>1. SUFFICES ASSUME ~ stale', writes # <<>>, Accepts'
                   PROVE  NotAfter(stored.fields, Head(writes))
      BY <1>1 DEF NextWriteKeeps
    <2>2. ~ stale /\ (writing = "stored" \/ listed' = listed)
      BY <1>1, <1>2, <2>1 DEF WritesAreOfTheDraft
    <2>3. CASE writing = "stored"
      <3>1. stored.fields = Head(writes) /\ Head(writes) \in Content
        BY <1>2, <2>1, <2>3 DEF WritesAreOfTheDraft, PanelTypeOK
      <3> QED
        BY <3>1 DEF NotAfter, Content
    <2>4. CASE listed' = listed
      BY <1>1, <1>2, <2>1, <2>2, <2>4 DEF NextWriteKeeps, Accepts, ExpectedRevision, IsOpen
    <2> QED
      BY <2>2, <2>3, <2>4
  <1>7. RowIsKnown' /\ EditsAreKept'
    BY <1>1, <1>2, <1>3 DEF RowIsKnown, EditsAreKept, IsOpen
  <1> QED
    BY <1>4, <1>5, <1>6, <1>7 DEF PanelInv

LEMMA EditorSavesKeeps ==
    ASSUME PanelInv, NEW field \in Fields, EditorSaves(field)
    PROVE  PanelInv'
  <1> DEFINE edited == [stored.fields EXCEPT ![field] = LastEdit + 1]
             made == [edits EXCEPT ![field] = LastEdit + 1]
             row == [rev |-> stored.rev + 1, fields |-> edited]
  <1>1. /\ IsOpen /\ stored # Gone /\ writing = "idle"
        /\ edits' = made /\ stored' = row /\ openSegment' = row
        /\ stale' = (stale \/ fragmentDraft # Gone)
        /\ request' = [stage |-> "sent", read |-> Gone]
        /\ listed' = listed /\ fragmentDraft' = fragmentDraft /\ writes' = writes
        /\ writing' = writing /\ removing' = removing /\ panelError' = panelError /\ counts' = counts
    BY DEF EditorSaves, StartRefresh
  <1>2. /\ PanelTypeOK /\ WritesAreOfTheDraft /\ NothingIsAhead /\ SnapshotsAreEarlier
        /\ NextWriteKeeps /\ RowIsKnown /\ EditsAreKept
    BY DEF PanelInv
  <1>3. /\ stored \in Rows /\ stored.fields \in Content /\ stored.rev \in Nat /\ edits \in Content
        /\ NotAfter(stored.fields, edits) /\ listed \in Rows \cup {Gone}
        /\ stale \in BOOLEAN
    BY <1>1, <1>2 DEF PanelTypeOK, Rows, NothingIsAhead
  <1>4. /\ edited \in Content /\ made \in Content
        /\ NotAfter(stored.fields, edited) /\ NotAfter(edited, made) /\ NotAfter(edits, made)
    BY <1>3, EditIsLast
  <1>5. stored.fields = edits => edited = made
    OBVIOUS
  <1> HIDE DEF edited, made
  <1>6. row \in Rows /\ row # Gone /\ row.rev = stored.rev + 1 /\ row.fields = edited
    BY <1>3, <1>4, NewRow
  <1> HIDE DEF row
  <1>7. /\ request'.stage = "sent" /\ request'.read = Gone
        /\ request' \in [stage : {"none", "sent", "loaded"}, read : Rows \cup {Gone}]
    BY <1>1
  <1>8. PanelTypeOK'
    BY <1>1, <1>2, <1>3, <1>4, <1>6, <1>7 DEF PanelTypeOK
  <1>9. WritesAreOfTheDraft'
    BY <1>1, <1>2, <1>6 DEF WritesAreOfTheDraft
  <1>10. NothingIsAhead'
    <2>1. \A older \in Content : NotAfter(older, edits) => NotAfter(older, made)
      BY <1>3, <1>4 DEF NotAfter, Content
    <2>2. \A old \in Rows : old.fields \in Content
      BY DEF Rows
    <2>3. \A i \in 1..Len(writes) : writes[i] \in Content
      BY <1>2 DEF PanelTypeOK
    <2> QED
      BY <1>1, <1>2, <1>3, <1>4, <1>6, <1>7, <2>1, <2>2, <2>3 DEF NothingIsAhead
  <1>11. SnapshotsAreEarlier'
    <2>1. listed # Gone /\ listed \in Rows /\ (listed.rev < stored.rev \/ listed = stored)
      BY <1>1, <1>2, <1>3 DEF SnapshotsAreEarlier, Earlier
    <2>2. listed.rev < row.rev
      BY <1>3, <1>6, <2>1 DEF Rows
    <2> QED
      BY <1>1, <1>6, <1>7, <2>1, <2>2 DEF SnapshotsAreEarlier, Earlier
  <1>12. stale' = FALSE => stale = FALSE /\ writes = <<>>
    BY <1>1, <1>2, <1>3 DEF WritesAreOfTheDraft
  <1>13. NextWriteKeeps'
    BY <1>1, <1>3, <1>8, <1>12 DEF NextWriteKeeps, PanelTypeOK
  <1>14. RowIsKnown'
    BY <1>1, <1>6, <1>7 DEF RowIsKnown, IsOpen
  <1>15. EditsAreKept'
    <2>1. SUFFICES ASSUME stale' = FALSE, counts.losses = 0
                   PROVE  made = edited
      BY <1>1, <1>6, <1>8, <1>12 DEF EditsAreKept, PanelTypeOK
    <2>2. edits = stored.fields
      BY <1>1, <1>2, <1>12, <2>1 DEF EditsAreKept
    <2> QED
      BY <1>5, <2>2
  <1> QED
    BY <1>8, <1>9, <1>10, <1>11, <1>13, <1>14, <1>15 DEF PanelInv

LEMMA RemovalKeeps ==
    ASSUME PanelInv, DeleteListed \/ Removed
    PROVE  PanelInv'
  <1>1. PanelTypeOK /\ WritesAreOfTheDraft /\ NothingIsAhead /\ SnapshotsAreEarlier
        /\ NextWriteKeeps /\ RowIsKnown /\ EditsAreKept
    BY DEF PanelInv
  <1>2. CASE DeleteListed
    <2>1. /\ removing' = TRUE
          /\ UNCHANGED <<stored, openSegment, listed, fragmentDraft, writes, writing, request,
                         edits, stale, panelError, counts>>
      BY <1>2 DEF DeleteListed
    <2> QED
      BY <1>1, <2>1 DEF PanelInv, PanelTypeOK, WritesAreOfTheDraft, NothingIsAhead,
        SnapshotsAreEarlier, Earlier, NextWriteKeeps, Accepts, ExpectedRevision, IsOpen,
        RowIsKnown, EditsAreKept
  <1>3. CASE Removed /\ Accepts /\ writing = "idle"
    <2>1. /\ removing' = FALSE /\ stored' = Gone /\ openSegment' = Gone /\ listed' = Gone
          /\ stale' = (stale \/ request.stage = "loaded")
          /\ UNCHANGED <<panelError, request, fragmentDraft, writes, writing, edits, counts>>
      BY <1>3 DEF Removed
    <2>2. PanelTypeOK'
      BY <1>1, <2>1 DEF PanelTypeOK
    <2>3. WritesAreOfTheDraft'
      BY <1>1, <1>3, <2>1 DEF WritesAreOfTheDraft
    <2>4. NothingIsAhead' /\ SnapshotsAreEarlier'
      BY <1>1, <2>1 DEF NothingIsAhead, SnapshotsAreEarlier, Earlier
    <2>5. NextWriteKeeps' /\ RowIsKnown' /\ EditsAreKept'
      BY <2>1 DEF NextWriteKeeps, Accepts, RowIsKnown, EditsAreKept
    <2> QED
      BY <2>2, <2>3, <2>4, <2>5 DEF PanelInv
  <1>4. CASE Removed /\ ~ (Accepts /\ writing = "idle")
    <2>1. /\ removing' = FALSE /\ panelError' = TRUE
          /\ request' = [stage |-> "sent", read |-> Gone]
          /\ UNCHANGED <<stored, openSegment, listed, stale, fragmentDraft, writes, writing,
                         edits, counts>>
      BY <1>4 DEF Removed, StartRefresh
    <2>2. /\ request'.stage = "sent" /\ request'.read = Gone
          /\ request' \in [stage : {"none", "sent", "loaded"}, read : Rows \cup {Gone}]
      BY <2>1
    <2>3. PanelTypeOK'
      BY <1>1, <2>1, <2>2 DEF PanelTypeOK
    <2>4. WritesAreOfTheDraft' /\ NothingIsAhead' /\ SnapshotsAreEarlier'
      BY <1>1, <2>1, <2>2 DEF WritesAreOfTheDraft, NothingIsAhead, SnapshotsAreEarlier, Earlier
    <2>5. NextWriteKeeps' /\ RowIsKnown' /\ EditsAreKept'
      BY <1>1, <2>1, <2>2
      DEF NextWriteKeeps, Accepts, ExpectedRevision, RowIsKnown, EditsAreKept, IsOpen
    <2> QED
      BY <2>3, <2>4, <2>5 DEF PanelInv
  <1> QED
    BY <1>2, <1>3, <1>4

LEMMA PanelStep == PanelInv /\ [PanelNext]_panelVars => PanelInv'
  <1> SUFFICES ASSUME PanelInv, [PanelNext]_panelVars
               PROVE  PanelInv'
    OBVIOUS
  <1>1. CASE UNCHANGED panelVars
    BY <1>1 DEF panelVars, PanelInv, PanelTypeOK, WritesAreOfTheDraft, NothingIsAhead,
      SnapshotsAreEarlier, Earlier, NextWriteKeeps, Accepts, ExpectedRevision, IsOpen,
      RowIsKnown, EditsAreKept
  <1> QED
    BY <1>1, MutateKeeps, EditorSavesKeeps, UpdateKeeps, SucceedsKeeps, FailsKeeps, RefreshKeeps,
       ArrivalKeeps, RemovalKeeps DEF PanelNext

LEMMA PanelInitial == PanelInit => PanelInv
  <1> SUFFICES ASSUME PanelInit
               PROVE  PanelInv
    OBVIOUS
  <1>1. NoEdits \in Content /\ NotAfter(NoEdits, NoEdits)
    BY DEF NoEdits, Content, NotAfter
  <1>2. stored \in Rows /\ stored # Gone /\ stored.fields = NoEdits
    BY <1>1, NewRow DEF PanelInit
  <1>3. /\ openSegment \in {Gone, stored} /\ listed = stored
        /\ fragmentDraft = Gone /\ writes = <<>> /\ writing = "idle"
        /\ request.stage = "none" /\ request.read = Gone
        /\ request \in [stage : {"none", "sent", "loaded"}, read : Rows \cup {Gone}]
        /\ removing = FALSE /\ edits = NoEdits /\ stale = FALSE /\ panelError = FALSE
        /\ counts \in [refreshes : Nat, losses : Nat]
    BY DEF PanelInit, NoRequest
  <1>4. PanelTypeOK
    <2>1. <<>> \in Seq(Content)
      OBVIOUS
    <2>2. stored \in Rows \cup {Gone} /\ openSegment \in Rows \cup {Gone} /\ listed \in Rows \cup {Gone}
      BY <1>2, <1>3
    <2>3. edits \in Content /\ writes \in Seq(Content)
      BY <1>1, <1>3, <2>1
    <2> QED
      BY <1>3, <2>2, <2>3 DEF PanelTypeOK
  <1>5. WritesAreOfTheDraft /\ NothingIsAhead /\ SnapshotsAreEarlier
    BY <1>1, <1>2, <1>3 DEF WritesAreOfTheDraft, NothingIsAhead, SnapshotsAreEarlier, Earlier
  <1>6. NextWriteKeeps /\ RowIsKnown /\ EditsAreKept
    BY <1>2, <1>3 DEF NextWriteKeeps, RowIsKnown, EditsAreKept, IsOpen
  <1> QED
    BY <1>4, <1>5, <1>6 DEF PanelInv

\* The writes of a fragment stay a chain, each with the edits before it, and what the client
\* knows of the row stays behind the row by revision (FragmentsPanel.svelte, fragment-library).
THEOREM PanelInvariant == PanelSpec => []PanelInv
  <1>1. PanelInit => PanelInv
    BY PanelInitial
  <1>2. PanelInv /\ [PanelNext]_panelVars => PanelInv'
    BY PanelStep
  <1> QED
    BY <1>1, <1>2, PTL DEF PanelSpec

\* No write of the panel or of the editor takes a field back to an older edit, for any number
\* of edits, refreshes and lost requests, unless a snapshot or a second writer came between
\* an edit and its write (FragmentsPanel.svelte, fragment-service.ts).
THEOREM EditsAreNotReverted == PanelSpec => NoEditIsReverted
  <1> DEFINE Keeps == ~ stale /\ stored # Gone /\ stored' # Gone =>
                        \A field \in Fields : stored'.fields[field] >= stored.fields[field]
  <1>1. PanelInv /\ [PanelNext]_panelVars => [Keeps]_panelVars
    <2>1. SUFFICES ASSUME PanelInv, PanelNext, ~ stale, stored # Gone, stored' # Gone
                   PROVE  \A field \in Fields : stored'.fields[field] >= stored.fields[field]
      OBVIOUS
    <2>2. /\ PanelTypeOK /\ NothingIsAhead /\ NextWriteKeeps
          /\ stored \in Rows /\ stored.fields \in Content /\ edits \in Content
      BY <2>1 DEF PanelInv, PanelTypeOK, Rows
    <2>3. CASE stored' = stored
      BY <2>2, <2>3 DEF Content
    <2>4. CASE UpdateFragment /\ stored' # stored
      <3>1. /\ writes # <<>> /\ Accepts
            /\ stored' = [rev |-> stored.rev + 1, fields |-> Head(writes)]
        BY <2>4 DEF UpdateFragment
      <3>2. NotAfter(stored.fields, Head(writes)) /\ Head(writes) \in Content
        BY <2>1, <2>2, <3>1 DEF NextWriteKeeps, PanelTypeOK
      <3> QED
        BY <2>2, <3>1, <3>2 DEF NotAfter, Content
    <2>5. ASSUME NEW field \in Fields, EditorSaves(field)
          PROVE  \A other \in Fields : stored'.fields[other] >= stored.fields[other]
      <3> DEFINE edited == [stored.fields EXCEPT ![field] = LastEdit + 1]
      <3>1. stored'.fields = edited
        BY <2>5 DEF EditorSaves
      <3>2. edited \in Content /\ NotAfter(stored.fields, edited)
        BY <2>1, <2>2, EditIsLast DEF NothingIsAhead
      <3> HIDE DEF edited
      <3> QED
        BY <2>2, <3>1, <3>2 DEF NotAfter, Content
    <2>6. \/ stored' = stored \/ UpdateFragment \/ \E field \in Fields : EditorSaves(field)
      BY <2>1 DEF PanelNext, Mutate, WriteSucceeds, WriteFails, Refresh, LoadFragments,
        RefreshArrives, DeleteListed, Removed
    <2> QED
      BY <2>3, <2>4, <2>5, <2>6
  <1> QED
    BY <1>1, PanelInvariant, PTL DEF PanelSpec, NoEditIsReverted

\* A quiet panel shows what is stored, and that is the last edit of every field, when no
\* request was lost (FragmentsPanel.svelte, app/fragment-library.svelte.ts).
THEOREM QuietPanelStaysTrue == PanelSpec => []QuietPanelIsTrue
  <1>1. PanelInv => QuietPanelIsTrue
    <2>1. SUFFICES ASSUME PanelInv, writes = <<>>, request = NoRequest, ~ stale, counts.losses = 0
                   PROVE  listed = stored /\ (stored # Gone => stored.fields = edits)
      BY DEF QuietPanelIsTrue
    <2>2. writing = "idle" /\ request.stage = "none"
      BY <2>1 DEF PanelInv, WritesAreOfTheDraft, PanelTypeOK, NoRequest
    <2> QED
      BY <2>1, <2>2 DEF PanelInv, RowIsKnown, EditsAreKept
  <1> QED
    BY <1>1, PanelInvariant, PTL

----------------------------------------------------------------------------
(* Playback.                                                                 *)

EventKinds == {"play", "pause", "seeked", "ended"}
Instants == 0..SourceLength
Spans == [start : Instants, end : Instants]
Elements == [time : Instants, paused : BOOLEAN, events : Seq(EventKinds)]
Promises == [kind : {"seek", "toggle"}, current : BOOLEAN, aborted : BOOLEAN]
Scopes == [segment : Segments \cup {NoSegment}, start : Instants, end : Instants]
Playbacks == [scope : Scopes, preview : Spans \cup {NoSegment}]

\* An event that stops the sampling has a later one that starts it again.
Restarted(events) ==
    \A i \in 1..Len(events) : events[i] \in {"pause", "ended"} =>
        \E j \in (i + 1)..Len(events) : events[j] = "play"

PlayComes(events) == \E i \in 1..Len(events) : events[i] = "play"

\* A playing element is not at its end, and what it will report ends with its playing.
Sound(element) ==
    /\ element \in Elements
    /\ ~ element.paused => element.time # SourceLength /\ Restarted(element.events)

PlayPromised == \E p \in plays : p.kind = "seek" /\ p.current /\ ~ p.aborted

\* The scope is that of a segment when one is selected; after a race it may not be.
InStep == selected = NoSegment \/ playback.scope.segment # NoSegment

PlaybackTypeOK ==
    /\ segments \in [Segments -> Spans \cup {NoSegment}]
    /\ selected \in Segments \cup {NoSegment}
    /\ focus \in [segment : Segments, edge : {"start", "end"}] \cup {NoSegment}
    /\ playback \in Playbacks
    /\ plays \in SUBSET Promises
    /\ frame \in BOOLEAN /\ raced \in BOOLEAN
    /\ deleting \in [segment : Segments, wasSelected : BOOLEAN] \cup {NoSegment}

\* Somebody will look at a playing element: the next frame, or who handles a queued event
\* or the promise of the command that is not overtaken.
PlayingIsFollowed ==
    ~ media.paused => frame \/ PlayComes(media.events) \/ (PlayPromised /\ InStep)

PreviewHasSegment == playback.scope.segment = NoSegment => playback.preview = NoSegment

FocusIsOfSelected == ~ raced /\ focus # NoSegment => focus.segment = selected

PlaybackInv ==
    /\ PlaybackTypeOK /\ Sound(media) /\ PlayingIsFollowed /\ PreviewHasSegment
    /\ FocusIsOfSelected /\ ScopeFollowsSelection

LEMMA ClampBounds ==
    ASSUME NEW value \in Int, NEW low \in Instants, NEW high \in Instants
    PROVE  /\ Clamp(value, low, high) \in Int
           /\ Clamp(value, 0, SourceLength) \in Instants
           /\ value \in Instants => Clamp(value, low, high) \in Instants
  BY SegmentsAssumption DEF Clamp, Instants

LEMMA Queued ==
    ASSUME NEW events \in Seq(EventKinds), NEW kind \in EventKinds
    PROVE  LET queue == Append(events, kind)
           IN  /\ queue \in Seq(EventKinds)
               /\ PlayComes(events) \/ kind = "play" => PlayComes(queue)
               /\ kind = "play" \/ (kind = "seeked" /\ Restarted(events)) => Restarted(queue)
  <1> DEFINE queue == Append(events, kind)
             n == Len(events)
  <1>1. /\ queue \in Seq(EventKinds) /\ n \in Nat /\ Len(queue) = n + 1 /\ queue[n + 1] = kind
        /\ \A i \in 1..n : queue[i] = events[i]
    BY Appended
  <1> HIDE DEF queue
  <1>2. PlayComes(events) \/ kind = "play" => PlayComes(queue)
    BY <1>1 DEF PlayComes
  <1>3. kind = "play" => Restarted(queue)
    BY <1>1 DEF Restarted
  <1>4. kind = "seeked" /\ Restarted(events) => Restarted(queue)
    BY <1>1 DEF Restarted
  <1> QED
    BY <1>1, <1>2, <1>3, <1>4 DEF queue

LEMMA Unqueued ==
    ASSUME NEW events \in Seq(EventKinds), events # <<>>
    PROVE  /\ Tail(events) \in Seq(EventKinds) /\ Head(events) \in EventKinds
           /\ PlayComes(events) /\ Head(events) # "play" => PlayComes(Tail(events))
           /\ Restarted(events) => Restarted(Tail(events))
           /\ Restarted(events) /\ Head(events) \in {"pause", "ended"} => PlayComes(Tail(events))
  <1> DEFINE rest == Tail(events)
             n == Len(events)
  <1>1. /\ rest \in Seq(EventKinds) /\ Len(rest) = n - 1 /\ n \in Nat \ {0}
        /\ \A i \in 1..(n - 1) : rest[i] = events[i + 1]
        /\ Head(events) = events[1]
    BY Shortened
  <1> HIDE DEF rest
  <1>2. \A j \in 2..n : rest[j - 1] = events[j]
    BY <1>1
  <1>3. Head(events) \in EventKinds
    BY <1>1
  <1>4. PlayComes(events) /\ Head(events) # "play" => PlayComes(rest)
    <2>1. SUFFICES ASSUME NEW i \in 1..n, events[i] = "play", Head(events) # "play"
                   PROVE  PlayComes(rest)
      BY DEF PlayComes
    <2>2. i \in 2..n
      BY <1>1, <2>1
    <2> QED
      BY <1>1, <1>2, <2>1, <2>2 DEF PlayComes
  <1>5. Restarted(events) => Restarted(rest)
    <2>1. SUFFICES ASSUME Restarted(events), NEW i \in 1..(n - 1), rest[i] \in {"pause", "ended"}
                   PROVE  \E j \in (i + 1)..(n - 1) : rest[j] = "play"
      BY <1>1 DEF Restarted
    <2>2. PICK j \in (i + 2)..n : events[j] = "play"
      <3>1. i + 1 \in 1..n /\ events[i + 1] \in {"pause", "ended"}
        BY <1>1, <2>1
      <3>2. PICK j \in ((i + 1) + 1)..n : events[j] = "play"
        BY <2>1, <3>1 DEF Restarted
      <3> QED
        BY <1>1, <3>1, <3>2
    <2>3. j - 1 \in (i + 1)..(n - 1) /\ rest[j - 1] = "play"
      BY <1>1, <1>2, <2>1, <2>2
    <2> QED
      BY <2>3
  <1>6. Restarted(events) /\ Head(events) \in {"pause", "ended"} => PlayComes(rest)
    <2>1. SUFFICES ASSUME Restarted(events), events[1] \in {"pause", "ended"}
                   PROVE  PlayComes(rest)
      BY <1>1
    <2>2. PICK j \in 2..n : events[j] = "play"
      BY <1>1, <2>1 DEF Restarted
    <2>3. j - 1 \in 1..(n - 1) /\ rest[j - 1] = "play"
      BY <1>1, <1>2, <2>2
    <2> QED
      BY <1>1, <2>3 DEF PlayComes
  <1> QED
    BY <1>1, <1>3, <1>4, <1>5, <1>6 DEF rest

\* Pausing an element, with what its promises become.
LEMMA PausedIsSound ==
    ASSUME NEW element \in Elements, NEW promises \in SUBSET Promises
    PROVE  /\ Sound(Paused(element, promises).element)
           /\ Paused(element, promises).element.paused
           /\ Paused(element, promises).promises \in SUBSET Promises
  <1>1. CASE element.paused
    BY <1>1 DEF Paused, Sound
  <1>2. CASE ~ element.paused
    <2> DEFINE queue == Append(element.events, "pause")
               stopped == [element EXCEPT !.paused = TRUE, !.events = queue]
    <2>1. queue \in Seq(EventKinds)
      BY Queued DEF Elements, EventKinds
    <2> HIDE DEF queue
    <2>2. stopped \in Elements /\ stopped.paused
      BY <2>1 DEF Elements
    <2>3. Paused(element, promises) = [element |-> stopped, promises |-> Aborted(promises)]
      BY <1>2 DEF Paused, queue
    <2>4. Aborted(promises) \in SUBSET Promises
      BY DEF Aborted, Promises
    <2> HIDE DEF stopped
    <2> QED
      BY <2>2, <2>3, <2>4 DEF Sound
  <1> QED
    BY <1>1, <1>2 DEF Elements

LEMMA SoughtElement ==
    ASSUME NEW element \in Elements, NEW time \in Int
    PROVE  /\ Sought(element, time) \in Elements
           /\ Sought(element, time).paused = element.paused
           /\ Sought(element, time).time = Clamp(time, 0, SourceLength)
           /\ PlayComes(element.events) => PlayComes(Sought(element, time).events)
           /\ Restarted(element.events) => Restarted(Sought(element, time).events)
  <1> DEFINE queue == Append(element.events, "seeked")
             there == Clamp(time, 0, SourceLength)
             sought == [element EXCEPT !.time = there, !.events = queue]
  <1>1. /\ queue \in Seq(EventKinds)
        /\ PlayComes(element.events) => PlayComes(queue)
        /\ Restarted(element.events) => Restarted(queue)
    BY Queued DEF Elements, EventKinds
  <1>2. there \in Instants
    BY SegmentsAssumption DEF Clamp, Instants
  <1> HIDE DEF queue, there
  <1>3. /\ sought \in Elements /\ sought.paused = element.paused /\ sought.time = there
        /\ sought.events = queue
    BY <1>1, <1>2 DEF Elements
  <1>4. Sought(element, time) = sought
    BY DEF Sought, queue, there
  <1> HIDE DEF sought
  <1> QED
    BY <1>1, <1>3, <1>4 DEF there

LEMMA AtEndIsSound ==
    ASSUME NEW element \in Elements
    PROVE  Sound(AtEnd(element)) /\ AtEnd(element).paused
  <1> DEFINE queue == element.events \o <<"pause", "ended">>
             ended == [element EXCEPT !.time = SourceLength, !.paused = TRUE, !.events = queue]
  <1>1. queue \in Seq(EventKinds)
    <2>1. <<"pause", "ended">> \in Seq(EventKinds)
      BY DEF EventKinds
    <2> QED
      BY <2>1 DEF Elements
  <1>2. SourceLength \in Instants
    BY SegmentsAssumption DEF Instants
  <1> HIDE DEF queue
  <1>3. ended \in Elements /\ ended.paused
    BY <1>1, <1>2 DEF Elements
  <1>4. AtEnd(element) = ended
    BY DEF AtEnd, queue
  <1> HIDE DEF ended
  <1> QED
    BY <1>3, <1>4 DEF Sound

\* play() leaves the element playing, with its event in the queue or where it was.
LEMMA PlayedIsSound ==
    ASSUME NEW element \in Elements, ~ element.paused => Restarted(element.events)
    PROVE  /\ Sound(Played(element)) /\ ~ Played(element).paused
           /\ element.paused \/ PlayComes(element.events) => PlayComes(Played(element).events)
  <1> DEFINE from == IF element.time = SourceLength THEN Sought(element, 0) ELSE element
  <1>1. /\ from \in Elements /\ from.time # SourceLength /\ from.paused = element.paused
        /\ PlayComes(element.events) => PlayComes(from.events)
        /\ Restarted(element.events) => Restarted(from.events)
    <2>1. CASE element.time = SourceLength
      <3>1. Clamp(0, 0, SourceLength) = 0 /\ 0 # SourceLength
        BY SegmentsAssumption DEF Clamp
      <3> QED
        BY <2>1, <3>1, SoughtElement
    <2>2. CASE element.time # SourceLength
      BY <2>2
    <2> QED
      BY <2>1, <2>2
  <1>2. Played(element) =
          [from EXCEPT !.paused = FALSE,
                       !.events = IF element.paused THEN Append(from.events, "play") ELSE from.events]
    BY DEF Played
  <1> HIDE DEF from
  <1> DEFINE queue == IF element.paused THEN Append(from.events, "play") ELSE from.events
  <1>3. /\ queue \in Seq(EventKinds) /\ Restarted(queue)
        /\ element.paused \/ PlayComes(element.events) => PlayComes(queue)
    <2>1. from.events \in Seq(EventKinds)
      BY <1>1 DEF Elements
    <2>2. CASE element.paused
      BY <2>1, <2>2, Queued DEF EventKinds
    <2>3. CASE ~ element.paused
      BY <1>1, <2>1, <2>3
    <2> QED
      BY <2>2, <2>3
  <1> HIDE DEF queue
  <1> DEFINE played == [from EXCEPT !.paused = FALSE, !.events = queue]
  <1>4. /\ played \in Elements /\ played.time = from.time /\ ~ played.paused /\ played.events = queue
    BY <1>1, <1>3 DEF Elements
  <1>5. Played(element) = played
    BY <1>2 DEF queue
  <1> HIDE DEF played
  <1> QED
    BY <1>1, <1>3, <1>4, <1>5 DEF Sound

LEMMA OvertakenPromises ==
    ASSUME NEW promises \in SUBSET Promises
    PROVE  Overtaken(promises) \in SUBSET Promises
  BY DEF Overtaken, Promises

\* A command of the controller leaves an element that is paused, or one that is followed.
Obeyed(kind) ==
    /\ Sound(media') /\ plays' \in SUBSET Promises
    /\ kind = "none" => media' = media
    /\ kind = "pause-and-seek" => media'.paused
    /\ kind = "seek-and-play" =>
         media'.paused \/ (PlayPromised' /\ (media.paused => PlayComes(media'.events)))
    /\ PlayComes(media.events) => media'.paused \/ PlayComes(media'.events)

LEMMA PlayingIsObeyed ==
    ASSUME NEW element \in Elements, ~ element.paused => Restarted(element.events), NEW time \in Int,
           NEW promises \in SUBSET Promises,
           media' = Played(Sought(element, time)),
           plays' = promises \cup {[kind |-> "seek", current |-> TRUE, aborted |-> FALSE]}
    PROVE  /\ Sound(media') /\ plays' \in SUBSET Promises /\ PlayPromised'
           /\ element.paused \/ PlayComes(element.events) => PlayComes(media'.events)
  <1> DEFINE new == [kind |-> "seek", current |-> TRUE, aborted |-> FALSE]
             sought == Sought(element, time)
  <1>1. new \in Promises /\ new.kind = "seek" /\ new.current /\ ~ new.aborted
    BY DEF Promises
  <1> HIDE DEF new
  <1>2. plays' = promises \cup {new}
    BY DEF new
  <1>3. plays' \in SUBSET Promises /\ PlayPromised'
    BY <1>1, <1>2 DEF PlayPromised
  <1>4. /\ sought \in Elements /\ sought.paused = element.paused
        /\ PlayComes(element.events) => PlayComes(sought.events)
        /\ Restarted(element.events) => Restarted(sought.events)
    BY SoughtElement
  <1> HIDE DEF sought
  <1>5. /\ Sound(Played(sought))
        /\ sought.paused \/ PlayComes(sought.events) => PlayComes(Played(sought).events)
    BY <1>4, PlayedIsSound
  <1> QED
    BY <1>3, <1>4, <1>5 DEF sought

LEMMA PausingIsObeyed ==
    ASSUME NEW element \in Elements, NEW time \in Int, NEW promises \in SUBSET Promises,
           media' = Sought(Paused(element, promises).element, time),
           plays' = Paused(element, promises).promises
    PROVE  Sound(media') /\ media'.paused /\ plays' \in SUBSET Promises
  <1> DEFINE stopped == Paused(element, promises).element
  <1>1. stopped \in Elements /\ stopped.paused /\ plays' \in SUBSET Promises
    BY PausedIsSound DEF Sound
  <1> HIDE DEF stopped
  <1>2. Sought(stopped, time) \in Elements /\ Sought(stopped, time).paused
    BY <1>1, SoughtElement
  <1> QED
    BY <1>1, <1>2 DEF Sound, stopped

LEMMA DecisionIsApplied ==
    ASSUME Sound(media), plays \in SUBSET Promises,
           NEW decision, decision.command.time \in Int,
           decision.command.kind \in {"none", "pause-and-seek", "seek-and-play"},
           ApplyDecision(decision)
    PROVE  /\ playback' = decision.state /\ Obeyed(decision.command.kind)
  <1> DEFINE older == Overtaken(plays)
             time == decision.command.time
  <1>1. older \in SUBSET Promises /\ media \in Elements
    BY OvertakenPromises DEF Sound
  <1>2. playback' = decision.state
    BY DEF ApplyDecision
  <1>3. CASE decision.command.kind = "none"
    <2>1. media' = media /\ plays' = older
      BY <1>3 DEF ApplyDecision
    <2> QED
      BY <1>1, <1>2, <1>3, <2>1 DEF Obeyed
  <1>4. CASE decision.command.kind = "pause-and-seek"
    <2>1. /\ media' = Sought(Paused(media, older).element, time)
          /\ plays' = Paused(media, older).promises
      BY <1>4 DEF ApplyDecision
    <2>2. Sound(media') /\ media'.paused /\ plays' \in SUBSET Promises
      BY <1>1, <2>1, PausingIsObeyed
    <2> QED
      BY <1>2, <1>4, <2>2 DEF Obeyed
  <1>5. CASE decision.command.kind = "seek-and-play"
    <2>1. CASE /\ media' = Played(Sought(media, time))
               /\ plays' = older \cup {[kind |-> "seek", current |-> TRUE, aborted |-> FALSE]}
      <3>1. /\ Sound(media') /\ plays' \in SUBSET Promises /\ PlayPromised'
            /\ media.paused \/ PlayComes(media.events) => PlayComes(media'.events)
        BY <1>1, <2>1, PlayingIsObeyed DEF Sound
      <3> QED
        BY <1>2, <1>5, <3>1 DEF Obeyed
    <2>2. CASE /\ media.paused /\ media' = Sought(media, time)
               /\ plays' = older \cup {[kind |-> "seek", current |-> TRUE, aborted |-> TRUE]}
      <3> DEFINE new == [kind |-> "seek", current |-> TRUE, aborted |-> TRUE]
      <3>1. new \in Promises
        BY DEF Promises
      <3> HIDE DEF new
      <3>2. plays' \in SUBSET Promises
        BY <1>1, <2>2, <3>1 DEF new
      <3>3. media' \in Elements /\ media'.paused
        BY <1>1, <2>2, SoughtElement
      <3> QED
        BY <1>2, <1>5, <3>2, <3>3 DEF Obeyed, Sound
    <2> QED
      BY <1>5, <2>1, <2>2 DEF ApplyDecision
  <1> QED
    BY <1>3, <1>4, <1>5

\* What a sampled time, a seek or the end of the media decides.
LEMMA TimeDecides ==
    ASSUME playback \in Playbacks, PreviewHasSegment, NEW running \in BOOLEAN
    PROVE  LET decision == TimeDecision(running)
           IN  /\ decision.state \in Playbacks /\ decision.state.scope = playback.scope
               /\ decision.state.scope.segment = NoSegment => decision.state.preview = NoSegment
               /\ decision.command.kind \in {"none", "pause-and-seek", "seek-and-play"}
               /\ decision.command.time \in Int
               /\ decision.command.kind # "none" => playback.scope.segment # NoSegment
               /\ decision.command.kind = "seek-and-play" => running
  <1> DEFINE scope == playback.scope
             go == IF running THEN "seek-and-play" ELSE "pause-and-seek"
             decision == TimeDecision(running)
  <1>1. scope \in Scopes /\ scope.start \in Int /\ scope.end \in Int
        /\ playback.preview \in Spans \cup {NoSegment}
    BY DEF Playbacks, Scopes, Instants
  <1>2. Scoped(scope) \in Playbacks /\ Scoped(scope).scope = scope
        /\ Scoped(scope).preview = NoSegment
    BY <1>1 DEF Scoped, Playbacks
  <1>3. CASE playback.preview # NoSegment
    <2>1. \/ decision = [state |-> Scoped(scope), command |-> Command("pause-and-seek", scope.start)]
          \/ decision = [state |-> playback, command |-> Command("none", 0)]
      BY <1>3 DEF TimeDecision
    <2> QED
      BY <1>1, <1>2, <1>3, <2>1 DEF Command, PreviewHasSegment
  <1>4. CASE playback.preview = NoSegment
    <2>1. decision.state = playback
      BY <1>4 DEF TimeDecision
    <2>2. \/ decision.command = Command("none", 0)
          \/ scope.segment # NoSegment /\ decision.command = Command(go, scope.start)
          \/ scope.segment # NoSegment /\ decision.command = Command(go, scope.end) /\ ~ running
      BY <1>4 DEF TimeDecision
    <2> HIDE DEF decision
    <2>3. /\ decision.command.kind \in {"none", "pause-and-seek", "seek-and-play"}
          /\ decision.command.time \in Int
          /\ decision.command.kind # "none" => scope.segment # NoSegment
          /\ decision.command.kind = "seek-and-play" => running
      BY <1>1, <2>2 DEF Command
    <2> QED
      BY <1>4, <2>1, <2>3 DEF decision
  <1> QED
    BY <1>3, <1>4

LEMMA ScopeIsKept ==
    ASSUME PlaybackInv, segments' = segments, selected' = selected, focus' = focus, raced' = raced,
           playback' \in Playbacks, playback'.scope = playback.scope, PreviewHasSegment',
           Sound(media'), plays' \in SUBSET Promises, frame' \in BOOLEAN,
           deleting' \in [segment : Segments, wasSelected : BOOLEAN] \cup {NoSegment},
           PlayingIsFollowed'
    PROVE  PlaybackInv'
  <1>1. PlaybackTypeOK'
    BY DEF PlaybackInv, PlaybackTypeOK
  <1>2. FocusIsOfSelected' /\ ScopeFollowsSelection'
    BY DEF PlaybackInv, FocusIsOfSelected, ScopeFollowsSelection, ScopeOf, Source
  <1> QED
    BY <1>1, <1>2 DEF PlaybackInv

LEMMA SelectKeeps ==
    ASSUME PlaybackInv, NEW id \in Segments, SelectSegment(id)
    PROVE  PlaybackInv'
  <1>1. /\ segments[id] # NoSegment /\ focus' = NoSegment /\ selected' = id
        /\ ApplyDecision(SelectDecision(id))
        /\ segments' = segments /\ frame' = frame /\ deleting' = deleting /\ raced' = raced
    BY DEF SelectSegment, Untouched
  <1>2. PlaybackTypeOK /\ Sound(media) /\ plays \in SUBSET Promises /\ id # NoSegment
    BY SegmentsAssumption DEF PlaybackInv, PlaybackTypeOK
  <1>3. segments[id] \in Spans
    BY <1>1, <1>2 DEF PlaybackTypeOK
  <1>4. /\ ScopeOf(id) \in Scopes /\ segments[id].start \in Int
        /\ ScopeOf(id).segment = id
    BY <1>3 DEF ScopeOf, Spans, Scopes, Instants
  <1> DEFINE decision == SelectDecision(id)
  <1>5. /\ decision.state = Scoped(ScopeOf(id)) /\ decision.command.kind = "pause-and-seek"
        /\ decision.command.time = segments[id].start
    BY DEF SelectDecision, Command
  <1> HIDE DEF decision
  <1>6. playback' = Scoped(ScopeOf(id)) /\ Obeyed("pause-and-seek")
    BY <1>1, <1>2, <1>4, <1>5, DecisionIsApplied DEF decision
  <1>7. playback' \in Playbacks /\ playback'.scope = ScopeOf(id)
    BY <1>4, <1>6 DEF Scoped, Playbacks
  <1>8. Sound(media') /\ media'.paused /\ plays' \in SUBSET Promises
    BY <1>6 DEF Obeyed
  <1>9. PlaybackTypeOK'
    BY <1>1, <1>2, <1>7, <1>8 DEF PlaybackTypeOK
  <1>10. PlayingIsFollowed' /\ PreviewHasSegment' /\ FocusIsOfSelected'
    BY <1>1, <1>2, <1>4, <1>7, <1>8 DEF PlayingIsFollowed, PreviewHasSegment, FocusIsOfSelected
  <1>11. ScopeFollowsSelection'
    BY <1>1, <1>2, <1>7 DEF ScopeFollowsSelection, ScopeOf
  <1> QED
    BY <1>8, <1>9, <1>10, <1>11 DEF PlaybackInv

LEMMA ClearDecides ==
    ASSUME NEW time \in Int
    PROVE  LET decision == ClearDecision(time)
           IN  /\ decision.state = Scoped(Source) /\ decision.command.kind = "pause-and-seek"
               /\ decision.command.time \in Int
               /\ Scoped(Source) \in Playbacks /\ Scoped(Source).scope = Source
               /\ Scoped(Source).preview = NoSegment
  <1>1. Clamp(time, 0, SourceLength) \in Int
    BY SegmentsAssumption DEF Clamp
  <1>2. Source \in Scopes
    BY SegmentsAssumption DEF Source, Scopes, Instants
  <1>3. Scoped(Source) \in Playbacks /\ Scoped(Source).scope = Source
        /\ Scoped(Source).preview = NoSegment
    BY <1>2 DEF Scoped, Playbacks
  <1> QED
    BY <1>1, <1>3 DEF ClearDecision, Command

LEMMA ClearKeeps ==
    ASSUME PlaybackInv, NEW time \in Int, NEW native, ClearSegmentSelection(time, native)
    PROVE  PlaybackInv'
  <1>1. /\ focus' = NoSegment /\ selected' = NoSegment
        /\ segments' = segments /\ frame' = frame /\ deleting' = deleting /\ raced' = raced
    BY DEF ClearSegmentSelection, Untouched
  <1>2. PlaybackTypeOK /\ Sound(media) /\ plays \in SUBSET Promises
    BY DEF PlaybackInv, PlaybackTypeOK
  <1>3. playback' = Scoped(Source)
    BY <1>2, ClearDecides, DecisionIsApplied DEF ClearSegmentSelection
  <1>4. \/ media' = media /\ plays' = plays
        \/ Obeyed("pause-and-seek")
    BY <1>2, ClearDecides, DecisionIsApplied DEF ClearSegmentSelection
  <1>5. Sound(media') /\ plays' \in SUBSET Promises
    BY <1>2, <1>4 DEF Obeyed
  <1>6. playback' \in Playbacks /\ playback'.scope = Source /\ playback'.preview = NoSegment
    BY <1>3, ClearDecides
  <1>7. PlaybackTypeOK'
    BY <1>1, <1>2, <1>5, <1>6 DEF PlaybackTypeOK
  <1>8. PlayingIsFollowed'
    BY <1>1, <1>4 DEF PlaybackInv, PlayingIsFollowed, Obeyed, InStep, PlayPromised
  <1>9. PreviewHasSegment' /\ FocusIsOfSelected' /\ ScopeFollowsSelection'
    BY <1>1, <1>6 DEF PreviewHasSegment, FocusIsOfSelected, ScopeFollowsSelection, Source
  <1> QED
    BY <1>5, <1>7, <1>8, <1>9 DEF PlaybackInv

LEMMA FocusKeeps ==
    ASSUME PlaybackInv, NEW edge \in {"start", "end", NoSegment}, FocusBoundary(edge)
    PROVE  PlaybackInv'
  <1>1. /\ focus' = IF edge = NoSegment \/ selected = NoSegment THEN NoSegment
                    ELSE [segment |-> selected, edge |-> edge]
        /\ segments' = segments /\ selected' = selected /\ playback' = playback
        /\ media' = media /\ plays' = plays /\ frame' = frame
        /\ deleting' = deleting /\ raced' = raced
    BY DEF FocusBoundary, Untouched, player
  <1>2. PlaybackTypeOK'
    BY <1>1 DEF PlaybackInv, PlaybackTypeOK
  <1>3. FocusIsOfSelected'
    BY <1>1 DEF FocusIsOfSelected
  <1> QED
    BY <1>1, <1>2, <1>3 DEF PlaybackInv, Sound, PlayingIsFollowed, PreviewHasSegment,
      ScopeFollowsSelection, InStep, PlayPromised, ScopeOf, Source

LEMMA NudgeKeeps ==
    ASSUME PlaybackInv, NEW delta \in Int, NudgeBoundary(delta)
    PROVE  PlaybackInv'
  <1> DEFINE id == focus.segment
             span == segments[id]
             moved == IF focus.edge = "start"
                      THEN [span EXCEPT !.start = Clamp(span.start + delta, 0, SourceLength)]
                      ELSE [span EXCEPT !.end = Clamp(span.end + delta, 0, SourceLength)]
             scope == [segment |-> id, start |-> moved.start, end |-> moved.end]
  <1>1. /\ focus # NoSegment /\ segments[id] # NoSegment
        /\ segments' = [segments EXCEPT ![id] = moved]
        /\ playback' = Scoped(scope)
        /\ selected' = selected /\ focus' = focus /\ deleting' = deleting /\ raced' = raced
        /\ media' = media /\ plays' = plays /\ frame' = frame
    BY DEF NudgeBoundary, NudgedScope, player
  <1>2. PlaybackTypeOK /\ Sound(media)
    BY DEF PlaybackInv
  <1>3. id \in Segments /\ id # NoSegment /\ span \in Spans
    BY <1>1, <1>2, SegmentsAssumption DEF PlaybackTypeOK
  <1>4. moved \in Spans
    <2>1. span.start + delta \in Int /\ span.end + delta \in Int
      BY <1>3 DEF Spans, Instants
    <2>2. /\ Clamp(span.start + delta, 0, SourceLength) \in Instants
          /\ Clamp(span.end + delta, 0, SourceLength) \in Instants
      BY <2>1, SegmentsAssumption DEF Clamp, Instants
    <2> QED
      BY <1>3, <2>2 DEF Spans
  <1> HIDE DEF moved
  <1>5. scope \in Scopes /\ scope.segment = id
    BY <1>3, <1>4 DEF Scopes, Spans
  <1>6. playback' \in Playbacks /\ playback'.scope = scope
    BY <1>1, <1>5 DEF Scoped, Playbacks
  <1>7. PlaybackTypeOK'
    BY <1>1, <1>2, <1>3, <1>4, <1>6 DEF PlaybackTypeOK
  <1>8. PlayingIsFollowed'
    BY <1>1, <1>3, <1>5, <1>6 DEF PlaybackInv, PlayingIsFollowed, InStep, PlayPromised
  <1>9. PreviewHasSegment' /\ FocusIsOfSelected'
    BY <1>1, <1>3, <1>5, <1>6 DEF PlaybackInv, PreviewHasSegment, FocusIsOfSelected
  <1>10. ScopeFollowsSelection'
    <2>1. SUFFICES ASSUME ~ raced
                   PROVE  scope = IF selected = NoSegment THEN Source ELSE ScopeOf(selected)'
      BY <1>1, <1>6 DEF ScopeFollowsSelection, Source
    <2>2. selected = id
      BY <1>1, <2>1 DEF PlaybackInv, FocusIsOfSelected
    <2>3. segments'[id] = moved
      BY <1>1, <1>2, <1>3 DEF PlaybackTypeOK
    <2>4. ScopeOf(selected)' = scope
      BY <1>1, <2>2, <2>3 DEF ScopeOf
    <2> QED
      BY <1>3, <2>2, <2>4
  <1> QED
    BY <1>1, <1>2, <1>7, <1>8, <1>9, <1>10 DEF PlaybackInv

LEMMA SeekKeeps ==
    ASSUME PlaybackInv, NEW time \in Int, Seek(time)
    PROVE  PlaybackInv'
  <1> DEFINE decision == SeekDecision(time)
  <1>1. /\ ApplyDecision(decision)
        /\ segments' = segments /\ selected' = selected /\ focus' = focus /\ frame' = frame
        /\ deleting' = deleting /\ raced' = raced
    BY DEF Seek, Untouched
  <1>2. /\ PlaybackTypeOK /\ Sound(media) /\ plays \in SUBSET Promises /\ playback \in Playbacks
        /\ playback.scope \in Scopes /\ playback.scope.start \in Int /\ playback.scope.end \in Int
    BY DEF PlaybackInv, PlaybackTypeOK, Playbacks, Scopes, Instants
  <1>3. decision.state = [playback EXCEPT !.preview = NoSegment]
        /\ decision.command.kind \in {"pause-and-seek", "seek-and-play"}
        /\ decision.command.time \in Int
    BY <1>2 DEF SeekDecision, Command, Clamp
  <1>4. /\ decision.state \in Playbacks /\ decision.state.scope = playback.scope
        /\ decision.state.preview = NoSegment
    BY <1>2, <1>3 DEF Playbacks
  <1> HIDE DEF decision
  <1>5. playback' = decision.state /\ Obeyed(decision.command.kind)
    BY <1>1, <1>2, <1>3, DecisionIsApplied
  <1>6. PlayingIsFollowed'
    BY <1>1, <1>3, <1>4, <1>5 DEF PlaybackInv, PlayingIsFollowed, Obeyed, InStep
  <1>7. Sound(media') /\ plays' \in SUBSET Promises
    BY <1>5 DEF Obeyed
  <1>8. PreviewHasSegment'
    BY <1>4, <1>5 DEF PreviewHasSegment
  <1> QED
    BY <1>1, <1>2, <1>4, <1>5, <1>6, <1>7, <1>8, ScopeIsKept DEF PlaybackTypeOK

LEMMA PreviewKeeps ==
    ASSUME PlaybackInv, BeginContextPreview
    PROVE  PlaybackInv'
  <1> DEFINE decision == PreviewDecision
             start == Clamp(playback.scope.start - 1, 0, SourceLength)
             end == Clamp(playback.scope.end + 1, 0, SourceLength)
  <1>1. /\ selected # NoSegment /\ ApplyDecision(decision)
        /\ segments' = segments /\ selected' = selected /\ focus' = focus /\ frame' = frame
        /\ deleting' = deleting /\ raced' = raced
    BY DEF BeginContextPreview, Untouched
  <1>2. /\ PlaybackTypeOK /\ Sound(media) /\ plays \in SUBSET Promises /\ playback \in Playbacks
        /\ playback.scope \in Scopes /\ playback.scope.start \in Int /\ playback.scope.end \in Int
        /\ PreviewHasSegment /\ PlayingIsFollowed
    BY DEF PlaybackInv, PlaybackTypeOK, Playbacks, Scopes, Instants
  <1>3. start \in Instants /\ end \in Instants
    BY <1>2, SegmentsAssumption DEF Clamp, Instants
  <1>4. CASE playback.scope.segment = NoSegment
    <2>1. /\ decision.state = playback /\ decision.command.kind = "none"
          /\ decision.command.time = 0
      BY <1>4 DEF PreviewDecision, Command
    <2> HIDE DEF decision
    <2>2. playback' = playback /\ Obeyed("none")
      BY <1>1, <1>2, <2>1, DecisionIsApplied
    <2>3. PlayingIsFollowed'
      BY <1>1, <1>2, <1>4, <2>2 DEF PlayingIsFollowed, Obeyed, InStep
    <2> QED
      BY <1>1, <1>2, <2>2, <2>3, ScopeIsKept DEF PlaybackTypeOK, Obeyed, PreviewHasSegment
  <1>5. CASE playback.scope.segment # NoSegment
    <2> DEFINE span == [start |-> start, end |-> end]
               state == [playback EXCEPT !.preview = span]
    <2>1. span \in Spans
      BY <1>3 DEF Spans
    <2>2. /\ decision.state = state /\ decision.command.kind = "seek-and-play"
          /\ decision.command.time = start
      BY <1>5 DEF PreviewDecision, Command
    <2> HIDE DEF span, decision
    <2>3. state \in Playbacks /\ state.scope = playback.scope
      BY <1>2, <2>1 DEF Playbacks
    <2> HIDE DEF state
    <2>4. decision.command.time \in Int
      BY <1>3, <2>2 DEF Instants
    <2> HIDE DEF start, end
    <2>5. playback' = state /\ Obeyed("seek-and-play")
      BY <1>1, <1>2, <2>2, <2>4, DecisionIsApplied
    <2>6. PlayingIsFollowed'
      BY <1>1, <1>2, <1>5, <2>3, <2>5 DEF PlayingIsFollowed, Obeyed, InStep
    <2>7. PreviewHasSegment'
      BY <1>5, <2>3, <2>5 DEF PreviewHasSegment
    <2> QED
      BY <1>1, <1>2, <2>3, <2>5, <2>6, <2>7, ScopeIsKept DEF PlaybackTypeOK, Obeyed
  <1> QED
    BY <1>4, <1>5

\* What the user and the browser do to the element alone.
LEMMA ElementKeeps ==
    ASSUME PlaybackInv, TogglePlayback \/ NativeControls \/ PrepareForSave \/ Tick
    PROVE  PlaybackInv'
  <1>1. /\ segments' = segments /\ selected' = selected /\ focus' = focus /\ playback' = playback
        /\ deleting' = deleting /\ raced' = raced
    BY DEF TogglePlayback, NativeControls, PrepareForSave, Tick, Untouched, shown
  <1>2. /\ PlaybackTypeOK /\ Sound(media) /\ plays \in SUBSET Promises /\ playback \in Playbacks
        /\ PreviewHasSegment /\ PlayingIsFollowed /\ media \in Elements
        /\ SourceLength \in Nat \ {0}
    BY SegmentsAssumption DEF PlaybackInv, PlaybackTypeOK, Sound
  <1> DEFINE older == Overtaken(plays)
  <1>3. older \in SUBSET Promises /\ Aborted(plays) \in SUBSET Promises
    BY <1>2, OvertakenPromises DEF Aborted, Promises
  <1>4. frame' \in BOOLEAN
    BY <1>2 DEF TogglePlayback, NativeControls, PrepareForSave, Tick, StopSampling, PlaybackTypeOK
  <1>5. Sound(media') /\ plays' \in SUBSET Promises /\ PlayingIsFollowed'
    <2>1. CASE media.paused /\ media' = Played(media) /\ plays' \in SUBSET Promises
      BY <1>2, <2>1, PlayedIsSound DEF PlayingIsFollowed
    <2>2. CASE Sound(media') /\ media'.paused /\ plays' \in SUBSET Promises
      BY <2>2 DEF PlayingIsFollowed
    <2>3. CASE TogglePlayback
      <3>1. CASE media.paused
        <4> DEFINE begun(aborted) == [kind |-> "toggle", current |-> TRUE, aborted |-> aborted]
        <4>1. begun(TRUE) \in Promises /\ begun(FALSE) \in Promises
          BY DEF Promises
        <4>2. \/ media' = Played(media) /\ plays' = older \cup {begun(FALSE)}
              \/ media' = media /\ plays' = older \cup {begun(TRUE)}
          BY <2>3, <3>1 DEF TogglePlayback
        <4> HIDE DEF begun
        <4> QED
          BY <1>2, <1>3, <2>1, <2>2, <3>1, <4>1, <4>2
      <3>2. CASE ~ media.paused
        <4>1. media' = Paused(media, older).element /\ plays' = Paused(media, older).promises
          BY <2>3, <3>2 DEF TogglePlayback
        <4> QED
          BY <1>2, <1>3, <2>2, <4>1, PausedIsSound
      <3> QED
        BY <3>1, <3>2
    <2>4. CASE NativeControls
      <3>1. CASE ~ media.paused /\ media' = Paused(media, plays).element
                 /\ plays' = Paused(media, plays).promises
        BY <1>2, <2>2, <3>1, PausedIsSound
      <3>2. ASSUME NEW time \in 0..(SourceLength - 1), media' = Sought(media, time), plays' = plays
            PROVE  Sound(media') /\ plays' \in SUBSET Promises /\ PlayingIsFollowed'
        <4>1. Clamp(time, 0, SourceLength) = time /\ time # SourceLength /\ time \in Int
          BY <1>2 DEF Clamp
        <4>2. /\ media' \in Elements /\ media'.paused = media.paused
              /\ media'.time = time
              /\ PlayComes(media.events) => PlayComes(media'.events)
              /\ Restarted(media.events) => Restarted(media'.events)
          BY <1>2, <3>2, <4>1, SoughtElement
        <4>3. frame' = frame
          BY <2>4 DEF NativeControls
        <4> QED
          BY <1>1, <1>2, <3>2, <4>1, <4>2, <4>3 DEF Sound, PlayingIsFollowed, PlayPromised, InStep
      <3>3. CASE ~ media.paused /\ media' = AtEnd(Sought(media, SourceLength))
                 /\ plays' = Aborted(plays)
        <4>1. Sought(media, SourceLength) \in Elements
          BY <1>2, SoughtElement
        <4> QED
          BY <1>3, <2>2, <3>3, <4>1, AtEndIsSound
      <3>4. CASE media.paused /\ media' = Played(media) /\ plays' = plays
        BY <1>2, <2>1, <3>4
      <3> QED
        BY <2>4, <3>1, <3>2, <3>3, <3>4 DEF NativeControls
    <2>5. CASE PrepareForSave
      <3>1. media' = Paused(media, plays).element /\ plays' = Paused(media, plays).promises
        BY <2>5 DEF PrepareForSave
      <3> QED
        BY <1>2, <2>2, <3>1, PausedIsSound
    <2>6. CASE Tick
      <3>1. ~ media.paused /\ frame' = frame /\ media.time \in Nat
        BY <1>2, <2>6 DEF Tick, Elements, Instants
      <3>2. CASE media.time + 1 < SourceLength
        <4> DEFINE later == [media EXCEPT !.time = media.time + 1]
        <4>1. media' = later /\ plays' = plays
          BY <2>6, <3>2 DEF Tick
        <4>2. media.time + 1 \in Instants /\ media.time + 1 # SourceLength
          BY <1>2, <3>1, <3>2 DEF Instants
        <4>3. later \in Elements /\ later.time = media.time + 1 /\ later.paused = media.paused
              /\ later.events = media.events
          BY <1>2, <4>2 DEF Elements
        <4> HIDE DEF later
        <4> QED
          BY <1>1, <1>2, <3>1, <4>1, <4>2, <4>3 DEF Sound, PlayingIsFollowed, PlayPromised, InStep
      <3>3. CASE ~ (media.time + 1 < SourceLength)
        <4>1. media' = AtEnd(media) /\ plays' = Aborted(plays)
          BY <2>6, <3>3 DEF Tick
        <4> QED
          BY <1>2, <1>3, <2>2, <4>1, AtEndIsSound
      <3> QED
        BY <3>2, <3>3
    <2> QED
      BY <2>3, <2>4, <2>5, <2>6
  <1> QED
    BY <1>1, <1>2, <1>4, <1>5, ScopeIsKept DEF PlaybackTypeOK, PreviewHasSegment

LEMMA DeletionKeeps ==
    ASSUME PlaybackInv,
           (\E id \in Segments : RemoveFragment(id)) \/ RemovalFails \/ ReleaseAfterSave
    PROVE  PlaybackInv'
  <1>1. /\ segments' = segments /\ selected' = selected /\ focus' = focus /\ playback' = playback
        /\ media' = media /\ plays' = plays /\ frame' = frame /\ raced' = raced
    BY DEF RemoveFragment, RemovalFails, ReleaseAfterSave, shown, player
  <1>2. PlaybackTypeOK
    BY DEF PlaybackInv
  <1>3. deleting' \in [segment : Segments, wasSelected : BOOLEAN] \cup {NoSegment}
    <2>1. CASE RemovalFails
      BY <2>1 DEF RemovalFails
    <2>2. CASE ReleaseAfterSave
      BY <1>2, <2>2 DEF ReleaseAfterSave, PlaybackTypeOK
    <2>3. ASSUME NEW id \in Segments, RemoveFragment(id)
          PROVE  deleting' \in [segment : Segments, wasSelected : BOOLEAN]
      BY <2>3 DEF RemoveFragment
    <2> QED
      BY <2>1, <2>2, <2>3
  <1>4. PlayingIsFollowed' /\ PreviewHasSegment'
    BY <1>1 DEF PlaybackInv, PlayingIsFollowed, PreviewHasSegment, PlayPromised, InStep
  <1> QED
    BY <1>1, <1>2, <1>3, <1>4, ScopeIsKept DEF PlaybackTypeOK, PlaybackInv

LEMMA RemovedKeeps ==
    ASSUME PlaybackInv, FragmentRemoved
    PROVE  PlaybackInv'
  <1> DEFINE id == deleting.segment
  <1>1. /\ deleting # NoSegment
        /\ segments' = [segments EXCEPT ![id] = NoSegment]
        /\ selected' = IF selected = id THEN NoSegment ELSE selected
        /\ raced' = (raced \/ deleting.wasSelected # (selected = id))
        /\ deleting' = NoSegment /\ frame' = frame
    BY DEF FragmentRemoved
  <1>2. /\ PlaybackTypeOK /\ Sound(media) /\ plays \in SUBSET Promises /\ media.time \in Int
        /\ PlayingIsFollowed /\ PreviewHasSegment /\ FocusIsOfSelected /\ ScopeFollowsSelection
    BY DEF PlaybackInv, PlaybackTypeOK, Sound, Elements, Instants
  <1>3. id \in Segments /\ deleting.wasSelected \in BOOLEAN /\ id # NoSegment
    BY <1>1, <1>2, SegmentsAssumption DEF PlaybackTypeOK
  <1>4. /\ segments' \in [Segments -> Spans \cup {NoSegment}]
        /\ \A other \in Segments : other # id => segments'[other] = segments[other]
    BY <1>1, <1>2, <1>3 DEF PlaybackTypeOK
  <1>5. CASE deleting.wasSelected
    <2>1. focus' = NoSegment /\ playback' = Scoped(Source) /\ Obeyed("pause-and-seek")
      BY <1>2, <1>5, ClearDecides, DecisionIsApplied DEF FragmentRemoved
    <2>2. /\ playback' \in Playbacks /\ playback'.scope = Source /\ playback'.preview = NoSegment
      BY <1>2, <2>1, ClearDecides
    <2>3. Sound(media') /\ media'.paused /\ plays' \in SUBSET Promises
      BY <2>1 DEF Obeyed
    <2>4. PlaybackTypeOK'
      BY <1>1, <1>2, <1>3, <1>4, <2>1, <2>2, <2>3 DEF PlaybackTypeOK
    <2>5. PlayingIsFollowed' /\ PreviewHasSegment' /\ FocusIsOfSelected'
      BY <2>1, <2>2, <2>3 DEF PlayingIsFollowed, PreviewHasSegment, FocusIsOfSelected
    <2>6. ScopeFollowsSelection'
      BY <1>1, <1>3, <1>5, <2>2 DEF ScopeFollowsSelection, Source
    <2> QED
      BY <2>3, <2>4, <2>5, <2>6 DEF PlaybackInv
  <1>6. CASE ~ deleting.wasSelected
    <2>1. focus' = focus /\ playback' = playback /\ media' = media /\ plays' = plays
      BY <1>6 DEF FragmentRemoved
    <2>2. PlaybackTypeOK'
      BY <1>1, <1>2, <1>3, <1>4, <2>1 DEF PlaybackTypeOK
    <2>3. PlayingIsFollowed' /\ PreviewHasSegment'
      BY <1>1, <1>2, <2>1 DEF PlayingIsFollowed, PreviewHasSegment, PlayPromised, InStep
    <2>4. ~ raced' => ~ raced /\ selected' = selected /\ selected # id
      BY <1>1, <1>6
    <2>5. FocusIsOfSelected'
      BY <1>2, <2>1, <2>4 DEF FocusIsOfSelected
    <2>6. ScopeFollowsSelection'
      <3>1. SUFFICES ASSUME ~ raced', selected # NoSegment
                     PROVE  ScopeOf(selected)' = ScopeOf(selected)
        BY <1>2, <2>1, <2>4 DEF ScopeFollowsSelection, Source
      <3>2. selected \in Segments /\ segments'[selected] = segments[selected]
        BY <1>2, <1>4, <2>4, <3>1 DEF PlaybackTypeOK
      <3> QED
        BY <2>4, <3>1, <3>2 DEF ScopeOf
    <2> QED
      BY <1>2, <2>1, <2>2, <2>3, <2>5, <2>6 DEF PlaybackInv, Sound
  <1> QED
    BY <1>3, <1>5, <1>6

LEMMA SampleKeeps ==
    ASSUME PlaybackInv, SamplePlayback
    PROVE  PlaybackInv'
  <1> DEFINE decision == TimeDecision(TRUE)
  <1>1. /\ frame
        /\ segments' = segments /\ selected' = selected /\ focus' = focus
        /\ deleting' = deleting /\ raced' = raced
    BY DEF SamplePlayback, Untouched
  <1>2. /\ PlaybackTypeOK /\ Sound(media) /\ plays \in SUBSET Promises /\ playback \in Playbacks
        /\ PreviewHasSegment /\ PlayingIsFollowed
    BY DEF PlaybackInv, PlaybackTypeOK
  <1>3. /\ decision.state \in Playbacks /\ decision.state.scope = playback.scope
        /\ decision.state.scope.segment = NoSegment => decision.state.preview = NoSegment
        /\ decision.command.kind \in {"none", "pause-and-seek", "seek-and-play"}
        /\ decision.command.time \in Int
        /\ decision.command.kind # "none" => playback.scope.segment # NoSegment
    BY <1>2, TimeDecides
  <1> HIDE DEF decision
  <1>4. CASE media.paused \/ Ended
    <2>1. frame' = FALSE /\ playback' = playback /\ media' = media /\ plays' = plays
      BY <1>4 DEF SamplePlayback, StopSampling
    <2>2. media.paused
      BY <1>2, <1>4 DEF Sound, Ended
    <2>3. PlayingIsFollowed' /\ PreviewHasSegment'
      BY <1>2, <2>1, <2>2 DEF PlayingIsFollowed, PreviewHasSegment
    <2> QED
      BY <1>1, <1>2, <2>1, <2>3, ScopeIsKept DEF PlaybackTypeOK
  <1>5. CASE ~ (media.paused \/ Ended) /\ decision.command.kind # "none"
    <2>1. frame' = FALSE /\ ApplyDecision(decision)
      BY <1>5 DEF SamplePlayback, decision
    <2>2. playback' = decision.state /\ Obeyed(decision.command.kind)
      BY <1>2, <1>3, <2>1, DecisionIsApplied
    <2>3. Sound(media') /\ plays' \in SUBSET Promises /\ PreviewHasSegment'
      BY <1>3, <2>2 DEF Obeyed, PreviewHasSegment
    <2>4. PlayingIsFollowed'
      BY <1>1, <1>3, <1>5, <2>2 DEF PlayingIsFollowed, Obeyed, InStep
    <2> QED
      BY <1>1, <1>2, <1>3, <2>1, <2>2, <2>3, <2>4, ScopeIsKept DEF PlaybackTypeOK
  <1>6. CASE ~ (media.paused \/ Ended) /\ decision.command.kind = "none"
    <2>1. frame' = frame /\ playback' = playback /\ media' = media /\ plays' = plays
      BY <1>6 DEF SamplePlayback, decision
    <2>2. PlayingIsFollowed' /\ PreviewHasSegment'
      BY <1>1, <1>2, <2>1 DEF PlayingIsFollowed, PreviewHasSegment, PlayPromised, InStep
    <2> QED
      BY <1>1, <1>2, <2>1, <2>2, ScopeIsKept DEF PlaybackTypeOK
  <1> QED
    BY <1>4, <1>5, <1>6

\* The element with the first of its events handled.
LEMMA HandledIsSound ==
    ASSUME Sound(media), media.events # <<>>
    PROVE  /\ Sound(EventHandled) /\ EventHandled \in Elements
           /\ EventHandled.paused = media.paused
           /\ PlayComes(media.events) /\ Head(media.events) # "play" => PlayComes(EventHandled.events)
           /\ ~ media.paused /\ Head(media.events) \in {"pause", "ended"} =>
                PlayComes(EventHandled.events)
           /\ Head(media.events) \in EventKinds
  <1>1. media \in Elements /\ media.events \in Seq(EventKinds)
    BY DEF Sound, Elements
  <1> DEFINE rest == Tail(media.events)
             handled == [media EXCEPT !.events = rest]
  <1>2. /\ rest \in Seq(EventKinds) /\ Head(media.events) \in EventKinds
        /\ PlayComes(media.events) /\ Head(media.events) # "play" => PlayComes(rest)
        /\ Restarted(media.events) => Restarted(rest)
        /\ Restarted(media.events) /\ Head(media.events) \in {"pause", "ended"} => PlayComes(rest)
    BY <1>1, Unqueued
  <1>3. EventHandled = handled
    BY DEF EventHandled
  <1> HIDE DEF rest
  <1>4. /\ handled \in Elements /\ handled.paused = media.paused /\ handled.time = media.time
        /\ handled.events = rest
    BY <1>1, <1>2 DEF Elements
  <1> HIDE DEF handled
  <1> QED
    BY <1>2, <1>3, <1>4 DEF Sound

LEMMA DecidedIsFollowed ==
    ASSUME Sound(EventHandled), plays \in SUBSET Promises,
           NEW decision, decision.command.time \in Int, Decided(decision)
    PROVE  /\ playback' = decision.state /\ Sound(media') /\ plays' \in SUBSET Promises
           /\ media'.paused \/ PlayPromised'
  <1> DEFINE older == Overtaken(plays)
             time == decision.command.time
  <1>1. older \in SUBSET Promises /\ EventHandled \in Elements
    BY OvertakenPromises DEF Sound
  <1>2. playback' = decision.state
    BY DEF Decided
  <1>3. CASE decision.command.kind = "seek-and-play"
    <2>1. /\ media' = Played(Sought(EventHandled, time))
          /\ plays' = older \cup {[kind |-> "seek", current |-> TRUE, aborted |-> FALSE]}
      BY <1>3 DEF Decided
    <2> QED
      BY <1>1, <1>2, <2>1, PlayingIsObeyed DEF Sound
  <1>4. CASE decision.command.kind # "seek-and-play"
    <2>1. /\ media' = Sought(Paused(EventHandled, older).element, time)
          /\ plays' = Paused(EventHandled, older).promises
      BY <1>4 DEF Decided
    <2> QED
      BY <1>1, <1>2, <2>1, PausingIsObeyed
  <1> QED
    BY <1>3, <1>4

LEMMA EventKeeps ==
    ASSUME PlaybackInv, HandleEvent
    PROVE  PlaybackInv'
  <1>1. /\ media.events # <<>>
        /\ segments' = segments /\ selected' = selected /\ focus' = focus
        /\ deleting' = deleting /\ raced' = raced
    BY DEF HandleEvent, Untouched
  <1>2. /\ PlaybackTypeOK /\ Sound(media) /\ plays \in SUBSET Promises /\ playback \in Playbacks
        /\ PreviewHasSegment /\ PlayingIsFollowed /\ frame \in BOOLEAN
    BY DEF PlaybackInv, PlaybackTypeOK
  <1>3. /\ Sound(EventHandled) /\ EventHandled \in Elements
        /\ EventHandled.paused = media.paused
        /\ PlayComes(media.events) /\ Head(media.events) # "play" => PlayComes(EventHandled.events)
        /\ ~ media.paused /\ Head(media.events) \in {"pause", "ended"} =>
             PlayComes(EventHandled.events)
        /\ Head(media.events) \in EventKinds
    BY <1>1, <1>2, HandledIsSound
  <1> DEFINE quiet == [playback EXCEPT !.preview = NoSegment]
  <1>4. quiet \in Playbacks /\ quiet.scope = playback.scope /\ quiet.preview = NoSegment
    BY <1>2 DEF Playbacks
  <1> HIDE DEF quiet
  <1>5. SUFFICES /\ playback' \in Playbacks /\ playback'.scope = playback.scope /\ PreviewHasSegment'
                 /\ Sound(media') /\ plays' \in SUBSET Promises /\ frame' \in BOOLEAN
                 /\ PlayingIsFollowed'
    BY <1>1, <1>2, ScopeIsKept DEF PlaybackTypeOK
  <1>6. CASE Head(media.events) = "play"
    <2>1. HandlePlay /\ playback' = playback
      BY <1>6 DEF HandleEvent
    <2>2. CASE locked
      <3>1. /\ media' = Paused(EventHandled, plays).element
            /\ plays' = Paused(EventHandled, plays).promises /\ frame' = frame
        BY <2>1, <2>2 DEF HandlePlay
      <3>2. Sound(media') /\ media'.paused /\ plays' \in SUBSET Promises
        BY <1>2, <1>3, <3>1, PausedIsSound
      <3> QED
        BY <1>2, <2>1, <3>1, <3>2 DEF PlayingIsFollowed, PreviewHasSegment
    <2>3. CASE ~ locked
      <3>1. media' = EventHandled /\ plays' = plays /\ ScheduleSampling(media)
        BY <2>1, <2>3 DEF HandlePlay
      <3>2. frame' \in BOOLEAN /\ (~ media.paused => frame' = TRUE)
        BY <1>2, <3>1 DEF ScheduleSampling, Sound, Ended
      <3> QED
        BY <1>2, <1>3, <2>1, <3>1, <3>2 DEF PlayingIsFollowed, PreviewHasSegment
    <2> QED
      BY <2>2, <2>3
  <1>7. CASE Head(media.events) = "pause"
    <2>1. HandlePause
      BY <1>7 DEF HandleEvent
    <2>2. /\ playback' = playback \/ playback' = quiet
          /\ frame' = FALSE /\ media' = EventHandled /\ plays' = plays
      BY <2>1 DEF HandlePause, StopSampling, quiet
    <2> QED
      BY <1>2, <1>3, <1>4, <1>7, <2>2 DEF PlayingIsFollowed, PreviewHasSegment
  <1>8. CASE Head(media.events) = "seeked"
    <2> DEFINE decision == TimeDecision(~ media.paused)
    <2>1. HandleSeeked
      BY <1>8 DEF HandleEvent
    <2>2. frame' = frame
      BY <2>1 DEF HandleSeeked
    <2>3. /\ decision.state \in Playbacks /\ decision.state.scope = playback.scope
          /\ decision.state.scope.segment = NoSegment => decision.state.preview = NoSegment
          /\ decision.command.time \in Int
          /\ decision.command.kind # "none" => playback.scope.segment # NoSegment
      <3>1. (~ media.paused) \in BOOLEAN
        OBVIOUS
      <3> QED
        BY <1>2, <3>1, TimeDecides
    <2>4. CASE media' = EventHandled /\ playback' = playback /\ plays' = plays
      BY <1>1, <1>2, <1>3, <1>8, <2>2, <2>4
      DEF PlayingIsFollowed, PreviewHasSegment, PlayPromised, InStep
    <2>5. CASE decision.command.kind # "none" /\ Decided(decision)
      <3> HIDE DEF decision
      <3>1. /\ playback' = decision.state /\ Sound(media') /\ plays' \in SUBSET Promises
            /\ media'.paused \/ PlayPromised'
        BY <1>2, <1>3, <2>3, <2>5, DecidedIsFollowed
      <3> QED
        BY <1>2, <2>2, <2>3, <2>5, <3>1 DEF PlayingIsFollowed, PreviewHasSegment, InStep
    <2> QED
      BY <2>1, <2>4, <2>5 DEF HandleSeeked
  <1>9. CASE Head(media.events) = "ended"
    <2> DEFINE decision == TimeDecision(TRUE)
    <2>1. HandleEnded
      BY <1>9 DEF HandleEvent
    <2>2. frame' = FALSE
      BY <2>1 DEF HandleEnded, StopSampling
    <2>3. /\ decision.state \in Playbacks /\ decision.state.scope = playback.scope
          /\ decision.state.scope.segment = NoSegment => decision.state.preview = NoSegment
          /\ decision.command.time \in Int
          /\ decision.command.kind # "none" => playback.scope.segment # NoSegment
      BY <1>2, TimeDecides
    <2>4. CASE /\ playback' = playback \/ playback' = quiet
               /\ media' = EventHandled /\ plays' = plays
      BY <1>2, <1>3, <1>4, <1>9, <2>2, <2>4 DEF PlayingIsFollowed, PreviewHasSegment
    <2>5. CASE decision.command.kind # "none" /\ Decided(decision)
      <3> HIDE DEF decision
      <3>1. /\ playback' = decision.state /\ Sound(media') /\ plays' \in SUBSET Promises
            /\ media'.paused \/ PlayPromised'
        BY <1>2, <1>3, <2>3, <2>5, DecidedIsFollowed
      <3> QED
        BY <1>2, <2>2, <2>3, <2>5, <3>1 DEF PlayingIsFollowed, PreviewHasSegment, InStep
    <2> QED
      BY <2>1, <2>4, <2>5 DEF HandleEnded, quiet
  <1> QED
    BY <1>3, <1>6, <1>7, <1>8, <1>9 DEF EventKinds

LEMMA SettlesKeeps ==
    ASSUME PlaybackInv, PlaySettles
    PROVE  PlaybackInv'
  <1>1. /\ segments' = segments /\ selected' = selected /\ focus' = focus
        /\ deleting' = deleting /\ raced' = raced
    BY DEF PlaySettles, Untouched
  <1>2. /\ PlaybackTypeOK /\ Sound(media) /\ media \in Elements /\ plays \in SUBSET Promises
        /\ playback \in Playbacks /\ PreviewHasSegment /\ PlayingIsFollowed /\ frame \in BOOLEAN
    BY DEF PlaybackInv, PlaybackTypeOK, Sound
  <1> DEFINE quiet == [playback EXCEPT !.preview = NoSegment]
  <1>3. quiet \in Playbacks /\ quiet.scope = playback.scope /\ quiet.preview = NoSegment
    BY <1>2 DEF Playbacks
  <1> HIDE DEF quiet
  <1>4. SUFFICES /\ playback' \in Playbacks /\ playback'.scope = playback.scope /\ PreviewHasSegment'
                 /\ Sound(media') /\ plays' \in SUBSET Promises /\ frame' \in BOOLEAN
                 /\ PlayingIsFollowed'
    BY <1>1, <1>2, ScopeIsKept DEF PlaybackTypeOK
  <1>5. PICK promise \in plays :
          /\ plays' = plays \ {promise}
          /\ IF ~ Current(promise) \/ (promise.kind = "toggle" /\ ~ promise.aborted)
             THEN UNCHANGED <<playback, media, frame, playing>>
             ELSE IF ~ promise.aborted
             THEN ScheduleSampling(media) /\ UNCHANGED <<playback, media>>
             ELSE /\ playback' = quiet
                  /\ media' = IF promise.kind = "seek" THEN Paused(media, plays).element ELSE media
                  /\ UNCHANGED <<frame, playing>>
    BY DEF PlaySettles, quiet
  <1>6. plays' \in SUBSET Promises /\ promise \in Promises
    BY <1>2, <1>5
  <1>7. promise.kind \in {"seek", "toggle"} /\ promise.aborted \in BOOLEAN
    BY <1>6 DEF Promises
  <1>8. CASE ~ promise.current \/ (promise.kind = "toggle" /\ ~ promise.aborted)
    <2>1. playback' = playback /\ media' = media /\ frame' = frame
      BY <1>5, <1>8 DEF Current
    <2>2. PlayPromised => PlayPromised'
      BY <1>5, <1>8 DEF PlayPromised
    <2> QED
      BY <1>1, <1>2, <1>6, <2>1, <2>2 DEF PlayingIsFollowed, PreviewHasSegment, InStep
  <1>9. CASE promise.current /\ promise.kind = "seek" /\ ~ promise.aborted
    <2>1. ScheduleSampling(media) /\ playback' = playback /\ media' = media
      BY <1>5, <1>9 DEF Current
    <2>2. frame' \in BOOLEAN /\ (~ media.paused => frame' = TRUE)
      BY <1>2, <2>1 DEF ScheduleSampling, Sound, Ended
    <2> QED
      BY <1>2, <1>6, <2>1, <2>2 DEF PlayingIsFollowed, PreviewHasSegment
  <1>10. CASE promise.current /\ promise.aborted
    <2>1. /\ playback' = quiet /\ frame' = frame
          /\ media' = IF promise.kind = "seek" THEN Paused(media, plays).element ELSE media
      BY <1>5, <1>10 DEF Current
    <2>2. PlayPromised => PlayPromised'
      BY <1>5, <1>10 DEF PlayPromised
    <2>3. Sound(media') /\ (media'.paused \/ media' = media)
      BY <1>2, <2>1, PausedIsSound
    <2>4. PlayingIsFollowed'
      BY <1>1, <1>2, <1>3, <2>1, <2>2, <2>3 DEF PlayingIsFollowed, InStep
    <2> QED
      BY <1>2, <1>3, <1>6, <2>1, <2>3, <2>4 DEF PreviewHasSegment
  <1> QED
    BY <1>7, <1>8, <1>9, <1>10

LEMMA PlaybackStep == PlaybackInv /\ [EditorNext]_editorVars => PlaybackInv'
  <1> SUFFICES ASSUME PlaybackInv, [EditorNext]_editorVars
               PROVE  PlaybackInv'
    OBVIOUS
  <1>1. CASE UNCHANGED editorVars
    BY <1>1 DEF editorVars, PlaybackInv, PlaybackTypeOK, Sound, PlayingIsFollowed, PlayPromised,
      InStep, PreviewHasSegment, FocusIsOfSelected, ScopeFollowsSelection, ScopeOf, Source
  <1>2. CASE \E id \in Segments : SelectSegment(id)
    BY <1>2, SelectKeeps
  <1>3. CASE \E time \in 0..SourceLength, native \in BOOLEAN : ClearSegmentSelection(time, native)
    <2>1. PICK time \in 0..SourceLength, native \in BOOLEAN : ClearSegmentSelection(time, native)
      BY <1>3
    <2>2. time \in Int
      BY SegmentsAssumption
    <2> QED
      BY <2>1, <2>2, ClearKeeps
  <1>4. CASE \E edge \in {"start", "end", NoSegment} : FocusBoundary(edge)
    BY <1>4, FocusKeeps
  <1>5. CASE \E time \in (-1)..(SourceLength + 1) : Seek(time)
    <2>1. PICK time \in (-1)..(SourceLength + 1) : Seek(time)
      BY <1>5
    <2>2. time \in Int
      BY SegmentsAssumption
    <2> QED
      BY <2>1, <2>2, SeekKeeps
  <1>6. CASE \E delta \in {-1, 1} : NudgeBoundary(delta)
    BY <1>6, NudgeKeeps
  <1> QED
    BY <1>1, <1>2, <1>3, <1>4, <1>5, <1>6, PreviewKeeps, ElementKeeps, DeletionKeeps, RemovedKeeps,
       SampleKeeps, EventKeeps, SettlesKeeps DEF EditorNext

LEMMA PlaybackInitial == EditorInit => PlaybackInv
  <1> SUFFICES ASSUME EditorInit
               PROVE  PlaybackInv
    OBVIOUS
  <1>1. /\ segments = FirstSpans /\ selected = NoSegment /\ focus = NoSegment
        /\ playback = Scoped(Source) /\ plays = {} /\ frame = FALSE /\ raced = FALSE
        /\ deleting = NoSegment
        /\ media = [time |-> 0, paused |-> TRUE, events |-> <<>>]
    BY DEF EditorInit
  <1>2. /\ playback \in Playbacks /\ playback.scope = Source /\ playback.preview = NoSegment
    BY <1>1, ClearDecides
  <1>3. segments \in [Segments -> Spans \cup {NoSegment}]
    BY <1>1, SegmentsAssumption DEF Spans, Instants
  <1>4. Sound(media) /\ media.paused
    <2>1. <<>> \in Seq(EventKinds) /\ 0 \in Instants
      BY SegmentsAssumption DEF Instants
    <2> QED
      BY <1>1, <2>1 DEF Sound, Elements
  <1>5. PlaybackTypeOK
    BY <1>1, <1>2, <1>3 DEF PlaybackTypeOK
  <1> QED
    BY <1>1, <1>2, <1>4, <1>5 DEF PlaybackInv, PlayingIsFollowed, PreviewHasSegment,
      FocusIsOfSelected, ScopeFollowsSelection

\* A playing element is always followed, by the next frame, by an event in its queue or by the
\* promise of the last command, and the scope is of the selection (VideoEditor.svelte,
\* lib/playback-controller.ts).
THEOREM PlaybackInvariant == EditorSpec => []PlaybackInv
  <1>1. EditorInit => PlaybackInv
    BY PlaybackInitial
  <1>2. PlaybackInv /\ [EditorNext]_editorVars => PlaybackInv'
    BY PlaybackStep
  <1> QED
    BY <1>1, <1>2, PTL DEF EditorSpec

\* What plays is what is selected, but for a selection that moved during a deletion, and a
\* playing video goes on being sampled: for any segments, any queue of media events and any
\* number of play() promises.
THEOREM PlaybackStaysTrue == EditorSpec => []PlaybackIsTrue
  <1>1. PlaybackInv => PlaybackIsTrue
    <2>1. SUFFICES ASSUME PlaybackInv, ~ media.paused, media.events = <<>>, plays = {}
                   PROVE  frame
      BY DEF PlaybackInv, PlaybackIsTrue, PlayingIsSampled
    <2>2. ~ PlayComes(media.events) /\ ~ PlayPromised
      BY <2>1 DEF PlayComes, PlayPromised
    <2> QED
      BY <2>1, <2>2 DEF PlaybackInv, PlayingIsFollowed
  <1> QED
    BY <1>1, PlaybackInvariant, PTL

----------------------------------------------------------------------------
(* The editor session.                                                       *)

Controller == [revision : Nat, savedRevision : Nat, timer : BOOLEAN,
               status : {"saved", "unsaved", "saving", "failed"}]

SessionTypeOK ==
    /\ server \in [open : BOOLEAN, rev : Nat, frags : [Fragments -> Version]]
    /\ copy \in Document \cup {None} /\ draft \in Document \cup {None}
    /\ ctl \in Controller
    /\ save \in SaveRequest \cup {None}
    /\ call \in UserCall \cup {None}
    /\ poll \in PollRequest \cup {None}
    /\ latest \in [Fragments -> Nat]
    /\ exposed \in BOOLEAN

\* The video closes once: who learns of it finds the server closed, and until then every
\* answer finds it open.
ClosedForGood ==
    /\ copy = None => ~server.open /\ draft = None /\ ~ctl.timer
    /\ save # None => (save.orphan <=> copy = None)
    /\ poll # None /\ poll.stage = "half" => poll.doc # None
    /\ poll # None /\ poll.stage = "loaded" /\ poll.doc = None => ~server.open
    /\ call # None /\ call.stage = "answered" /\ call.kind = "patch" =>
         call.answer \in Version
    /\ call # None /\ call.stage = "answered" /\ call.kind # "patch" =>
         /\ call.answer \in Document \cup {None}
         /\ call.answer # None <=> server.open

\* The SaveController's revisions: what is saved, what a save in flight will save, what a call
\* waits for and what was edited follow each other.
RevisionsAreInOrder ==
    /\ ctl.savedRevision <= ctl.revision
    /\ ctl.status = "saved" <=> ctl.revision = ctl.savedRevision
    /\ ctl.status = "saved" => draft = None
    /\ ctl.timer => ctl.savedRevision < ctl.revision
    /\ save # None => save.revision <= ctl.revision
    /\ save # None /\ ~save.orphan => ctl.savedRevision < save.revision
    /\ call # None => call.target <= ctl.revision
    /\ call # None /\ call.stage = "sent" /\ call.kind # "discard" =>
         call.target <= ctl.savedRevision
    /\ \A f \in Fragments : latest[f] <= ctl.revision

\* The versions of a fragment the client holds, but for its own: the server's, and those of
\* the server's copy and of the answers that have not been applied.
Readings(f) ==
    {server.frags[f]}
    \cup (IF copy = None THEN {} ELSE {copy.frags[f]})
    \cup (IF save # None /\ save.stage = "stored" THEN {save.doc.frags[f]} ELSE {})
    \cup (IF poll # None /\ poll.stage = "loaded" /\ poll.doc # None
          THEN {poll.doc.frags[f]} ELSE {})
    \cup (IF call # None /\ call.stage = "answered" /\ call.kind = "patch" /\ call.frag = f
          THEN {call.answer} ELSE {})
    \cup (IF call # None /\ call.stage = "answered" /\ call.kind # "patch" /\ call.answer # None
          THEN {call.answer.frags[f]} ELSE {})

\* Later revisions of a fragment hold later edits, and the server's is the last.
InOrder(readings, last) ==
    /\ readings \subseteq Version
    /\ \A a, b \in readings : a.rev <= b.rev => a.value <= b.value
    /\ \A a \in readings : a.rev <= last.rev

Live == copy # None /\ ~exposed

ReadingsAgree == \A f \in Fragments : InOrder(Readings(f), server.frags[f])

\* What the server holds of a fragment is an edit of it, the last one if that is saved; the
\* save in flight carries the last edit before it.
Carried(f) ==
    /\ save.doc.frags[f].value <= latest[f]
    /\ latest[f] <= save.revision => save.doc.frags[f].value = latest[f]
    /\ save.stage = "sent" => server.frags[f].value <= save.doc.frags[f].value
    /\ save.stage = "stored" => server.frags[f].value = save.doc.frags[f].value

EditsArrive ==
    /\ draft = None => ctl.status = "saved"
    /\ \A f \in Fragments :
         /\ Shown.frags[f].value = latest[f]
         /\ server.frags[f].value <= latest[f]
         /\ latest[f] <= ctl.savedRevision => server.frags[f].value = latest[f]
         /\ save # None => Carried(f)

SessionInv ==
    /\ SessionTypeOK /\ ClosedForGood /\ RevisionsAreInOrder /\ UnsavedIsScheduled
    /\ Live => ReadingsAgree /\ EditsArrive

LEMMA NoneIsNothingElse ==
    /\ None \notin Document /\ None \notin Version /\ None \notin SaveRequest
    /\ None \notin UserCall /\ None \notin PollRequest
  BY NoneAssumption

LEMMA MaxOfTwo ==
    ASSUME NEW a \in Nat, NEW b \in Nat
    PROVE  Max({a, b}) \in {a, b} /\ Max({a, b}) >= a /\ Max({a, b}) >= b
  <1>1. \E x \in {a, b} : \A y \in {a, b} : x >= y
    <2>1. CASE a >= b
      BY <2>1
    <2>2. CASE b >= a
      BY <2>2
    <2> QED
      BY <2>1, <2>2
  <1>2. Max({a, b}) \in {a, b} /\ \A y \in {a, b} : Max({a, b}) >= y
    BY <1>1 DEF Max
  <1> QED
    BY <1>2

\* A set of readings stays in order when the server's version is succeeded by a later one.
LEMMA OrderIsKept ==
    ASSUME NEW old, NEW last \in Version, NEW new, NEW next \in Version,
           InOrder(old, last), last \in old, new \subseteq old \cup {next},
           next = last \/ (last.rev < next.rev /\ last.value <= next.value)
    PROVE  InOrder(new, next)
  <1>1. \A a \in old : a.rev \in Nat /\ a.value \in Nat /\ a.rev <= last.rev
                       /\ a.value <= last.value
    BY DEF InOrder, Version
  <1>2. next.rev \in Nat /\ next.value \in Nat /\ last.rev \in Nat /\ last.value \in Nat
    BY DEF Version
  <1>3. \A a \in old : a.rev <= next.rev /\ a.value <= next.value
    BY <1>1, <1>2
  <1>4. \A a, b \in new : a.rev <= b.rev => a.value <= b.value
    <2> SUFFICES ASSUME NEW a \in new, NEW b \in new, a.rev <= b.rev
                 PROVE  a.value <= b.value
      OBVIOUS
    <2>1. CASE a \in old /\ b \in old
      BY <2>1 DEF InOrder
    <2>2. CASE b = next
      BY <2>2, <1>2, <1>3
    <2>3. CASE a = next /\ b \in old
      <3>1. CASE next = last
        BY <2>3, <3>1 DEF InOrder
      <3>2. CASE next # last
        BY <2>3, <3>2, <1>1, <1>2
      <3> QED
        BY <3>1, <3>2
    <2> QED
      BY <2>1, <2>2, <2>3
  <1>5. \A a \in new : a.rev <= next.rev
    BY <1>2, <1>3
  <1>6. new \subseteq Version
    BY DEF InOrder
  <1> QED
    BY <1>4, <1>5, <1>6 DEF InOrder

LEMMA VersionsOf ==
    ASSUME NEW d \in Document, NEW f \in Fragments
    PROVE  d.frags \in [Fragments -> Version] /\ d.frags[f] \in Version
           /\ d.frags[f].rev \in Nat /\ d.frags[f].value \in Nat /\ d.rev \in Nat
  BY DEF Document, Version

LEMMA ReadingsOfServer ==
    ASSUME SessionTypeOK, NEW f \in Fragments
    PROVE  server.frags[f] \in Readings(f) /\ server.frags[f] \in Version
  BY DEF SessionTypeOK, Readings

LEMMA InspectKeeps == SessionInv /\ Inspect => SessionInv'
  <1> SUFFICES ASSUME SessionInv, Inspect
               PROVE  SessionInv'
    OBVIOUS
  <1>1. server' \in [open : BOOLEAN, rev : Nat, frags : [Fragments -> Version]]
        /\ server'.open = server.open /\ server'.frags = server.frags
    BY DEF Inspect, SessionInv, SessionTypeOK
  <1>2. UNCHANGED <<copy, draft, ctl, save, call, poll, latest, exposed>>
    BY DEF Inspect
  <1>3. SessionTypeOK'
    BY <1>1, <1>2 DEF SessionInv, SessionTypeOK
  <1>4. ClosedForGood'
    BY <1>1, <1>2 DEF SessionInv, ClosedForGood
  <1>5. RevisionsAreInOrder' /\ UnsavedIsScheduled'
    BY <1>2 DEF SessionInv, RevisionsAreInOrder, UnsavedIsScheduled
  <1>6. (Live => ReadingsAgree)'
    <2>1. \A f : Readings(f)' = Readings(f)
      BY <1>1, <1>2 DEF Readings
    <2> QED
      BY <1>1, <1>2, <2>1 DEF SessionInv, ReadingsAgree, Live
  <1>7. (Live => EditsArrive)'
    BY <1>1, <1>2 DEF SessionInv, EditsArrive, Live, Shown, Carried
  <1> QED
    BY <1>3, <1>4, <1>5, <1>6, <1>7 DEF SessionInv

LEMMA PollKeeps == SessionInv /\ (PollSent \/ PollReads) => SessionInv'
  <1> SUFFICES ASSUME SessionInv, PollSent \/ PollReads
               PROVE  SessionInv'
    OBVIOUS
  <1>1. UNCHANGED <<server, copy, draft, ctl, save, call, latest, exposed>>
    BY DEF PollSent, PollReads
  <1>2. /\ poll' \in PollRequest
        /\ poll'.stage = "half" => poll'.doc # None
        /\ poll'.stage = "loaded" /\ poll'.doc = None => ~server.open
        /\ poll'.stage = "loaded" /\ poll'.doc # None => poll'.doc.frags = server.frags
    <2>1. CASE PollSent
      BY <2>1 DEF PollSent, PollRequest
    <2>2. CASE PollReads /\ poll.stage = "sent"
      <3>1. Stored \in Document
        BY DEF SessionInv, SessionTypeOK, Stored, Document
      <3>2. poll' = [stage |-> "half", doc |-> Stored]
        BY <2>2 DEF PollReads
      <3> QED
        BY <3>1, <3>2, NoneIsNothingElse DEF PollRequest
    <2>3. CASE PollReads /\ poll.stage # "sent"
      <3>1. poll # None /\ poll.stage = "half"
            /\ poll' = [stage |-> "loaded",
                        doc |-> IF server.open THEN [poll.doc EXCEPT !.frags = server.frags]
                                ELSE None]
        BY <2>3 DEF PollReads
      <3>2. poll.doc \in Document
        BY <3>1 DEF SessionInv, SessionTypeOK, ClosedForGood, PollRequest
      <3> DEFINE d == [poll.doc EXCEPT !.frags = server.frags]
      <3>3. d \in Document /\ d.frags = server.frags
        BY <3>2 DEF SessionInv, SessionTypeOK, Document
      <3> HIDE DEF d
      <3>4. CASE server.open
        <4>1. poll' = [stage |-> "loaded", doc |-> d]
          BY <3>1, <3>4 DEF d
        <4> QED
          BY <4>1, <3>3, NoneIsNothingElse DEF PollRequest
      <3>5. CASE ~server.open
        <4>1. poll' = [stage |-> "loaded", doc |-> None]
          BY <3>1, <3>5
        <4> QED
          BY <4>1, <3>5 DEF PollRequest
      <3> QED
        BY <3>4, <3>5
    <2> QED
      BY <2>1, <2>2, <2>3
  <1>3. SessionTypeOK'
    BY <1>1, <1>2 DEF SessionInv, SessionTypeOK
  <1>4. ClosedForGood'
    BY <1>1, <1>2 DEF SessionInv, ClosedForGood
  <1>5. RevisionsAreInOrder' /\ UnsavedIsScheduled'
    BY <1>1 DEF SessionInv, RevisionsAreInOrder, UnsavedIsScheduled
  <1>6. (Live => ReadingsAgree)'
    <2> SUFFICES ASSUME Live', NEW f \in Fragments
                 PROVE  InOrder(Readings(f)', server'.frags[f])
      BY DEF ReadingsAgree
    <2>1. InOrder(Readings(f), server.frags[f])
      BY <1>1 DEF SessionInv, ReadingsAgree, Live
    <2>2. Readings(f)' \subseteq Readings(f) \cup {server'.frags[f]}
      BY <1>1, <1>2 DEF Readings
    <2>3. server.frags[f] \in Readings(f) /\ server.frags[f] \in Version
      BY ReadingsOfServer DEF SessionInv
    <2> QED
      BY <1>1, <2>1, <2>2, <2>3, OrderIsKept
  <1>7. (Live => EditsArrive)'
    BY <1>1 DEF SessionInv, EditsArrive, Live, Shown, Carried
  <1> QED
    BY <1>3, <1>4, <1>5, <1>6, <1>7 DEF SessionInv

LEMMA EditKeeps == ASSUME SessionInv, NEW f \in Fragments, Edit(f) PROVE SessionInv'
  <1> DEFINE v == [Shown.frags[f] EXCEPT !.value = ctl.revision + 1]
  <1>1. /\ copy # None
        /\ UNCHANGED <<server, copy, save, call, poll, exposed>>
        /\ latest' = [latest EXCEPT ![f] = ctl.revision + 1]
        /\ draft' = [Shown EXCEPT !.frags = [Shown.frags EXCEPT ![f] = v]]
    BY DEF Edit
  <1>2. Shown \in Document
    BY <1>1 DEF SessionInv, SessionTypeOK, Shown
  <1>3. ctl.revision \in Nat /\ ctl.savedRevision \in Nat
    BY DEF SessionInv, SessionTypeOK, Controller
  <1>4. v \in Version /\ v.value = ctl.revision + 1
    BY <1>2, <1>3, VersionsOf DEF Version
  <1> HIDE DEF v
  <1>5. /\ draft' \in Document /\ draft'.frags[f] = v
        /\ \A g \in Fragments \ {f} : draft'.frags[g] = Shown.frags[g]
    BY <1>1, <1>2, <1>4 DEF Document
  <1>6. /\ latest' \in [Fragments -> Nat] /\ latest'[f] = ctl.revision + 1
        /\ \A g \in Fragments \ {f} : latest'[g] = latest[g]
    BY <1>1, <1>3 DEF SessionInv, SessionTypeOK
  <1>7. /\ ctl' \in Controller
        /\ ctl'.revision = ctl.revision + 1 /\ ctl'.savedRevision = ctl.savedRevision
        /\ (ctl'.timer <=> save = None) /\ ctl'.status = "unsaved"
    <2> DEFINE n == ctl.revision + 1
    <2>1. ctl \in Controller /\ n \in Nat
      BY <1>3 DEF SessionInv, SessionTypeOK
    <2>2. \E t \in BOOLEAN : (t <=> save = None)
            /\ ctl' = [ctl EXCEPT !.revision = n, !.status = "unsaved", !.timer = t]
      <3>1. CASE save = None
        BY <3>1, Zenon DEF Edit, MarkDirty
      <3>2. CASE save # None
        BY <3>2, Zenon DEF Edit, MarkDirty
      <3> QED
        BY <3>1, <3>2
    <2>3. PICK t \in BOOLEAN : (t <=> save = None)
            /\ ctl' = [ctl EXCEPT !.revision = n, !.status = "unsaved", !.timer = t]
      BY <2>2
    <2> HIDE DEF n
    <2>4. /\ ctl' \in Controller /\ ctl'.revision = n
          /\ ctl'.savedRevision = ctl.savedRevision
          /\ ctl'.timer = t /\ ctl'.status = "unsaved"
      <3>1. ctl' = [ctl EXCEPT !.revision = n, !.status = "unsaved", !.timer = t]
            /\ t \in BOOLEAN
        BY <2>3
      <3> QED
        BY <2>1, <3>1 DEF Controller
    <2> QED
      BY <2>3, <2>4 DEF n
  <1>8. SessionTypeOK'
    BY <1>1, <1>5, <1>6, <1>7 DEF SessionInv, SessionTypeOK
  <1>9. ClosedForGood'
    BY <1>1, <1>5 DEF SessionInv, ClosedForGood
  <1>10. RevisionsAreInOrder' /\ UnsavedIsScheduled'
    <2>1. \A g \in Fragments : latest'[g] <= ctl.revision + 1
      BY <1>3, <1>6 DEF SessionInv, SessionTypeOK, RevisionsAreInOrder
    <2>2. /\ save' # None => save'.revision <= ctl'.revision
          /\ call' # None => call'.target <= ctl'.revision
      BY <1>1, <1>3, <1>7 DEF SessionInv, SessionTypeOK, RevisionsAreInOrder, SaveRequest, UserCall
    <2>3. ctl.savedRevision <= ctl.revision
      BY DEF SessionInv, RevisionsAreInOrder
    <2>4. RevisionsAreInOrder'
      BY <1>1, <1>3, <1>7, <2>1, <2>2, <2>3 DEF SessionInv, RevisionsAreInOrder
    <2>5. UnsavedIsScheduled'
      BY <1>1, <1>7 DEF SessionInv, ClosedForGood, UnsavedIsScheduled
    <2> QED
      BY <2>4, <2>5
  <1>11. (Live => ReadingsAgree)'
    <2>1. \A g : Readings(g)' = Readings(g)
      BY <1>1 DEF Readings
    <2> QED
      BY <1>1, <2>1 DEF SessionInv, ReadingsAgree, Live
  <1>12. (Live => EditsArrive)'
    <2> SUFFICES ASSUME Live
                 PROVE  EditsArrive'
      BY <1>1 DEF Live
    <2>1. draft' # None
      BY <1>5, NoneIsNothingElse
    <2> SUFFICES ASSUME NEW g \in Fragments
                 PROVE  /\ Shown'.frags[g].value = latest'[g]
                        /\ server'.frags[g].value <= latest'[g]
                        /\ latest'[g] <= ctl'.savedRevision =>
                             server'.frags[g].value = latest'[g]
                        /\ save' # None => Carried(g)'
      BY <2>1 DEF EditsArrive
    <2>2. Shown' = draft'
      BY <2>1 DEF Shown
    <2>3. /\ Shown.frags[g].value = latest[g]
          /\ server.frags[g].value <= latest[g]
          /\ latest[g] <= ctl.savedRevision => server.frags[g].value = latest[g]
          /\ save # None => Carried(g)
      BY DEF SessionInv, EditsArrive
    <2>4. CASE g # f
      BY <1>1, <1>5, <1>6, <1>7, <2>2, <2>3, <2>4 DEF Carried
    <2>5. CASE g = f
      <3>1. latest[f] \in Nat /\ latest[f] <= ctl.revision /\ ctl.savedRevision <= ctl.revision
        BY DEF SessionInv, SessionTypeOK, RevisionsAreInOrder
      <3>2. server.frags[f].value \in Nat
        BY DEF SessionInv, SessionTypeOK, Version
      <3>3. Shown'.frags[g].value = latest'[g]
        BY <1>4, <1>5, <1>6, <2>2, <2>5
      <3>4. server'.frags[g].value <= latest'[g]
        BY <1>1, <1>3, <1>6, <2>3, <2>5, <3>1, <3>2
      <3>5. ~ (latest'[g] <= ctl'.savedRevision)
        BY <1>3, <1>6, <1>7, <2>5, <3>1
      <3>6. save' # None => Carried(g)'
        <4> SUFFICES ASSUME save # None
                     PROVE  Carried(g)'
          BY <1>1
        <4>1. save.revision \in Nat /\ save.revision <= ctl.revision /\ save.doc \in Document
          BY DEF SessionInv, SessionTypeOK, RevisionsAreInOrder, SaveRequest
        <4>2. save.doc.frags[g].value \in Nat
          BY <4>1, VersionsOf
        <4>3. save.doc.frags[g].value <= latest'[g]
          BY <1>3, <1>6, <2>3, <2>5, <3>1, <4>2 DEF Carried
        <4>4. ~ (latest'[g] <= save.revision)
          BY <1>3, <1>6, <2>5, <4>1
        <4> QED
          BY <1>1, <2>3, <4>3, <4>4 DEF Carried
      <3> QED
        BY <3>3, <3>4, <3>5, <3>6
    <2> QED
      BY <2>4, <2>5
  <1> QED
    BY <1>8, <1>9, <1>10, <1>11, <1>12 DEF SessionInv

\* A call that has not been answered asks nothing of the invariant but its target.
LEMMA StartSaveKeeps ==
    ASSUME SessionInv, StartSave, save = None, copy # None, ctl.savedRevision < ctl.revision,
           UNCHANGED <<server, copy, draft, poll, latest, exposed>>,
           call' = call \/ (/\ call' \in UserCall /\ call'.stage = "flushing"
                            /\ call'.target <= ctl.revision)
    PROVE  SessionInv'
  <1>1. Shown \in Document
    BY DEF SessionInv, SessionTypeOK, Shown
  <1>2. ctl \in Controller /\ ctl.revision \in Nat /\ ctl.savedRevision \in Nat
    BY DEF SessionInv, SessionTypeOK, Controller
  <1>3. /\ save' \in SaveRequest /\ save'.stage = "sent" /\ save'.revision = ctl.revision
        /\ save'.doc = Shown /\ save'.orphan = FALSE
    BY <1>1, <1>2 DEF StartSave, SaveRequest
  <1>4. save' # None
    BY <1>3, NoneIsNothingElse
  <1>5. /\ ctl' \in Controller /\ ctl'.revision = ctl.revision
        /\ ctl'.savedRevision = ctl.savedRevision
        /\ ctl'.status = "saving" /\ ctl'.timer = FALSE
    BY <1>2 DEF StartSave, Controller
  <1>6. UNCHANGED <<server, copy, draft, poll, latest, exposed>>
    OBVIOUS
  <1>7. SessionTypeOK'
    BY <1>3, <1>5, <1>6 DEF SessionInv, SessionTypeOK
  <1>8. ClosedForGood'
    BY <1>3, <1>5, <1>6 DEF SessionInv, ClosedForGood
  <1>9. RevisionsAreInOrder' /\ UnsavedIsScheduled'
    <2>1. /\ ctl'.savedRevision < ctl'.revision /\ ctl'.status # "saved" /\ ~ctl'.timer
          /\ save'.revision <= ctl'.revision /\ ctl'.savedRevision < save'.revision
      BY <1>2, <1>3, <1>5
    <2>2. /\ call' # None => call'.target <= ctl'.revision
          /\ call' # None /\ call'.stage = "sent" /\ call'.kind # "discard" =>
               call'.target <= ctl'.savedRevision
      BY <1>5 DEF SessionInv, RevisionsAreInOrder
    <2>3. \A f \in Fragments : latest'[f] <= ctl'.revision
      BY <1>5, <1>6 DEF SessionInv, RevisionsAreInOrder
    <2>4. ctl'.savedRevision <= ctl'.revision /\ ctl'.revision # ctl'.savedRevision
      BY <1>2, <1>5
    <2> QED
      BY <1>3, <1>4, <2>1, <2>2, <2>3, <2>4 DEF RevisionsAreInOrder, UnsavedIsScheduled
  <1>10. (Live => ReadingsAgree)'
    <2> SUFFICES ASSUME Live', NEW f \in Fragments
                 PROVE  InOrder(Readings(f)', server'.frags[f])
      BY DEF ReadingsAgree
    <2>1. InOrder(Readings(f), server.frags[f])
      BY <1>6 DEF SessionInv, ReadingsAgree, Live
    <2>2. Readings(f)' \subseteq Readings(f) \cup {server'.frags[f]}
      BY <1>3, <1>6 DEF Readings
    <2>3. server.frags[f] \in Readings(f) /\ server.frags[f] \in Version
      BY ReadingsOfServer DEF SessionInv
    <2> QED
      BY <1>6, <2>1, <2>2, <2>3, OrderIsKept
  <1>11. (Live => EditsArrive)'
    <2> SUFFICES ASSUME Live
                 PROVE  EditsArrive'
      BY <1>6 DEF Live
    <2>1. draft # None
      BY <1>2 DEF SessionInv, EditsArrive, RevisionsAreInOrder
    <2> SUFFICES ASSUME NEW f \in Fragments
                 PROVE  /\ Shown'.frags[f].value = latest'[f]
                        /\ server'.frags[f].value <= latest'[f]
                        /\ latest'[f] <= ctl'.savedRevision =>
                             server'.frags[f].value = latest'[f]
                        /\ Carried(f)'
      BY <1>6, <2>1 DEF EditsArrive
    <2>2. /\ Shown.frags[f].value = latest[f]
          /\ server.frags[f].value <= latest[f]
          /\ latest[f] <= ctl.savedRevision => server.frags[f].value = latest[f]
      BY DEF SessionInv, EditsArrive
    <2>3. Shown' = Shown
      BY <1>6 DEF Shown
    <2>4. latest[f] \in Nat
      BY DEF SessionInv, SessionTypeOK
    <2>5. Carried(f)'
      BY <1>3, <1>6, <2>2, <2>4 DEF Carried
    <2> QED
      BY <1>5, <1>6, <2>2, <2>3, <2>5
  <1> QED
    BY <1>7, <1>8, <1>9, <1>10, <1>11 DEF SessionInv

LEMMA TimerKeeps == SessionInv /\ TimerFires => SessionInv'
  <1> SUFFICES ASSUME SessionInv, TimerFires
               PROVE  SessionInv'
    OBVIOUS
  <1>1. /\ StartSave /\ save = None /\ ctl.timer
        /\ UNCHANGED <<server, copy, draft, poll, latest, exposed>> /\ call' = call
    BY DEF TimerFires
  <1>2. copy # None /\ ctl.savedRevision < ctl.revision
    BY <1>1 DEF SessionInv, ClosedForGood, RevisionsAreInOrder
  <1> QED
    BY <1>1, <1>2, StartSaveKeeps

LEMMA FlushAgainKeeps == SessionInv /\ FlushAgain => SessionInv'
  <1> SUFFICES ASSUME SessionInv, FlushAgain
               PROVE  SessionInv'
    OBVIOUS
  <1>1. /\ StartSave /\ save = None /\ copy # None
        /\ call # None /\ ctl.savedRevision < call.target
        /\ UNCHANGED <<server, copy, draft, poll, latest, exposed>> /\ call' = call
    BY DEF FlushAgain, Flushing
  <1>2. ctl.savedRevision < ctl.revision
    <2>1. ctl.savedRevision \in Nat /\ ctl.revision \in Nat /\ call.target \in Nat
      BY <1>1 DEF SessionInv, SessionTypeOK, Controller, UserCall
    <2>2. call.target <= ctl.revision
      BY <1>1 DEF SessionInv, RevisionsAreInOrder
    <2> QED
      BY <1>1, <2>1, <2>2
  <1> QED
    BY <1>1, <1>2, StartSaveKeeps

LEMMA RequestKeeps ==
    ASSUME SessionInv, NEW kind \in Kinds, NEW f \in Fragments, Request(kind, f)
    PROVE  SessionInv'
  <1>1. /\ copy # None /\ call = None
        /\ UNCHANGED <<server, copy, draft, poll, latest, exposed>>
        /\ call' = [kind |-> kind, stage |-> IF kind = "discard" THEN "sent" ELSE "flushing",
                    target |-> ctl.revision, frag |-> f, answer |-> None]
        /\ IF kind = "discard" THEN UNCHANGED <<ctl, save>>
           ELSE IF save = None /\ ctl.savedRevision < ctl.revision THEN StartSave
           ELSE ctl' = [ctl EXCEPT !.timer = FALSE] /\ UNCHANGED save
    BY DEF Request
  <1>2. ctl \in Controller /\ ctl.revision \in Nat /\ ctl.savedRevision \in Nat
    BY DEF SessionInv, SessionTypeOK, Controller
  <1>3. /\ call' \in UserCall /\ call'.kind = kind /\ call'.target = ctl.revision
        /\ call'.stage = (IF kind = "discard" THEN "sent" ELSE "flushing")
    BY <1>1, <1>2 DEF UserCall
  <1>4. ctl.revision <= ctl.revision
    BY <1>2
  <1>5. CASE kind # "discard" /\ save = None /\ ctl.savedRevision < ctl.revision
    BY <1>1, <1>3, <1>4, <1>5, StartSaveKeeps
  <1>6. CASE ~ (kind # "discard" /\ save = None /\ ctl.savedRevision < ctl.revision)
    <2>1. /\ ctl' \in Controller /\ ctl'.revision = ctl.revision
          /\ ctl'.savedRevision = ctl.savedRevision /\ ctl'.status = ctl.status
          /\ ctl'.timer => ctl.timer
      <3>1. CASE kind = "discard"
        BY <1>1, <1>2, <3>1
      <3>2. CASE kind # "discard"
        <4>1. ctl' = [ctl EXCEPT !.timer = FALSE]
          BY <1>1, <1>6, <3>2
        <4> QED
          BY <1>2, <4>1 DEF Controller
      <3> QED
        BY <3>1, <3>2
    <2>2. UNCHANGED <<server, copy, draft, save, poll, latest, exposed>>
      BY <1>1, <1>6
    <2>3. SessionTypeOK'
      BY <1>3, <2>1, <2>2 DEF SessionInv, SessionTypeOK
    <2>4. ClosedForGood'
      BY <1>1, <1>3, <2>1, <2>2 DEF SessionInv, ClosedForGood
    <2>5. RevisionsAreInOrder'
      <3>1. /\ call'.target <= ctl'.revision
            /\ ~ (call'.stage = "sent" /\ call'.kind # "discard")
        BY <1>3, <1>4, <2>1
      <3> QED
        BY <2>1, <2>2, <3>1 DEF SessionInv, RevisionsAreInOrder
    <2>6. UnsavedIsScheduled'
      <3> SUFFICES ASSUME ctl.revision > ctl.savedRevision, ctl.status # "failed"
                   PROVE  ctl'.timer \/ (save # None /\ ~save.orphan)
        BY <2>1, <2>2 DEF UnsavedIsScheduled
      <3>1. ctl.savedRevision < ctl.revision
        BY <1>2
      <3>2. CASE kind = "discard"
        BY <1>1, <3>2 DEF SessionInv, UnsavedIsScheduled
      <3>3. CASE kind # "discard"
        <4>1. save # None
          BY <1>6, <3>1, <3>3
        <4> QED
          BY <1>1, <4>1 DEF SessionInv, ClosedForGood
      <3> QED
        BY <3>2, <3>3
    <2>7. (Live => ReadingsAgree)'
      <3> SUFFICES ASSUME Live', NEW g \in Fragments
                   PROVE  InOrder(Readings(g)', server'.frags[g])
        BY DEF ReadingsAgree
      <3>1. InOrder(Readings(g), server.frags[g])
        BY <2>2 DEF SessionInv, ReadingsAgree, Live
      <3>2. Readings(g)' \subseteq Readings(g) \cup {server'.frags[g]}
        BY <1>3, <2>2 DEF Readings
      <3>3. server.frags[g] \in Readings(g) /\ server.frags[g] \in Version
        BY ReadingsOfServer DEF SessionInv
      <3> QED
        BY <2>2, <3>1, <3>2, <3>3, OrderIsKept
    <2>8. (Live => EditsArrive)'
      BY <2>1, <2>2 DEF SessionInv, EditsArrive, Live, Shown, Carried
    <2> QED
      BY <2>3, <2>4, <2>5, <2>6, <2>7, <2>8 DEF SessionInv
  <1> QED
    BY <1>5, <1>6

LEMMA FinishedSave ==
    ASSUME SessionInv, save # None, ~save.orphan,
           NEW settled \in {"saved", "failed"}, FinishSave(settled)
    PROVE  /\ ctl' \in Controller /\ ctl'.revision = ctl.revision
           /\ ctl'.savedRevision = (IF settled = "saved" THEN save.revision
                                    ELSE ctl.savedRevision)
           /\ ctl.revision > save.revision => ctl'.timer
           /\ ~ (ctl.revision > save.revision) => ~ctl'.timer
           /\ settled = "saved" /\ ctl.revision > save.revision => ctl'.status = "unsaved"
           /\ settled = "saved" /\ ~ (ctl.revision > save.revision) => ctl'.status = "saved"
           /\ settled = "failed" => ctl'.status = "failed"
  <1> DEFINE m == Max({ctl.savedRevision, save.revision})
  <1>1. ctl \in Controller /\ save.revision \in Nat /\ ctl.savedRevision \in Nat
        /\ ctl.revision \in Nat
    BY DEF SessionInv, SessionTypeOK, Controller, SaveRequest
  <1>2. ctl.savedRevision < save.revision
    BY DEF SessionInv, RevisionsAreInOrder
  <1>3. m = save.revision
    BY <1>1, <1>2, MaxOfTwo
  <1> HIDE DEF m
  <1>4. CASE settled = "saved" /\ ctl.revision > save.revision
    <2>1. ctl' = [ctl EXCEPT !.status = "unsaved", !.timer = TRUE, !.savedRevision = m]
      BY <1>4 DEF FinishSave, m
    <2> QED
      BY <1>1, <1>3, <1>4, <2>1 DEF Controller
  <1>5. CASE settled = "saved" /\ ~ (ctl.revision > save.revision)
    <2>1. ctl' = [ctl EXCEPT !.status = "saved", !.timer = FALSE, !.savedRevision = m]
      <3>1. (ctl.revision > save.revision) = FALSE
        BY <1>5
      <3> QED
        BY <1>5, <3>1, Zenon DEF FinishSave, m
    <2> QED
      BY <1>1, <1>3, <1>5, <2>1 DEF Controller
  <1>6. CASE settled = "failed" /\ ctl.revision > save.revision
    <2>1. ctl' = [ctl EXCEPT !.status = "failed", !.timer = TRUE,
                             !.savedRevision = ctl.savedRevision]
      BY <1>6 DEF FinishSave
    <2> QED
      BY <1>1, <1>6, <2>1 DEF Controller
  <1>7. CASE settled = "failed" /\ ~ (ctl.revision > save.revision)
    <2>1. ctl' = [ctl EXCEPT !.status = "failed", !.timer = FALSE,
                             !.savedRevision = ctl.savedRevision]
      <3>1. (ctl.revision > save.revision) = FALSE
        BY <1>7
      <3> QED
        BY <1>7, <3>1, Zenon DEF FinishSave
    <2> QED
      BY <1>1, <1>7, <2>1 DEF Controller
  <1> QED
    BY <1>4, <1>5, <1>6, <1>7

LEMMA Synchronizes ==
    ASSUME NEW local \in Document, NEW doc \in Document
    PROVE  /\ Synchronized(local, doc) \in Document
           /\ \A f \in Fragments : Synchronized(local, doc).frags[f].value = local.frags[f].value
  <1>1. \A f \in Fragments : local.frags[f].value \in Nat /\ doc.frags[f].rev \in Nat
    BY VersionsOf
  <1>2. doc.rev \in Nat
    BY DEF Document
  <1> QED
    BY <1>1, <1>2 DEF Synchronized, Document, Version

LEMMA SaveSucceedsKeeps == SessionInv /\ SaveSucceeds => SessionInv'
  <1> SUFFICES ASSUME SessionInv, SaveSucceeds
               PROVE  SessionInv'
    OBVIOUS
  <1>1. /\ save # None /\ save.stage = "stored" /\ save' = None
        /\ copy' = (IF copy = None THEN None ELSE save.doc)
        /\ UNCHANGED <<server, call, poll, latest, exposed>>
    BY DEF SaveSucceeds
  <1>2. /\ save.doc \in Document /\ save.revision \in Nat
        /\ draft \in Document \cup {None} /\ copy \in Document \cup {None}
        /\ server.frags \in [Fragments -> Version]
    BY <1>1 DEF SessionInv, SessionTypeOK, SaveRequest
  <1>3. (Live => ReadingsAgree)'
    <2> SUFFICES ASSUME Live', NEW g \in Fragments
                 PROVE  InOrder(Readings(g)', server'.frags[g])
      BY DEF ReadingsAgree
    <2>1. Live
      BY <1>1 DEF Live
    <2>2. InOrder(Readings(g), server.frags[g])
      BY <2>1 DEF SessionInv, ReadingsAgree
    <2>3. Readings(g)' \subseteq Readings(g) \cup {server'.frags[g]}
      BY <1>1, <2>1 DEF Readings, Live
    <2>4. server.frags[g] \in Readings(g) /\ server.frags[g] \in Version
      BY ReadingsOfServer DEF SessionInv
    <2> QED
      BY <1>1, <2>2, <2>3, <2>4, OrderIsKept
  <1>4. CASE save.orphan
    <2>1. copy = None /\ copy' = None /\ draft = None /\ draft' = None /\ ctl' = ctl
      BY <1>1, <1>4 DEF SaveSucceeds, SessionInv, ClosedForGood
    <2>2. SessionTypeOK'
      BY <1>1, <2>1 DEF SessionInv, SessionTypeOK
    <2>3. ClosedForGood'
      BY <1>1, <2>1 DEF SessionInv, ClosedForGood
    <2>4. RevisionsAreInOrder' /\ UnsavedIsScheduled'
      BY <1>1, <2>1 DEF SessionInv, RevisionsAreInOrder, UnsavedIsScheduled
    <2> QED
      BY <1>3, <2>1, <2>2, <2>3, <2>4 DEF SessionInv, Live
  <1>5. CASE ~save.orphan
    <2>1. /\ copy # None /\ copy' = save.doc /\ FinishSave("saved")
          /\ draft' = (IF draft = None \/ ctl'.status = "saved" THEN None
                       ELSE Synchronized(draft, save.doc))
      BY <1>1, <1>5 DEF SaveSucceeds, SessionInv, ClosedForGood
    <2>2. /\ ctl' \in Controller /\ ctl'.revision = ctl.revision
          /\ ctl'.savedRevision = save.revision
          /\ ctl.revision > save.revision => ctl'.timer /\ ctl'.status = "unsaved"
          /\ ~ (ctl.revision > save.revision) => ~ctl'.timer /\ ctl'.status = "saved"
      BY <1>1, <1>5, <2>1, FinishedSave
    <2>3. copy' # None
      BY <1>2, <2>1, NoneIsNothingElse
    <2>4. draft' \in Document \cup {None}
      BY <1>2, <2>1, Synchronizes
    <2>5. SessionTypeOK'
      BY <1>1, <1>2, <2>1, <2>2, <2>4 DEF SessionInv, SessionTypeOK
    <2>6. ClosedForGood'
      BY <1>1, <2>3 DEF SessionInv, ClosedForGood
    <2>7. /\ ctl.revision \in Nat /\ ctl.savedRevision \in Nat
          /\ save.revision <= ctl.revision /\ ctl.savedRevision < save.revision
      BY <1>1, <1>5 DEF SessionInv, SessionTypeOK, RevisionsAreInOrder, Controller
    <2>8. RevisionsAreInOrder' /\ UnsavedIsScheduled'
      <3>1. /\ ctl'.savedRevision <= ctl'.revision
            /\ ctl'.status = "saved" <=> ctl'.revision = ctl'.savedRevision
            /\ ctl'.timer => ctl'.savedRevision < ctl'.revision
            /\ ctl'.revision > ctl'.savedRevision => ctl'.timer
        BY <1>2, <2>2, <2>7
      <3>2. ctl'.status = "saved" => draft' = None
        BY <2>1
      <3>3. call' # None /\ call'.stage = "sent" /\ call'.kind # "discard" =>
              call'.target <= ctl'.savedRevision
        <4> SUFFICES ASSUME call # None, call.stage = "sent", call.kind # "discard"
                     PROVE  call.target <= save.revision
          BY <1>1, <2>2
        <4>1. call.target \in Nat /\ call.target <= ctl.savedRevision
          BY DEF SessionInv, SessionTypeOK, RevisionsAreInOrder, UserCall
        <4> QED
          BY <1>2, <2>7, <4>1
      <3>4. /\ call' # None => call'.target <= ctl'.revision
            /\ \A f \in Fragments : latest'[f] <= ctl'.revision
        BY <1>1, <2>2 DEF SessionInv, RevisionsAreInOrder
      <3> QED
        BY <1>1, <3>1, <3>2, <3>3, <3>4 DEF RevisionsAreInOrder, UnsavedIsScheduled
    <2>9. (Live => EditsArrive)'
      <3> SUFFICES ASSUME Live
                   PROVE  EditsArrive'
        BY <1>1, <2>1 DEF Live
      <3>1. draft # None
        BY <1>2, <2>7 DEF SessionInv, EditsArrive, RevisionsAreInOrder
      <3>2. draft' = None => ctl'.status = "saved"
        <4>1. Synchronized(draft, save.doc) # None
          BY <1>2, <3>1, Synchronizes, NoneIsNothingElse
        <4> QED
          BY <2>1, <3>1, <4>1
      <3> SUFFICES ASSUME NEW f \in Fragments
                   PROVE  /\ Shown'.frags[f].value = latest'[f]
                          /\ server'.frags[f].value <= latest'[f]
                          /\ latest'[f] <= ctl'.savedRevision =>
                               server'.frags[f].value = latest'[f]
        BY <1>1, <3>2 DEF EditsArrive
      <3>3. /\ Shown.frags[f].value = latest[f]
            /\ server.frags[f].value <= latest[f]
            /\ server.frags[f].value = save.doc.frags[f].value
            /\ latest[f] <= save.revision => save.doc.frags[f].value = latest[f]
        BY <1>1 DEF SessionInv, EditsArrive, Carried
      <3>4. Shown'.frags[f].value = latest[f]
        <4>1. CASE ctl'.status = "saved"
          <5>1. latest[f] \in Nat /\ latest[f] <= ctl.revision
            BY DEF SessionInv, SessionTypeOK, RevisionsAreInOrder
          <5>2. ~ (ctl.revision > save.revision)
            BY <2>2, <4>1
          <5>3. latest[f] <= save.revision
            BY <1>2, <2>7, <5>1, <5>2
          <5>4. Shown' = save.doc
            BY <2>1, <4>1 DEF Shown
          <5> QED
            BY <3>3, <5>3, <5>4
        <4>2. CASE ctl'.status # "saved"
          <5>1. draft' = Synchronized(draft, save.doc) /\ draft' # None
            BY <2>1, <3>1, <3>2, <4>2
          <5>2. Shown' = Synchronized(draft, save.doc) /\ Shown = draft
            BY <3>1, <5>1 DEF Shown
          <5>3. Synchronized(draft, save.doc).frags[f].value = draft.frags[f].value
            BY <1>2, <3>1, Synchronizes
          <5> QED
            BY <3>3, <5>2, <5>3
        <4> QED
          BY <4>1, <4>2
      <3> QED
        BY <1>1, <2>2, <3>3, <3>4
    <2> QED
      BY <1>3, <2>5, <2>6, <2>8, <2>9 DEF SessionInv
  <1> QED
    BY <1>4, <1>5

LEMMA SaveFailsKeeps == SessionInv /\ SaveFails => SessionInv'
  <1> SUFFICES ASSUME SessionInv, SaveFails
               PROVE  SessionInv'
    OBVIOUS
  <1>1. /\ save # None /\ save' = None
        /\ call' = call \/ call' = None
        /\ UNCHANGED <<server, copy, draft, poll, latest, exposed>>
    BY DEF SaveFails
  <1>2. /\ ctl' \in Controller /\ ctl'.revision = ctl.revision
        /\ ctl'.savedRevision = ctl.savedRevision
        /\ ctl' = ctl \/ (/\ ~save.orphan /\ ctl'.status = "failed"
                          /\ (ctl'.timer => ctl.revision > save.revision))
    <2>1. CASE save.orphan
      BY <2>1 DEF SaveFails, SessionInv, SessionTypeOK
    <2>2. CASE ~save.orphan
      <3>1. FinishSave("failed")
        BY <2>2 DEF SaveFails
      <3> QED
        BY <1>1, <2>2, <3>1, FinishedSave
    <2> QED
      BY <2>1, <2>2
  <1>3. /\ ctl.revision \in Nat /\ ctl.savedRevision \in Nat /\ save.revision \in Nat
        /\ ~save.orphan => ctl.savedRevision < save.revision /\ save.revision <= ctl.revision
    BY <1>1 DEF SessionInv, SessionTypeOK, RevisionsAreInOrder, Controller, SaveRequest
  <1>4. save.orphan => copy = None /\ ctl' = ctl
    BY <1>1, <1>2 DEF SessionInv, ClosedForGood
  <1>5. SessionTypeOK'
    BY <1>1, <1>2 DEF SessionInv, SessionTypeOK
  <1>6. ClosedForGood'
    <2>1. copy = None => save.orphan
      BY <1>1 DEF SessionInv, ClosedForGood
    <2> QED
      BY <1>1, <1>4, <2>1 DEF SessionInv, ClosedForGood
  <1>7. RevisionsAreInOrder'
    <2>1. /\ ctl'.status = "saved" <=> ctl'.revision = ctl'.savedRevision
          /\ ctl'.status = "saved" => draft' = None
          /\ ctl'.timer => ctl'.savedRevision < ctl'.revision
      <3>1. CASE ctl' = ctl
        BY <1>1, <3>1 DEF SessionInv, RevisionsAreInOrder
      <3>2. CASE ~save.orphan /\ ctl'.status = "failed"
        BY <1>2, <1>3, <3>2
      <3> QED
        BY <1>2, <3>1, <3>2
    <2> QED
      BY <1>1, <1>2, <2>1 DEF SessionInv, RevisionsAreInOrder
  <1>8. UnsavedIsScheduled'
    <2>1. CASE save.orphan
      BY <1>1, <1>4, <2>1 DEF UnsavedIsScheduled
    <2>2. CASE ~save.orphan
      <3>1. ctl'.status = "failed"
        <4>1. FinishSave("failed")
          BY <2>2 DEF SaveFails
        <4> QED
          BY <1>1, <2>2, <4>1, FinishedSave
      <3> QED
        BY <3>1 DEF UnsavedIsScheduled
    <2> QED
      BY <2>1, <2>2
  <1>9. (Live => ReadingsAgree)'
    <2> SUFFICES ASSUME Live', NEW g \in Fragments
                 PROVE  InOrder(Readings(g)', server'.frags[g])
      BY DEF ReadingsAgree
    <2>1. InOrder(Readings(g), server.frags[g])
      BY <1>1 DEF SessionInv, ReadingsAgree, Live
    <2>2. Readings(g)' \subseteq Readings(g) \cup {server'.frags[g]}
      BY <1>1 DEF Readings
    <2>3. server.frags[g] \in Readings(g) /\ server.frags[g] \in Version
      BY ReadingsOfServer DEF SessionInv
    <2> QED
      BY <1>1, <2>1, <2>2, <2>3, OrderIsKept
  <1>10. (Live => EditsArrive)'
    <2> SUFFICES ASSUME Live
                 PROVE  EditsArrive'
      BY <1>1 DEF Live
    <2>1. draft # None
      <3>1. ~save.orphan
        BY <1>4 DEF Live
      <3> QED
        BY <1>3, <3>1 DEF SessionInv, EditsArrive, RevisionsAreInOrder
    <2> QED
      BY <1>1, <1>2, <2>1 DEF SessionInv, EditsArrive, Shown
  <1> QED
    BY <1>5, <1>6, <1>7, <1>8, <1>9, <1>10 DEF SessionInv

LEMMA FlushEndsKeeps == SessionInv /\ FlushEnds => SessionInv'
  <1> SUFFICES ASSUME SessionInv, FlushEnds
               PROVE  SessionInv'
    OBVIOUS
  <1>1. /\ call # None /\ call.stage = "flushing"
        /\ ctl.savedRevision >= call.target \/ copy = None
        /\ UNCHANGED <<server, copy, save, poll, latest, exposed>>
    BY DEF FlushEnds, Flushed, Flushing
  <1>2. ctl' = ctl /\ draft' = draft
    <2>1. ctl \in Controller
      BY DEF SessionInv, SessionTypeOK
    <2>2. CASE copy # None /\ ctl.revision = ctl.savedRevision
      <3>1. ctl.status = "saved" /\ draft = None
        BY <2>2 DEF SessionInv, RevisionsAreInOrder
      <3>2. ctl' = [ctl EXCEPT !.status = "saved"] /\ draft' = None
        BY <2>2 DEF FlushEnds
      <3> QED
        BY <2>1, <3>1, <3>2 DEF Controller
    <2>3. CASE ~ (copy # None /\ ctl.revision = ctl.savedRevision)
      BY <2>3 DEF FlushEnds
    <2> QED
      BY <2>2, <2>3
  <1>3. call' = None \/ (/\ call' \in UserCall /\ call'.stage = "sent"
                         /\ call'.target = call.target /\ copy # None)
    <2> SUFFICES ASSUME call.kind # "save", copy # None
                 PROVE  call' \in UserCall /\ call'.stage = "sent" /\ call'.target = call.target
      BY DEF FlushEnds
    <2>1. call \in UserCall
      BY <1>1 DEF SessionInv, SessionTypeOK
    <2>2. Shown \in Document
      BY DEF SessionInv, SessionTypeOK, Shown
    <2>3. call.frag \in Fragments
      BY <2>1 DEF UserCall
    <2>4. Shown.frags[call.frag] \in Version
      BY <2>2, <2>3, VersionsOf
    <2>5. PICK a \in Version \cup {None} :
             call' = [call EXCEPT !.stage = "sent", !.answer = a]
      <3>1. CASE call.answer = None /\ call.kind = "patch"
        BY <2>4, <3>1 DEF FlushEnds
      <3>2. CASE ~ (call.answer = None /\ call.kind = "patch")
        BY <3>2 DEF FlushEnds
      <3> QED
        BY <3>1, <3>2
    <2> QED
      BY <2>1, <2>5 DEF UserCall
  <1>4. SessionTypeOK'
    BY <1>1, <1>2, <1>3 DEF SessionInv, SessionTypeOK
  <1>5. ClosedForGood'
    BY <1>1, <1>2, <1>3 DEF SessionInv, ClosedForGood
  <1>6. RevisionsAreInOrder'
    <2>1. call' # None => call'.target <= ctl.savedRevision
      <3>1. call.target \in Nat /\ ctl.savedRevision \in Nat
        BY <1>1 DEF SessionInv, SessionTypeOK, UserCall, Controller
      <3> QED
        BY <1>1, <1>3, <3>1
    <2>2. call' # None => call'.target <= ctl.revision
      BY <1>1, <1>3 DEF SessionInv, RevisionsAreInOrder
    <2> QED
      BY <1>1, <1>2, <2>1, <2>2 DEF SessionInv, RevisionsAreInOrder
  <1>7. UnsavedIsScheduled'
    BY <1>1, <1>2 DEF SessionInv, UnsavedIsScheduled
  <1>8. (Live => ReadingsAgree)'
    <2> SUFFICES ASSUME Live', NEW g \in Fragments
                 PROVE  InOrder(Readings(g)', server'.frags[g])
      BY DEF ReadingsAgree
    <2>1. InOrder(Readings(g), server.frags[g])
      BY <1>1 DEF SessionInv, ReadingsAgree, Live
    <2>2. Readings(g)' \subseteq Readings(g) \cup {server'.frags[g]}
      BY <1>1, <1>3 DEF Readings
    <2>3. server.frags[g] \in Readings(g) /\ server.frags[g] \in Version
      BY ReadingsOfServer DEF SessionInv
    <2> QED
      BY <1>1, <2>1, <2>2, <2>3, OrderIsKept
  <1>9. (Live => EditsArrive)'
    BY <1>1, <1>2 DEF SessionInv, EditsArrive, Live, Shown, Carried
  <1> QED
    BY <1>4, <1>5, <1>6, <1>7, <1>8, <1>9 DEF SessionInv

LEMMA SavedDocument ==
    ASSUME SessionTypeOK, NEW doc \in Document
    PROVE  /\ Saved(doc) \in [open : BOOLEAN, rev : Nat, frags : [Fragments -> Version]]
           /\ Saved(doc).open = server.open
           /\ \A f \in Fragments :
                /\ Saved(doc).frags[f].value = doc.frags[f].value
                /\ \/ Saved(doc).frags[f] = server.frags[f]
                   \/ Saved(doc).frags[f].rev = server.frags[f].rev + 1
  <1> DEFINE changed == {f \in Fragments : server.frags[f].value # doc.frags[f].value}
             r == server.rev + (IF changed = {} THEN 0 ELSE 1)
             F == [f \in Fragments |->
                     IF f \in changed
                     THEN [rev |-> server.frags[f].rev + 1, value |-> doc.frags[f].value]
                     ELSE server.frags[f]]
  <1>1. /\ server.open \in BOOLEAN /\ server.rev \in Nat
        /\ server.frags \in [Fragments -> Version]
    BY DEF SessionTypeOK
  <1>2. r \in Nat
    BY <1>1
  <1>3. \A f \in Fragments : F[f] \in Version
    <2> SUFFICES ASSUME NEW f \in Fragments
                 PROVE  F[f] \in Version
      OBVIOUS
    <2>1. server.frags[f] \in Version /\ server.frags[f].rev \in Nat
      BY <1>1 DEF Version
    <2>2. doc.frags[f].value \in Nat
      BY VersionsOf
    <2>3. CASE f \in changed
      <3>1. F[f] = [rev |-> server.frags[f].rev + 1, value |-> doc.frags[f].value]
        BY <2>3
      <3>2. server.frags[f].rev + 1 \in Nat
        BY <2>1
      <3> QED
        BY <2>2, <3>1, <3>2 DEF Version
    <2>4. CASE f \notin changed
      BY <2>1, <2>4
    <2> QED
      BY <2>3, <2>4
  <1>4. \A f \in Fragments : /\ F[f].value = doc.frags[f].value
                             /\ F[f] = server.frags[f] \/ F[f].rev = server.frags[f].rev + 1
    OBVIOUS
  <1>5. Saved(doc) = [open |-> server.open, rev |-> r, frags |-> F]
    BY DEF Saved
  <1>6. F \in [Fragments -> Version]
    BY <1>3
  <1> HIDE DEF r, F
  <1>7. Saved(doc) \in [open : BOOLEAN, rev : Nat, frags : [Fragments -> Version]]
    BY <1>1, <1>2, <1>5, <1>6
  <1> QED
    BY <1>4, <1>5, <1>7

LEMMA ServerSavesKeeps == SessionInv /\ ServerSaves => SessionInv'
  <1> SUFFICES ASSUME SessionInv, ServerSaves
               PROVE  SessionInv'
    OBVIOUS
  <1>1. /\ save # None /\ save.stage = "sent" /\ server' = Saved(save.doc)
        /\ UNCHANGED <<copy, draft, ctl, call, poll, latest, exposed>>
    BY DEF ServerSaves
  <1>2. /\ save \in SaveRequest /\ save.doc \in Document /\ save.revision \in Nat
        /\ SessionTypeOK /\ server.frags \in [Fragments -> Version]
    BY <1>1 DEF SessionInv, SessionTypeOK, SaveRequest
  <1>3. /\ server' \in [open : BOOLEAN, rev : Nat, frags : [Fragments -> Version]]
        /\ server'.open = server.open
        /\ \A f \in Fragments :
             /\ server'.frags[f].value = save.doc.frags[f].value
             /\ \/ server'.frags[f] = server.frags[f]
                \/ server'.frags[f].rev = server.frags[f].rev + 1
    BY <1>1, <1>2, SavedDocument
  <1> DEFINE answer == [rev |-> server'.rev, frags |-> server'.frags]
  <1>4. answer \in Document /\ answer.frags = server'.frags
    BY <1>3 DEF Document
  <1>5. \/ save' = [save EXCEPT !.stage = "stored", !.doc = answer]
        \/ save' = [save EXCEPT !.stage = "failed"]
    BY DEF ServerSaves
  <1> HIDE DEF answer
  <1>6. /\ save' \in SaveRequest /\ save'.revision = save.revision
        /\ save'.orphan = save.orphan
        /\ \/ save'.stage = "stored" /\ save'.doc = answer
           \/ save'.stage = "failed" /\ save'.doc = save.doc
    BY <1>2, <1>4, <1>5 DEF SaveRequest
  <1>7. save' # None
    BY <1>6, NoneIsNothingElse
  <1>8. SessionTypeOK'
    BY <1>1, <1>3, <1>6 DEF SessionInv, SessionTypeOK
  <1>9. ClosedForGood'
    BY <1>1, <1>3, <1>6, <1>7 DEF SessionInv, ClosedForGood
  <1>10. RevisionsAreInOrder' /\ UnsavedIsScheduled'
    BY <1>1, <1>6, <1>7 DEF SessionInv, RevisionsAreInOrder, UnsavedIsScheduled
  <1>11. Live => \A f \in Fragments :
            /\ Carried(f) /\ server.frags[f].value <= latest[f]
            /\ Shown.frags[f].value = latest[f]
    BY <1>1 DEF SessionInv, EditsArrive
  <1>12. (Live => ReadingsAgree)'
    <2> SUFFICES ASSUME Live, NEW f \in Fragments
                 PROVE  InOrder(Readings(f)', server'.frags[f])
      BY <1>1 DEF ReadingsAgree, Live
    <2>1. InOrder(Readings(f), server.frags[f])
      BY DEF SessionInv, ReadingsAgree
    <2>2. Readings(f)' \subseteq Readings(f) \cup {server'.frags[f]}
      BY <1>1, <1>4, <1>6 DEF Readings
    <2>3. server.frags[f] \in Readings(f) /\ server.frags[f] \in Version
      BY <1>2, ReadingsOfServer
    <2>4. server'.frags[f] \in Version
      BY <1>3
    <2>5. \/ server'.frags[f] = server.frags[f]
          \/ /\ server.frags[f].rev < server'.frags[f].rev
             /\ server.frags[f].value <= server'.frags[f].value
      <3>1. server.frags[f].value <= save.doc.frags[f].value
        BY <1>1, <1>11 DEF Carried
      <3>2. server.frags[f].rev < server.frags[f].rev + 1
        BY <2>3 DEF Version
      <3> QED
        BY <1>3, <3>1, <3>2
    <2> QED
      BY <2>1, <2>2, <2>3, <2>4, <2>5, OrderIsKept
  <1>13. (Live => EditsArrive)'
    <2> SUFFICES ASSUME Live
                 PROVE  EditsArrive'
      BY <1>1 DEF Live
    <2> SUFFICES ASSUME NEW f \in Fragments
                 PROVE  /\ Shown'.frags[f].value = latest'[f]
                        /\ server'.frags[f].value <= latest'[f]
                        /\ latest'[f] <= ctl'.savedRevision =>
                             server'.frags[f].value = latest'[f]
                        /\ Carried(f)'
      BY <1>1 DEF SessionInv, EditsArrive
    <2>1. Shown' = Shown
      BY <1>1 DEF Shown
    <2>2. /\ save.doc.frags[f].value <= latest[f]
          /\ latest[f] <= save.revision => save.doc.frags[f].value = latest[f]
          /\ Shown.frags[f].value = latest[f]
      BY <1>11 DEF Carried
    <2>3. latest[f] <= ctl.savedRevision => save.doc.frags[f].value = latest[f]
      <3>1. latest[f] \in Nat /\ ctl.savedRevision \in Nat
        BY <1>2 DEF SessionTypeOK, Controller
      <3>2. ctl.savedRevision < save.revision
        BY <1>1 DEF SessionInv, ClosedForGood, RevisionsAreInOrder, Live
      <3> QED
        BY <1>2, <2>2, <3>1, <3>2
    <2>4. Carried(f)'
      <3>1. CASE save'.stage = "stored" /\ save'.doc = answer
        BY <1>1, <1>3, <1>4, <1>6, <2>2, <3>1 DEF Carried
      <3>2. CASE save'.stage = "failed" /\ save'.doc = save.doc
        BY <1>1, <1>6, <2>2, <3>2 DEF Carried
      <3> QED
        BY <1>6, <3>1, <3>2
    <2> QED
      BY <1>1, <1>3, <2>1, <2>2, <2>3, <2>4
  <1> QED
    BY <1>8, <1>9, <1>10, <1>12, <1>13 DEF SessionInv

LEMMA ServerRefusesKeeps == SessionInv /\ ServerRefuses => SessionInv'
  <1> SUFFICES ASSUME SessionInv, ServerRefuses
               PROVE  SessionInv'
    OBVIOUS
  <1>1. /\ save # None /\ save' = [save EXCEPT !.stage = "failed"]
        /\ UNCHANGED <<server, copy, draft, ctl, call, poll, latest, exposed>>
    BY DEF ServerRefuses
  <1>2. save \in SaveRequest
    BY <1>1 DEF SessionInv, SessionTypeOK
  <1>3. /\ save' \in SaveRequest /\ save'.revision = save.revision /\ save'.doc = save.doc
        /\ save'.orphan = save.orphan /\ save'.stage = "failed"
    BY <1>1, <1>2 DEF SaveRequest
  <1>4. SessionTypeOK'
    BY <1>1, <1>3 DEF SessionInv, SessionTypeOK
  <1>5. ClosedForGood'
    BY <1>1, <1>3 DEF SessionInv, ClosedForGood
  <1>6. RevisionsAreInOrder' /\ UnsavedIsScheduled'
    <2>1. save' # None
      BY <1>3, NoneIsNothingElse
    <2> QED
      BY <1>1, <1>3, <2>1 DEF SessionInv, RevisionsAreInOrder, UnsavedIsScheduled
  <1>7. (Live => ReadingsAgree)'
    <2> SUFFICES ASSUME Live', NEW f \in Fragments
                 PROVE  InOrder(Readings(f)', server'.frags[f])
      BY DEF ReadingsAgree
    <2>1. InOrder(Readings(f), server.frags[f])
      BY <1>1 DEF SessionInv, ReadingsAgree, Live
    <2>2. Readings(f)' \subseteq Readings(f) \cup {server'.frags[f]}
      BY <1>1, <1>3 DEF Readings
    <2>3. server.frags[f] \in Readings(f) /\ server.frags[f] \in Version
      BY ReadingsOfServer DEF SessionInv
    <2> QED
      BY <1>1, <2>1, <2>2, <2>3, OrderIsKept
  <1>8. (Live => EditsArrive)'
    BY <1>1, <1>3 DEF SessionInv, EditsArrive, Live, Shown, Carried
  <1> QED
    BY <1>4, <1>5, <1>6, <1>7, <1>8 DEF SessionInv

\* What the server answers to a call, and a call that fails, leave the client's own state alone.
LEMMA CallKeeps ==
    SessionInv /\ (ServerSnapshots \/ ServerCloses \/ ServerPatches \/ CallFails) => SessionInv'
  <1> SUFFICES ASSUME SessionInv, ServerSnapshots \/ ServerCloses \/ ServerPatches \/ CallFails
               PROVE  SessionInv'
    OBVIOUS
  <1>1. /\ call # None /\ call.stage = "sent"
        /\ UNCHANGED <<copy, draft, ctl, save, poll, latest, exposed>>
    BY DEF ServerSnapshots, ServerCloses, ServerPatches, CallFails, Asked
  <1>2. call \in UserCall /\ call.frag \in Fragments
    BY <1>1 DEF SessionInv, SessionTypeOK, UserCall
  <1>3. /\ server \in [open : BOOLEAN, rev : Nat, frags : [Fragments -> Version]]
        /\ server.frags \in [Fragments -> Version]
    BY DEF SessionInv, SessionTypeOK
  <1>4. /\ server' \in [open : BOOLEAN, rev : Nat, frags : [Fragments -> Version]]
        /\ server'.open => server.open
        /\ \A f \in Fragments :
             /\ server'.frags[f].value = server.frags[f].value
             /\ \/ server'.frags[f] = server.frags[f]
                \/ server'.frags[f].rev = server.frags[f].rev + 1
    <2>1. CASE server' = server
      BY <1>3, <2>1
    <2>2. CASE server' = [server EXCEPT !.open = FALSE]
      BY <1>3, <2>2
    <2>3. CASE ServerPatches
      <3> DEFINE v == [server.frags[call.frag] EXCEPT !.rev = server.frags[call.frag].rev + 1]
      <3>1. v \in Version /\ v.rev = server.frags[call.frag].rev + 1
            /\ v.value = server.frags[call.frag].value
        BY <1>2, <1>3 DEF Version
      <3>2. server' = [server EXCEPT !.frags = [server.frags EXCEPT ![call.frag] = v]]
        BY <2>3 DEF ServerPatches
      <3> HIDE DEF v
      <3> QED
        BY <1>2, <1>3, <3>1, <3>2
    <2> QED
      BY <2>1, <2>2, <2>3 DEF ServerSnapshots, ServerCloses, CallFails
  <1>5. \/ call' = None
        \/ /\ call' \in UserCall /\ call'.stage = "answered" /\ call'.kind = call.kind
           /\ call'.target = call.target /\ call'.frag = call.frag
           /\ \/ /\ call.kind = "patch" /\ call'.answer \in Version
                 /\ call'.answer = server'.frags[call.frag]
              \/ /\ call.kind # "patch" /\ server'.open
                 /\ call'.answer \in Document /\ call'.answer.frags = server'.frags
              \/ call.kind # "patch" /\ ~server'.open /\ call'.answer = None
    <2>1. CASE CallFails
      BY <2>1 DEF CallFails
    <2>2. CASE ServerSnapshots
      <3>1. Stored \in Document /\ Stored.frags = server.frags
        BY <1>3 DEF Stored, Document
      <3>2. call.kind # "patch" /\ server' = server
        BY <2>2 DEF ServerSnapshots, Asked
      <3>3. CASE server.open
        <4>1. call' = [call EXCEPT !.stage = "answered", !.answer = Stored]
          BY <2>2, <3>3 DEF ServerSnapshots, Answer
        <4> QED
          BY <1>2, <3>1, <3>2, <3>3, <4>1 DEF UserCall
      <3>4. CASE ~server.open
        <4>1. call' = [call EXCEPT !.stage = "answered", !.answer = None]
          BY <2>2, <3>4 DEF ServerSnapshots, Answer
        <4> QED
          BY <1>2, <3>2, <3>4, <4>1 DEF UserCall
      <3> QED
        BY <3>3, <3>4
    <2>3. CASE ServerCloses
      <3>1. call' = [call EXCEPT !.stage = "answered", !.answer = None]
            /\ call.kind # "patch" /\ server' = [server EXCEPT !.open = FALSE]
        BY <2>3 DEF ServerCloses, Answer, Asked
      <3>2. ~server'.open
        BY <1>3, <3>1
      <3> QED
        BY <1>2, <3>1, <3>2 DEF UserCall
    <2>4. CASE ServerPatches
      <3>1. call' = [call EXCEPT !.stage = "answered", !.answer = server'.frags[call.frag]]
            /\ call.kind = "patch"
        BY <2>4 DEF ServerPatches, Answer, Asked
      <3>2. server'.frags[call.frag] \in Version
        BY <1>2, <1>4
      <3> QED
        BY <1>2, <3>1, <3>2 DEF UserCall
    <2> QED
      BY <2>1, <2>2, <2>3, <2>4
  <1>6. SessionTypeOK'
    BY <1>1, <1>4, <1>5 DEF SessionInv, SessionTypeOK
  <1>7. ClosedForGood'
    <2>1. call' # None => /\ call'.kind = "patch" => call'.answer \in Version
                          /\ call'.kind # "patch" =>
                               /\ call'.answer \in Document \cup {None}
                               /\ call'.answer # None <=> server'.open
      BY <1>5, NoneIsNothingElse
    <2> QED
      BY <1>1, <1>4, <2>1 DEF SessionInv, ClosedForGood
  <1>8. RevisionsAreInOrder' /\ UnsavedIsScheduled'
    BY <1>1, <1>5 DEF SessionInv, RevisionsAreInOrder, UnsavedIsScheduled
  <1>9. (Live => ReadingsAgree)'
    <2> SUFFICES ASSUME Live', NEW f \in Fragments
                 PROVE  InOrder(Readings(f)', server'.frags[f])
      BY DEF ReadingsAgree
    <2>1. InOrder(Readings(f), server.frags[f])
      BY <1>1 DEF SessionInv, ReadingsAgree, Live
    <2>2. Readings(f)' \subseteq Readings(f) \cup {server'.frags[f]}
      BY <1>1, <1>5 DEF Readings
    <2>3. server.frags[f] \in Readings(f) /\ server.frags[f] \in Version
      BY ReadingsOfServer DEF SessionInv
    <2>4. server'.frags[f] \in Version
      BY <1>4
    <2>5. \/ server'.frags[f] = server.frags[f]
          \/ /\ server.frags[f].rev < server'.frags[f].rev
             /\ server.frags[f].value <= server'.frags[f].value
      <3>1. server.frags[f].rev < server.frags[f].rev + 1
            /\ server.frags[f].value <= server.frags[f].value
        BY <2>3 DEF Version
      <3> QED
        BY <1>4, <3>1
    <2> QED
      BY <2>1, <2>2, <2>3, <2>4, <2>5, OrderIsKept
  <1>10. (Live => EditsArrive)'
    BY <1>1, <1>4 DEF SessionInv, EditsArrive, Live, Shown, Carried
  <1> QED
    BY <1>6, <1>7, <1>8, <1>9, <1>10 DEF SessionInv

LEMMA Merges ==
    ASSUME NEW local \in Document, NEW snapshot \in Document
    PROVE  /\ Merged(local, snapshot) \in Document
           /\ \A f \in Fragments : Merged(local, snapshot).frags[f].value = local.frags[f].value
  <1>1. \A f \in Fragments : /\ local.frags[f].value \in Nat /\ local.frags[f].rev \in Nat
                             /\ snapshot.frags[f].rev \in Nat
    BY VersionsOf
  <1>2. local.rev \in Nat /\ snapshot.rev \in Nat
    BY DEF Document
  <1>3. Max({snapshot.rev, local.rev}) \in Nat
    BY <1>2, MaxOfTwo
  <1>4. \A f \in Fragments : Max({snapshot.frags[f].rev, local.frags[f].rev}) \in Nat
    BY <1>1, MaxOfTwo
  <1> QED
    BY <1>1, <1>3, <1>4 DEF Merged, Document, Version

\* A snapshot is applied by the answer of a call or of a poll, which is then over.
Over == (call' = None /\ poll' = poll) \/ (call' = call /\ poll' = None)

LEMMA LeaveKeeps ==
    ASSUME SessionInv, Leave, ~server.open, Over, UNCHANGED <<server, latest>>
    PROVE  SessionInv'
  <1>1. ctl \in Controller /\ save \in SaveRequest \cup {None}
    BY DEF SessionInv, SessionTypeOK
  <1>2. copy' = None /\ draft' = None /\ exposed' = exposed
        /\ UNCHANGED <<server, latest>>
    BY DEF Leave
  <1>3. /\ ctl' \in Controller /\ ctl'.revision = ctl.revision
        /\ ctl'.savedRevision = ctl.savedRevision
        /\ ctl'.status = ctl.status /\ ctl'.timer = FALSE
    BY <1>1 DEF Leave, Controller
  <1>4. \/ save = None /\ save' = None
        \/ /\ save # None /\ save' \in SaveRequest /\ save'.orphan = TRUE
           /\ save'.revision = save.revision
    <2>1. CASE save = None
      BY <2>1 DEF Leave
    <2>2. CASE save # None
      BY <1>1, <2>2 DEF Leave, SaveRequest
    <2> QED
      BY <2>1, <2>2
  <1>5. SessionTypeOK'
    BY <1>2, <1>3, <1>4 DEF Over, SessionInv, SessionTypeOK
  <1>6. ClosedForGood'
    BY <1>2, <1>3, <1>4 DEF Over, SessionInv, ClosedForGood
  <1>7. RevisionsAreInOrder' /\ UnsavedIsScheduled'
    BY <1>2, <1>3, <1>4 DEF Over, SessionInv, RevisionsAreInOrder, UnsavedIsScheduled
  <1> QED
    BY <1>2, <1>5, <1>6, <1>7 DEF SessionInv, Live

LEMMA SnapshotKeeps ==
    ASSUME SessionInv, NEW snapshot \in Document, NEW preserve \in BOOLEAN,
           ApplyWorkspace(snapshot, preserve), copy = None => save = None,
           \A f \in Fragments : snapshot.frags[f] \in Readings(f),
           Over, UNCHANGED <<server, latest>>
    PROVE  SessionInv'
  <1>1. snapshot # None
    BY NoneIsNothingElse
  <1>2. /\ copy' = snapshot /\ draft' = Kept(snapshot, preserve)
        /\ ctl' = (IF copy # None THEN ctl
                   ELSE [ctl EXCEPT !.savedRevision = ctl.revision, !.status = "saved"])
        /\ exposed' = (exposed \/ Behind(snapshot) \/ (~preserve /\ draft # None))
        /\ UNCHANGED <<server, save, latest>>
    BY <1>1 DEF ApplyWorkspace
  <1>3. /\ ctl \in Controller /\ exposed \in BOOLEAN /\ draft \in Document \cup {None}
        /\ copy \in Document \cup {None} /\ ctl.revision \in Nat /\ ctl.savedRevision \in Nat
    BY DEF SessionInv, SessionTypeOK, Controller
  <1>4. /\ draft' \in Document \cup {None}
        /\ draft' # None => draft # None /\ ctl.status # "saved" /\ copy # None
                            /\ draft' = Merged(draft, snapshot)
    <2>1. CASE preserve /\ draft # None /\ ctl.status # "saved"
      <3>1. draft' = Merged(draft, snapshot)
        BY <1>2, <2>1 DEF Kept
      <3>2. copy # None
        BY <2>1 DEF SessionInv, ClosedForGood
      <3> QED
        BY <1>3, <2>1, <3>1, <3>2, Merges
    <2>2. CASE ~ (preserve /\ draft # None /\ ctl.status # "saved")
      BY <1>2, <2>2 DEF Kept
    <2> QED
      BY <2>1, <2>2
  <1>5. /\ ctl' \in Controller /\ ctl'.revision = ctl.revision /\ ctl'.timer = ctl.timer
        /\ \/ copy # None /\ ctl' = ctl
           \/ /\ copy = None /\ ctl'.savedRevision = ctl.revision /\ ctl'.status = "saved"
              /\ ~ctl.timer /\ save = None
    <2>1. CASE copy # None
      BY <1>2, <1>3, <2>1
    <2>2. CASE copy = None
      <3>1. ctl' = [ctl EXCEPT !.savedRevision = ctl.revision, !.status = "saved"]
        BY <1>2, <2>2
      <3>2. ~ctl.timer
        BY <2>2 DEF SessionInv, ClosedForGood
      <3> QED
        BY <1>3, <2>2, <3>1, <3>2 DEF Controller
    <2> QED
      BY <2>1, <2>2
  <1>6. copy' # None
    BY <1>1, <1>2
  <1>7. exposed' \in BOOLEAN
    BY <1>2, <1>3, Zenon DEF Behind
  <1>8. SessionTypeOK'
    BY <1>2, <1>3, <1>4, <1>5, <1>7 DEF Over, SessionInv, SessionTypeOK
  <1>9. ClosedForGood'
    BY <1>2, <1>6 DEF Over, SessionInv, ClosedForGood
  <1>10. RevisionsAreInOrder' /\ UnsavedIsScheduled'
    <2>1. CASE copy # None /\ ctl' = ctl
      <3>1. ctl'.status = "saved" => draft' = None
        BY <1>4, <2>1
      <3> QED
        BY <1>2, <2>1, <3>1 DEF Over, SessionInv, RevisionsAreInOrder, UnsavedIsScheduled
    <2>2. CASE copy = None
      <3>1. ctl.revision <= ctl.revision /\ ~ (ctl.revision > ctl.revision)
        BY <1>3
      <3>2. ctl'.savedRevision = ctl'.revision /\ ctl'.status = "saved" /\ ~ctl'.timer
            /\ save' = None /\ draft' = None
        BY <1>2, <1>4, <1>5, <2>2
      <3>3. call # None => call.target <= ctl.revision
        BY DEF SessionInv, RevisionsAreInOrder
      <3>4. \A f \in Fragments : latest[f] <= ctl.revision
        BY DEF SessionInv, RevisionsAreInOrder
      <3> QED
        BY <1>2, <1>5, <3>1, <3>2, <3>3, <3>4
        DEF Over, RevisionsAreInOrder, UnsavedIsScheduled
    <2> QED
      BY <1>5, <2>1, <2>2
  <1>11. Live' => /\ Live /\ ~Behind(snapshot) /\ (preserve \/ draft = None) /\ ctl' = ctl
    BY <1>2, <1>3, <1>5 DEF Live, Behind
  <1>12. (Live => ReadingsAgree)'
    <2> SUFFICES ASSUME Live', NEW f \in Fragments
                 PROVE  InOrder(Readings(f)', server'.frags[f])
      BY DEF ReadingsAgree
    <2>1. InOrder(Readings(f), server.frags[f])
      BY <1>11 DEF SessionInv, ReadingsAgree
    <2>2. Readings(f)' \subseteq Readings(f) \cup {server'.frags[f]}
      <3>1. {copy'.frags[f]} \subseteq Readings(f)
        BY <1>2
      <3> QED
        BY <1>2, <3>1 DEF Readings, Over
    <2>3. server.frags[f] \in Readings(f) /\ server.frags[f] \in Version
      BY ReadingsOfServer DEF SessionInv
    <2> QED
      BY <1>2, <2>1, <2>2, <2>3, OrderIsKept
  <1>13. (Live => EditsArrive)'
    <2> SUFFICES ASSUME Live'
                 PROVE  EditsArrive'
      OBVIOUS
    <2>1. Live /\ ~Behind(snapshot) /\ (preserve \/ draft = None) /\ ctl' = ctl
      BY <1>11
    <2>2. EditsArrive /\ ReadingsAgree
      BY <2>1 DEF SessionInv
    <2>3. draft' = None => draft = None
      <3> SUFFICES ASSUME draft # None
                   PROVE  draft' # None
        OBVIOUS
      <3>1. ctl.status # "saved"
        BY DEF SessionInv, RevisionsAreInOrder
      <3>2. draft' = Merged(draft, snapshot)
        BY <1>2, <2>1, <3>1 DEF Kept
      <3> QED
        BY <1>3, <3>2, Merges, NoneIsNothingElse
    <2>4. draft' = None => ctl'.status = "saved"
      BY <2>1, <2>2, <2>3 DEF EditsArrive
    <2>5. \A f \in Fragments : Shown'.frags[f].value = Shown.frags[f].value
      <3> SUFFICES ASSUME NEW f \in Fragments
                   PROVE  Shown'.frags[f].value = Shown.frags[f].value
        OBVIOUS
      <3>1. CASE draft' # None
        <4>1. Shown' = Merged(draft, snapshot) /\ Shown = draft /\ draft \in Document
          BY <1>3, <1>4, <3>1 DEF Shown
        <4> QED
          BY <4>1, Merges
      <3>2. CASE draft' = None
        <4>1. Shown' = snapshot /\ Shown = copy
          BY <1>2, <2>3, <3>2 DEF Shown
        <4>2. copy.frags[f].value = latest[f] /\ server.frags[f].value <= latest[f]
          BY <2>2, <4>1 DEF EditsArrive
        <4>3. /\ copy.frags[f] \in Readings(f) /\ snapshot.frags[f] \in Readings(f)
              /\ server.frags[f] \in Readings(f)
          BY <2>1 DEF Readings, Live
        <4>4. ~ (snapshot.frags[f].rev < copy.frags[f].rev)
          BY <2>1 DEF Behind
        <4>5. InOrder(Readings(f), server.frags[f])
          BY <2>2 DEF ReadingsAgree
        <4>6. /\ copy.frags[f] \in Version /\ snapshot.frags[f] \in Version
              /\ server.frags[f] \in Version
          BY <4>3, <4>5 DEF InOrder
        <4>7. copy.frags[f].rev <= snapshot.frags[f].rev
          BY <4>4, <4>6 DEF Version
        <4>8. /\ copy.frags[f].value <= snapshot.frags[f].value
              /\ snapshot.frags[f].value <= server.frags[f].value
          BY <4>3, <4>5, <4>7 DEF InOrder
        <4> QED
          BY <4>1, <4>2, <4>6, <4>8 DEF Version
      <3> QED
        BY <3>1, <3>2
    <2> QED
      BY <1>2, <2>1, <2>2, <2>4, <2>5 DEF EditsArrive, Carried
  <1> QED
    BY <1>8, <1>9, <1>10, <1>12, <1>13 DEF SessionInv

LEMMA PatchKeeps ==
    ASSUME SessionInv, NEW f \in Fragments, NEW answer \in Version, PatchSegment(f, answer),
           answer \in Readings(f), call' = None, UNCHANGED <<server, poll, latest>>
    PROVE  SessionInv'
  <1>1. /\ copy \in Document \cup {None} /\ draft \in Document \cup {None}
        /\ exposed \in BOOLEAN
    BY DEF SessionInv, SessionTypeOK
  <1>2. /\ exposed' = (exposed \/ (copy # None /\ Shown.frags[f].value # answer.value))
        /\ UNCHANGED <<server, ctl, save, poll, latest>> /\ call' = None
    BY DEF PatchSegment
  <1>3. \A d \in Document :
          LET patched == [d EXCEPT !.frags = [d.frags EXCEPT ![f] = answer]]
          IN  /\ patched \in Document /\ patched.frags[f] = answer
              /\ \A g \in Fragments \ {f} : patched.frags[g] = d.frags[g]
    BY DEF Document
  <1>4. \/ copy = None /\ copy' = None
        \/ /\ copy # None /\ copy' \in Document /\ copy'.frags[f] = answer
           /\ \A g \in Fragments \ {f} : copy'.frags[g] = copy.frags[g]
    BY <1>1, <1>3 DEF PatchSegment
  <1>5. \/ draft = None /\ draft' = None
        \/ /\ draft # None /\ draft' \in Document /\ draft'.frags[f] = answer
           /\ \A g \in Fragments \ {f} : draft'.frags[g] = draft.frags[g]
    BY <1>1, <1>3 DEF PatchSegment
  <1>6. copy' = None <=> copy = None
    BY <1>4, NoneIsNothingElse
  <1>7. draft' = None <=> draft = None
    BY <1>5, NoneIsNothingElse
  <1>8. exposed' \in BOOLEAN
    BY <1>1, <1>2, Zenon
  <1>9. SessionTypeOK'
    BY <1>1, <1>2, <1>4, <1>5, <1>8 DEF SessionInv, SessionTypeOK
  <1>10. ClosedForGood'
    BY <1>2, <1>6, <1>7 DEF SessionInv, ClosedForGood
  <1>11. RevisionsAreInOrder' /\ UnsavedIsScheduled'
    BY <1>2, <1>6, <1>7 DEF SessionInv, RevisionsAreInOrder, UnsavedIsScheduled
  <1>12. Live' => Live /\ Shown.frags[f].value = answer.value
    BY <1>1, <1>2, <1>6 DEF Live
  <1>13. (Live => ReadingsAgree)'
    <2> SUFFICES ASSUME Live', NEW g \in Fragments
                 PROVE  InOrder(Readings(g)', server'.frags[g])
      BY DEF ReadingsAgree
    <2>1. InOrder(Readings(g), server.frags[g])
      BY <1>12 DEF SessionInv, ReadingsAgree
    <2>2. copy # None /\ copy'.frags[g] \in Readings(g)
      <3>1. copy # None
        BY <1>12 DEF Live
      <3>2. CASE g = f
        BY <1>4, <3>1, <3>2
      <3>3. CASE g # f
        <4>1. copy'.frags[g] = copy.frags[g]
          BY <1>4, <3>1, <3>3
        <4> QED
          BY <3>1, <4>1 DEF Readings
      <3> QED
        BY <3>1, <3>2, <3>3
    <2>3. Readings(g)' \subseteq Readings(g) \cup {server'.frags[g]}
      BY <1>2, <2>2 DEF Readings
    <2>4. server.frags[g] \in Readings(g) /\ server.frags[g] \in Version
      BY ReadingsOfServer DEF SessionInv
    <2> QED
      BY <1>2, <2>1, <2>3, <2>4, OrderIsKept
  <1>14. (Live => EditsArrive)'
    <2> SUFFICES ASSUME Live'
                 PROVE  EditsArrive'
      OBVIOUS
    <2>1. Live /\ Shown.frags[f].value = answer.value /\ EditsArrive
      BY <1>12 DEF SessionInv
    <2>2. \A g \in Fragments : Shown'.frags[g].value = Shown.frags[g].value
      <3> SUFFICES ASSUME NEW g \in Fragments
                   PROVE  Shown'.frags[g].value = Shown.frags[g].value
        OBVIOUS
      <3>1. CASE draft = None
        <4>1. Shown' = copy' /\ Shown = copy /\ copy # None
          BY <1>7, <2>1, <3>1 DEF Shown, Live
        <4> QED
          BY <1>4, <2>1, <4>1
      <3>2. CASE draft # None
        <4>1. Shown' = draft' /\ Shown = draft
          BY <1>7, <3>2 DEF Shown
        <4> QED
          BY <1>5, <2>1, <3>2, <4>1
      <3> QED
        BY <3>1, <3>2
    <2> QED
      BY <1>2, <1>7, <2>1, <2>2 DEF EditsArrive, Carried
  <1> QED
    BY <1>9, <1>10, <1>11, <1>13, <1>14 DEF SessionInv

LEMMA AnswerKeeps == SessionInv /\ AnswerArrives => SessionInv'
  <1> SUFFICES ASSUME SessionInv, AnswerArrives
               PROVE  SessionInv'
    OBVIOUS
  <1>1. /\ call # None /\ call.stage = "answered" /\ call' = None
        /\ UNCHANGED <<server, poll, latest>>
    BY DEF AnswerArrives
  <1>2. call \in UserCall /\ call.frag \in Fragments
    BY <1>1 DEF SessionInv, SessionTypeOK, UserCall
  <1>3. Over
    BY <1>1 DEF Over
  <1>4. CASE call.kind = "patch"
    <2>1. call.answer \in Version
      BY <1>1, <1>4 DEF SessionInv, ClosedForGood
    <2>2. call.answer \in Readings(call.frag)
      BY <1>1, <1>4 DEF Readings
    <2>3. PatchSegment(call.frag, call.answer)
      BY <1>4 DEF AnswerArrives
    <2> QED
      BY <1>1, <1>2, <2>1, <2>2, <2>3, PatchKeeps
  <1>5. CASE call.kind # "patch"
    <2>1. /\ call.answer \in Document \cup {None}
          /\ call.answer # None <=> server.open
      BY <1>1, <1>5 DEF SessionInv, ClosedForGood
    <2>2. PICK preserve \in BOOLEAN : ApplyWorkspace(call.answer, preserve)
      <3>1. CASE call.kind = "discard"
        <4>1. ApplyWorkspace(call.answer, FALSE)
          <5>1. (call.kind # "discard") = FALSE
            BY <3>1
          <5> QED
            BY <1>5, <5>1, Zenon DEF AnswerArrives
        <4> QED
          BY <4>1
      <3>2. CASE call.kind # "discard"
        <4>1. ApplyWorkspace(call.answer, TRUE)
          <5>1. (call.kind # "discard") = TRUE
            BY <3>2
          <5> QED
            BY <1>5, <5>1, Zenon DEF AnswerArrives
        <4> QED
          BY <4>1
      <3> QED
        BY <3>1, <3>2
    <2>3. CASE call.answer = None
      <3>1. Leave
        BY <2>2, <2>3 DEF ApplyWorkspace
      <3> QED
        BY <1>1, <1>3, <2>1, <2>3, <3>1, LeaveKeeps
    <2>4. CASE call.answer # None
      <3>1. copy # None
        BY <2>1, <2>4 DEF SessionInv, ClosedForGood
      <3>2. \A f \in Fragments : call.answer.frags[f] \in Readings(f)
        BY <1>1, <1>5, <2>4 DEF Readings
      <3>3. call.answer \in Document
        BY <2>1, <2>4
      <3> QED
        BY <1>1, <1>3, <2>2, <3>1, <3>2, <3>3, SnapshotKeeps
    <2> QED
      BY <2>3, <2>4
  <1> QED
    BY <1>4, <1>5

LEMMA PollAppliedKeeps == SessionInv /\ PollApplied => SessionInv'
  <1> SUFFICES ASSUME SessionInv, PollApplied
               PROVE  SessionInv'
    OBVIOUS
  <1>1. /\ poll # None /\ poll.stage = "loaded" /\ poll' = None
        /\ copy = None /\ poll.doc # None => save = None
        /\ ApplyWorkspace(poll.doc, TRUE)
        /\ UNCHANGED <<server, call, latest>>
    BY DEF PollApplied
  <1>2. poll.doc \in Document \cup {None}
    BY <1>1 DEF SessionInv, SessionTypeOK, PollRequest
  <1>3. Over
    BY <1>1 DEF Over
  <1>4. CASE poll.doc = None
    <2>1. ~server.open
      BY <1>1, <1>4 DEF SessionInv, ClosedForGood
    <2>2. Leave
      BY <1>1, <1>4 DEF ApplyWorkspace
    <2> QED
      BY <1>1, <1>3, <2>1, <2>2, LeaveKeeps
  <1>5. CASE poll.doc # None
    <2>1. \A f \in Fragments : poll.doc.frags[f] \in Readings(f)
      BY <1>1, <1>5 DEF Readings
    <2> QED
      BY <1>1, <1>2, <1>3, <1>5, <2>1, SnapshotKeeps
  <1> QED
    BY <1>4, <1>5

LEMMA SessionStep == SessionInv /\ [Next]_vars => SessionInv'
  <1> SUFFICES ASSUME SessionInv, [Next]_vars
               PROVE  SessionInv'
    OBVIOUS
  <1>1. CASE UNCHANGED vars
    <2>1. UNCHANGED <<server, copy, draft, ctl, save, call, poll, latest, exposed>>
      BY <1>1 DEF vars
    <2>2. SessionTypeOK' /\ ClosedForGood'
      BY <2>1 DEF SessionInv, SessionTypeOK, ClosedForGood
    <2>3. RevisionsAreInOrder' /\ UnsavedIsScheduled'
      BY <2>1 DEF SessionInv, RevisionsAreInOrder, UnsavedIsScheduled
    <2>4. (Live => ReadingsAgree)'
      <3>1. \A f : Readings(f)' = Readings(f)
        BY <2>1 DEF Readings
      <3> QED
        BY <2>1, <3>1 DEF SessionInv, ReadingsAgree, Live
    <2>5. (Live => EditsArrive)'
      BY <2>1 DEF SessionInv, EditsArrive, Live, Shown, Carried
    <2> QED
      BY <2>2, <2>3, <2>4, <2>5 DEF SessionInv
  <1> QED
    BY <1>1, TimerKeeps, SaveSucceedsKeeps, SaveFailsKeeps, EditKeeps, RequestKeeps,
       FlushAgainKeeps, FlushEndsKeeps, ServerSavesKeeps, ServerRefusesKeeps, CallKeeps,
       InspectKeeps, AnswerKeeps, PollKeeps, PollAppliedKeeps
    DEF Next

LEMMA SessionInitial == Init => SessionInv
  <1> SUFFICES ASSUME Init
               PROVE  SessionInv
    OBVIOUS
  <1>1. NewFragment \in Version /\ NewFragment.value = 0
    BY DEF NewFragment, Version
  <1>2. /\ server = [open |-> TRUE, rev |-> 1, frags |-> [f \in Fragments |-> NewFragment]]
        /\ copy = Stored /\ draft = None /\ save = None /\ call = None /\ poll = None
        /\ ctl = [revision |-> 0, savedRevision |-> 0, timer |-> FALSE, status |-> "saved"]
        /\ latest = [f \in Fragments |-> 0] /\ exposed = FALSE
    BY DEF Init
  <1>3. /\ server \in [open : BOOLEAN, rev : Nat, frags : [Fragments -> Version]]
        /\ server.open = TRUE /\ \A f \in Fragments : server.frags[f] = NewFragment
    BY <1>1, <1>2
  <1>4. copy \in Document /\ \A f \in Fragments : copy.frags[f] = NewFragment
    BY <1>2, <1>3 DEF Stored, Document
  <1>5. copy # None
    BY <1>4, NoneIsNothingElse
  <1>6. ctl \in Controller /\ ctl.revision = 0 /\ ctl.savedRevision = 0 /\ ctl.timer = FALSE
        /\ ctl.status = "saved"
    BY <1>2 DEF Controller
  <1>7. SessionTypeOK
    BY <1>2, <1>3, <1>4, <1>6 DEF SessionTypeOK
  <1>8. ClosedForGood
    BY <1>2, <1>5 DEF ClosedForGood
  <1>9. RevisionsAreInOrder /\ UnsavedIsScheduled
    BY <1>2, <1>6 DEF RevisionsAreInOrder, UnsavedIsScheduled
  <1>10. ReadingsAgree
    <2> SUFFICES ASSUME NEW f \in Fragments
                 PROVE  InOrder(Readings(f), server.frags[f])
      BY DEF ReadingsAgree
    <2>1. Readings(f) \subseteq {NewFragment}
      BY <1>2, <1>3, <1>4 DEF Readings
    <2> QED
      BY <1>1, <1>3, <2>1 DEF InOrder, Version
  <1>11. EditsArrive
    BY <1>1, <1>2, <1>3, <1>4, <1>6 DEF EditsArrive, Shown
  <1> QED
    BY <1>7, <1>8, <1>9, <1>10, <1>11 DEF SessionInv

\* The session's copy, its draft, the save controller, the answers under way and the server stay
\* together (workspace-session.svelte.ts, lib/save-controller.ts, workspace-projections.ts).
THEOREM SessionInvariant == Spec => []SessionInv
  <1>1. Init => SessionInv
    BY SessionInitial
  <1>2. SessionInv /\ [Next]_vars => SessionInv'
    BY SessionStep
  <1> QED
    BY <1>1, <1>2, PTL DEF Spec

\* What the state of saving says is true: unsaved edits are on their way unless the last save
\* failed, and "saved" edits are on the server (lib/save-controller.ts), for any number of
\* fragments, edits, calls, polls and failures.
THEOREM SavingIsTrue == Spec => []SaveStateIsTrue
  <1>1. SessionInv => SaveStateIsTrue
    <2> SUFFICES ASSUME SessionInv, Live, ctl.status = "saved", NEW f \in Fragments
                 PROVE  server.frags[f].value = latest[f]
      BY DEF SaveStateIsTrue, SavedIsStored, SessionInv, Live
    <2>1. latest[f] <= ctl.savedRevision
      BY DEF SessionInv, RevisionsAreInOrder
    <2> QED
      BY <2>1 DEF SessionInv, EditsArrive
  <1> QED
    BY <1>1, SessionInvariant, PTL

\* The editor goes on showing the last edit of every fragment, through saves, failures, merges
\* and patches, until an answer the code does not guard against takes one out of the view
\* (workspace-session.svelte.ts, workspace-projections.ts).
THEOREM EditsStayInView == Spec => []ViewShowsEdits
  <1>1. SessionInv => ViewShowsEdits
    BY DEF ViewShowsEdits, SessionInv, EditsArrive, Live
  <1> QED
    BY <1>1, SessionInvariant, PTL

\* Save and close: what was edited before the close was asked for is on the server when the
\* video closes (workspace-session.svelte.ts, saveAndClose).
THEOREM CloseKeepsEdits == Spec => ClosingKeepsEdits
  <1>1. SessionInv /\ [Next]_vars =>
          (server.open /\ ~server'.open /\ ~exposed =>
             \A f \in Fragments :
                latest[f] <= call.target => server.frags[f].value = latest[f])
    <2> SUFFICES ASSUME SessionInv, [Next]_vars, server.open, ~server'.open, ~exposed,
                        NEW f \in Fragments, latest[f] <= call.target
                 PROVE  server.frags[f].value = latest[f]
      OBVIOUS
    <2>1. server \in [open : BOOLEAN, rev : Nat, frags : [Fragments -> Version]]
      BY DEF SessionInv, SessionTypeOK
    <2>2. ServerCloses \/ (CallFails /\ call.kind = "close")
      <3>1. ~ ServerSaves
        <4>1. ASSUME ServerSaves
              PROVE  server'.open = server.open
          <5>1. save # None /\ server' = Saved(save.doc)
            BY <4>1 DEF ServerSaves
          <5>2. SessionTypeOK /\ save.doc \in Document
            BY <5>1 DEF SessionInv, SessionTypeOK, SaveRequest
          <5> QED
            BY <5>1, <5>2, SavedDocument
        <4> QED
          BY <4>1
      <3>2. ~ ServerPatches /\ ~ Inspect
        BY <2>1 DEF ServerPatches, Inspect
      <3>3. server' # server
        OBVIOUS
      <3>4. Next
        BY <3>3 DEF vars
      <3>5. CASE CallFails
        BY <3>3, <3>5 DEF CallFails
      <3> QED
        BY <3>1, <3>2, <3>3, <3>4, <3>5
        DEF Next, TimerFires, SaveSucceeds, SaveFails, Edit, Request, FlushAgain, FlushEnds,
            ServerRefuses, ServerSnapshots, AnswerArrives, PollSent, PollReads, PollApplied
    <2>3. call # None /\ call.stage = "sent" /\ call.kind = "close"
      BY <2>2 DEF ServerCloses, CallFails, Asked
    <2>4. Live
      BY DEF SessionInv, ClosedForGood, Live
    <2>5. call.target <= ctl.savedRevision
      BY <2>3 DEF SessionInv, RevisionsAreInOrder
    <2>6. call.target \in Nat /\ ctl.savedRevision \in Nat /\ latest[f] \in Nat
      BY <2>3 DEF SessionInv, SessionTypeOK, UserCall, Controller
    <2>7. latest[f] <= ctl.savedRevision
      BY <2>5, <2>6
    <2> QED
      BY <2>4, <2>7 DEF SessionInv, EditsArrive
  <1> QED
    BY <1>1, SessionInvariant, PTL DEF Spec, ClosingKeepsEdits
=============================================================================
