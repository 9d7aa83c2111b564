---------------------------- MODULE EditorPlayback ----------------------------
(***************************************************************************)
(* VideoEditor.svelte over playback-controller.ts: the selection, the       *)
(* boundary focus, the playback scope and its preview, the media element     *)
(* with its event queue and its play() promises, the animation frame that    *)
(* enforces the scope, and deletions that end while the user goes on.        *)
(* Time is in whole ticks; currentSeconds is the media's own time.           *)
(***************************************************************************)
EXTENDS Integers, Sequences, FiniteSets

CONSTANTS Segments, NoSegment,
          SourceLength,       \* of the source, in ticks
          FirstSpans,     \* [Segments -> [start, end]]: the segments at the beginning
          MaxNudges,      \* bound on boundary moves
          MaxQueue,       \* bound on the media events that wait while the user acts or time passes
          MaxPromises     \* and on the play() promises that do

ASSUME SegmentsAssumption ==
    /\ NoSegment \notin Segments /\ SourceLength \in Nat \ {0}
    /\ FirstSpans \in [Segments -> [start : 0..SourceLength, end : 0..SourceLength]]

VARIABLES segments,   \* project.segments: a span, or NoSegment once deleted
          selected,   \* project.selectedSegmentId
          focus,      \* boundaryFocus: [segment, edge]
          playback,   \* playbackState: [segment, start, end] as scope, and preview
          media,      \* the element: [time, paused, events]
          plays,      \* play() promises: [kind, current, aborted]
          frame,      \* animationFrame is scheduled
          playing,
          deleting,   \* deletingFragmentId and wasSelected
          locked,     \* interactionLocked
          raced,      \* the selection moved to or from a segment while it was deleted
          nudges

shown == <<segments, selected, focus, playback>>
player == <<media, plays, frame, playing>>
editorVars == <<segments, selected, focus, playback, media, plays, frame, playing,
                deleting, locked, raced, nudges>>

Clamp(value, low, high) ==
    IF value < low THEN low ELSE IF value > high THEN high ELSE value
Source == [segment |-> NoSegment, start |-> 0, end |-> SourceLength]
ScopeOf(id) == [segment |-> id, start |-> segments[id].start, end |-> segments[id].end]
Scoped(scope) == [scope |-> scope, preview |-> NoSegment]
Ended == media.time = SourceLength

EditorInit ==
    /\ segments = FirstSpans
    /\ selected = NoSegment /\ focus = NoSegment
    /\ playback = Scoped(Source)
    /\ media = [time |-> 0, paused |-> TRUE, events |-> <<>>]
    /\ plays = {}
    /\ frame = FALSE /\ playing = FALSE
    /\ deleting = NoSegment /\ locked = FALSE /\ raced = FALSE /\ nudges = 0

----------------------------------------------------------------------------
(* The media element.  Each operator gives the element and its promises.    *)

Aborted(promises) == {[p EXCEPT !.aborted = TRUE] : p \in promises}
Overtaken(promises) == {[p EXCEPT !.current = FALSE] : p \in promises}

Paused(element, promises) ==
    IF element.paused THEN [element |-> element, promises |-> promises]
    ELSE [element |-> [element EXCEPT !.paused = TRUE, !.events = Append(@, "pause")],
          promises |-> Aborted(promises)]

Sought(element, time) ==
    [element EXCEPT !.time = Clamp(time, 0, SourceLength), !.events = Append(@, "seeked")]

AtEnd(element) ==
    [element EXCEPT !.time = SourceLength, !.paused = TRUE, !.events = @ \o <<"pause", "ended">>]

\* play() starts a paused element and queues the event; at the end it starts over.
Played(element) ==
    LET from == IF element.time = SourceLength THEN Sought(element, 0) ELSE element
    IN  [from EXCEPT !.paused = FALSE,
                     !.events = IF element.paused THEN Append(@, "play") ELSE @]

StopSampling == frame' = FALSE /\ playing' = FALSE

----------------------------------------------------------------------------
(* playback-controller.ts: a decision is a state and a command.             *)

Command(kind, time) == [kind |-> kind, time |-> time]

SelectDecision(id) ==
    [state |-> Scoped(ScopeOf(id)), command |-> Command("pause-and-seek", segments[id].start)]

ClearDecision(time) ==
    [state |-> Scoped(Source), command |-> Command("pause-and-seek", Clamp(time, 0, SourceLength))]

SeekDecision(time) ==
    [state |-> [playback EXCEPT !.preview = NoSegment],
     command |-> Command(IF playing THEN "seek-and-play" ELSE "pause-and-seek",
                         Clamp(time, playback.scope.start, playback.scope.end))]

PreviewDecision ==
    IF playback.scope.segment = NoSegment
    THEN [state |-> playback, command |-> Command("none", 0)]
    ELSE LET start == Clamp(playback.scope.start - 1, 0, SourceLength)
         IN  [state |-> [playback EXCEPT !.preview =
                           [start |-> start, end |-> Clamp(playback.scope.end + 1, 0, SourceLength)]],
              command |-> Command("seek-and-play", start)]

\* onPlaybackTime: a preview ends at its end, a segment loops.
TimeDecision(running) ==
    LET scope == playback.scope
        go == IF running THEN "seek-and-play" ELSE "pause-and-seek"
    IN  IF playback.preview # NoSegment
        THEN IF media.time >= playback.preview.end
             THEN [state |-> Scoped(scope), command |-> Command("pause-and-seek", scope.start)]
             ELSE [state |-> playback, command |-> Command("none", 0)]
        ELSE [state |-> playback,
              command |->
                 IF scope.segment = NoSegment THEN Command("none", 0)
                 ELSE IF media.time < scope.start THEN Command(go, scope.start)
                 ELSE IF media.time >= scope.end
                      THEN IF running THEN Command(go, scope.start) ELSE Command(go, scope.end)
                 ELSE Command("none", 0)]

\* applyPlaybackDecision up to its await; "seek-and-play" leaves a promise behind.
ApplyDecision(decision) ==
    LET older == Overtaken(plays)
        stopped == Paused(media, older)
        time == decision.command.time
    IN  /\ playback' = decision.state
        /\ CASE decision.command.kind = "none" ->
                   media' = media /\ plays' = older
             [] decision.command.kind = "pause-and-seek" ->
                   /\ media' = Sought(stopped.element, time)
                   /\ plays' = stopped.promises
             [] decision.command.kind = "seek-and-play" ->
                   \/ /\ media' = Played(Sought(media, time))
                      /\ plays' = older \cup {[kind |-> "seek", current |-> TRUE, aborted |-> FALSE]}
                   \/ /\ media.paused
                      /\ media' = Sought(media, time)
                      /\ plays' = older \cup {[kind |-> "seek", current |-> TRUE, aborted |-> TRUE]}

----------------------------------------------------------------------------
(* The user.  The editor is inert while it is locked.                       *)

Acts == ~ locked /\ Len(media.events) < MaxQueue /\ Cardinality(plays) < MaxPromises

Untouched == UNCHANGED <<deleting, locked, raced, nudges>>

\* A click on a segment, the arrow keys through adjacentSegment, or keyboard focus.
SelectSegment(id) ==
    /\ Acts /\ segments[id] # NoSegment
    /\ focus' = NoSegment /\ selected' = id
    /\ ApplyDecision(SelectDecision(id))
    /\ UNCHANGED <<segments, frame, playing>> /\ Untouched

\* Escape and clicks; a click on the native controls leaves the media alone.
ClearSegmentSelection(time, preservePlayback) ==
    /\ Acts
    /\ focus' = NoSegment /\ selected' = NoSegment
    /\ IF preservePlayback
       THEN playback' = ClearDecision(time).state /\ UNCHANGED <<media, plays>>
       ELSE ApplyDecision(ClearDecision(time))
    /\ UNCHANGED <<segments, frame, playing>> /\ Untouched

FocusBoundary(edge) ==
    /\ Acts
    /\ focus' = IF edge = NoSegment \/ selected = NoSegment THEN NoSegment
                ELSE [segment |-> selected, edge |-> edge]
    /\ focus' # focus
    /\ UNCHANGED <<segments, selected, playback>> /\ UNCHANGED player /\ Untouched

Seek(time) ==
    /\ Acts
    /\ ApplyDecision(SeekDecision(time))
    /\ UNCHANGED <<segments, selected, focus, frame, playing>> /\ Untouched

BeginContextPreview ==
    /\ Acts /\ selected # NoSegment
    /\ ApplyDecision(PreviewDecision)
    /\ UNCHANGED <<segments, selected, focus, frame, playing>> /\ Untouched

ValidSpan(span) == span.start < span.end

MutNudgedScope(id, span) == playback

\* A nudge moves the scope with its segment, ends a preview, and commands nothing.
NudgedScope(id, span) == Scoped([segment |-> id, start |-> span.start, end |-> span.end])

NudgeBoundary(delta) ==
    /\ Acts /\ nudges < MaxNudges
    /\ focus # NoSegment /\ segments[focus.segment] # NoSegment
    /\ LET span == segments[focus.segment]
           moved == IF focus.edge = "start"
                    THEN [span EXCEPT !.start = Clamp(@ + delta, 0, SourceLength)]
                    ELSE [span EXCEPT !.end = Clamp(@ + delta, 0, SourceLength)]
       IN  /\ moved # span /\ ValidSpan(moved)
           /\ segments' = [segments EXCEPT ![focus.segment] = moved]
           /\ playback' = NudgedScope(focus.segment, moved)
    /\ nudges' = nudges + 1
    /\ UNCHANGED <<selected, focus, deleting, locked, raced>> /\ UNCHANGED player

TogglePlayback ==
    /\ Acts
    /\ LET older == Overtaken(plays)
           stopped == Paused(media, older)
       IN  IF media.paused
           THEN \/ /\ media' = Played(media)
                   /\ plays' = older \cup {[kind |-> "toggle", current |-> TRUE, aborted |-> FALSE]}
                \/ /\ media' = media
                   /\ plays' = older \cup {[kind |-> "toggle", current |-> TRUE, aborted |-> TRUE]}
           ELSE media' = stopped.element /\ plays' = stopped.promises
    /\ UNCHANGED shown /\ UNCHANGED <<frame, playing>> /\ Untouched

\* The browser's own controls, which the component learns of from the events.
NativeControls ==
    /\ Acts
    /\ \/ /\ media.paused /\ media' = Played(media) /\ UNCHANGED plays
       \/ /\ ~ media.paused
          /\ media' = Paused(media, plays).element /\ plays' = Paused(media, plays).promises
       \/ /\ UNCHANGED plays
          /\ \E time \in 0..(SourceLength - 1) : media' = Sought(media, time)
       \/ /\ ~ media.paused
          /\ media' = AtEnd(Sought(media, SourceLength)) /\ plays' = Aborted(plays)
    /\ UNCHANGED shown /\ UNCHANGED <<frame, playing>> /\ Untouched

RemoveFragment(id) ==
    /\ Acts /\ deleting = NoSegment /\ segments[id] # NoSegment
    /\ deleting' = [segment |-> id, wasSelected |-> (selected = id)]
    /\ UNCHANGED shown /\ UNCHANGED player /\ UNCHANGED <<locked, raced, nudges>>

\* onDeleteFragment succeeded: removeSegment has taken the fragment out of the
\* document, and what is reset was decided before the await.
FragmentRemoved ==
    /\ deleting # NoSegment
    /\ segments' = [segments EXCEPT ![deleting.segment] = NoSegment]
    /\ selected' = IF selected = deleting.segment THEN NoSegment ELSE selected
    /\ raced' = (raced \/ deleting.wasSelected # (selected = deleting.segment))
    /\ IF deleting.wasSelected
       THEN focus' = NoSegment /\ ApplyDecision(ClearDecision(media.time))
       ELSE UNCHANGED <<focus, playback, media, plays>>
    /\ deleting' = NoSegment
    /\ UNCHANGED <<frame, playing, locked, nudges>>

RemovalFails ==
    /\ deleting # NoSegment
    /\ deleting' = NoSegment
    /\ UNCHANGED shown /\ UNCHANGED player /\ UNCHANGED <<locked, raced, nudges>>

\* A save, a close or a switch locks the editor until its requests are answered.
PrepareForSave ==
    /\ ~ locked
    /\ locked' = TRUE
    /\ StopSampling
    /\ media' = Paused(media, plays).element /\ plays' = Paused(media, plays).promises
    /\ UNCHANGED shown /\ UNCHANGED <<deleting, raced, nudges>>

ReleaseAfterSave ==
    /\ locked
    /\ locked' = FALSE
    /\ UNCHANGED shown /\ UNCHANGED player /\ UNCHANGED <<deleting, raced, nudges>>

----------------------------------------------------------------------------
(* The browser. *)

\* The media plays on; at its end it pauses itself.
Tick ==
    /\ ~ media.paused /\ ~ Ended /\ Len(media.events) < MaxQueue
    /\ IF media.time + 1 < SourceLength
       THEN media' = [media EXCEPT !.time = @ + 1] /\ UNCHANGED plays
       ELSE media' = AtEnd(media) /\ plays' = Aborted(plays)
    /\ UNCHANGED shown /\ UNCHANGED <<frame, playing>> /\ Untouched

\* samplePlayback, once per animation frame.
SamplePlayback ==
    /\ frame
    /\ LET decision == TimeDecision(TRUE)
       IN  IF media.paused \/ Ended
           THEN StopSampling /\ UNCHANGED <<playback, media, plays>>
           ELSE IF decision.command.kind # "none"
           THEN frame' = FALSE /\ UNCHANGED playing /\ ApplyDecision(decision)
           ELSE UNCHANGED <<frame, playing, playback, media, plays>>
    /\ UNCHANGED <<segments, selected, focus>> /\ Untouched

EventHandled == [media EXCEPT !.events = Tail(@)]

ScheduleSampling(element) ==
    IF element.paused \/ Ended THEN UNCHANGED <<frame, playing>>
    ELSE frame' = TRUE /\ playing' = TRUE

HandlePlay ==
    IF locked
    THEN /\ media' = Paused(EventHandled, plays).element /\ plays' = Paused(EventHandled, plays).promises
         /\ UNCHANGED <<frame, playing>>
    ELSE media' = EventHandled /\ UNCHANGED plays /\ ScheduleSampling(media)

HandlePause ==
    /\ playback' = IF Ended THEN playback ELSE [playback EXCEPT !.preview = NoSegment]
    /\ StopSampling
    /\ media' = EventHandled /\ UNCHANGED plays

\* handleSeeked and handleEnded consult the controller, which may command again.
Decided(decision) ==
    LET older == Overtaken(plays)
        stopped == Paused(EventHandled, older)
    IN  /\ playback' = decision.state
        /\ IF decision.command.kind = "seek-and-play"
           THEN /\ media' = Played(Sought(EventHandled, decision.command.time))
                /\ plays' = older \cup {[kind |-> "seek", current |-> TRUE, aborted |-> FALSE]}
           ELSE /\ media' = Sought(stopped.element, decision.command.time)
                /\ plays' = stopped.promises

HandleSeeked ==
    LET decision == TimeDecision(~ media.paused)
    IN  /\ IF decision.command.kind = "none" \/ decision.command.time = media.time
           THEN media' = EventHandled /\ UNCHANGED <<playback, plays>>
           ELSE Decided(decision)
        /\ UNCHANGED <<frame, playing>>

HandleEnded ==
    LET decision == TimeDecision(TRUE)
    IN  /\ StopSampling
        /\ IF decision.command.kind = "none"
           THEN /\ playback' = IF Ended THEN playback ELSE [playback EXCEPT !.preview = NoSegment]
                /\ media' = EventHandled /\ UNCHANGED plays
           ELSE Decided(decision)

HandleEvent ==
    /\ media.events # <<>>
    /\ CASE Head(media.events) = "play" -> HandlePlay /\ UNCHANGED playback
         [] Head(media.events) = "pause" -> HandlePause
         [] Head(media.events) = "seeked" -> HandleSeeked
         [] Head(media.events) = "ended" -> HandleEnded
    /\ UNCHANGED <<segments, selected, focus>> /\ Untouched

\* commandSequence: a command that another has overtaken does nothing more.
Current(promise) == promise.current

PlaySettles ==
    /\ \E promise \in plays :
        /\ plays' = plays \ {promise}
        /\ IF ~ Current(promise) \/ (promise.kind = "toggle" /\ ~ promise.aborted)
           THEN UNCHANGED <<playback, media, frame, playing>>
           ELSE IF ~ promise.aborted
           THEN ScheduleSampling(media) /\ UNCHANGED <<playback, media>>
           ELSE /\ playback' = [playback EXCEPT !.preview = NoSegment]
                /\ media' = IF promise.kind = "seek" THEN Paused(media, plays).element ELSE media
                /\ UNCHANGED <<frame, playing>>
    /\ UNCHANGED <<segments, selected, focus>> /\ Untouched

----------------------------------------------------------------------------
EditorNext ==
    \/ \E id \in Segments : SelectSegment(id) \/ RemoveFragment(id)
    \/ \E time \in 0..SourceLength, native \in BOOLEAN : ClearSegmentSelection(time, native)
    \/ \E edge \in {"start", "end", NoSegment} : FocusBoundary(edge)
    \/ \E time \in (-1)..(SourceLength + 1) : Seek(time)
    \/ \E delta \in {-1, 1} : NudgeBoundary(delta)
    \/ BeginContextPreview \/ TogglePlayback \/ NativeControls
    \/ FragmentRemoved \/ RemovalFails \/ PrepareForSave \/ ReleaseAfterSave
    \/ Tick \/ SamplePlayback \/ HandleEvent \/ PlaySettles

EditorSpec == EditorInit /\ [][EditorNext]_editorVars

----------------------------------------------------------------------------
\* What plays is what is selected: the scope is the span of the selected segment,
\* as its boundaries are now, or the whole source; except after a deletion during
\* which the selection moved to or away from the deleted segment, because
\* removeFragment remembers wasSelected across its await.
ScopeFollowsSelection ==
    ~ raced =>
        playback.scope = IF selected = NoSegment THEN Source ELSE ScopeOf(selected)

\* A playing video is watched: once the media's events and the promises of the
\* latest command are handled, an animation frame is scheduled, so the loop of a
\* segment and the recorded position cannot silently stop.
PlayingIsSampled ==
    ~ media.paused /\ ~ Ended /\ media.events = <<>> /\ plays = {} /\ ~ locked => frame

\* What plays is what the editor shows, and it goes on being watched.
PlaybackIsTrue == ScopeFollowsSelection /\ PlayingIsSampled
=============================================================================
