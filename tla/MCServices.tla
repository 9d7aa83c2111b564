---------------------------- MODULE MCServices ----------------------------
(***************************************************************************)
(* The components that run alone, in one run.  Of the server: the JSON store, *)
(* its project documents, its job queue, the feed of its jobs and the exchange *)
(* of its thumbnails; the thumbnails, the workspace and the previews of the     *)
(* catalog in PostgreSQL; the replay of its events; the rule on fragment times.  *)
(* Of the browser: playback in the editor, the edits of its timeline and what     *)
(* the timeline shows.                                                            *)
(* They share no variables, so `part` picks one of them and the others rest.    *)
(***************************************************************************)
EXTENDS ManagedStore, JobQueue, JobFeed, VideoThumbnails, VideoWorkspace, FragmentTiming,
        ProjectDocuments, ThumbnailSwap, FragmentPreviews, EventReplay,
        EditorPlayback, TimelineEdits, TimelineView, TLC

CONSTANTS t1, i1, f1, f2, f3, f4

VARIABLE part

\* The calls that delete a project are alike, and so are the processes that render
\* thumbnails or previews (Renderers are the same model values).
Alike == Permutations(Deleters) \cup Permutations(Generators)

\* Boundaries one tick outside the video on either side.
TimesAround == -1..4

\* Two shapes that overlap, one of them tagged, and two that no project takes.
TwoOverOne ==
    {[start |-> 0, end |-> 2, tags |-> {}], [start |-> 1, end |-> 3, tags |-> {t1}],
     [start |-> 2, end |-> 4, tags |-> {}], [start |-> 1, end |-> 1, tags |-> {}]}

\* Two segments that touch: one may be passed at its end, one at its start.
Touching == [id \in Segments |-> IF id = f1 THEN [start |-> 0, end |-> 1] ELSE [start |-> 1, end |-> 2]]

\* A segment to the side of a half view, and one that is longer than it.
SideAndWhole == {[start |-> 2, end |-> 3], [start |-> 0, end |-> 4]}

\* The view of the parts other than the timeline's, which do not look at it.
TheView ==
    <<[zoom |-> 1, offset |-> 0], 0, 0, [id \in Selectable |-> [start |-> 0, end |-> 4]], Unselected,
      Unselected, FALSE, Blank, Blank, {}, Blank, FALSE, [zoom |-> 1, offset |-> 0]>>

\* A list that was rejected is checked and not extended further; of ids only their
\* equality matters, so lists are extended that have them in one order.
OneOrder == <<f1, f2, f3, f4>>
AcceptedSoFar ==
    /\ ValidateFragmentSet(fragments)
    /\ \A n \in DOMAIN fragments : fragments[n].id = OneOrder[n]

ServicesInit ==
    /\ part \in {"store", "queue", "feed", "thumbnails", "workspace", "timing", "documents", "swap",
               "previews", "replay", "view", "editor", "timeline"}
    /\ StoreInit /\ QueueInit /\ FeedInit /\ ThumbnailInit /\ WorkspaceInit /\ Init
    /\ DocumentInit /\ SwapInit /\ PreviewInit /\ ReplayInit /\ TimelineViewInit
    /\ EditorInit /\ TimelineInit
    /\ part # "swap" => wish = i1
    /\ part # "view" => viewVars = TheView

ServicesNext ==
    /\ UNCHANGED part
    /\ \/ /\ part = "store" /\ StoreNext
          /\ UNCHANGED <<queueVars, feedVars, thumbnailVars, workspaceVars, fragments,
                        documentVars, swapVars, previewVars, replayVars, editorVars, timelineVars, viewVars>>
       \/ /\ part = "queue" /\ QueueNext
          /\ UNCHANGED <<storeVars, feedVars, thumbnailVars, workspaceVars, fragments,
                        documentVars, swapVars, previewVars, replayVars, editorVars, timelineVars, viewVars>>
       \/ /\ part = "feed" /\ FeedNext
          /\ UNCHANGED <<storeVars, queueVars, thumbnailVars, workspaceVars, fragments,
                        documentVars, swapVars, previewVars, replayVars, editorVars, timelineVars, viewVars>>
       \/ /\ part = "thumbnails" /\ ThumbnailNext
          /\ UNCHANGED <<storeVars, queueVars, feedVars, workspaceVars, fragments,
                        documentVars, swapVars, previewVars, replayVars, editorVars, timelineVars, viewVars>>
       \/ /\ part = "workspace" /\ WorkspaceNext
          /\ UNCHANGED <<storeVars, queueVars, feedVars, thumbnailVars, fragments,
                        documentVars, swapVars, previewVars, replayVars, editorVars, timelineVars, viewVars>>
       \/ /\ part = "timing" /\ Next
          /\ UNCHANGED <<storeVars, queueVars, feedVars, thumbnailVars, workspaceVars,
                        documentVars, swapVars, previewVars, replayVars, editorVars, timelineVars, viewVars>>
       \/ /\ part = "documents" /\ DocumentNext
          /\ UNCHANGED <<storeVars, queueVars, feedVars, thumbnailVars, workspaceVars,
                        fragments, swapVars, previewVars, replayVars, editorVars, timelineVars, viewVars>>
       \/ /\ part = "swap" /\ SwapNext
          /\ UNCHANGED <<storeVars, queueVars, feedVars, thumbnailVars, workspaceVars,
                        fragments, documentVars, previewVars, replayVars, editorVars, timelineVars, viewVars>>
       \/ /\ part = "previews" /\ PreviewNext
          /\ UNCHANGED <<storeVars, queueVars, feedVars, thumbnailVars, workspaceVars,
                        fragments, documentVars, swapVars, replayVars, editorVars, timelineVars, viewVars>>
       \/ /\ part = "replay" /\ ReplayNext
          /\ UNCHANGED <<storeVars, queueVars, feedVars, thumbnailVars, workspaceVars,
                        fragments, documentVars, swapVars, previewVars, editorVars,
                        timelineVars, viewVars>>
       \/ /\ part = "editor" /\ EditorNext
          /\ UNCHANGED <<storeVars, queueVars, feedVars, thumbnailVars, workspaceVars,
                        fragments, documentVars, swapVars, previewVars, replayVars, timelineVars, viewVars>>
       \/ /\ part = "timeline" /\ TimelineNext
          /\ UNCHANGED <<storeVars, queueVars, feedVars, thumbnailVars, workspaceVars,
                        fragments, documentVars, swapVars, previewVars, replayVars, editorVars, viewVars>>
       \/ /\ part = "view" /\ TimelineViewNext
          /\ UNCHANGED <<storeVars, queueVars, feedVars, thumbnailVars, workspaceVars,
                        fragments, documentVars, swapVars, previewVars, replayVars, editorVars, timelineVars>>

servicesVars == <<part, storeVars, queueVars, feedVars, thumbnailVars, workspaceVars, fragments,
                  documentVars, swapVars, previewVars, replayVars, editorVars, timelineVars, viewVars>>

ServicesSpec == ServicesInit /\ [][ServicesNext]_servicesVars
=============================================================================
