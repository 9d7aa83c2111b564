---------------------------- MODULE BackgroundPolling ----------------------------
(***************************************************************************)
(* BackgroundProcessing of app/background-processing.svelte.ts, as           *)
(* app-model.svelte.ts wires it: workspace polls that go on while something  *)
(* is being processed, and the thumbnail manifest of the active video, which *)
(* is asked for again on every workspace that is applied.                    *)
(***************************************************************************)
EXTENDS Naturals, FiniteSets

CONSTANTS Tabs,             \* the open videos, one of them active
          NoKey,            \* no request for the manifest stands
          NoReply,          \* no call, no poll under way
          Sent,             \* a poll that the server has not answered
          MaxActivations,   \* bound on the user's calls
          MaxRetries,       \* bound on the clicks on Retry
          MaxHiccups        \* bound on requests that fail and images that do not load

VARIABLES catalog,     \* the server: [active, busy, thumbnails]
          seen,        \* the workspace that is shown: [active, busy]
          manifests,   \* thumbnailManifests: which videos have one
          errors,      \* thumbnailLoadErrors
          keys,        \* thumbnailRequestKeys
          asking,      \* manifest requests: [video, key]
          pollTimer,
          polled,      \* pollInFlight and its answer: NoReply, Sent or [active, busy]
          reply,       \* the user's call: NoReply or the workspace it answers
          missed,      \* a poll that ended the polling has changed the active video
          tally        \* what the bounds have allowed so far

backgroundVars == <<catalog, seen, manifests, errors, keys, asking, pollTimer, polled,
                    reply, missed, tally>>

Snapshot == [active |-> catalog.active, busy |-> catalog.busy]

BackgroundInit ==
    /\ \E active \in Tabs :
        catalog = [active |-> active, busy |-> TRUE, thumbnails |-> [v \in Tabs |-> "none"]]
    /\ seen = Snapshot
    /\ manifests = [v \in Tabs |-> FALSE] /\ errors = [v \in Tabs |-> FALSE]
    /\ keys = [v \in Tabs |-> NoKey] /\ asking = {}
    /\ pollTimer = TRUE /\ polled = NoReply /\ reply = NoReply
    /\ missed = FALSE
    /\ tally = [activations |-> 0, retries |-> 0, hiccups |-> 0]

Hiccup ==
    /\ tally.hiccups < MaxHiccups
    /\ tally' = [tally EXCEPT !.hiccups = @ + 1]

\* thumbnailStateFor; no job list is kept, so a job's failure comes as an error.
ThumbnailState(v) ==
    IF manifests[v] THEN "ready" ELSE IF errors[v] THEN "failed" ELSE "generating"

\* refreshThumbnailManifest: a request with the key of the one before is not sent.
\* The key is 0 ("no-job") for a workspace and a number of its own for each retry.
RequestThumbnails(v, key) ==
    /\ keys' = [keys EXCEPT ![v] = key]
    /\ asking' = IF keys[v] = key THEN asking ELSE asking \cup {[video |-> v, key |-> key]}

\* applyWorkspace and its callback: ask for the manifest, then start(), whose
\* schedulePoll does nothing while a poll is in flight.
Apply(workspace) ==
    /\ seen' = workspace
    /\ RequestThumbnails(workspace.active, 0)

ReplyArrives ==
    /\ reply # NoReply
    /\ Apply(reply)
    /\ pollTimer' = (pollTimer \/ polled = NoReply)
    /\ reply' = NoReply
    /\ UNCHANGED <<catalog, manifests, errors, polled, missed, tally>>

----------------------------------------------------------------------------
(* Polls. *)

PollFires ==
    /\ pollTimer
    /\ pollTimer' = FALSE /\ polled' = Sent
    /\ UNCHANGED <<catalog, seen, manifests, errors, keys, asking, reply, missed, tally>>

PollAnswered ==
    /\ polled = Sent
    /\ polled' = Snapshot
    /\ UNCHANGED <<catalog, seen, manifests, errors, keys, asking, pollTimer, reply, missed, tally>>

\* A poll that fails is followed by another.
PollFails ==
    /\ polled = Sent /\ Hiccup
    /\ polled' = NoReply /\ pollTimer' = TRUE
    /\ UNCHANGED <<catalog, seen, manifests, errors, keys, asking, reply, missed>>

MutProcessing(workspace) == workspace.busy

\* Decided before the workspace is applied, of the video that was active until then.
Processing(workspace) == workspace.busy \/ ~ manifests[seen.active]

WorkspacePolled ==
    /\ polled \notin {NoReply, Sent}
    /\ Apply(polled)
    /\ pollTimer' = Processing(polled)
    /\ missed' = (missed \/ (polled.active # seen.active /\ ~ Processing(polled)))
    /\ polled' = NoReply
    /\ UNCHANGED <<catalog, manifests, errors, reply, tally>>

----------------------------------------------------------------------------
(* The manifests. *)

\* 200, 404 with the state failed, or 404: only the last lets the next workspace ask again.
ManifestAnswered(r) ==
    /\ r \in asking
    /\ asking' = asking \ {r}
    /\ IF keys[r.video] # r.key
       THEN UNCHANGED <<manifests, errors, keys>>
       ELSE LET answer == catalog.thumbnails[r.video]
            IN  /\ manifests' = [manifests EXCEPT ![r.video] = (answer = "ready")]
                /\ errors' = [errors EXCEPT ![r.video] =
                                IF answer = "none" THEN @ ELSE answer = "failed"]
                /\ keys' = IF answer = "none" THEN [keys EXCEPT ![r.video] = NoKey] ELSE keys
    /\ UNCHANGED <<catalog, seen, pollTimer, polled, reply, missed, tally>>

ManifestFails(r) ==
    /\ r \in asking /\ Hiccup
    /\ asking' = asking \ {r}
    /\ IF keys[r.video] # r.key
       THEN UNCHANGED <<manifests, errors>>
       ELSE /\ manifests' = [manifests EXCEPT ![r.video] = FALSE]
            /\ errors' = [errors EXCEPT ![r.video] = TRUE]
    /\ UNCHANGED <<catalog, seen, keys, pollTimer, polled, reply, missed>>

\* The button is there while the state is failed; each click has its own key.
RetryThumbnails ==
    /\ ThumbnailState(seen.active) = "failed" /\ tally.retries < MaxRetries
    /\ tally' = [tally EXCEPT !.retries = @ + 1]
    /\ errors' = [errors EXCEPT ![seen.active] = FALSE]
    /\ RequestThumbnails(seen.active, tally'.retries)
    /\ UNCHANGED <<catalog, seen, manifests, pollTimer, polled, reply, missed>>

\* A page of the bundle does not load in the timeline.
ThumbnailPageLoadFailed ==
    /\ manifests[seen.active] /\ Hiccup
    /\ manifests' = [manifests EXCEPT ![seen.active] = FALSE]
    /\ errors' = [errors EXCEPT ![seen.active] = TRUE]
    /\ UNCHANGED <<catalog, seen, keys, asking, pollTimer, polled, reply, missed>>

----------------------------------------------------------------------------
(* The server. *)

\* Another video is activated, or a library video goes into processing (an import,
\* a deletion); the call's answer may be lost.
Act ==
    /\ reply = NoReply /\ tally.activations < MaxActivations
    /\ tally' = [tally EXCEPT !.activations = @ + 1]
    /\ \/ \E v \in Tabs : catalog' = [catalog EXCEPT !.active = v]
       \/ catalog' = [catalog EXCEPT !.busy = TRUE]
    /\ reply' \in {NoReply, [active |-> catalog'.active, busy |-> catalog'.busy]}
    /\ UNCHANGED <<seen, manifests, errors, keys, asking, pollTimer, polled, missed>>

\* The workers end what they had to do: videos are inspected or deleted ...
VideosProcessed ==
    /\ catalog.busy /\ catalog' = [catalog EXCEPT !.busy = FALSE]
    /\ UNCHANGED <<seen, manifests, errors, keys, asking, pollTimer, polled, reply, missed, tally>>

\* ... and thumbnails are rendered, or given up.
ThumbnailsProcessed ==
    /\ \E v \in Tabs, result \in {"ready", "failed"} :
         /\ catalog.thumbnails[v] = "none"
         /\ catalog' = [catalog EXCEPT !.thumbnails = [@ EXCEPT ![v] = result]]
    /\ UNCHANGED <<seen, manifests, errors, keys, asking, pollTimer, polled, reply, missed, tally>>

----------------------------------------------------------------------------
BackgroundNext ==
    \/ ReplyArrives \/ PollFires \/ PollAnswered \/ PollFails \/ WorkspacePolled
    \/ \E r \in asking : ManifestAnswered(r) \/ ManifestFails(r)
    \/ RetryThumbnails \/ ThumbnailPageLoadFailed
    \/ Act \/ VideosProcessed \/ ThumbnailsProcessed

\* The browser runs its timers, and requests are answered or fail.
BackgroundFairness ==
    /\ WF_backgroundVars(ReplyArrives)
    /\ WF_backgroundVars(PollFires)
    /\ WF_backgroundVars(PollAnswered \/ PollFails)
    /\ WF_backgroundVars(WorkspacePolled)
    /\ WF_backgroundVars(\E r \in asking : ManifestAnswered(r) \/ ManifestFails(r))

BackgroundSpec == BackgroundInit /\ [][BackgroundNext]_backgroundVars /\ BackgroundFairness

\* "Thumbnails..." is not for ever: once the service has thumbnails for the video that
\* is shown, or has given up on them, the timeline says so or another video is shown,
\* except after a poll that was the last one changed the active video: whether to poll
\* again is decided of the video that was active before.
GeneratingEnds ==
    \A v \in Tabs :
        (seen.active = v /\ ThumbnailState(v) = "generating" /\ catalog.thumbnails[v] # "none")
            ~> (seen.active # v \/ ThumbnailState(v) # "generating" \/ missed)
=============================================================================
