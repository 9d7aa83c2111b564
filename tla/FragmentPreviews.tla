---------------------------- MODULE FragmentPreviews ----------------------------
(***************************************************************************)
(* The preview picture of one fragment: its row, the asset and the file of   *)
(* each revision, the worker that renders one (generate-preview.ts), the jobs *)
(* that delete assets, and what edits, the purge and the deletion of the      *)
(* video do to them.  The jobs that ask for a preview were sent by earlier    *)
(* releases; the service keeps the row and the worker still takes the jobs.   *)
(***************************************************************************)
EXTENDS Naturals, FiniteSets

CONSTANTS Renderers,       \* attempts of the worker that can run at once
          MaxRevisions,    \* bound on the revisions of the fragment
          MaxTries,        \* retryLimit + 1
          MaxFlaws         \* bound on failing calls, deaths and expired jobs

ASSUME RevisionsAssumption == MaxRevisions \in Nat \ {0} /\ MaxTries \in Nat

VARIABLES owner,       \* the video: "live", "deleting" or "gone"
          fragment,    \* [state, revision, timed]: timed is the last revision with a new span
          preview,     \* fragment_previews: [status, revision, asset], revision 0 for no row
          assets,      \* assets[r]: the row with the key of revision r: "none", "ready", "deleting"
          files,       \* files[r]: "none", "empty" (reserved) or "whole"
          tries,       \* tries[r]: attempts left of the job for revision r
          renders,     \* [at, revision, last]
          assetJobs,   \* assetJobs[r]: asset.delete, "none", "queued" or "unlinked"
          videoJob,    \* video.delete: [at, listed]
          doubled,     \* a job has been given out while an attempt of it was running
          unsure,      \* a commit took effect and was answered with an error
          spilled,     \* revisions whose attempt ended, after it published, without its clean-up
          flaws

previewVars == <<owner, fragment, preview, assets, files, tries, renders, assetJobs,
                 videoJob, doubled, unsure, spilled, flaws>>

Revisions == 1..MaxRevisions
NoPreview == [status |-> "none", revision |-> 0, asset |-> 0]
NoRender == [at |-> "idle", revision |-> 0, last |-> FALSE]

PreviewInit ==
    /\ owner = "live"
    /\ fragment = [state |-> "live", revision |-> 1, timed |-> 1]
    /\ preview = [status |-> "pending", revision |-> 1, asset |-> 0]
    /\ assets = [r \in Revisions |-> "none"] /\ files = [r \in Revisions |-> "none"]
    /\ tries = [r \in Revisions |-> IF r = 1 THEN MaxTries ELSE 0]
    /\ renders = [a \in Renderers |-> NoRender]
    /\ assetJobs = [r \in Revisions |-> "none"]
    /\ videoJob = [at |-> "none", listed |-> {}]
    /\ doubled = FALSE /\ unsure = FALSE /\ spilled = {} /\ flaws = 0

Flaw == flaws < MaxFlaws /\ flaws' = flaws + 1

RenderAt(a, at) == renders[a].at = at
RenderGoes(a, at) == renders' = [renders EXCEPT ![a].at = at]
History == UNCHANGED <<doubled, unsure, spilled>>

----------------------------------------------------------------------------
(* Users. *)

\* The asset of the row: marked, and its job sent, in the same transaction.
QueueAssetDeletion ==
    IF preview.asset = 0 THEN UNCHANGED <<assets, assetJobs>>
    ELSE /\ assets' = [assets EXCEPT ![preview.asset] = "deleting"]
         /\ assetJobs' = [assetJobs EXCEPT ![preview.asset] = "queued"]

\* upsertPendingPreview.
RequestPreview(revision) ==
    /\ preview' = [status |-> "pending", revision |-> revision, asset |-> 0]
    /\ tries' = [tries EXCEPT ![revision] = MaxTries]
    /\ QueueAssetDeletion

\* Every edit has a revision of its own; a new span makes the row a request again.
EditFragment(newSpan) ==
    /\ owner # "gone" /\ fragment.state = "live" /\ fragment.revision < MaxRevisions
    /\ LET revision == fragment.revision + 1
       IN  /\ fragment' = [fragment EXCEPT !.revision = revision,
                                           !.timed = IF newSpan THEN revision ELSE @]
           /\ IF newSpan
              THEN RequestPreview(revision)
              ELSE UNCHANGED <<preview, tries, assets, assetJobs>>
    /\ UNCHANGED <<owner, files, renders, videoJob, flaws>> /\ History

SoftDelete ==
    /\ owner # "gone" /\ fragment.state = "live"
    /\ fragment' = [fragment EXCEPT !.state = "deleted"]
    /\ UNCHANGED <<owner, preview, assets, files, tries, renders, assetJobs, videoJob, flaws>>
    /\ History

\* A new revision, without a new request for the preview.
UndoDelete ==
    /\ fragment.state = "deleted" /\ fragment.revision < MaxRevisions
    /\ fragment' = [fragment EXCEPT !.state = "live", !.revision = @ + 1]
    /\ UNCHANGED <<owner, preview, assets, files, tries, renders, assetJobs, videoJob, flaws>>
    /\ History

\* The row of the preview goes with the fragment.
PurgeFragment ==
    /\ fragment.state = "deleted"
    /\ QueueAssetDeletion
    /\ fragment' = [fragment EXCEPT !.state = "gone"] /\ preview' = NoPreview
    /\ UNCHANGED <<owner, files, tries, renders, videoJob, flaws>> /\ History

RequestDeletion ==
    /\ owner = "live"
    /\ owner' = "deleting" /\ videoJob' = [videoJob EXCEPT !.at = "queued"]
    /\ UNCHANGED <<fragment, preview, assets, files, tries, renders, assetJobs, flaws>> /\ History

----------------------------------------------------------------------------
(* generate-preview. *)

Served(r) == tries' = [tries EXCEPT ![r] = 0]
Ends(a) == renders' = [renders EXCEPT ![a] = NoRender]

\* pg-boss gives a job out again when its attempt is taken to have expired.
TakePreviewJob(a, r) ==
    /\ RenderAt(a, "idle") /\ tries[r] > 0
    /\ IF \E other \in Renderers : ~ RenderAt(other, "idle") /\ renders[other].revision = r
       THEN Flaw /\ doubled' = TRUE
       ELSE UNCHANGED <<flaws, doubled>>
    /\ tries' = [tries EXCEPT ![r] = @ - 1]
    /\ renders' = [renders EXCEPT ![a] = [at |-> "read", revision |-> r, last |-> tries'[r] = 0]]
    /\ UNCHANGED <<owner, fragment, preview, assets, files, assetJobs, videoJob, unsure, spilled>>

Wanted(r) == owner = "live" /\ fragment.state = "live" /\ fragment.revision = r

\* The fragment and its preview, as they are read first.
ReadRequest(a) ==
    /\ RenderAt(a, "read")
    /\ LET r == renders[a].revision
       IN  IF Wanted(r) /\ ~ (preview.revision = r /\ preview.status = "ready")
           THEN RenderGoes(a, "claim") /\ UNCHANGED tries
           ELSE Ends(a) /\ Served(r)
    /\ UNCHANGED <<owner, fragment, preview, assets, files, assetJobs, videoJob, flaws>> /\ History

Claim(a) ==
    /\ RenderAt(a, "claim")
    /\ LET r == renders[a].revision
       IN  IF preview.revision = r /\ preview.status \in {"pending", "failed"}
           THEN /\ preview' = [preview EXCEPT !.status = "pending"]
                /\ RenderGoes(a, "publish") /\ UNCHANGED tries
           ELSE Ends(a) /\ Served(r) /\ UNCHANGED preview
    /\ UNCHANGED <<owner, fragment, assets, files, assetJobs, videoJob, flaws>> /\ History

\* The render, and publishOrReconcile: a file that is there already is taken for this
\* one when it is the same; a reserved one is not.
PublishPreview(a) ==
    /\ RenderAt(a, "publish")
    /\ LET r == renders[a].revision
       IN  IF files[r] = "empty"
           THEN RenderGoes(a, "failed") /\ UNCHANGED files
           ELSE RenderGoes(a, "commit") /\ files' = [files EXCEPT ![r] = "whole"]
    /\ UNCHANGED <<owner, fragment, preview, assets, tries, assetJobs, videoJob, flaws>> /\ History

MutStillCurrent(r) == owner = "live" /\ fragment.state = "live"

\* Decided again under the locks of the fragment and of the video.
StillCurrent(r) == Wanted(r)

\* The key of an asset is unique: a second asset of a revision does not go in.
CommitPreview(a) ==
    /\ RenderAt(a, "commit")
    /\ LET r == renders[a].revision
       IN  IF ~ StillCurrent(r)
           THEN RenderGoes(a, "drop") /\ UNCHANGED <<preview, assets, tries>>
           ELSE IF assets[r] # "none"
           THEN RenderGoes(a, "failed") /\ UNCHANGED <<preview, assets, tries>>
           ELSE /\ assets' = [assets EXCEPT ![r] = "ready"]
                /\ preview' = [preview EXCEPT !.status = "ready", !.asset = r]
                /\ Ends(a) /\ Served(r)
    /\ UNCHANGED <<owner, fragment, files, assetJobs, videoJob, flaws>> /\ History

\* The file of a revision that is past.
DropPreview(a) ==
    /\ RenderAt(a, "drop")
    /\ LET r == renders[a].revision
       IN  files' = [files EXCEPT ![r] = "none"] /\ Ends(a) /\ Served(r)
    /\ UNCHANGED <<owner, fragment, preview, assets, assetJobs, videoJob, flaws>> /\ History

\* The transaction is answered with an error, with or without effect; or rendering,
\* publishing or the removal fails.
RenderFails(a) ==
    /\ renders[a].at \in {"read", "claim", "publish", "commit", "drop"} /\ Flaw
    /\ LET r == renders[a].revision
       IN  /\ spilled' = IF RenderAt(a, "commit") \/ RenderAt(a, "drop") THEN spilled \cup {r} ELSE spilled
           /\ \/ UNCHANGED <<preview, assets, unsure>>
              \/ /\ RenderAt(a, "commit") /\ StillCurrent(r) /\ assets[r] = "none"
                 /\ assets' = [assets EXCEPT ![r] = "ready"]
                 /\ preview' = [preview EXCEPT !.status = "ready", !.asset = r]
                 /\ unsure' = TRUE
    /\ RenderGoes(a, IF renders[a].at \in {"read", "claim"} THEN "gone" ELSE "failed")
    /\ UNCHANGED <<owner, fragment, files, tries, assetJobs, videoJob, doubled>>

\* markPreviewFailed on the last attempt: of the revision, whatever the status.
\* A failure before the claim is outside the try.
MarkPreviewFailed(a) ==
    /\ renders[a].at \in {"failed", "gone"}
    /\ LET r == renders[a].revision
       IN  preview' = IF /\ RenderAt(a, "failed") /\ renders[a].last
                         /\ preview.revision = r /\ fragment.revision = r /\ fragment.state = "live"
                      THEN [preview EXCEPT !.status = "failed"] ELSE preview
    /\ Ends(a)
    /\ UNCHANGED <<owner, fragment, assets, files, tries, assetJobs, videoJob, flaws>> /\ History

\* Between the reservation and the rename a death leaves an empty file.
RenderDies(a) ==
    /\ ~ RenderAt(a, "idle") /\ Flaw
    /\ LET r == renders[a].revision
       IN  /\ IF RenderAt(a, "publish") /\ files[r] = "none"
              THEN \E left \in {"none", "empty"} : files' = [files EXCEPT ![r] = left]
              ELSE UNCHANGED files
           /\ spilled' = IF renders[a].at \in {"publish", "commit", "drop"} THEN spilled \cup {r} ELSE spilled
    /\ Ends(a)
    /\ UNCHANGED <<owner, fragment, preview, assets, tries, assetJobs, videoJob, doubled, unsure>>

----------------------------------------------------------------------------
(* asset.delete and video.delete. *)

\* A job that finds its asset gone, or alive, does nothing.
DeleteAssetFile(r) ==
    /\ assetJobs[r] = "queued"
    /\ IF assets[r] = "deleting"
       THEN /\ files' = [files EXCEPT ![r] = "none"]
            /\ assetJobs' = [assetJobs EXCEPT ![r] = "unlinked"]
       ELSE UNCHANGED files /\ assetJobs' = [assetJobs EXCEPT ![r] = "none"]
    /\ UNCHANGED <<owner, fragment, preview, assets, tries, renders, videoJob, flaws>> /\ History

DeleteAssetRow(r) ==
    /\ assetJobs[r] = "unlinked"
    /\ assets' = [assets EXCEPT ![r] = "none"] /\ assetJobs' = [assetJobs EXCEPT ![r] = "none"]
    /\ UNCHANGED <<owner, fragment, preview, files, tries, renders, videoJob, flaws>> /\ History

AssetJobFails(r) ==
    /\ assetJobs[r] = "unlinked" /\ Flaw
    /\ assetJobs' = [assetJobs EXCEPT ![r] = "queued"]
    /\ UNCHANGED <<owner, fragment, preview, assets, files, tries, renders, videoJob>> /\ History

\* The assets of a fragment that is purged are left to their own jobs.
UnlinkListed ==
    /\ videoJob.at = "queued"
    /\ LET listed == IF fragment.state = "gone" THEN {} ELSE {r \in Revisions : assets[r] # "none"}
       IN  /\ videoJob' = [at |-> "unlinked", listed |-> listed]
           /\ files' = [r \in Revisions |-> IF r \in listed THEN "none" ELSE files[r]]
    /\ UNCHANGED <<owner, fragment, preview, assets, tries, renders, assetJobs, flaws>> /\ History

DeleteRows ==
    /\ videoJob.at = "unlinked"
    /\ owner' = "gone" /\ videoJob' = [at |-> "done", listed |-> {}]
    /\ fragment' = [fragment EXCEPT !.state = "gone"] /\ preview' = NoPreview
    /\ assets' = [r \in Revisions |-> IF r \in videoJob.listed THEN "none" ELSE assets[r]]
    /\ UNCHANGED <<files, tries, renders, assetJobs, flaws>> /\ History

VideoJobFails ==
    /\ videoJob.at = "unlinked" /\ Flaw
    /\ videoJob' = [at |-> "queued", listed |-> {}]
    /\ UNCHANGED <<owner, fragment, preview, assets, files, tries, renders, assetJobs>> /\ History

----------------------------------------------------------------------------
PreviewNext ==
    \/ \E newSpan \in BOOLEAN : EditFragment(newSpan)
    \/ SoftDelete \/ UndoDelete \/ PurgeFragment \/ RequestDeletion
    \/ \E a \in Renderers :
        \/ \E r \in Revisions : TakePreviewJob(a, r)
        \/ ReadRequest(a) \/ Claim(a) \/ PublishPreview(a) \/ CommitPreview(a) \/ DropPreview(a)
        \/ RenderFails(a) \/ MarkPreviewFailed(a) \/ RenderDies(a)
    \/ \E r \in Revisions : DeleteAssetFile(r) \/ DeleteAssetRow(r) \/ AssetJobFails(r)
    \/ UnlinkListed \/ DeleteRows \/ VideoJobFails

PreviewSpec == PreviewInit /\ [][PreviewNext]_previewVars

----------------------------------------------------------------------------
\* GET /api/assets/:id serves the asset of revision r.
Shown(r) ==
    /\ owner = "live" /\ fragment.state = "live"
    /\ preview.asset = r /\ assets[r] = "ready"

\* A picture that is served has its file, and it shows the span the fragment has.
ShownIsTrue ==
    \A r \in Revisions : Shown(r) => (files[r] = "whole" \/ doubled) /\ r = fragment.timed

\* Every file belongs to an asset or to an attempt that will clean up after itself.
FilesHaveOwners ==
    \A r \in Revisions : files[r] # "none" =>
        \/ assets[r] # "none" \/ r \in spilled
        \/ \E a \in Renderers : renders[a].revision = r /\ renders[a].at \in {"commit", "drop", "failed"}

\* A preview that was made is not reported as failed, and its asset is not going.
MadeIsNotFailed ==
    /\ preview.status = "failed" => preview.asset = 0 \/ doubled \/ unsure
    /\ preview.asset # 0 => assets[preview.asset] = "ready" \/ owner = "gone"

PreviewsAreTrue == ShownIsTrue /\ FilesHaveOwners /\ MadeIsNotFailed
=============================================================================
