----------------------------- MODULE VideoLifecycle -----------------------------
(***************************************************************************)
(* One video from its upload to its deletion: the import and the deletion  *)
(* requests of videos/video-service.ts, the inspection and deletion jobs   *)
(* that pg-boss runs for them, and the source file in the blob store.      *)
(*                                                                         *)
(* A request and a handler stop at every await that reads or writes shared *)
(* state; a transaction is one step.  A statement may throw without taking *)
(* effect and, "half", after taking effect.  A deletion names the revision *)
(* the client read, and a client never reads a video that is deleting.     *)
(*                                                                         *)
(* Each Mut operator is the definition it precedes with one mistake in it. *)
(***************************************************************************)
EXTENDS Integers

CONSTANTS Handlers,         \* job handlers that may run at the same time
          InspectAttempts,  \* retryLimit of the inspection job, plus one
          DeleteAttempts,   \* retryLimit of the queue, plus one
          MaxRevision,      \* bound on the revisions of the video
          Faults

ASSUME AttemptsAssumption == {InspectAttempts, DeleteAttempts} \subseteq Nat \ {0}
ASSUME VideoRevisionAssumption == MaxRevision \in Nat \ {0}
ASSUME VideoFaultsAssumption == Faults \subseteq {"throw", "half", "crash", "slow"}

VARIABLES
    video,    \* the row of the video: status, revision, source set, failure columns set
    asset,    \* the row of its source in assets exists
    file,     \* where its bytes are
    upload,   \* what the import request does next
    jobs,     \* the inspection job, and the deletion job of each expected revision
    handler,  \* handler[h]: the job h runs, its next step, the asset rows it read
    marks     \* history: what has gone wrong so far, of Marks

vars == <<video, asset, file, upload, jobs, handler, marks>>

\* A crash, a failed unlink or a lost answer of the import; an import that committed over
\* a deletion; an inspection that found the advisory lock taken.
Marks == {"damaged", "revived", "skipped"}

Inspect == 0
Jobs == {Inspect} \cup 1..MaxRevision
Idle == [job |-> Inspect, step |-> "idle", assets |-> FALSE]

Init ==
    /\ video = [status |-> "absent", revision |-> 1, source |-> FALSE, failure |-> FALSE]
    /\ asset = FALSE
    /\ file = "none"
    /\ upload = "receive"
    /\ jobs = [j \in Jobs |-> [state |-> "none", left |-> 0]]
    /\ handler = [h \in Handlers |-> Idle]
    /\ marks = {}

RowExists == video.status \notin {"absent", "gone"}
Send(j, attempts) == jobs' = [jobs EXCEPT ![j] = [state |-> "waiting", left |-> attempts]]

----------------------------------------------------------------------------
(* VideoService.import.                                                    *)

Upload(from, to) == upload = from /\ upload' = to

Receive ==
    /\ Upload("receive", "stage")
    /\ video' = [video EXCEPT !.status = "receiving"]
    /\ UNCHANGED <<asset, file, jobs, handler, marks>>

\* When writeStaged throws it removes what it wrote, or fails to and says nothing.
Stage ==
    /\ \/ Upload("stage", "publish") /\ file' = "staged"
          /\ UNCHANGED marks
       \/ /\ "throw" \in Faults /\ Upload("stage", "remove")
          /\ \/ UNCHANGED <<file, marks>>
             \/ file' = "staged" /\ marks' = marks \cup {"damaged"}
    /\ UNCHANGED <<video, asset, jobs, handler>>

Publish ==
    /\ \/ Upload("publish", "commit") /\ file' = "published"
       \/ "throw" \in Faults /\ Upload("publish", "unlink") /\ UNCHANGED file
    /\ UNCHANGED <<video, asset, jobs, handler, marks>>

\* The transaction of the import looks at no status.  It fails where the row is gone,
\* on the foreign key of the workspace.
CommitImport ==
    /\ RowExists
    /\ asset' = TRUE
    /\ video' = [video EXCEPT !.source = TRUE, !.status = "queued"]
    /\ Send(Inspect, InspectAttempts)
    /\ \E lost \in BOOLEAN :
        /\ lost => "half" \in Faults
        /\ Upload("commit", IF lost THEN "unlink" ELSE "over")
        /\ marks' = marks \cup (IF lost THEN {"damaged"} ELSE {})
                          \cup (IF video.status = "deleting" THEN {"revived"} ELSE {})
    /\ UNCHANGED <<file, handler>>

CommitImportThrows ==
    /\ ~RowExists \/ "throw" \in Faults
    /\ Upload("commit", "unlink")
    /\ UNCHANGED <<video, asset, file, jobs, handler, marks>>

MutUnlinkStagedOnly ==
    /\ Upload("unlink", "remove")
    /\ file' = IF file = "staged" THEN "none" ELSE file
    /\ UNCHANGED <<video, asset, jobs, handler, marks>>

\* The cleanup removes the file from where it is by now.
Unlink ==
    /\ \/ Upload("unlink", "remove") /\ file' = "none" /\ UNCHANGED marks
       \/ /\ "throw" \in Faults /\ Upload("unlink", "mark")
          /\ marks' = marks \cup {"damaged"} /\ UNCHANGED file
    /\ UNCHANGED <<video, asset, jobs, handler>>

\* ... and the row, as long as it is receiving.
Remove ==
    /\ \/ /\ Upload("remove", "over")
          /\ video' = IF video.status = "receiving"
                      THEN [video EXCEPT !.status = "gone"] ELSE video
       \/ "throw" \in Faults /\ Upload("remove", "mark") /\ UNCHANGED video
    /\ UNCHANGED <<asset, file, jobs, handler, marks>>

\* A cleanup that throws marks the upload failed instead.
MarkUploadFailed ==
    /\ Upload("mark", "over")
    /\ \/ video' = IF video.status = "receiving"
                   THEN [video EXCEPT !.status = "failed", !.failure = TRUE] ELSE video
       \/ "throw" \in Faults /\ UNCHANGED video
    /\ UNCHANGED <<asset, file, jobs, handler, marks>>

\* The server dies during the import, and nothing takes it up again.
CrashUpload ==
    /\ "crash" \in Faults /\ upload \notin {"receive", "over"}
    /\ upload' = "over" /\ marks' = marks \cup {"damaged"}
    /\ UNCHANGED <<video, asset, file, jobs, handler>>

----------------------------------------------------------------------------
(* The requests of clients.                                                *)

MutDeleteSendsOldRevision ==
    /\ RowExists /\ video.status # "deleting" /\ ~video.failure
    /\ video.revision < MaxRevision
    /\ video' = [video EXCEPT !.status = "deleting", !.revision = video.revision + 1]
    /\ Send(video.revision, DeleteAttempts)
    /\ UNCHANGED <<asset, file, upload, handler, marks>>

\* VideoService.delete.  It leaves the failure columns as they are, so the CHECK of
\* the table refuses the deletion of a failed video.
Delete ==
    /\ RowExists /\ video.status # "deleting" /\ ~video.failure
    /\ video.revision < MaxRevision
    /\ video' = [video EXCEPT !.status = "deleting", !.revision = video.revision + 1]
    /\ Send(video.revision + 1, DeleteAttempts)
    /\ UNCHANGED <<asset, file, upload, handler, marks>>

\* FragmentService.saveEditor takes the next revision of a video a client can open.
Save ==
    /\ video.status \in {"queued", "processing", "ready", "failed"}
    /\ video.revision < MaxRevision
    /\ video' = [video EXCEPT !.revision = video.revision + 1]
    /\ UNCHANGED <<asset, file, upload, jobs, handler, marks>>

----------------------------------------------------------------------------
(* pg-boss.                                                                *)

Fetch(h, j) ==
    /\ handler[h] = Idle /\ jobs[j].state = "waiting"
    /\ jobs' = [jobs EXCEPT ![j] = [state |-> "active", left |-> jobs[j].left - 1]]
    /\ handler' = [handler EXCEPT ![h] = [Idle EXCEPT !.job = j, !.step = "start"]]
    /\ UNCHANGED <<video, asset, file, upload, marks>>

Complete(h) ==
    /\ handler' = [handler EXCEPT ![h] = Idle]
    /\ jobs' = [jobs EXCEPT ![handler[h].job].state = IF @ = "active" THEN "completed" ELSE @]

\* A failed attempt is retried until none is left.
FailJob(j) ==
    jobs' = [jobs EXCEPT ![j].state = IF @ # "active" THEN @
                                      ELSE IF jobs[j].left = 0 THEN "failed" ELSE "waiting"]

FailAttempt(h) == handler' = [handler EXCEPT ![h] = Idle] /\ FailJob(handler[h].job)

\* A job outlives its expiry while its handler goes on.
Expire(j) ==
    /\ "slow" \in Faults /\ jobs[j].state = "active"
    /\ FailJob(j)
    /\ UNCHANGED <<video, asset, file, upload, handler, marks>>

\* A worker dies, or a statement throws that nothing catches: its session and with it
\* the advisory lock end.
CrashHandler(h) ==
    /\ "crash" \in Faults /\ handler[h] # Idle
    /\ FailAttempt(h)
    /\ UNCHANGED <<video, asset, file, upload, marks>>

At(h, step) == handler[h].step = step
Goto(h, step) == handler' = [handler EXCEPT ![h].step = step]

----------------------------------------------------------------------------
(* The inspection job.                                                     *)

Inspecting(h) == handler[h].step \in {"asset", "probe", "ready", "fail"}

\* The attempt that finds the advisory lock taken completes the job.
LockIsTaken(h) ==
    /\ At(h, "start") /\ handler[h].job = Inspect
    /\ \E g \in Handlers \ {h} : Inspecting(g)
    /\ Complete(h)
    /\ marks' = marks \cup {"skipped"}
    /\ UNCHANGED <<video, asset, file, upload>>

MutClaimQueuedOnly == video.source /\ video.status = "queued"
Claimable == video.source /\ video.status \in {"queued", "processing", "failed"}

\* inspectClaimedSource: one update claims the video, also from an attempt that died.
Claim(h) ==
    /\ At(h, "start") /\ handler[h].job = Inspect
    /\ \A g \in Handlers \ {h} : ~Inspecting(g)
    /\ IF Claimable
       THEN /\ video' = [video EXCEPT !.status = "processing", !.failure = FALSE]
            /\ Goto(h, "asset") /\ UNCHANGED jobs
       ELSE Complete(h) /\ UNCHANGED video
    /\ UNCHANGED <<asset, file, upload, marks>>

ReadAsset(h) ==
    /\ At(h, "asset")
    /\ Goto(h, IF asset THEN "probe" ELSE "fail")
    /\ UNCHANGED <<video, asset, file, upload, jobs, marks>>

\* ffprobe reads the file, or fails.
Probe(h) ==
    /\ At(h, "probe")
    /\ \/ file = "published" /\ Goto(h, "ready")
       \/ /\ file # "published" \/ "throw" \in Faults
          /\ Goto(h, "fail")
    /\ UNCHANGED <<video, asset, file, upload, jobs, marks>>

MutBecomesReadyAlways == [video EXCEPT !.status = "ready", !.revision = video.revision + 1]

BecomesReady ==
    IF video.status = "processing"
    THEN [video EXCEPT !.status = "ready", !.revision = video.revision + 1] ELSE video

\* The transaction that makes the video ready and asks for its thumbnails.
Ready(h) ==
    /\ At(h, "ready")
    /\ \/ video' = BecomesReady /\ Complete(h)
       \/ "half" \in Faults /\ video' = BecomesReady /\ Goto(h, "fail") /\ UNCHANGED jobs
       \/ "throw" \in Faults /\ Goto(h, "fail") /\ UNCHANGED <<video, jobs>>
    /\ UNCHANGED <<asset, file, upload, marks>>

MutFailInspectionAlways(h) ==
    /\ At(h, "fail")
    /\ video' = [video EXCEPT !.status = "failed", !.failure = TRUE]
    /\ FailAttempt(h)
    /\ UNCHANGED <<asset, file, upload, marks>>

FailInspection(h) ==
    /\ At(h, "fail")
    /\ \/ video' = IF video.status = "processing"
                   THEN [video EXCEPT !.status = "failed", !.failure = TRUE] ELSE video
       \/ "throw" \in Faults /\ UNCHANGED video
    /\ FailAttempt(h)
    /\ UNCHANGED <<asset, file, upload, marks>>

----------------------------------------------------------------------------
(* The deletion job.                                                       *)

Tombstone(j) == video.status = "deleting" /\ video.revision = j

Recognise(h) ==
    /\ At(h, "start") /\ handler[h].job # Inspect
    /\ IF Tombstone(handler[h].job)
       THEN Goto(h, "assets") /\ UNCHANGED jobs
       ELSE Complete(h)
    /\ UNCHANGED <<video, asset, file, upload, marks>>

ReadAssets(h) ==
    /\ At(h, "assets")
    /\ handler' = [handler EXCEPT ![h].step = "blob", ![h].assets = asset]
    /\ UNCHANGED <<video, asset, file, upload, jobs, marks>>

\* The file goes before the rows.
DeleteBlob(h) ==
    /\ At(h, "blob")
    /\ \/ /\ file' = IF handler[h].assets /\ file = "published" THEN "none" ELSE file
          /\ Goto(h, "purge") /\ UNCHANGED jobs
       \/ /\ "throw" \in Faults /\ handler[h].assets
          /\ FailAttempt(h) /\ UNCHANGED file
    /\ UNCHANGED <<video, asset, upload, marks>>

PurgeRows(h) ==
    IF Tombstone(handler[h].job)
    THEN /\ video' = [video EXCEPT !.status = "gone"]
         /\ asset' = (asset /\ ~handler[h].assets)
    ELSE UNCHANGED <<video, asset>>

\* The transaction reads the tombstone again before it deletes the rows.
Purge(h) ==
    /\ At(h, "purge")
    /\ \/ PurgeRows(h) /\ Complete(h)
       \/ "half" \in Faults /\ PurgeRows(h) /\ FailAttempt(h)
       \/ "throw" \in Faults /\ FailAttempt(h) /\ UNCHANGED <<video, asset>>
    /\ UNCHANGED <<file, upload, marks>>

----------------------------------------------------------------------------
Import ==
    \/ Receive \/ Stage \/ Publish \/ CommitImport \/ CommitImportThrows
    \/ Unlink \/ Remove \/ MarkUploadFailed

Handle(h) ==
    \/ LockIsTaken(h) \/ Claim(h) \/ ReadAsset(h) \/ Probe(h) \/ Ready(h)
    \/ FailInspection(h)
    \/ Recognise(h) \/ ReadAssets(h) \/ DeleteBlob(h) \/ Purge(h)

Next ==
    \/ Import \/ CrashUpload \/ Delete \/ Save
    \/ \E j \in Jobs : Expire(j)
    \/ \E h \in Handlers :
        Handle(h) \/ CrashHandler(h) \/ \E j \in Jobs : Fetch(h, j)

Spec == Init /\ [][Next]_vars

\* Handlers run and pg-boss hands out what waits.  No fairness is asked of requests,
\* and the attempts of a job bound the faults that end them.
FairSpec ==
    /\ Spec
    /\ \A h \in Handlers : WF_vars(Handle(h)) /\ WF_vars(\E j \in Jobs : Fetch(h, j))

----------------------------------------------------------------------------
(* Properties.                                                             *)

\* A video that is queued, processed or ready has its source, the row and the file:
\* neither a failed import nor a deletion that crosses the inspection parts them.  It
\* does not hold where the commit of an import was answered with an error, and where an
\* import committed over a deletion.
SourceIsStored ==
    video.status \in {"queued", "processing", "ready"} =>
        marks \cap {"damaged", "revived"} # {} \/ (asset /\ file = "published")

Quiet ==
    /\ upload = "over"
    /\ \A j \in Jobs : jobs[j].state \notin {"waiting", "active"}
    /\ \A h \in Handlers : handler[h] = Idle

\* When nothing is running, a file belongs to an asset row and an asset row to a
\* video: whichever of the steps of an import and a deletion failed, only a crash of the
\* import, a failed unlink or a commit answered with an error leaves one without the other.
FilesAreOwned ==
    Quiet /\ "damaged" \notin marks =>
        /\ file = "none" \/ asset
        /\ asset => RowExists /\ video.source

\* Row, asset and file of a video go together, while it can be opened and once nothing
\* runs any more.
FilesMatchTheRow == SourceIsStored /\ FilesAreOwned

\* A deletion accepted after the import is final: no late answer of an inspection
\* brings the video back.
DeletionIsFinal ==
    [][video.status = "deleting" /\ video.source =>
        video'.status \in {"deleting", "gone"}]_vars

\* A video waits for its inspection or is inspected for ever only if the attempts are
\* used up or an attempt gave way to another that then failed.
InspectionSettles ==
    video.status \in {"queued", "processing"} ~>
        \/ video.status \notin {"queued", "processing"}
        \/ jobs[Inspect].state = "failed" \/ "skipped" \in marks

\* A deletion is carried out, unless its attempts are used up or an import that was
\* still running puts the video back.
DeletionCompletes ==
    video.status = "deleting" ~>
        video.status # "deleting" \/ \E j \in Jobs \ {Inspect} : jobs[j].state = "failed"
=============================================================================
