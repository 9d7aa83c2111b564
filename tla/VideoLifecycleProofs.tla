------------------------- MODULE VideoLifecycleProofs -------------------------
(***************************************************************************)
(* Proofs about VideoLifecycle for any number of handlers, attempts and      *)
(* revisions and any of the faults.                                          *)
(*                                                                         *)
(* The file follows the import until the import commits, then the asset row;  *)
(* a deletion that may still purge the rows has read the asset row as it is.   *)
(***************************************************************************)
EXTENDS VideoLifecycle, TLAPS

Statuses == {"absent", "receiving", "queued", "processing", "ready", "failed", "deleting", "gone"}
UploadSteps == {"receive", "stage", "publish", "commit", "unlink", "remove", "mark", "over"}
Steps == {"idle", "start", "asset", "probe", "ready", "fail", "assets", "blob", "purge"}

Video == [status : Statuses, revision : Nat \ {0}, source : BOOLEAN, failure : BOOLEAN]
QueuedJob == [state : {"none", "waiting", "active", "completed", "failed"}, left : Int]
Handling == [job : Jobs, step : Steps, assets : BOOLEAN]

LifecycleTypeOK ==
    /\ video \in Video
    /\ asset \in BOOLEAN
    /\ file \in {"none", "staged", "published"}
    /\ upload \in UploadSteps
    /\ jobs \in [Jobs -> QueuedJob]
    /\ handler \in [Handlers -> Handling]
    /\ marks \subseteq Marks

\* The source of the video is recorded by the commit of its import, and only then does
\* the video leave "receiving" for what can be opened.
ImportHolds ==
    /\ upload = "receive" => video.status = "absent"
    /\ upload \in {"receive", "stage", "publish", "commit"} => ~ video.source
    /\ asset => video.source /\ RowExists
    /\ video.source => video.status \notin {"absent", "receiving"}
    /\ video.status \in {"queued", "processing", "ready"} => video.source

\* Where nothing was damaged the file is where the import has put it, and once the import
\* is over it has its asset row or is removed.
FileHolds ==
    "damaged" \notin marks =>
        /\ upload \in {"receive", "stage", "remove", "mark"} => file = "none"
        /\ upload = "publish" => file = "staged"
        /\ upload = "commit" => file = "published"
        /\ upload \in {"unlink", "remove", "mark"} => ~ video.source
        /\ upload = "over" => file = "none" \/ (asset /\ file = "published")

\* A deletion job was sent for a revision the video has had; the handler whose tombstone
\* stands has read the asset row as it is, and has removed the file before it purges.
DeletionHolds ==
    /\ \A j \in Jobs : jobs[j].state # "none" => j <= video.revision
    /\ \A h \in Handlers :
        /\ handler[h].job <= video.revision
        /\ handler[h].assets => video.source
        /\ At(h, "blob") /\ Tombstone(handler[h].job) => handler[h].assets = asset
        /\ At(h, "purge") /\ Tombstone(handler[h].job) =>
             /\ handler[h].assets = asset
             /\ "damaged" \notin marks /\ asset => file = "none"

\* Unless an import committed over a deletion, a video with its source keeps row and file
\* until it is being deleted, and only then is a handler deleting it.
SourceHolds ==
    marks \cap {"damaged", "revived"} = {} =>
        /\ video.source /\ video.status \notin {"deleting", "gone"} => asset /\ file = "published"
        /\ \A h \in Handlers :
             handler[h].step \in {"assets", "blob", "purge"} => video.status \in {"deleting", "gone"}

LifecycleInv == LifecycleTypeOK /\ ImportHolds /\ FileHolds /\ DeletionHolds /\ SourceHolds

Opened == {"queued", "processing", "ready", "failed"}

----------------------------------------------------------------------------
(* Types.                                                                  *)

LEMMA LifecycleInitHolds == Init => LifecycleInv
  <1> SUFFICES ASSUME Init PROVE LifecycleInv
    OBVIOUS
  <1>1. LifecycleTypeOK
    <2>1. Idle \in Handling
      BY DEF Idle, Handling, Jobs, Inspect, Steps
    <2>2. video \in Video /\ upload \in UploadSteps /\ marks \subseteq Marks
      BY DEF Init, Video, Statuses, UploadSteps
    <2>3. jobs \in [Jobs -> QueuedJob]
      BY DEF Init, QueuedJob
    <2> QED
      BY <2>1, <2>2, <2>3 DEF Init, LifecycleTypeOK
  <1>2. ImportHolds /\ FileHolds /\ SourceHolds
    BY DEF Init, ImportHolds, FileHolds, SourceHolds, Idle
  <1>3. DeletionHolds
    BY DEF Init, DeletionHolds, Idle, At, Inspect
  <1> QED
    BY <1>1, <1>2, <1>3 DEF LifecycleInv

\* What a handler's next step changes.
LEMMA Moves ==
    ASSUME LifecycleTypeOK, NEW h \in Handlers, NEW step \in Steps, Goto(h, step)
    PROVE  /\ handler' \in [Handlers -> Handling]
           /\ handler'[h].step = step /\ handler'[h].job = handler[h].job
           /\ handler'[h].assets = handler[h].assets
           /\ \A g \in Handlers \ {h} : handler'[g] = handler[g]
  BY DEF Goto, LifecycleTypeOK, Handling

LEMMA Rests ==
    ASSUME LifecycleTypeOK, NEW h \in Handlers, handler' = [handler EXCEPT ![h] = Idle]
    PROVE  /\ handler' \in [Handlers -> Handling]
           /\ handler'[h] = Idle /\ \A g \in Handlers \ {h} : handler'[g] = handler[g]
  BY DEF LifecycleTypeOK, Handling, Idle, Inspect, Jobs, Steps

\* The end of an attempt, or of its time, changes the state of a job that was sent.
LEMMA AttemptEnds ==
    ASSUME LifecycleTypeOK, NEW j \in Jobs, FailJob(j)
    PROVE  /\ jobs' \in [Jobs -> QueuedJob]
           /\ \A i \in Jobs : jobs'[i].state # "none" => jobs[i].state # "none"
  <1>1. PICK state \in {"none", "waiting", "active", "completed", "failed"} :
          /\ jobs' = [jobs EXCEPT ![j].state = state]
          /\ state # "none" => jobs[j].state # "none"
    BY DEF FailJob, LifecycleTypeOK, QueuedJob
  <1> QED
    BY <1>1 DEF LifecycleTypeOK, QueuedJob

LEMMA Completes ==
    ASSUME LifecycleTypeOK, NEW h \in Handlers, Complete(h)
    PROVE  /\ jobs' \in [Jobs -> QueuedJob]
           /\ \A i \in Jobs : jobs'[i].state # "none" => jobs[i].state # "none"
           /\ handler' \in [Handlers -> Handling]
           /\ handler'[h] = Idle /\ \A g \in Handlers \ {h} : handler'[g] = handler[g]
  <1>1. handler[h].job \in Jobs
    BY DEF LifecycleTypeOK, Handling
  <1>2. PICK state \in {"none", "waiting", "active", "completed", "failed"} :
          /\ jobs' = [jobs EXCEPT ![handler[h].job].state = state]
          /\ state # "none" => jobs[handler[h].job].state # "none"
    BY <1>1 DEF Complete, LifecycleTypeOK, QueuedJob
  <1>3. /\ jobs' \in [Jobs -> QueuedJob]
        /\ \A i \in Jobs : jobs'[i].state # "none" => jobs[i].state # "none"
    BY <1>1, <1>2 DEF LifecycleTypeOK, QueuedJob
  <1> QED
    BY <1>3, Rests DEF Complete

LEMMA Fails ==
    ASSUME LifecycleTypeOK, NEW h \in Handlers, FailAttempt(h)
    PROVE  /\ jobs' \in [Jobs -> QueuedJob]
           /\ \A i \in Jobs : jobs'[i].state # "none" => jobs[i].state # "none"
           /\ handler' \in [Handlers -> Handling]
           /\ handler'[h] = Idle /\ \A g \in Handlers \ {h} : handler'[g] = handler[g]
  <1>1. handler[h].job \in Jobs
    BY DEF LifecycleTypeOK, Handling
  <1> QED
    BY <1>1, Rests, AttemptEnds DEF FailAttempt

----------------------------------------------------------------------------
(* Steps that leave asset and file alone.                                  *)

\* Handlers go on or rest without deleting anything, and a video that can be opened stays so.
Elsewhere ==
    /\ UNCHANGED <<asset, file, upload>>
    /\ marks \subseteq marks' /\ marks' \subseteq Marks
    /\ jobs' \in [Jobs -> QueuedJob] /\ handler' \in [Handlers -> Handling] /\ video' \in Video
    /\ \A j \in Jobs : jobs'[j].state # "none" => jobs[j].state # "none"
    /\ \A h \in Handlers :
        \/ handler'[h] = handler[h]
        \/ /\ handler'[h].step \notin {"assets", "blob", "purge"}
           /\ handler'[h].job <= video.revision
           /\ handler'[h].assets => handler[h].assets
    /\ \/ video' = video
       \/ /\ video.status \in Opened /\ video'.status \in Opened
          /\ video'.source = video.source /\ video'.revision >= video.revision
          /\ video'.status \in {"queued", "processing", "ready"} => video.source

LEMMA ElsewhereStep == LifecycleInv /\ Elsewhere => LifecycleInv'
  <1> SUFFICES ASSUME LifecycleInv, Elsewhere PROVE LifecycleInv'
    OBVIOUS
  <1> USE DEF LifecycleInv
  <1>0. video.revision \in Nat /\ video'.revision \in Nat /\ video'.revision >= video.revision
    BY DEF LifecycleTypeOK, Elsewhere, Video
  <1>1. LifecycleTypeOK'
    BY DEF LifecycleTypeOK, Elsewhere
  <1>2. ImportHolds'
    BY DEF ImportHolds, Elsewhere, Opened, RowExists
  <1>3. FileHolds'
    BY DEF FileHolds, ImportHolds, Elsewhere, Opened
  <1>4. DeletionHolds'
    <2>1. \A j \in Jobs : jobs'[j].state # "none" => j <= video'.revision
      <3> SUFFICES ASSUME NEW j \in Jobs, jobs'[j].state # "none" PROVE j <= video'.revision
        OBVIOUS
      <3>1. j <= video.revision
        BY DEF DeletionHolds, Elsewhere
      <3>2. j \in Int
        BY DEF Jobs, Inspect
      <3> QED
        BY <1>0, <3>1, <3>2
    <2>2. ASSUME NEW h \in Handlers PROVE handler'[h].job <= video'.revision
      <3>1. handler'[h].job \in Int
        BY DEF Elsewhere, Handling, Jobs, Inspect
      <3>2. handler'[h].job <= video.revision
        BY DEF Elsewhere, DeletionHolds
      <3> QED
        BY <1>0, <3>1, <3>2
    <2>3. ASSUME NEW h \in Handlers PROVE handler'[h].assets => video'.source
      BY DEF Elsewhere, DeletionHolds
    <2>4. \A j : Tombstone(j)' => Tombstone(j) /\ video' = video
      BY DEF Tombstone, Elsewhere, Opened
    <2>5. ASSUME NEW h \in Handlers, At(h, "blob")' \/ At(h, "purge")', Tombstone(handler[h].job)'
          PROVE  /\ handler'[h].assets = asset'
                 /\ At(h, "purge")' => ("damaged" \notin marks' /\ asset' => file' = "none")
      <3>1. handler'[h] = handler[h]
        BY <2>5 DEF Elsewhere, At
      <3> QED
        BY <2>4, <2>5, <3>1 DEF Elsewhere, DeletionHolds, At
    <2> QED
      BY <2>1, <2>2, <2>3, <2>5 DEF DeletionHolds
  <1>5. SourceHolds'
    BY DEF SourceHolds, Elsewhere, Opened
  <1> QED
    BY <1>1, <1>2, <1>3, <1>4, <1>5

LEMMA HandlersElsewhere ==
    ASSUME LifecycleInv, NEW h \in Handlers,
           LockIsTaken(h) \/ Claim(h) \/ ReadAsset(h) \/ Probe(h) \/ Ready(h) \/ FailInspection(h)
             \/ CrashHandler(h) \/ \E j \in Jobs : Fetch(h, j)
    PROVE  Elsewhere
  <1> USE DEF LifecycleInv
  <1>0. /\ video \in Video /\ handler \in [Handlers -> Handling] /\ jobs \in [Jobs -> QueuedJob]
        /\ video.revision \in Nat /\ handler[h].job <= video.revision
    BY DEF LifecycleTypeOK, DeletionHolds, Video
  <1>1. Idle.step \notin {"assets", "blob", "purge"} /\ Idle.job <= video.revision /\ ~ Idle.assets
    BY <1>0 DEF Idle, Inspect, LifecycleTypeOK, Video
  <1>2. Complete(h) \/ FailAttempt(h) =>
          /\ jobs' \in [Jobs -> QueuedJob] /\ handler' \in [Handlers -> Handling]
          /\ \A j \in Jobs : jobs'[j].state # "none" => jobs[j].state # "none"
          /\ \A g \in Handlers :
               \/ handler'[g] = handler[g]
               \/ /\ handler'[g].step \notin {"assets", "blob", "purge"}
                  /\ handler'[g].job <= video.revision /\ (handler'[g].assets => handler[g].assets)
    BY <1>1, Completes, Fails
  <1>3. \A step \in Steps \ {"assets", "blob", "purge"} : Goto(h, step) =>
          /\ handler' \in [Handlers -> Handling]
          /\ \A g \in Handlers :
               \/ handler'[g] = handler[g]
               \/ /\ handler'[g].step \notin {"assets", "blob", "purge"}
                  /\ handler'[g].job <= video.revision /\ (handler'[g].assets => handler[g].assets)
    BY <1>0, Moves
  <1>4. CASE LockIsTaken(h)
    BY <1>0, <1>2, <1>4 DEF LockIsTaken, Elsewhere, Marks, LifecycleTypeOK
  <1>5. CASE Claim(h)
    <2>1. [video EXCEPT !.status = "processing", !.failure = FALSE] \in Video
          /\ [video EXCEPT !.status = "processing", !.failure = FALSE].status = "processing"
          /\ [video EXCEPT !.status = "processing", !.failure = FALSE].source = video.source
          /\ [video EXCEPT !.status = "processing", !.failure = FALSE].revision = video.revision
      BY <1>0 DEF Video, Statuses
    <2>2. CASE Claimable
      <3>1. video.source /\ video.status \in Opened
        BY <2>2 DEF Claimable, Opened
      <3>2. Goto(h, "asset") /\ video' = [video EXCEPT !.status = "processing", !.failure = FALSE]
            /\ UNCHANGED <<asset, file, upload, jobs, marks>>
        BY <1>5, <2>2 DEF Claim
      <3>3. /\ video' \in Video /\ video.status \in Opened /\ video'.status \in Opened
            /\ video'.source = video.source /\ video'.revision >= video.revision /\ video.source
        <4>1. video' \in Video /\ video'.status = "processing" /\ video'.source = video.source
              /\ video'.revision = video.revision
          BY <2>1, <3>2, Zenon
        <4>2. video'.revision >= video.revision
          BY <1>0, <4>1
        <4> QED
          BY <3>1, <4>1, <4>2 DEF Opened
      <3> QED
        BY <1>0, <1>3, <3>2, <3>3 DEF Elsewhere, Steps, LifecycleTypeOK
    <2>3. CASE ~ Claimable
      BY <1>0, <1>2, <1>5, <2>3 DEF Claim, Elsewhere, LifecycleTypeOK
    <2> QED
      BY <2>2, <2>3
  <1>6. CASE ReadAsset(h) \/ Probe(h)
    <2>1. \E step \in {"probe", "fail", "ready"} : Goto(h, step)
      BY <1>6 DEF ReadAsset, Probe
    <2>2. UNCHANGED <<video, asset, file, upload, jobs, marks>>
      BY <1>6 DEF ReadAsset, Probe
    <2> QED
      BY <1>0, <1>3, <2>1, <2>2 DEF Elsewhere, Steps, LifecycleTypeOK
  <1>7. CASE Ready(h)
    <2>1. \/ BecomesReady = video
          \/ /\ video.status = "processing" /\ BecomesReady.status = "ready" /\ BecomesReady \in Video
             /\ BecomesReady.source = video.source /\ BecomesReady.revision >= video.revision
      <3>1. PICK n \in Nat \ {0} : n = video.revision
        BY <1>0 DEF Video
      <3>2. n + 1 \in Nat \ {0} /\ n + 1 >= n
        BY <3>1
      <3> QED
        BY <1>0, <3>1, <3>2 DEF BecomesReady, Video, Statuses
    <2>2. video' = video \/ video' = BecomesReady
      BY <1>7 DEF Ready
    <2>3. /\ video' \in Video
          /\ \/ video' = video
             \/ /\ video.status \in Opened /\ video'.status \in Opened
                /\ video'.source = video.source /\ video'.revision >= video.revision
                /\ video'.status \in {"queued", "processing", "ready"} => video.source
      BY <1>0, <2>1, <2>2 DEF Opened, ImportHolds
    <2>4. UNCHANGED <<asset, file, upload, marks>> /\ (Complete(h) \/ (Goto(h, "fail") /\ UNCHANGED jobs))
      BY <1>7 DEF Ready
    <2> QED
      BY <1>0, <1>2, <1>3, <2>3, <2>4 DEF Elsewhere, Steps, LifecycleTypeOK
  <1>8. CASE FailInspection(h)
    <2>1. /\ [video EXCEPT !.status = "failed", !.failure = TRUE] \in Video
          /\ [video EXCEPT !.status = "failed", !.failure = TRUE].status = "failed"
          /\ [video EXCEPT !.status = "failed", !.failure = TRUE].source = video.source
          /\ [video EXCEPT !.status = "failed", !.failure = TRUE].revision = video.revision
      BY <1>0 DEF Video, Statuses
    <2>2. \/ video' = video
          \/ video.status = "processing" /\ video' = [video EXCEPT !.status = "failed", !.failure = TRUE]
      BY <1>8 DEF FailInspection
    <2>3. UNCHANGED <<asset, file, upload, marks>> /\ FailAttempt(h)
      BY <1>8 DEF FailInspection
    <2>4. /\ video' \in Video
          /\ \/ video' = video
             \/ /\ video.status \in Opened /\ video'.status \in Opened
                /\ video'.source = video.source /\ video'.revision >= video.revision
                /\ video'.status \notin {"queued", "processing", "ready"}
      <3>1. CASE video' = video
        BY <1>0, <3>1
      <3>2. CASE video.status = "processing" /\ video' = [video EXCEPT !.status = "failed", !.failure = TRUE]
        <4>1. video' \in Video /\ video'.status = "failed" /\ video'.source = video.source
              /\ video'.revision = video.revision
          BY <2>1, <3>2, Zenon
        <4>2. video'.revision >= video.revision
          BY <1>0, <4>1
        <4> QED
          BY <3>2, <4>1, <4>2 DEF Opened
      <3> QED
        BY <2>2, <3>1, <3>2
    <2> QED
      BY <1>0, <1>2, <2>3, <2>4 DEF Elsewhere, LifecycleTypeOK
  <1>9. CASE CrashHandler(h)
    BY <1>0, <1>2, <1>9 DEF CrashHandler, Elsewhere, LifecycleTypeOK
  <1>10. ASSUME NEW j \in Jobs, Fetch(h, j) PROVE Elsewhere
    <2> DEFINE fetched == [Idle EXCEPT !.job = j, !.step = "start"]
    <2>0. Idle \in Handling /\ Idle.assets = FALSE
      BY DEF Idle, Handling, Jobs, Inspect, Steps
    <2>1. fetched \in Handling /\ fetched.job = j /\ fetched.step = "start" /\ ~ fetched.assets
      BY <2>0 DEF Handling, Steps
    <2>2. handler' = [handler EXCEPT ![h] = fetched]
      BY <1>10 DEF Fetch
    <2> HIDE DEF fetched
    <2>3. jobs[j].state # "none" /\ j <= video.revision
      BY <1>10 DEF Fetch, DeletionHolds
    <2>4. jobs[j].left - 1 \in Int
      BY <1>0 DEF QueuedJob
    <2>5. jobs' \in [Jobs -> QueuedJob] /\ \A i \in Jobs : jobs'[i].state # "none" => jobs[i].state # "none"
      BY <1>0, <1>10, <2>3, <2>4 DEF Fetch, QueuedJob
    <2>6. handler' \in [Handlers -> Handling]
      BY <1>0, <2>1, <2>2
    <2>7. UNCHANGED <<video, asset, file, upload, marks>>
      BY <1>10 DEF Fetch
    <2> QED
      BY <1>0, <2>1, <2>2, <2>3, <2>5, <2>6, <2>7 DEF Elsewhere, LifecycleTypeOK
  <1> QED
    BY <1>4, <1>5, <1>6, <1>7, <1>8, <1>9, <1>10

----------------------------------------------------------------------------
(* The import and the requests.                                            *)

\* A step of the import, the commit apart, that has not got the source recorded: the
\* deletions go on unaffected as long as the file it changes is not one of theirs.
LEMMA UploadStep ==
    ASSUME LifecycleInv, UNCHANGED <<asset, jobs, handler>>, LifecycleTypeOK',
           marks \subseteq marks', ImportHolds', FileHolds',
           \/ video' = video
           \/ /\ video.status \in {"absent", "receiving"} /\ video'.source = video.source
              /\ video'.revision = video.revision /\ video'.status \in {"receiving", "failed", "gone"},
           file' = file \/ ~ asset
    PROVE  LifecycleInv'
  <1> USE DEF LifecycleInv
  <1>1. \A j : Tombstone(j)' => Tombstone(j)
    BY DEF Tombstone
  <1>2. DeletionHolds'
    BY <1>1 DEF DeletionHolds, At
  <1>3. SourceHolds'
    BY DEF SourceHolds, ImportHolds, FileHolds
  <1> QED
    BY <1>2, <1>3

LEMMA ImportStep == LifecycleInv /\ (Import \/ CrashUpload) => LifecycleInv'
  <1> SUFFICES ASSUME LifecycleInv, Import \/ CrashUpload PROVE LifecycleInv'
    OBVIOUS
  <1> USE DEF LifecycleInv
  <1>0. /\ video \in Video /\ handler \in [Handlers -> Handling] /\ jobs \in [Jobs -> QueuedJob]
        /\ video.revision \in Nat \ {0}
    BY DEF LifecycleTypeOK, Video
  <1>00. /\ \A s \in Statuses : /\ [video EXCEPT !.status = s] \in Video
                                /\ [video EXCEPT !.status = s].status = s
                                /\ [video EXCEPT !.status = s].source = video.source
                                /\ [video EXCEPT !.status = s].revision = video.revision
         /\ [video EXCEPT !.status = "failed", !.failure = TRUE] \in Video
         /\ [video EXCEPT !.status = "failed", !.failure = TRUE].status = "failed"
         /\ [video EXCEPT !.status = "failed", !.failure = TRUE].source = video.source
         /\ [video EXCEPT !.status = "failed", !.failure = TRUE].revision = video.revision
    BY <1>0 DEF Video, Statuses
  <1>1. CASE Receive
    <2>1. /\ video.status = "absent" /\ video'.status = "receiving" /\ video'.source = video.source
          /\ video'.revision = video.revision /\ video' \in Video
          /\ upload = "receive" /\ upload' = "stage" /\ UNCHANGED <<asset, file, jobs, handler, marks>>
      BY <1>00, <1>1 DEF Receive, Upload, ImportHolds, Statuses
    <2>2. LifecycleTypeOK' /\ ImportHolds' /\ FileHolds'
      BY <2>1 DEF LifecycleTypeOK, UploadSteps, ImportHolds, FileHolds, RowExists
    <2> QED
      BY <2>1, <2>2, UploadStep
  <1>2. CASE Stage
    <2>1. UNCHANGED <<video, asset, jobs, handler>> /\ upload = "stage" /\ upload' \in {"publish", "remove"}
          /\ marks \subseteq marks'
      BY <1>2 DEF Stage, Upload
    <2>2. LifecycleTypeOK' /\ ImportHolds' /\ FileHolds' /\ ~ asset
      BY <1>2 DEF Stage, Upload, LifecycleTypeOK, UploadSteps, Marks, ImportHolds, FileHolds, RowExists
    <2> QED
      BY <2>1, <2>2, UploadStep
  <1>3. CASE Publish
    <2>1. LifecycleTypeOK' /\ ImportHolds' /\ FileHolds' /\ ~ asset
      BY <1>3 DEF Publish, Upload, LifecycleTypeOK, UploadSteps, ImportHolds, FileHolds, RowExists
    <2> QED
      BY <1>3, <2>1, UploadStep DEF Publish
  <1>4. CASE CommitImportThrows
    <2>1. LifecycleTypeOK' /\ ImportHolds' /\ FileHolds'
      BY <1>4 DEF CommitImportThrows, Upload, LifecycleTypeOK, UploadSteps, ImportHolds, FileHolds, RowExists
    <2> QED
      BY <1>4, <2>1, UploadStep DEF CommitImportThrows
  <1>5. CASE Unlink
    <2>1. /\ UNCHANGED <<video, asset, jobs, handler>> /\ upload = "unlink" /\ upload' \in {"remove", "mark"}
          /\ marks' = marks \/ marks' = marks \cup {"damaged"}
          /\ (file' = "none" /\ upload' = "remove") \/ ("damaged" \in marks' /\ file' = file)
      BY <1>5 DEF Unlink, Upload
    <2>2. LifecycleTypeOK' /\ ImportHolds' /\ FileHolds'
      BY <2>1 DEF LifecycleTypeOK, UploadSteps, Marks, ImportHolds, FileHolds, RowExists
    <2>3. CASE "damaged" \notin marks
      <3>1. ~ asset
        BY <2>1, <2>3 DEF FileHolds, ImportHolds
      <3> QED
        BY <2>1, <2>2, <3>1, UploadStep
    <2>4. CASE "damaged" \in marks
      <3>1. DeletionHolds' /\ SourceHolds'
        BY <2>1, <2>4 DEF DeletionHolds, SourceHolds, At, Tombstone
      <3> QED
        BY <2>2, <3>1
    <2> QED
      BY <2>3, <2>4
  <1>6. CASE Remove
    <2>1. /\ UNCHANGED <<asset, file, jobs, handler, marks>> /\ upload = "remove" /\ upload' \in {"over", "mark"}
          /\ video' = video \/ (video.status = "receiving" /\ video' = [video EXCEPT !.status = "gone"])
      BY <1>6 DEF Remove, Upload
    <2>2. /\ video' \in Video /\ video'.source = video.source /\ video'.revision = video.revision
          /\ video' = video \/ (video.status = "receiving" /\ video'.status = "gone")
      BY <1>0, <1>00, <2>1 DEF Statuses
    <2>3. LifecycleTypeOK' /\ ImportHolds' /\ FileHolds'
      BY <2>1, <2>2 DEF LifecycleTypeOK, UploadSteps, ImportHolds, FileHolds, RowExists
    <2> QED
      BY <2>1, <2>2, <2>3, UploadStep
  <1>7. CASE MarkUploadFailed
    <2>1. /\ UNCHANGED <<asset, file, jobs, handler, marks>> /\ upload = "mark" /\ upload' = "over"
          /\ \/ video' = video
             \/ /\ video.status = "receiving"
                /\ video' = [video EXCEPT !.status = "failed", !.failure = TRUE]
      BY <1>7 DEF MarkUploadFailed, Upload
    <2>2. /\ video' \in Video /\ video'.source = video.source /\ video'.revision = video.revision
          /\ video' = video \/ (video.status = "receiving" /\ video'.status = "failed")
      BY <1>0, <1>00, <2>1 DEF Statuses
    <2>3. LifecycleTypeOK' /\ ImportHolds' /\ FileHolds'
      BY <2>1, <2>2 DEF LifecycleTypeOK, UploadSteps, ImportHolds, FileHolds, RowExists
    <2> QED
      BY <2>1, <2>2, <2>3, UploadStep
  <1>8. CASE CrashUpload
    <2>1. LifecycleTypeOK' /\ ImportHolds' /\ FileHolds' /\ marks \subseteq marks'
      BY <1>8 DEF CrashUpload, LifecycleTypeOK, UploadSteps, Marks, ImportHolds, FileHolds, RowExists
    <2> QED
      BY <1>8, <2>1, UploadStep DEF CrashUpload
  <1>9. CASE CommitImport
    <2>1. [video EXCEPT !.source = TRUE, !.status = "queued"] \in Video
          /\ [video EXCEPT !.source = TRUE, !.status = "queued"].status = "queued"
          /\ [video EXCEPT !.source = TRUE, !.status = "queued"].source = TRUE
          /\ [video EXCEPT !.source = TRUE, !.status = "queued"].revision = video.revision
      BY <1>0 DEF Video, Statuses
    <2>2. /\ RowExists /\ asset' = TRUE /\ upload = "commit" /\ UNCHANGED <<file, handler>>
          /\ video' = [video EXCEPT !.source = TRUE, !.status = "queued"]
          /\ Send(Inspect, InspectAttempts)
      BY <1>9 DEF CommitImport, Upload
    <2>3. /\ upload' = "over" \/ (upload' = "unlink" /\ "damaged" \in marks')
          /\ marks \subseteq marks' /\ marks' \subseteq Marks
          /\ video.status = "deleting" => "revived" \in marks'
      BY <1>9 DEF CommitImport, Upload, Marks, LifecycleTypeOK
    <2>4. /\ jobs' \in [Jobs -> QueuedJob]
          /\ \A j \in Jobs : j = Inspect \/ jobs'[j] = jobs[j]
      BY <1>0, <2>2, AttemptsAssumption DEF Send, QueuedJob, Jobs, Inspect
    <2>5. LifecycleTypeOK'
      BY <2>1, <2>2, <2>3, <2>4 DEF LifecycleTypeOK, UploadSteps
    <2>6. ImportHolds'
      BY <2>1, <2>2, <2>3 DEF ImportHolds, RowExists
    <2>7. FileHolds'
      BY <2>1, <2>2, <2>3 DEF FileHolds
    <2>8. DeletionHolds'
      <3>1. \A j : ~ Tombstone(j)'
        BY <2>1, <2>2 DEF Tombstone
      <3>2. \A j \in Jobs : jobs'[j].state # "none" => j <= video'.revision
        BY <1>0, <2>1, <2>2, <2>4 DEF DeletionHolds, Inspect
      <3> QED
        BY <2>1, <2>2, <3>1, <3>2 DEF DeletionHolds
    <2>9. SourceHolds'
      <3> SUFFICES ASSUME marks' \cap {"damaged", "revived"} = {}
                   PROVE  /\ asset' /\ file' = "published"
                          /\ \A h \in Handlers : handler[h].step \notin {"assets", "blob", "purge"}
        BY <2>2 DEF SourceHolds
      <3>1. marks \cap {"damaged", "revived"} = {} /\ video.status # "deleting" /\ video.status # "gone"
        BY <2>2, <2>3 DEF RowExists
      <3>2. file = "published"
        BY <2>2, <3>1 DEF FileHolds
      <3> QED
        BY <2>2, <3>1, <3>2 DEF SourceHolds
    <2> QED
      BY <2>5, <2>6, <2>7, <2>8, <2>9
  <1> QED
    BY <1>1, <1>2, <1>3, <1>4, <1>5, <1>6, <1>7, <1>8, <1>9 DEF Import

LEMMA SaveAndExpireStep ==
    ASSUME LifecycleInv, Save \/ \E j \in Jobs : Expire(j)
    PROVE  LifecycleInv'
  <1> USE DEF LifecycleInv
  <1>0. /\ video \in Video /\ handler \in [Handlers -> Handling] /\ jobs \in [Jobs -> QueuedJob]
        /\ video.revision \in Nat \ {0} /\ marks \subseteq Marks
    BY DEF LifecycleTypeOK, Video
  <1>1. CASE Save
    <2>1. PICK n \in Nat \ {0} : n = video.revision + 1 /\ n >= video.revision
      BY <1>0
    <2>2. /\ [video EXCEPT !.revision = n] \in Video /\ [video EXCEPT !.revision = n].status = video.status
          /\ [video EXCEPT !.revision = n].source = video.source /\ [video EXCEPT !.revision = n].revision = n
      BY <1>0 DEF Video
    <2>3. video' = [video EXCEPT !.revision = n] /\ video.status \in Opened
      BY <1>1, <2>1 DEF Save, Opened
    <2>4. /\ video' \in Video /\ video'.status = video.status /\ video'.source = video.source
          /\ video'.revision = n
      BY <2>2, <2>3, Zenon
    <2>5. UNCHANGED <<asset, file, upload, jobs, handler, marks>>
      BY <1>1 DEF Save
    <2>6. video.status \in {"queued", "processing", "ready"} => video.source
      BY DEF ImportHolds
    <2>7. Elsewhere
      BY <1>0, <2>1, <2>3, <2>4, <2>5, <2>6 DEF Elsewhere
    <2> QED
      BY <2>7, ElsewhereStep
  <1>2. ASSUME NEW j \in Jobs, Expire(j) PROVE LifecycleInv'
    <2>1. /\ jobs' \in [Jobs -> QueuedJob]
          /\ \A i \in Jobs : jobs'[i].state # "none" => jobs[i].state # "none"
      BY <1>2, AttemptEnds DEF Expire
    <2>2. Elsewhere
      BY <1>0, <1>2, <2>1 DEF Expire, Elsewhere
    <2> QED
      BY <2>2, ElsewhereStep
  <1> QED
    BY <1>1, <1>2

LEMMA DeleteStep ==
    ASSUME LifecycleInv, Delete
    PROVE  LifecycleInv'
  <1> USE DEF LifecycleInv
  <1>0. /\ video \in Video /\ handler \in [Handlers -> Handling] /\ jobs \in [Jobs -> QueuedJob]
        /\ video.revision \in Nat \ {0} /\ MaxRevision \in Nat
    BY VideoRevisionAssumption DEF LifecycleTypeOK, Video
  <1>1. PICK n \in Nat \ {0} : n = video.revision + 1 /\ n <= MaxRevision
    BY <1>0 DEF Delete
  <1>2. /\ [video EXCEPT !.status = "deleting", !.revision = n] \in Video
        /\ [video EXCEPT !.status = "deleting", !.revision = n].status = "deleting"
        /\ [video EXCEPT !.status = "deleting", !.revision = n].source = video.source
        /\ [video EXCEPT !.status = "deleting", !.revision = n].revision = n
    BY <1>0 DEF Video, Statuses
  <1>3. /\ video' = [video EXCEPT !.status = "deleting", !.revision = n] /\ Send(n, DeleteAttempts)
        /\ RowExists /\ UNCHANGED <<asset, file, upload, handler, marks>>
    BY <1>1 DEF Delete
  <1>4. video' \in Video /\ video'.status = "deleting" /\ video'.source = video.source /\ video'.revision = n
    BY <1>2, <1>3, Zenon
  <1>5. /\ n \in Jobs /\ jobs' \in [Jobs -> QueuedJob]
        /\ \A j \in Jobs : j = n \/ jobs'[j] = jobs[j]
    <2>1. n \in Jobs
      BY <1>0, <1>1 DEF Jobs
    <2> QED
      BY <1>0, <1>3, <2>1, AttemptsAssumption DEF Send, QueuedJob
  <1>6. LifecycleTypeOK'
    BY <1>3, <1>4, <1>5 DEF LifecycleTypeOK
  <1>7. ImportHolds' /\ FileHolds'
    BY <1>3, <1>4 DEF ImportHolds, FileHolds, RowExists
  <1>8. DeletionHolds'
    <2>1. \A j \in Jobs : jobs'[j].state # "none" => j <= video'.revision
      <3> SUFFICES ASSUME NEW j \in Jobs, jobs'[j].state # "none" PROVE j <= n
        BY <1>4
      <3>1. j \in Int /\ (j = n \/ j <= video.revision)
        BY <1>5 DEF DeletionHolds, Jobs, Inspect
      <3> QED
        BY <1>0, <1>1, <3>1
    <2>2. ASSUME NEW h \in Handlers
          PROVE  handler[h].job <= video'.revision /\ ~ Tombstone(handler[h].job)'
      <3>1. handler[h].job \in Int /\ handler[h].job <= video.revision
        BY <1>0 DEF DeletionHolds, Handling, Jobs, Inspect
      <3> QED
        BY <1>0, <1>1, <1>3, <1>4, <3>1 DEF Tombstone
    <2>3. \A h \in Handlers : ~ (Tombstone(handler[h].job))'
      BY <2>2, <1>3
    <2> QED
      BY <1>3, <1>4, <2>1, <2>2, <2>3 DEF DeletionHolds
  <1>9. SourceHolds'
    BY <1>3, <1>4 DEF SourceHolds
  <1> QED
    BY <1>6, <1>7, <1>8, <1>9

----------------------------------------------------------------------------
(* The deletion job.                                                       *)

LEMMA DeletionJobStep ==
    ASSUME LifecycleInv, NEW h \in Handlers,
           Recognise(h) \/ ReadAssets(h) \/ DeleteBlob(h) \/ Purge(h)
    PROVE  LifecycleInv'
  <1> USE DEF LifecycleInv
  <1>0. /\ video \in Video /\ handler \in [Handlers -> Handling] /\ jobs \in [Jobs -> QueuedJob]
        /\ video.revision \in Nat \ {0} /\ handler[h].job <= video.revision
        /\ asset \in BOOLEAN
    BY DEF LifecycleTypeOK, DeletionHolds, Video
  <1>1. Idle.step = "idle" /\ Idle.job <= video.revision /\ ~ Idle.assets
    BY <1>0 DEF Idle, Inspect
  <1>2. Complete(h) \/ FailAttempt(h) =>
          /\ jobs' \in [Jobs -> QueuedJob] /\ handler' \in [Handlers -> Handling]
          /\ \A j \in Jobs : jobs'[j].state # "none" => jobs[j].state # "none"
          /\ handler'[h] = Idle /\ \A g \in Handlers \ {h} : handler'[g] = handler[g]
    BY Completes, Fails
  <1>3. \A step \in Steps : Goto(h, step) =>
          /\ handler' \in [Handlers -> Handling]
          /\ handler'[h].step = step /\ handler'[h].job = handler[h].job
          /\ handler'[h].assets = handler[h].assets
          /\ \A g \in Handlers \ {h} : handler'[g] = handler[g]
    BY Moves
  <1>4. ASSUME UNCHANGED <<video, asset, file, upload, marks>>, Complete(h) \/ FailAttempt(h)
        PROVE  LifecycleInv'
    <2>1. Elsewhere
      BY <1>0, <1>1, <1>2, <1>4 DEF Elsewhere, LifecycleTypeOK
    <2> QED
      BY <2>1, ElsewhereStep
  <1>5. CASE Recognise(h)
    <2>1. CASE Complete(h)
      BY <1>4, <1>5, <2>1 DEF Recognise
    <2>2. CASE Tombstone(handler[h].job) /\ Goto(h, "assets") /\ UNCHANGED jobs
      <3>1. UNCHANGED <<video, asset, file, upload, marks, jobs>> /\ video.status = "deleting"
        BY <1>5, <2>2 DEF Recognise, Tombstone
      <3>2. LifecycleTypeOK' /\ ImportHolds' /\ FileHolds'
        BY <1>3, <2>2, <3>1 DEF LifecycleTypeOK, ImportHolds, FileHolds, RowExists, Steps
      <3>3. DeletionHolds'
        BY <1>3, <2>2, <3>1 DEF DeletionHolds, At, Tombstone, Steps
      <3>4. SourceHolds'
        BY <1>3, <2>2, <3>1 DEF SourceHolds, Steps
      <3> QED
        BY <3>2, <3>3, <3>4
    <2> QED
      BY <1>5, <2>1, <2>2 DEF Recognise
  <1>6. CASE ReadAssets(h)
    <2>1. /\ handler' \in [Handlers -> Handling]
          /\ handler'[h].step = "blob" /\ handler'[h].job = handler[h].job /\ handler'[h].assets = asset
          /\ \A g \in Handlers \ {h} : handler'[g] = handler[g]
      BY <1>0, <1>6 DEF ReadAssets, Handling, Steps
    <2>2. UNCHANGED <<video, asset, file, upload, jobs, marks>> /\ At(h, "assets")
      BY <1>6 DEF ReadAssets
    <2>3. LifecycleTypeOK' /\ ImportHolds' /\ FileHolds'
      BY <2>1, <2>2 DEF LifecycleTypeOK, ImportHolds, FileHolds, RowExists
    <2>4. DeletionHolds'
      BY <2>1, <2>2 DEF DeletionHolds, ImportHolds, At, Tombstone
    <2>5. SourceHolds'
      BY <2>1, <2>2 DEF SourceHolds, At
    <2> QED
      BY <2>3, <2>4, <2>5
  <1>7. CASE DeleteBlob(h)
    <2>1. CASE FailAttempt(h) /\ UNCHANGED file
      BY <1>4, <1>7, <2>1 DEF DeleteBlob
    <2>2. CASE /\ file' = IF handler[h].assets /\ file = "published" THEN "none" ELSE file
               /\ Goto(h, "purge") /\ UNCHANGED jobs
      <3>1. UNCHANGED <<video, asset, upload, marks, jobs>> /\ At(h, "blob")
        BY <1>7, <2>2 DEF DeleteBlob
      <3>2. /\ file' = file \/ (handler[h].assets /\ video.source /\ file' = "none")
            /\ handler[h].assets /\ file = "published" => file' = "none"
        BY <2>2 DEF DeletionHolds
      <3>3. LifecycleTypeOK' /\ ImportHolds'
        BY <1>3, <2>2, <3>1, <3>2 DEF LifecycleTypeOK, ImportHolds, RowExists, Steps
      <3>4. FileHolds'
        BY <3>1, <3>2 DEF FileHolds, ImportHolds
      <3>5. Tombstone(handler[h].job) => handler[h].assets = asset
        BY <3>1 DEF DeletionHolds
      <3>6. "damaged" \notin marks /\ asset => file = "none" \/ file = "published"
        BY DEF FileHolds, ImportHolds, LifecycleTypeOK, UploadSteps
      <3>7. DeletionHolds'
        <4>1. ASSUME NEW g \in Handlers \ {h}, At(g, "purge"), Tombstone(handler[g].job)
              PROVE  handler[g].assets = asset /\ ("damaged" \notin marks /\ asset => file' = "none")
          BY <3>2, <4>1 DEF DeletionHolds
        <4>2. Tombstone(handler[h].job) =>
                handler[h].assets = asset /\ ("damaged" \notin marks /\ asset => file' = "none")
          BY <3>2, <3>5, <3>6
        <4> QED
          BY <1>3, <2>2, <3>1, <4>1, <4>2 DEF DeletionHolds, At, Tombstone, Steps
      <3>8. SourceHolds'
        BY <1>3, <2>2, <3>1, <3>2 DEF SourceHolds, At, Steps
      <3> QED
        BY <3>3, <3>4, <3>7, <3>8
    <2> QED
      BY <1>7, <2>1, <2>2 DEF DeleteBlob
  <1>8. CASE Purge(h)
    <2>1. Complete(h) \/ FailAttempt(h)
      BY <1>8 DEF Purge
    <2>2. UNCHANGED <<file, upload, marks>> /\ At(h, "purge")
      BY <1>8 DEF Purge
    <2>3. CASE UNCHANGED <<video, asset>>
      BY <1>4, <2>1, <2>2, <2>3
    <2>4. CASE Tombstone(handler[h].job) /\ PurgeRows(h)
      <3>1. /\ [video EXCEPT !.status = "gone"] \in Video /\ [video EXCEPT !.status = "gone"].status = "gone"
            /\ [video EXCEPT !.status = "gone"].source = video.source
            /\ [video EXCEPT !.status = "gone"].revision = video.revision
        BY <1>0 DEF Video, Statuses
      <3>2. video' = [video EXCEPT !.status = "gone"] /\ asset' = (asset /\ ~ handler[h].assets)
        BY <2>4 DEF PurgeRows
      <3>3. /\ video' \in Video /\ video'.status = "gone" /\ video'.source = video.source
            /\ video'.revision = video.revision
        BY <3>1, <3>2, Zenon
      <3>4. asset' = FALSE /\ ("damaged" \notin marks /\ asset => file = "none")
        <4>1. handler[h].assets = asset /\ ("damaged" \notin marks /\ asset => file = "none")
          BY <2>2, <2>4 DEF DeletionHolds
        <4> QED
          BY <1>0, <3>2, <4>1
      <3>5. video.status = "deleting"
        BY <2>4 DEF Tombstone
      <3>6. LifecycleTypeOK'
        BY <1>2, <2>1, <2>2, <3>3, <3>4 DEF LifecycleTypeOK
      <3>7. ImportHolds' /\ FileHolds'
        BY <2>2, <3>3, <3>4, <3>5 DEF ImportHolds, FileHolds
      <3>8. DeletionHolds'
        <4>1. \A j : ~ Tombstone(j)'
          BY <3>3 DEF Tombstone
        <4>2. \A g \in Handlers : handler'[g].job <= video.revision /\ (handler'[g].assets => video.source)
          BY <1>1, <1>2, <2>1 DEF DeletionHolds
        <4> QED
          BY <1>2, <2>1, <3>3, <4>1, <4>2 DEF DeletionHolds
      <3>9. SourceHolds'
        BY <3>3 DEF SourceHolds
      <3> QED
        BY <3>6, <3>7, <3>8, <3>9
    <2> QED
      BY <1>8, <2>3, <2>4 DEF Purge, PurgeRows
  <1> QED
    BY <1>5, <1>6, <1>7, <1>8

----------------------------------------------------------------------------
(* The theorems.                                                           *)

LEMMA LifecycleStep == LifecycleInv /\ [Next]_vars => LifecycleInv'
  <1> SUFFICES ASSUME LifecycleInv, [Next]_vars PROVE LifecycleInv'
    OBVIOUS
  <1>1. CASE Import \/ CrashUpload
    BY <1>1, ImportStep
  <1>2. CASE Delete
    BY <1>2, DeleteStep
  <1>3. CASE Save \/ \E j \in Jobs : Expire(j)
    BY <1>3, SaveAndExpireStep
  <1>4. ASSUME NEW h \in Handlers, Handle(h) \/ CrashHandler(h) \/ \E j \in Jobs : Fetch(h, j)
        PROVE  LifecycleInv'
    <2>1. CASE Recognise(h) \/ ReadAssets(h) \/ DeleteBlob(h) \/ Purge(h)
      BY <2>1, DeletionJobStep
    <2>2. CASE LockIsTaken(h) \/ Claim(h) \/ ReadAsset(h) \/ Probe(h) \/ Ready(h) \/ FailInspection(h)
                 \/ CrashHandler(h) \/ \E j \in Jobs : Fetch(h, j)
      BY <2>2, HandlersElsewhere, ElsewhereStep
    <2> QED
      BY <1>4, <2>1, <2>2 DEF Handle
  <1>5. CASE UNCHANGED vars
    <2>1. LifecycleTypeOK' /\ ImportHolds' /\ FileHolds' /\ SourceHolds'
      BY <1>5 DEF vars, LifecycleInv, LifecycleTypeOK, ImportHolds, FileHolds, SourceHolds, RowExists
    <2>2. DeletionHolds'
      BY <1>5 DEF vars, LifecycleInv, DeletionHolds, At, Tombstone
    <2> QED
      BY <2>1, <2>2 DEF LifecycleInv
  <1> QED
    BY <1>1, <1>2, <1>3, <1>4, <1>5 DEF Next

\* The rows, the file and the handlers stay together through every interleaving of an
\* import, deletions, inspections, retries, expiries and failed steps.
THEOREM LifecycleInvariant == Spec => []LifecycleInv
  BY LifecycleInitHolds, LifecycleStep, PTL DEF Spec

\* A video that can be opened has its row and its file, and once nothing runs no file is
\* without its row and no row without its video.
THEOREM FilesAlwaysMatch == Spec => []FilesMatchTheRow
  <1>1. LifecycleInv => SourceIsStored
    BY DEF LifecycleInv, ImportHolds, SourceHolds, SourceIsStored
  <1>2. LifecycleInv => FilesAreOwned
    BY DEF LifecycleInv, ImportHolds, FileHolds, FilesAreOwned, Quiet
  <1> QED
    BY LifecycleInvariant, <1>1, <1>2, PTL DEF FilesMatchTheRow

\* No step brings back a video whose deletion was accepted after its import.
THEOREM DeletionStaysFinal == Spec => DeletionIsFinal
  <1>1. LifecycleInv /\ [Next]_vars =>
          [video.status = "deleting" /\ video.source => video'.status \in {"deleting", "gone"}]_vars
    <2> SUFFICES ASSUME LifecycleInv, Next, video.status = "deleting", video.source
                 PROVE  video'.status \in {"deleting", "gone"}
      OBVIOUS
    <2>1. video \in Video /\ upload \notin {"receive", "stage", "publish", "commit"}
      BY DEF LifecycleInv, LifecycleTypeOK, ImportHolds
    <2>2. CASE Import \/ CrashUpload
      BY <2>1, <2>2 DEF Import, Receive, Stage, Publish, CommitImport, CommitImportThrows, Unlink,
                        Remove, MarkUploadFailed, CrashUpload, Upload
    <2>3. CASE Delete \/ Save \/ \E j \in Jobs : Expire(j)
      BY <2>3 DEF Delete, Save, Expire
    <2>4. ASSUME NEW h \in Handlers, LockIsTaken(h) \/ Claim(h) \/ ReadAsset(h) \/ Probe(h) \/ Ready(h)
                   \/ FailInspection(h) \/ CrashHandler(h) \/ \E j \in Jobs : Fetch(h, j)
          PROVE  video'.status \in {"deleting", "gone"}
      BY <2>4 DEF LockIsTaken, Claim, Claimable, ReadAsset, Probe, Ready, BecomesReady, FailInspection,
                  CrashHandler, Fetch
    <2>5. ASSUME NEW h \in Handlers, Recognise(h) \/ ReadAssets(h) \/ DeleteBlob(h) \/ Purge(h)
          PROVE  video'.status \in {"deleting", "gone"}
      BY <2>1, <2>5 DEF Recognise, ReadAssets, DeleteBlob, Purge, PurgeRows, Video
    <2> QED
      BY <2>2, <2>3, <2>4, <2>5 DEF Next, Handle
  <1> QED
    BY LifecycleInvariant, <1>1, PTL DEF Spec, DeletionIsFinal
=============================================================================
